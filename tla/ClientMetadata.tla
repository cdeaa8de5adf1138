--------------------------- MODULE ClientMetadata ---------------------------
(***************************************************************************)
(* KafkaClient's caches and how requests are routed by them                *)
(* (afkak/client.py): metadata loads, coordinator lookups shared by their  *)
(* callers, the fan-out of a request over brokers, what responses do to    *)
(* the caches, resets and close().  Broker clients and bootstrapping are   *)
(* in ClientBrokers: here a broker-unaware request is with one broker, or  *)
(* is bootstrapping, and is answered or fails.                             *)
(*                                                                         *)
(* The cluster (external) is a history of states `truths`.  An answer      *)
(* tells of any state since the request was made: answers are delayed and  *)
(* overtake each other.  There is one consumer group.                      *)
(*                                                                         *)
(* A coroutine that goes on without waiting, the waiters of a lookup and   *)
(* the requests of a closed broker client are worked off one at a time,    *)
(* innermost first, from `stack`; a callback makes at most one call of the *)
(* client, as the last thing it does.                                      *)
(***************************************************************************)
EXTENDS Naturals, FiniteSets, Sequences

CONSTANTS
    Topics,
    MaxParts,   \* partitions of a topic
    Nodes,      \* broker node ids
    Calls,      \* operations that callers have under way
    Kinds,      \* kinds of operation that callers use
    MaxMoves    \* bound: changes of the cluster

AllKinds == {"fetch", "produce", "oneway", "commit", "member", "load", "lookup", "partitions"}

ASSUME KindsKnown == Kinds \subseteq AllKinds
ASSUME BoundsNat == MaxParts \in Nat \ {0} /\ MaxMoves \in Nat
ASSUME NodesAreIds == {"none", "missing", "boot", "no"} \cap Nodes = {}

Part == 0 .. (MaxParts - 1)
TP == Topics \X Part

VARIABLES
    truths,       \* leaders and coordinator, now (last) and in the past
    routes,       \* self.topics_to_brokers
    partitions,   \* self.topic_partitions; {}: no such key
    errors,       \* self.topic_errors
    coordinator,  \* self._group_to_coordinator[group]
    fetch,        \* self._coordinator_fetches[group]
    closed,       \* self._closing
    call,         \* where each operation is
    stack,        \* what is still to be done in this turn of the reactor
    nested        \* history: close() was called inside a metadata response

caches == <<routes, partitions, errors, coordinator>>
vars == <<truths, caches, fetch, closed, call, stack, nested>>

\* "none" in a route: the partition has no leader.
Leader == Nodes \cup {"none"}
NoCall == [kind |-> "none", at |-> "off", via |-> "none", want |-> {}, key |-> <<>>,
           since |-> 0, slot |-> [p \in TP |-> "no"]]
NoFetch == [via |-> "none", since |-> 0, waiters |-> <<>>]

Init ==
    /\ truths \in {<<[leader |-> f, coord |-> n]>> : f \in [TP -> Nodes], n \in Nodes}
    /\ routes = [p \in TP |-> "missing"]
    /\ partitions = [t \in Topics |-> {}]
    /\ errors = [t \in Topics |-> "unset"]
    /\ coordinator = "missing"
    /\ fetch = NoFetch
    /\ closed = FALSE
    /\ call = [c \in Calls |-> NoCall]
    /\ stack = <<>>
    /\ nested = FALSE

Now == Len(truths)
Idle == stack = <<>>
Doing(op) == ~Idle /\ Head(stack).op = op
CallerRuns == Idle \/ Doing("caller")
AfterCaller == IF Idle THEN stack ELSE Tail(stack)

ByLeader(k) == k \in {"fetch", "produce", "oneway"}
Routed(k) == ByLeader(k) \/ k \in {"commit", "member"}

\* fail_on_error
Strict(k) == k \in {"fetch", "commit", "member"}

Payloads(c) == {p \in TP : call[c].slot[p] # "no"}

\* A leader moves, or a partition has none for a while; the coordinator moves.
Move ==
    /\ Idle /\ Now <= MaxMoves
    /\ \/ \E p \in TP, n \in Leader :
            truths' = Append(truths, [truths[Now] EXCEPT !.leader[p] = n])
       \/ \E n \in Nodes : truths' = Append(truths, [truths[Now] EXCEPT !.coord = n])
    /\ UNCHANGED <<caches, fetch, closed, call, stack, nested>>

-----------------------------------------------------------------------------
(* The caches *)

\* Mutant: the routes outlive the partition list.
RoutesKept(T) == routes

\* What reset_topic_metadata() leaves of topics_to_brokers.
RoutesWithout(T) ==
    [p \in TP |-> IF p[1] \in T /\ p[2] \in partitions[p[1]] THEN "missing" ELSE routes[p]]

ResetTopics(T) ==
    /\ routes' = RoutesWithout(T)
    /\ partitions' = [t \in Topics |-> IF t \in T THEN {} ELSE partitions[t]]
    /\ errors' = [t \in Topics |-> IF t \in T THEN "unset" ELSE errors[t]]
    /\ UNCHANGED coordinator

ResetGroup == coordinator' = "missing" /\ UNCHANGED <<routes, partitions, errors>>

\* reset_all_metadata()
ResetAll ==
    /\ routes' = [p \in TP |-> "missing"]
    /\ partitions' = [t \in Topics |-> {}]
    /\ errors' = [t \in Topics |-> "unset"]
    /\ coordinator' = "missing"

\* The loop of _merge_topic_metadata() over the topics of a response: `bad` topics
\* have an error and no partitions, the others list[t] partitions.
Merge(answer) ==
    LET ok(t) == t \in answer.want \ answer.bad
        has(p) == ok(p[1]) /\ p[2] < answer.list[p[1]]
    IN  /\ routes' = [p \in TP |->
                        IF has(p) THEN truths[answer.when].leader[p]
                        ELSE RoutesWithout(answer.want)[p]]
        /\ partitions' = [t \in Topics |->
                        IF ok(t) THEN 0 .. (answer.list[t] - 1)
                        ELSE IF t \in answer.want THEN {} ELSE partitions[t]]
        /\ errors' = [t \in Topics |->
                        IF ok(t) THEN "none"
                        ELSE IF t \in answer.want THEN "error" ELSE errors[t]]
        /\ UNCHANGED coordinator

-----------------------------------------------------------------------------
(* Calls *)

\* The Deferred of the call fires and its callbacks run.  `slot` is what became of
\* each payload.
Finish(c, how, slot, rest) ==
    /\ call' = [call EXCEPT ![c] = NoCall]
    /\ stack' = <<[op |-> "caller", kind |-> call[c].kind, how |-> how, slot |-> slot]>> \o rest

Fail(c, how, rest) == Finish(c, how, call[c].slot, rest)

RouteFrame(c) == [op |-> "route", call |-> c]

\* load_metadata_for_topics(): asks a broker, or bootstraps if it knows none.
Load(c, rec, want) ==
    \E v \in Nodes \cup {"boot"} :
        call' = [call EXCEPT ![c] = [rec EXCEPT !.at = "load", !.via = v, !.want = want, !.since = Now]]

\* load_coordinator_for_group(): joins the lookup there is, or starts one.
Lookup(c, rec) ==
    /\ call' = [call EXCEPT ![c] = [rec EXCEPT !.at = "wait"]]
    /\ \/ /\ fetch.via # "none"
          /\ fetch' = [fetch EXCEPT !.waiters = Append(@, c)]
       \/ /\ fetch.via = "none"
          /\ \E v \in Nodes \cup {"boot"} : fetch' = [via |-> v, since |-> Now, waiters |-> <<c>>]

\* A caller starts an operation.  On a closed client every operation fails, in the
\* end because it needs a broker.
Start(c, k, P, T) ==
    LET rec == [NoCall EXCEPT !.kind = k, !.slot = [p \in TP |-> IF p \in P THEN "todo" ELSE "no"]]
    IN
    /\ CallerRuns /\ ~closed
    /\ call[c] = NoCall
    /\ IF Routed(k) THEN /\ call' = [call EXCEPT ![c] = [rec EXCEPT !.at = "route"]]
                         /\ stack' = <<RouteFrame(c)>> \o AfterCaller
       ELSE /\ IF k = "lookup" THEN Lookup(c, rec) ELSE Load(c, rec, T)
            /\ stack' = AfterCaller
    /\ k # "lookup" => UNCHANGED fetch
    /\ UNCHANGED <<truths, caches, closed, nested>>

\* An iteration of the loop of _send_broker_aware_request() over the payloads, or
\* _send_request_to_coordinator(): the leader is known, or has to be asked for.
RoutePayload ==
    /\ Doing("route")
    /\ LET c == Head(stack).call
           k == call[c].kind
       IN \E p \in {q \in TP : call[c].slot[q] = "todo"} :
            LET rec == [call[c] EXCEPT !.key = p]
                to  == IF ByLeader(k) THEN routes[p] ELSE coordinator
            IN \/ /\ to \in Nodes
                  /\ call' = [call EXCEPT ![c].slot[p] = to]
                  /\ UNCHANGED <<fetch, stack>>
               \/ /\ to \notin Nodes /\ closed
                  /\ Fail(c, "unavailable", Tail(stack)) /\ UNCHANGED fetch
               \/ /\ to \notin Nodes /\ ~closed /\ ByLeader(k)
                  /\ Load(c, rec, {p[1]})
                  /\ stack' = Tail(stack) /\ UNCHANGED fetch
               \/ /\ to \notin Nodes /\ ~closed /\ ~ByLeader(k)
                  /\ Lookup(c, rec)
                  /\ stack' = Tail(stack)
    /\ UNCHANGED <<truths, caches, closed, nested>>

\* All payloads are routed: one request to each broker.
FanOut ==
    /\ Doing("route")
    /\ LET c == Head(stack).call IN
       /\ \A p \in TP : call[c].slot[p] # "todo"
       /\ IF closed THEN Fail(c, "closed", Tail(stack))
          ELSE /\ call' = [call EXCEPT ![c].at = "flight", ![c].since = Now]
               /\ stack' = Tail(stack)
    /\ UNCHANGED <<truths, caches, fetch, closed, nested>>

\* The coroutine goes on with broker `to` for the payload it asked about, or ends.
GoOn(c, to, rest) ==
    IF to \in Nodes
    THEN /\ call' = [call EXCEPT ![c] = [NoCall EXCEPT !.kind = call[c].kind, !.at = "route",
                                          !.slot = [call[c].slot EXCEPT ![call[c].key] = to]]]
         /\ stack' = <<RouteFrame(c)>> \o rest
    ELSE Fail(c, "unavailable", rest)

-----------------------------------------------------------------------------
(* Metadata loads *)

\* What follows load_metadata_for_topics(), with the caches as they are now: the
\* leader is read again; _load_topic_partitions() tries again after a delay.
Loaded(c, rest) ==
    LET k == call[c].kind IN
    IF Routed(k) THEN GoOn(c, routes'[call[c].key], rest)
    ELSE IF k = "partitions" /\ \E t \in call[c].want : errors'[t] # "none"
    THEN call' = [call EXCEPT ![c].at = "delay", ![c].via = "none"] /\ stack' = rest
    ELSE Finish(c, "ok", call[c].slot, rest)

\* The requests that are with the brokers N.
Outstanding(N) ==
    {x \in Calls \X N : \/ call[x[1]].at = "load" /\ call[x[1]].via = x[2]
                        \/ call[x[1]].at = "flight" /\ \E p \in TP : call[x[1]].slot[p] = x[2]}
    \cup {x \in {"lookup"} \X N : fetch.via = x[2]}

\* Mutant: a response that arrives after close() is merged.
NeverRaises == FALSE

\* _update_brokers() raises TypeError on a closed client, whose self.clients is None.
UpdateRaises == closed

\* A response arrives.  A load of all topics may show that brokers are gone, and
\* their requests are failed before the topics are merged.
LoadAnswered(c) ==
    /\ Idle /\ call[c].at = "load"
    /\ IF UpdateRaises THEN Fail(c, "error", stack)
       ELSE \E when \in call[c].since .. Now, bad \in SUBSET call[c].want,
               list \in [Topics -> 1 .. MaxParts], gone \in SUBSET Nodes :
              /\ gone # {} => call[c].want = Topics /\ call[c].kind = "load"
              /\ call' = [call EXCEPT ![c].at = "merging", ![c].via = "none"]
              /\ stack' = <<[op |-> "drain", left |-> Outstanding(gone)],
                            [op |-> "merge", call |-> c,
                             answer |-> [want |-> call[c].want, bad |-> bad, list |-> list, when |-> when]]>>
    /\ UNCHANGED <<truths, caches, fetch, closed, nested>>

MergeAnswer ==
    /\ Doing("merge")
    /\ Merge(Head(stack).answer)
    /\ Loaded(Head(stack).call, Tail(stack))
    /\ UNCHANGED <<truths, fetch, closed, nested>>

\* A broker-unaware request to a broker fails: it is sent to another, or the client
\* bootstraps.  A closed client does not turn to other brokers.
MoveOn(c, rest) ==
    /\ call[c].via \in Nodes
    /\ \E v \in {"boot"} \cup (IF closed THEN {} ELSE Nodes) : call' = [call EXCEPT ![c].via = v]
    /\ stack' = rest

\* It fails for good.
GiveUp(c, rest) ==
    /\ call[c].via = "boot" \/ closed
    /\ Fail(c, "unavailable", rest)

LoadMovesOn(c) ==
    /\ Idle /\ call[c].at = "load"
    /\ MoveOn(c, stack)
    /\ UNCHANGED <<truths, caches, fetch, closed, nested>>

LoadFails(c) ==
    /\ Idle /\ call[c].at = "load"
    /\ GiveUp(c, stack)
    /\ UNCHANGED <<truths, caches, fetch, closed, nested>>

\* _load_topic_partitions() asks again, for the topics of the last response.
LoadAgain(c) ==
    /\ Idle /\ call[c].at = "delay"
    /\ IF closed THEN Fail(c, "closed", stack) ELSE Load(c, call[c], call[c].want) /\ UNCHANGED stack
    /\ UNCHANGED <<truths, caches, fetch, closed, nested>>

-----------------------------------------------------------------------------
(* Coordinator lookups *)

\* Mutant: the waiters of a lookup that fails are not told.
PropagateSuccess(ok, rest) ==
    /\ fetch' = NoFetch
    /\ stack' = IF ok THEN <<[op |-> "propagate", ok |-> ok, ds |-> fetch.waiters]>> \o rest ELSE rest

\* _propagate(): the entry is removed, then the waiters are called back.
Propagate(ok, rest) ==
    /\ fetch' = NoFetch
    /\ stack' = <<[op |-> "propagate", ok |-> ok, ds |-> fetch.waiters]>> \o rest

LookupSucceeds ==
    /\ \E when \in fetch.since .. Now : coordinator' = truths[when].coord
    /\ UNCHANGED <<routes, partitions, errors>>
    /\ Propagate(TRUE, stack)

\* An error code or no answer; on a closed client _update_brokers() raises.
LookupFailed(rest) == ResetGroup /\ Propagate(FALSE, rest)

LookupElsewhere(rest) ==
    /\ fetch.via \in Nodes
    /\ \E v \in {"boot"} \cup (IF closed THEN {} ELSE Nodes) : fetch' = [fetch EXCEPT !.via = v]
    /\ stack' = rest
    /\ UNCHANGED caches

LookupAnswered ==
    /\ Idle /\ fetch.via # "none"
    /\ \/ ~closed /\ LookupSucceeds
       \/ LookupFailed(stack)
    /\ UNCHANGED <<truths, closed, call, nested>>

LookupMovesOn ==
    /\ Idle /\ LookupElsewhere(stack)
    /\ UNCHANGED <<truths, closed, call, nested>>

\* The next waiter; _get_coordinator_for_group() reads the cache again.
CallWaiter ==
    /\ Doing("propagate")
    /\ LET f == Head(stack)
           rest == <<[f EXCEPT !.ds = Tail(@)]>> \o Tail(stack)
       IN IF f.ds = <<>> THEN stack' = Tail(stack) /\ UNCHANGED call
          ELSE LET c == Head(f.ds) IN
               IF call[c].kind = "lookup"
               THEN Finish(c, IF f.ok THEN "ok" ELSE "unavailable", call[c].slot, rest)
               ELSE GoOn(c, IF f.ok THEN coordinator ELSE "missing", rest)
    /\ UNCHANGED <<truths, caches, fetch, closed, nested>>

-----------------------------------------------------------------------------
(* Responses *)

\* Mutant: a response that says the leader moved leaves the cache alone.
HandledNothingReset(k, moved, refused) ==
    {[reset |-> {}, how |-> IF refused = {} /\ (moved = {} \/ ~Strict(k)) THEN "ok" ELSE "raised"]}

\* _handle_responses(): the payloads whose topic (or the group) is reset, and how it
\* ends.  The first error raises if fail_on_error; else the first that is not about
\* stale metadata does, and what follows it is not looked at.
Handled(k, moved, refused) ==
    IF refused = {} /\ (moved = {} \/ ~Strict(k))
    THEN {[reset |-> moved, how |-> "ok"]}
    ELSE IF Strict(k)
    THEN {[reset |-> {p} \cap moved, how |-> "raised"] : p \in moved \cup refused}
    ELSE {[reset |-> M, how |-> "raised"] : M \in SUBSET moved}

HandleResponses(c, slot, rest) ==
    LET k == call[c].kind
        with(code) == {p \in TP : slot[p] = code}
    IN \E r \in Handled(k, with("moved"), with("refused")) :
         /\ IF r.reset = {} THEN UNCHANGED caches
            ELSE IF ByLeader(k) THEN ResetTopics({p[1] : p \in r.reset})
            ELSE ResetGroup
         /\ Finish(c, r.how, slot, rest)

\* Mutant: the first request that fails ends the call.
AllDoneFirstFailure(slot) ==
    (\A p \in TP : slot[p] \notin Nodes) \/ (\E p \in TP : slot[p] = "failed")

\* The DeferredList fires when no request is outstanding.
AllDone(slot) == \A p \in TP : slot[p] \notin Nodes

\* A request of the call has ended; after the last one the results are handled.
\* _send_request_to_coordinator() resets nothing when its request fails.
Collect(c, slot, rest) ==
    IF ~AllDone(slot)
    THEN /\ call' = [call EXCEPT ![c].slot = slot]
         /\ stack' = rest /\ UNCHANGED caches
    ELSE IF \A p \in TP : slot[p] # "failed" THEN HandleResponses(c, slot, rest)
    ELSE /\ Finish(c, "failed", slot, rest)
         /\ IF call[c].kind = "member" THEN UNCHANGED caches ELSE ResetAll

\* What broker n says of the payloads it was sent: that it is not their leader (or
\* the coordinator), or another error for those in `refuse`, or all is well.
Verdict(c, n, when, refuse) ==
    LET right(p) == IF ByLeader(call[c].kind) THEN truths[when].leader[p] = n
                    ELSE truths[when].coord = n
        code(p) == IF call[c].kind = "oneway" THEN "ok"
                   ELSE IF ~right(p) THEN "moved"
                   ELSE IF p \in refuse THEN "refused" ELSE "ok"
    IN  [p \in TP |-> IF call[c].slot[p] = n THEN code(p) ELSE call[c].slot[p]]

Lost(c, n) == [p \in TP |-> IF call[c].slot[p] = n THEN "failed" ELSE call[c].slot[p]]

InFlight(c, n) == call[c].at = "flight" /\ \E p \in TP : call[c].slot[p] = n

RequestAnswered(c, n) ==
    /\ Idle /\ InFlight(c, n)
    /\ \E when \in call[c].since .. Now, refuse \in SUBSET Payloads(c) :
          Collect(c, Verdict(c, n, when, refuse), stack)
    /\ UNCHANGED <<truths, fetch, closed, nested>>

\* It times out.
RequestFails(c, n) ==
    /\ Idle /\ InFlight(c, n)
    /\ Collect(c, Lost(c, n), stack)
    /\ UNCHANGED <<truths, fetch, closed, nested>>

-----------------------------------------------------------------------------
(* Callers *)

\* The waiters w without c, whose Deferred ignores that it is called back.
Without(c, w) ==
    LET i == CHOOSE j \in DOMAIN w : w[j] = c
    IN  IF \E j \in DOMAIN w : w[j] = c THEN SubSeq(w, 1, i - 1) \o SubSeq(w, i + 1, Len(w)) ELSE w

\* The same in whatever is being worked off.
WithoutWaiter(c, frames) ==
    [i \in DOMAIN frames |->
        IF frames[i].op = "propagate"
        THEN [frames[i] EXCEPT !.ds = Without(c, @)] ELSE frames[i]]

\* A cancelled load from a broker counts as done, and a cancelled bootstrap goes on
\* to the next host; so the coroutine that waits for it goes on too.
CancelLoad(c) ==
    /\ call[c].at = "load" /\ UNCHANGED <<caches, fetch>>
    /\ \/ call[c].via \in Nodes /\ call[c].kind # "partitions" /\ Loaded(c, AfterCaller)
       \/ call[c].via \in Nodes /\ call[c].kind = "partitions" /\ Fail(c, "cancelled", AfterCaller)
       \/ call[c].via = "boot" /\ Fail(c, "unavailable", AfterCaller)
       \/ call[c].via = "boot" /\ UNCHANGED call /\ stack' = AfterCaller

Cancel(c) ==
    /\ CallerRuns
    /\ \/ CancelLoad(c)
       \/ /\ call[c].at = "delay" /\ UNCHANGED <<caches, fetch>>
          /\ Fail(c, "cancelled", AfterCaller)
       \/ /\ call[c].at = "wait" /\ UNCHANGED caches
          /\ fetch' = [fetch EXCEPT !.waiters = Without(c, @)]
          /\ Fail(c, "cancelled", WithoutWaiter(c, AfterCaller))
       \/ /\ call[c].at = "flight" /\ UNCHANGED fetch
          /\ Collect(c, [p \in TP |-> IF call[c].slot[p] \in Nodes THEN "failed" ELSE call[c].slot[p]],
                     AfterCaller)
    /\ UNCHANGED <<truths, closed, nested>>

\* reset_topic_metadata(), reset_consumer_group_metadata(), reset_all_metadata()
Reset ==
    /\ CallerRuns
    /\ (\E t \in Topics : ResetTopics({t})) \/ ResetGroup \/ ResetAll
    /\ stack' = AfterCaller
    /\ UNCHANGED <<truths, fetch, closed, call, nested>>

\* close() fails the requests of all broker clients and then clears the caches.
CloseFrames == <<[op |-> "drain", left |-> Outstanding(Nodes)], [op |-> "reset"]>>

Close ==
    /\ CallerRuns /\ ~closed
    /\ closed' = TRUE
    /\ nested' = \E i \in DOMAIN stack : stack[i].op = "merge"
    /\ stack' = CloseFrames \o AfterCaller
    /\ UNCHANGED <<truths, caches, fetch, call>>

ClearCaches ==
    /\ Doing("reset")
    /\ ResetAll
    /\ stack' = Tail(stack)
    /\ UNCHANGED <<truths, fetch, closed, call, nested>>

\* A request of a broker client that is being closed fails with ClientError.
Drain ==
    /\ Doing("drain")
    /\ LET f == Head(stack) IN
       IF f.left = {}
       THEN stack' = Tail(stack) /\ UNCHANGED <<caches, fetch, call>>
       ELSE \E x \in f.left :
            LET rest == <<[f EXCEPT !.left = @ \ {x}]>> \o Tail(stack) IN
            IF x \notin Outstanding(Nodes)
            THEN stack' = rest /\ UNCHANGED <<caches, fetch, call>>
            ELSE IF x[1] = "lookup"
            THEN /\ LookupElsewhere(rest) \/ (closed /\ LookupFailed(rest))
                 /\ UNCHANGED call
            ELSE IF call[x[1]].at = "load"
            THEN (MoveOn(x[1], rest) \/ GiveUp(x[1], rest)) /\ UNCHANGED <<caches, fetch>>
            ELSE Collect(x[1], Lost(x[1], x[2]), rest) /\ UNCHANGED fetch
    /\ UNCHANGED <<truths, closed, nested>>

\* A callback that makes no call of the client returns.
Return ==
    /\ Doing("caller")
    /\ stack' = Tail(stack)
    /\ UNCHANGED <<truths, caches, fetch, closed, call, nested>>

-----------------------------------------------------------------------------

\* What a caller may give an operation: payloads, and topics.
Inputs(k) ==
    IF k = "lookup" THEN {<<{}, {}>>}
    ELSE IF k \in {"load", "partitions"} THEN {{}} \X ({{t} : t \in Topics} \cup {Topics})
    ELSE IF k = "member" THEN {<<{CHOOSE p \in TP : TRUE}, {}>>}
    ELSE (SUBSET TP \ {{}}) \X {{}}

Handlers ==
    \/ RoutePayload \/ FanOut \/ MergeAnswer \/ CallWaiter \/ ClearCaches \/ Drain \/ Return

Next ==
    \/ Move
    \/ \E c \in Calls, k \in Kinds : \E in \in Inputs(k) : Start(c, k, in[1], in[2])
    \/ \E c \in Calls : LoadAnswered(c) \/ LoadMovesOn(c) \/ LoadFails(c)
                        \/ LoadAgain(c) \/ Cancel(c)
    \/ \E c \in Calls, n \in Nodes : RequestAnswered(c, n) \/ RequestFails(c, n)
    \/ LookupAnswered \/ LookupMovesOn
    \/ Reset \/ Close
    \/ Handlers

Spec == Init /\ [][Next]_vars

(***************************************************************************)
(* Requests have a time-out, and looking for a broker ends (EveryCallEnds  *)
(* of ClientBrokers).  These events wait for the handlers of others to     *)
(* return, hence strong fairness.                                          *)
(***************************************************************************)
Fairness ==
    /\ WF_vars(Handlers)
    /\ \A c \in Calls :
         SF_vars(LoadAnswered(c) \/ LoadFails(c) \/ \E n \in Nodes : RequestAnswered(c, n) \/ RequestFails(c, n))
    /\ SF_vars(LookupAnswered)

FairSpec == Spec /\ Fairness

\* Callers keep asking for every partition, as a Consumer does.
BusySpec == FairSpec /\ \A p \in TP : SF_vars(\E c \in Calls : Start(c, "fetch", {p}, {}))

-----------------------------------------------------------------------------
(* Properties *)

Codes == {"no", "todo", "ok", "moved", "refused", "failed"} \cup Nodes

TypeOK ==
    /\ routes \in [TP -> Leader \cup {"missing"}]
    /\ partitions \in [Topics -> SUBSET Part]
    /\ errors \in [Topics -> {"unset", "none", "error"}]
    /\ coordinator \in Nodes \cup {"missing"}
    /\ fetch.via \in Nodes \cup {"boot", "none"} /\ fetch.since \in 0 .. Now
    /\ {closed, nested} \subseteq BOOLEAN
    /\ call \in [Calls -> [kind : Kinds \cup {"none"},
                           at : {"off", "route", "load", "merging", "wait", "flight", "delay"},
                           via : Nodes \cup {"boot", "none"}, want : SUBSET Topics,
                           key : TP \cup {<<>>}, since : 0 .. Now, slot : [TP -> Codes]]]

\* The caches agree: routes are known for exactly the partitions listed, and a topic
\* without error has partitions, which is what Producer and _load_topic_partitions()
\* index topic_partitions by.
CachesAgree ==
    \A t \in Topics :
        /\ \A p \in Part : p \in partitions[t] <=> routes[<<t, p>>] # "missing"
        /\ errors[t] = "none" <=> partitions[t] # {}

\* A caller hears of every payload it gave: an answer of the broker it was sent to,
\* or that it failed, and FailedPayloadsError is raised exactly when some failed; and
\* the state has its type.
PayloadsAccounted ==
    /\ TypeOK
    /\ Doing("caller") /\ Head(stack).how \in {"ok", "raised", "failed"} =>
         LET slot == Head(stack).slot
             given == {p \in TP : slot[p] # "no"}
         IN  /\ \A p \in given : slot[p] \in {"ok", "moved", "refused", "failed"}
             /\ Routed(Head(stack).kind) =>
                  (Head(stack).how = "failed" <=> \E p \in given : slot[p] = "failed")

\* Who waits for a coordinator is on the list of the lookup that is under way, or of
\* the one whose waiters are being called, once: no waiter is forgotten when others
\* cancel, ask again from a callback or close the client.
WaitersAreServed ==
    \A c \in Calls :
        LET lists == {fetch.waiters} \cup {stack[i].ds : i \in {j \in DOMAIN stack : stack[j].op = "propagate"}}
        IN call[c].at = "wait" <=> \E w \in lists : \E i \in DOMAIN w : w[i] = c

\* A closed client caches nothing, whatever arrives later; unless close() was called
\* by a callback inside the handling of a metadata response.
ClosedCachesNothing ==
    closed /\ Idle /\ ~nested =>
        coordinator = "missing" /\ \A t \in Topics : partitions[t] = {} /\ errors[t] = "unset"

\* close(): "Clear cached metadata."
CloseClearsCaches == closed /\ Idle => \A t \in Topics : partitions[t] = {}

\* send_produce_request(): fail_on_error: "should we raise an Exception if we encounter
\* an API error?"
LenientNeverRaises == Doing("caller") /\ Head(stack).kind = "produce" => Head(stack).how # "raised"

\* Every operation ends, except that _load_topic_partitions() tries for ever.
EveryOperationEnds ==
    \A c \in Calls : call[c].at # "off" /\ call[c].kind # "partitions" ~> call[c].at = "off"

\* A route to a broker that does not lead the partition any more does not last while
\* the partition is in use, although old responses may arrive after new ones.
StaleRouteHeals ==
    \A p \in TP :
        LET stale == routes[p] \in Nodes /\ truths[Now].leader[p] # routes[p]
        IN  stale ~> ~stale \/ closed
=============================================================================
