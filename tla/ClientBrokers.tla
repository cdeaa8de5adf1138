---------------------------- MODULE ClientBrokers ----------------------------
(***************************************************************************)
(* KafkaClient's broker table and broker clients (afkak/client.py): who is *)
(* asked when any broker will do, bootstrapping, what a response does to   *)
(* the table, and close().  What responses say of topics and groups is in  *)
(* ClientMetadata.                                                         *)
(*                                                                         *)
(* A broker client is a member of Links; BrokerClient says how one works.  *)
(* A call is an operation of the client that a caller has under way.       *)
(* Closing a broker client fails its requests, which resumes calls and     *)
(* runs callers' code inside the loop of _close_brokerclients(): `stack`   *)
(* holds what is still to be done, innermost first, and events of the      *)
(* reactor wait until it is empty.  A callback makes at most one call of   *)
(* the client, as the last thing it does.                                  *)
(***************************************************************************)
EXTENDS Naturals, FiniteSets, Sequences

CONSTANTS
    Nodes,      \* broker node ids
    Addrs,      \* addresses (host and port) of brokers
    Hosts,      \* addresses update_cluster_hosts() may be given
    Calls,      \* operations of the client
    Kinds,      \* kinds of operation that callers use
    MaxDying,   \* bound: closed broker clients whose connection is still up
    None        \* no address, no node

AllKinds == {"full", "topic", "group", "direct"}

ASSUME BoundsFinite == IsFiniteSet(Nodes) /\ MaxDying \in Nat
ASSUME NoneIsNone == None \notin Addrs \cup Hosts
ASSUME KindsKnown == Kinds \subseteq AllKinds

\* Broker clients: open, being closed, and going down.
Links == 1 .. (2 * Cardinality(Nodes) + MaxDying)

VARIABLES
    table,     \* self._brokers
    clients,   \* self.clients; 0: no such key
    addr,      \* the addresses these have
    hosts,     \* self._bootstrap_hosts
    closing,   \* self._closing; self.clients is None from then on
    dying,     \* broker clients whose close() has not fired
    closeD,    \* what self.close_dlist waits for; {}: it is None
    closeRet,  \* what the Deferred that close() has returned waits for
    returned,  \* close() has returned it
    call,      \* where each operation is
    stack,     \* what is still to be done in this turn of the reactor
    nested,    \* history: close() was called while brokers were being removed
    listed     \* history: nodes of the last full response and those since

tableVars == <<table, clients, addr, listed>>
closeVars == <<closing, dying, closeD, closeRet, returned, nested>>
vars == <<tableVars, hosts, closeVars, call, stack>>

\* "asked": a request is with broker client `on`, the nodes `todo` are left.
\* "dial", "boot": connecting to, or waiting for, a bootstrap host; the hosts
\* `todo` are left.
Off == [kind |-> "none", at |-> "off", on |-> 0, todo |-> {}]

Init ==
    /\ table = [n \in Nodes |-> None]
    /\ clients = [n \in Nodes |-> 0]
    /\ addr = [n \in Nodes |-> None]
    /\ hosts \in SUBSET Hosts \ {{}}
    /\ closing = FALSE
    /\ dying = {} /\ closeD = {} /\ closeRet = {} /\ returned = FALSE
    /\ call = [c \in Calls |-> Off]
    /\ stack = <<>>
    /\ nested = FALSE
    /\ listed = Nodes

Idle == stack = <<>>
Doing(op) == ~Idle /\ Head(stack).op = op

\* Callers' code runs from the reactor or in a callback, which then returns.
CallerRuns == Idle \/ Doing("caller")
AfterCaller == IF Idle THEN stack ELSE Tail(stack)

Known == {n \in Nodes : table[n] # None}
InUse == {clients[n] : n \in Nodes} \ {0}
Free(l) ==
    /\ l \notin InUse \cup dying
    /\ \A i \in DOMAIN stack :
         /\ stack[i].op = "closing" => l \notin stack[i].left
         /\ stack[i].op = "drain" => l # stack[i].link

-----------------------------------------------------------------------------
(* Asking any broker: _send_broker_unaware_request() *)

\* _get_brokerclient(): the broker client of n is asked, made if there is none.
Ask(c, k, n, left) ==
    LET fresh == CHOOSE l \in Links : Free(l) /\ \A m \in Links : Free(m) => l <= m
        link  == IF clients[n] = 0 THEN fresh ELSE clients[n]
    IN  /\ clients' = [clients EXCEPT ![n] = link]
        /\ addr' = IF clients[n] = 0 THEN [addr EXCEPT ![n] = table[n]] ELSE addr
        /\ call' = [call EXCEPT ![c] = [kind |-> k, at |-> "asked", on |-> link, todo |-> left]]

\* The Deferred of the call fires and its callbacks run.
Finish(c, rest) ==
    /\ call' = [call EXCEPT ![c] = Off]
    /\ stack' = <<[op |-> "caller"]>> \o rest

\* _send_bootstrap_request(): the next host, or KafkaUnavailableError.
Dial(c, k, left, rest) ==
    IF left = {} THEN Finish(c, rest)
    ELSE /\ \E h \in left :
              call' = [call EXCEPT ![c] = [kind |-> k, at |-> "dial", on |-> 0, todo |-> left \ {h}]]
         /\ stack' = rest

\* Mutant: the node that failed is not taken off the list.
SameNodeAgain(c, k, left, rest) ==
    IF left = {} THEN Dial(c, k, hosts, rest) /\ UNCHANGED <<clients, addr>>
    ELSE IF closing THEN Finish(c, rest) /\ UNCHANGED <<clients, addr>>
    ELSE (\E n \in left : Ask(c, k, n, left)) /\ stack' = rest

\* The next of the shuffled nodes; a closed client raises ClientError there, but
\* goes on to the bootstrap hosts if no node is left.
TryNext(c, k, left, rest) ==
    IF left = {} THEN Dial(c, k, hosts, rest) /\ UNCHANGED <<clients, addr>>
    ELSE IF closing THEN Finish(c, rest) /\ UNCHANGED <<clients, addr>>
    ELSE (\E n \in left : Ask(c, k, n, left \ {n})) /\ stack' = rest

\* A caller starts an operation.  On a closed client it fails at once.
Start(c, k) ==
    /\ CallerRuns /\ ~closing
    /\ call[c] = Off
    /\ IF k = "direct"
       THEN (\E n \in Known : Ask(c, k, n, {})) /\ stack' = AfterCaller
       ELSE TryNext(c, k, Known, AfterCaller)
    /\ UNCHANGED <<table, listed, hosts, closeVars>>

\* The request fails with a KafkaError: the next node is tried.  A request that
\* was meant for this broker is not sent to another.
RequestFailed(c) ==
    IF call[c].kind = "direct" THEN Finish(c, stack) /\ UNCHANGED <<clients, addr>>
    ELSE TryNext(c, call[c].kind, call[c].todo, stack)

\* It times out.
RequestTimesOut(c) ==
    /\ Idle /\ call[c].at = "asked"
    /\ RequestFailed(c)
    /\ UNCHANGED <<table, listed, hosts, closeVars>>

\* A bootstrap connection is made.
Connected(c) ==
    /\ Idle /\ call[c].at = "dial"
    /\ call' = [call EXCEPT ![c].at = "boot"]
    /\ UNCHANGED <<tableVars, hosts, closeVars, stack>>

\* It is not; or it is lost, or answers another request, or nothing in time, and
\* is closed: the next host is tried.
BootstrapFails(c) ==
    /\ Idle /\ call[c].at \in {"dial", "boot"}
    /\ Dial(c, call[c].kind, call[c].todo, stack)
    /\ UNCHANGED <<tableVars, hosts, closeVars>>

\* The caller cancels: CancelledError of Twisted is no KafkaError, so a request
\* to a broker ends the call; but bootstrapping catches every exception.
Cancel(c) ==
    /\ CallerRuns
    /\ \/ call[c].at = "asked" /\ Finish(c, AfterCaller)
       \/ /\ call[c].at \in {"dial", "boot"}
          /\ Dial(c, call[c].kind, call[c].todo, AfterCaller)
    /\ UNCHANGED <<tableVars, hosts, closeVars>>

-----------------------------------------------------------------------------
(* Responses: _update_brokers() *)

\* What a response says: the addresses of some nodes.
Responses(k) ==
    IF k = "group" THEN UNION {[{n} -> Addrs] : n \in Nodes}
    ELSE UNION {[S -> Addrs] : S \in SUBSET Nodes}

\* Mutant: only the table learns a new address.
AddrKept(resp) == addr

\* updateMetadata() of the broker clients there are.
AddrAfter(resp) ==
    [n \in Nodes |-> IF n \in DOMAIN resp /\ clients[n] # 0 THEN resp[n] ELSE addr[n]]

\* Nodes with a broker client that a full response no longer lists; an empty
\* response removes none.
Gone(k, resp) ==
    IF k = "full" /\ DOMAIN resp # {}
    THEN {n \in Nodes \ DOMAIN resp : clients[n] # 0} ELSE {}

\* Mutant: closes that are still under way are forgotten.
NestedListForgotten(S, by) == [op |-> "closing", left |-> S, all |-> {}, by |-> by]

\* _close_brokerclients(S): it will wait for the list there is, too.
CloseFrame(S, by) == [op |-> "closing", left |-> S, all |-> closeD, by |-> by]

\* _update_brokers() for the response to call c.  If the client was closed, it
\* raises TypeError once it has updated the table.
UpdateBrokers(c, resp) ==
    LET gone == Gone(call[c].kind, resp) IN
    /\ table' = [n \in Nodes |-> IF n \in DOMAIN resp THEN resp[n] ELSE table[n]]
    /\ listed' = IF call[c].kind = "full" /\ DOMAIN resp # {} THEN DOMAIN resp
                 ELSE listed \cup DOMAIN resp
    /\ IF closing \/ gone = {}
       THEN Finish(c, stack)
       ELSE /\ call' = [call EXCEPT ![c].at = "merging", ![c].on = 0, ![c].todo = {}]
            /\ stack' = <<CloseFrame({clients[n] : n \in gone}, "update"),
                          [op |-> "merged", call |-> c]>> \o stack
    /\ clients' = [n \in Nodes |-> IF n \in gone THEN 0 ELSE clients[n]]
    /\ addr' = [n \in Nodes |-> IF n \in gone THEN None ELSE AddrAfter(resp)[n]]

\* A broker, or a bootstrap host, answers.  Coordinator lookups may be answered
\* with an error code.
Answer(c) ==
    /\ Idle /\ call[c].at \in {"asked", "boot"}
    /\ \/ call[c].kind # "direct" /\ \E resp \in Responses(call[c].kind) : UpdateBrokers(c, resp)
       \/ call[c].kind \in {"direct", "group"} /\ Finish(c, stack) /\ UNCHANGED tableVars
    /\ UNCHANGED <<hosts, closeVars>>

\* The rest of the handler of the response: the caller hears of it.
Merged ==
    /\ Doing("merged")
    /\ Finish(Head(stack).call, Tail(stack))
    /\ UNCHANGED <<tableVars, hosts, closeVars>>

-----------------------------------------------------------------------------
(* Closing *)

\* An iteration of _close_brokerclients(): close() of broker client l, whose
\* connection goes down at once (there was none) or later.
CloseOne ==
    /\ Doing("closing")
    /\ LET f == Head(stack) IN \E l \in f.left, slow \in BOOLEAN :
         /\ slow => Cardinality(dying) < MaxDying
         /\ dying' = IF slow THEN dying \cup {l} ELSE dying
         /\ stack' = <<[op |-> "drain", link |-> l],
                       [f EXCEPT !.left = @ \ {l}, !.all = IF slow THEN @ \cup {l} ELSE @]>>
                     \o Tail(stack)
    /\ UNCHANGED <<tableVars, hosts, closing, closeD, closeRet, returned, nested, call>>

\* Mutant: the requests of a removed broker client are left alone.
DrainNothing ==
    /\ Doing("drain")
    /\ stack' = Tail(stack)
    /\ UNCHANGED <<tableVars, hosts, closeVars, call>>

\* BrokerClient.close() fails its requests with ClientError one by one.
Drain ==
    /\ Doing("drain")
    /\ LET hit == {c \in Calls : call[c].at = "asked" /\ call[c].on = Head(stack).link} IN
       IF hit = {}
       THEN stack' = Tail(stack) /\ UNCHANGED <<clients, addr, call>>
       ELSE \E c \in hit : RequestFailed(c)
    /\ UNCHANGED <<table, listed, hosts, closeVars>>

\* The loop is over: close_dlist becomes the new DeferredList, or None if that has
\* fired.  close() returns it.
CloseDone ==
    /\ Doing("closing") /\ Head(stack).left = {}
    /\ closeD' = Head(stack).all
    /\ IF Head(stack).by = "close"
       THEN closeRet' = closeD' /\ returned' = TRUE
       ELSE UNCHANGED <<closeRet, returned>>
    /\ stack' = Tail(stack)
    /\ UNCHANGED <<tableVars, hosts, closing, dying, nested, call>>

\* close().  A second call raises AttributeError at once.
Close ==
    /\ CallerRuns /\ ~closing
    /\ closing' = TRUE
    /\ clients' = [n \in Nodes |-> 0]
    /\ addr' = [n \in Nodes |-> None]
    /\ stack' = <<CloseFrame(InUse, "close")>> \o AfterCaller
    /\ nested' = \E i \in DOMAIN stack : stack[i].op = "closing"
    /\ UNCHANGED <<table, listed, hosts, dying, closeD, closeRet, returned, call>>

\* The connection of a closed broker client is down: its close() fires, and with
\* the last one the list that waits for it.
GoDown(l) ==
    /\ Idle /\ l \in dying
    /\ dying' = dying \ {l}
    /\ closeD' = closeD \ {l}
    /\ closeRet' = closeRet \ {l}
    /\ UNCHANGED <<tableVars, hosts, closing, returned, nested, call, stack>>

UpdateHosts ==
    /\ CallerRuns
    /\ hosts' \in SUBSET Hosts \ {{}}
    /\ stack' = AfterCaller
    /\ UNCHANGED <<tableVars, closeVars, call>>

\* A callback that makes no call of the client returns.
Return ==
    /\ Doing("caller")
    /\ stack' = Tail(stack)
    /\ UNCHANGED <<tableVars, hosts, closeVars, call>>

-----------------------------------------------------------------------------

Next ==
    \/ \E c \in Calls, k \in Kinds : Start(c, k)
    \/ \E c \in Calls : RequestTimesOut(c) \/ Connected(c) \/ BootstrapFails(c)
                        \/ Cancel(c) \/ Answer(c)
    \/ Merged \/ CloseOne \/ Drain \/ CloseDone \/ Return
    \/ Close
    \/ \E l \in Links : GoDown(l)
    \/ UpdateHosts

Spec == Init /\ [][Next]_vars

\* The handlers on the stack run to their end.
Handlers == Merged \/ CloseOne \/ Drain \/ CloseDone \/ Return

(***************************************************************************)
(* Requests to brokers and to bootstrap hosts have a time-out, attempts to *)
(* connect end, and so does a connection that was told to.  These events   *)
(* wait for the handlers of others to return, hence strong fairness.       *)
(***************************************************************************)
Fairness ==
    /\ WF_vars(Handlers)
    /\ \A c \in Calls : SF_vars(RequestTimesOut(c) \/ BootstrapFails(c))
    /\ SF_vars(\E l \in Links : GoDown(l))

FairSpec == Spec /\ Fairness

-----------------------------------------------------------------------------
(* Properties *)

TypeOK ==
    /\ table \in [Nodes -> Addrs \cup {None}]
    /\ clients \in [Nodes -> Links \cup {0}]
    /\ addr \in [Nodes -> Addrs \cup {None}]
    /\ hosts \in SUBSET Hosts \ {{}}
    /\ {closing, returned, nested} \subseteq BOOLEAN
    /\ dying \subseteq Links /\ closeD \subseteq Links /\ closeRet \subseteq Links
    /\ call \in [Calls -> [kind : Kinds \cup {"none"},
                           at : {"off", "asked", "dial", "boot", "merging"},
                           on : Links \cup {0},
                           todo : SUBSET Nodes \cup SUBSET Hosts]]
    /\ \A i \in DOMAIN stack : stack[i].op \in {"caller", "closing", "drain", "merged"}
    /\ listed \subseteq Nodes

\* A broker client dials the address the table has for its node, whatever order
\* responses, removals and new requests come in.
ClientsFollowTable == \A n \in Nodes : clients[n] # 0 => addr[n] = table[n]

\* Between events no request waits on a broker client that the client has let go
\* of, and no two nodes share one; and the state has its type.
RequestsHaveAClient ==
    /\ TypeOK
    /\ Idle => \A c \in Calls : call[c].at = "asked" => call[c].on \in InUse
    /\ \A m, n \in Nodes : m # n /\ clients[m] # 0 => clients[m] # clients[n]

\* When the Deferred of close() has fired, every broker client that was ever made
\* is down, those removed earlier by metadata responses included; unless close()
\* was called by a callback that such a removal runs.
CloseWaitsForAll == returned /\ closeRet = {} /\ ~nested => dying = {}

\* Every operation ends, although brokers come and go while it looks for one and
\* the client may be closed under it; and the Deferred of close() fires.
EveryCallEnds ==
    /\ \A c \in Calls : call[c].at # "off" ~> call[c].at = "off"
    /\ closing ~> returned /\ closeRet = {}

\* close(): "deferred that fires when all resources have been released": broker
\* connections, and the connections of operations that are bootstrapping.
CloseReleasesBrokers == returned /\ closeRet = {} => dying = {}
CloseReleasesBootstrap == returned /\ closeRet = {} => \A c \in Calls : call[c] = Off

\* clients: "No requests will be routed to such a broker client" (of a node that
\* was removed from the cluster).
RemovedIsNotAsked ==
    [][\A c \in Calls, n \in Nodes :
          call'[c].at = "asked" /\ call'[c].on = clients'[n] /\ call[c] # call'[c] => n \in listed]_vars
=============================================================================
