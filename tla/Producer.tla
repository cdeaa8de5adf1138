------------------------------ MODULE Producer ------------------------------
(***************************************************************************)
(* The batching producer of afkak/producer.py over an abstract KafkaClient *)
(* (external here): metadata_error_for_topic() and the requests it answers *)
(* are nondeterministic.                                                   *)
(*                                                                         *)
(* Requests are the calls of send_messages(), numbered in order.  A        *)
(* partition stands for a topic and a partition of it.  `phase` is where   *)
(* the callback chain of _batch_send_d is ("idle": it is None).  Deferreds *)
(* of callers are fired by two loops, that of _send_requests() and         *)
(* _deliver_result(): they take one step per Deferred, and `cb` says that  *)
(* the one just fired may be running the caller's code.                    *)
(***************************************************************************)
EXTENDS Naturals, FiniteSets, FiniteSetsExt

CONSTANTS
    MaxSends,    \* bound: calls of send_messages()
    MaxMsgs,     \* bound: messages per call
    MaxBytes,    \* bound: bytes per call; 0 is a call with null messages only
    Part,        \* topic-partitions
    Acks,        \* req_acks # PRODUCER_ACK_NOT_REQUIRED
    CanEncode,   \* create_message_set() does not raise
    EveryN,      \* batch_every_n, 0 if unset
    EveryB,      \* batch_every_b, 0 if unset
    Timer,       \* batch_every_t is set
    MaxAttempts  \* max_req_attempts

Ids == 1 .. MaxSends

ASSUME BoundsNat == MaxSends \in Nat /\ MaxMsgs \in Nat \ {0} /\ MaxBytes \in Nat
ASSUME BatchNat == EveryN \in Nat /\ EveryB \in Nat
ASSUME FlagsBool == {Acks, CanEncode, Timer} \subseteq BOOLEAN
ASSUME MaxAttemptsPos == MaxAttempts \in Nat \ {0}
ASSUME PartNonempty == Part # {}

VARIABLES
    made,      \* number of calls of send_messages()
    size,      \* messages and bytes of each
    fate,      \* state of each call's Deferred
    waiting,   \* self._batch_reqs
    msgs,      \* self._waitingMsgCount
    bytes,     \* self._waitingByteCount
    phase,     \* where the chain of self._batch_send_d is
    batch,     \* requests of the batch that _send_requests() has yet to look at
    lookup,    \* where _next_partition() is for each request
    part,      \* the partition it gave
    members,   \* requests in payloadsByTopicPart / deferredsByTopicPart
    flight,    \* partitions whose payloads the client was last asked to send
    due,       \* what _handle_send_response() has yet to deliver
    again,     \* partitions it will retry
    attempts,  \* self._req_attempts
    timer,     \* self._sendLooper
    stopping,  \* stop() has cancelled the batch and is waiting for that call
    cb,        \* a caller's callback runs inside a loop
    stopped,   \* history: number of calls made when stop() was last called
    ever,      \* history: requests that were handed to the client
    confirmed  \* history: requests whose partition answered without error

sendVars  == <<made, size>>
waitVars  == <<waiting, msgs, bytes>>
batchVars == <<phase, batch, lookup, part, members, flight, due, again, attempts>>
histVars  == <<stopped, ever, confirmed>>
vars == <<sendVars, fate, waitVars, batchVars, timer, stopping, cb, histVars>>

\* What a Deferred fires with: a response; None (no acks); a failure; an
\* exception object as if it were a response; CancelledError with request_sent
\* unset or set; the CancelledError of a retry that stop() called off.
Outcomes == {"ack", "none", "failure", "errorvalue", "unsent", "cancelled", "aborted"}

Init ==
    /\ made = 0
    /\ size = [r \in Ids |-> [msgs |-> 0, bytes |-> 0]]
    /\ fate = [r \in Ids |-> "unmade"]
    /\ waiting = {} /\ msgs = 0 /\ bytes = 0
    /\ phase = "idle" /\ batch = {}
    /\ lookup = [r \in Ids |-> "off"]
    /\ part = [r \in Ids |-> CHOOSE p \in Part : TRUE]
    /\ members = {} /\ flight = {}
    /\ due = [r \in Ids |-> "no"] /\ again = {}
    /\ attempts = 0
    /\ timer = IF Timer THEN "on" ELSE "none"
    /\ stopping = FALSE /\ cb = FALSE
    /\ stopped = 0 /\ ever = {} /\ confirmed = {}

Loops == {"grouping", "delivering"}

\* No handler is on the stack.
Idle == phase \notin Loops /\ ~stopping

\* The caller's code runs: from the reactor, or inside a fired Deferred.
CallerRuns == Idle \/ cb

Pending(r) == fate[r] = "pending"
MsgsOf(S)  == MapThenSumSet(LAMBDA r : size[r].msgs, S)
BytesOf(S) == MapThenSumSet(LAMBDA r : size[r].bytes, S)
At(P) == {r \in members : part[r] \in P}

-----------------------------------------------------------------------------
(* Batches *)

\* _check_send_batch(): enough messages or bytes are waiting.
Enough(m, b) ==
    \/ EveryN # 0 /\ EveryN <= m
    \/ EveryB # 0 /\ EveryB <= b

\* Where the callback chain goes when the lookups l stand as given:
\* DeferredList waits for all of them.
LookedUp(l, B) ==
    phase' = IF \A r \in B : l[r] \in {"found", "failed"} THEN "grouping" ELSE "lookup"

\* _send_batch() past its early return: every request asks for a partition;
\* those whose topic has good metadata get it at once.
SendBatch(w) ==
    /\ waiting' = {} /\ msgs' = 0 /\ bytes' = 0
    /\ batch' = w
    /\ \E found \in SUBSET w :
         /\ lookup' = [r \in Ids |-> IF r \notin w THEN lookup[r]
                                     ELSE IF r \in found THEN "found" ELSE "loading"]
         /\ \E where \in [found -> Part] :
               part' = [r \in Ids |-> IF r \in found THEN where[r] ELSE part[r]]
         /\ LookedUp(lookup', w)
    /\ cb' = FALSE

\* Mutant: the end of a batch does not look at what piled up meanwhile.
NoCheckAfterBatch ==
    phase' = "idle" /\ cb' = FALSE /\ UNCHANGED <<waitVars, batch, lookup, part>>

\* The _check_send_batch() at the end of the chain, with _batch_send_d cleared.
CheckAfterBatch ==
    IF waiting # {} /\ Enough(msgs, bytes)
    THEN SendBatch(waiting)
    ELSE phase' = "idle" /\ cb' = FALSE /\ UNCHANGED <<waitVars, batch, lookup, part>>

\* _complete_batch_send(), then _check_send_batch().
CompleteBatch ==
    /\ attempts' = 0
    /\ members' = {} /\ flight' = {} /\ again' = {}
    /\ CheckAfterBatch

\* send_messages() with valid arguments; invalid ones change nothing.
SendMessages(n, b) ==
    /\ CallerRuns
    /\ made < MaxSends
    /\ made' = made + 1
    /\ size' = [size EXCEPT ![made'] = [msgs |-> n, bytes |-> b]]
    /\ fate' = [fate EXCEPT ![made'] = "pending"]
    /\ IF phase = "idle" /\ Enough(msgs + n, bytes + b)
       THEN SendBatch(waiting \cup {made'})
       ELSE /\ waiting' = waiting \cup {made'}
            /\ msgs' = msgs + n /\ bytes' = bytes + b
            /\ UNCHANGED <<phase, batch, lookup, part, cb>>
    /\ UNCHANGED <<members, flight, due, again, attempts, timer, stopping, histVars>>

\* The LoopingCall calls _send_batch().
TimerFires ==
    /\ Idle
    /\ timer = "on" /\ phase = "idle" /\ waiting # {}
    /\ SendBatch(waiting)
    /\ UNCHANGED <<sendVars, fate, members, flight, due, again, attempts, timer,
                   stopping, histVars>>

-----------------------------------------------------------------------------
(* Partition lookup: _next_partition() *)

LookupBecomes(r, state) ==
    /\ lookup' = [lookup EXCEPT ![r] = state]
    /\ IF state = "found"
       THEN \E p \in Part : part' = [part EXCEPT ![r] = p]
       ELSE UNCHANGED part
    /\ LookedUp(lookup', batch)
    /\ UNCHANGED <<sendVars, fate, waitVars, batch, members, flight, due, again,
                   timer, stopping, cb, histVars>>

\* load_metadata_for_topics() fails, or the topic has good metadata now, or it
\* has not and the next attempt is delayed.
LoadMetadata(r) ==
    /\ Idle /\ phase = "lookup" /\ r \in batch
    /\ lookup[r] = "loading"
    /\ \/ LookupBecomes(r, "failed") /\ UNCHANGED attempts
       \/ LookupBecomes(r, "found") /\ UNCHANGED attempts
       \/ LookupBecomes(r, "delay") /\ attempts' = attempts + 1

\* After the delay: the while condition, then the attempts left.
DelayOver(r) ==
    /\ Idle /\ phase = "lookup" /\ r \in batch
    /\ lookup[r] = "delay"
    /\ \/ LookupBecomes(r, "found")
       \/ LookupBecomes(r, IF attempts >= MaxAttempts THEN "failed" ELSE "loading")
    /\ UNCHANGED attempts

-----------------------------------------------------------------------------
(* Sending: _send_requests() *)

\* Mutant: a request whose partition is not found goes into the next batch.
GroupRequestRequeue ==
    /\ phase = "grouping"
    /\ \E r \in batch :
         /\ \A other \in batch : r <= other
         /\ batch' = batch \ {r}
         /\ cb' = FALSE /\ UNCHANGED fate
         /\ IF Pending(r) /\ lookup[r] = "failed"
            THEN /\ waiting' = waiting \cup {r}
                 /\ msgs' = msgs + size[r].msgs /\ bytes' = bytes + size[r].bytes
            ELSE UNCHANGED waitVars
         /\ members' = IF Pending(r) /\ lookup[r] = "found"
                       THEN members \cup {r} ELSE members
    /\ UNCHANGED <<sendVars, phase, lookup, part, flight, due, again, attempts,
                   timer, stopping, histVars>>

\* An iteration of the loop over the batch: skip a request whose Deferred was
\* called, errback one without a partition, group the others.
GroupRequest ==
    /\ phase = "grouping"
    /\ \E r \in batch :
         /\ \A other \in batch : r <= other
         /\ batch' = batch \ {r}
         /\ IF Pending(r) /\ lookup[r] = "failed"
            THEN fate' = [fate EXCEPT ![r] = "failure"] /\ cb' = TRUE
            ELSE cb' = FALSE /\ UNCHANGED fate
         /\ members' = IF Pending(r) /\ lookup[r] = "found"
                       THEN members \cup {r} ELSE members
    /\ UNCHANGED <<sendVars, waitVars, phase, lookup, part, flight, due, again,
                   attempts, timer, stopping, histVars>>

\* client.send_produce_request() for the payloads of partitions P.
HandOver(P) ==
    /\ phase' = "sent"
    /\ flight' = P
    /\ again' = {}
    /\ attempts' = attempts + 1
    /\ ever' = ever \cup At(P)
    /\ cb' = FALSE

\* The rest of _send_requests().  If create_message_set() raises, the failure
\* goes to _complete_batch_send(), which swallows it.
SendRequests ==
    /\ phase = "grouping" /\ batch = {}
    /\ IF members = {} \/ ~CanEncode
       THEN CompleteBatch /\ UNCHANGED ever
       ELSE /\ HandOver({part[r] : r \in members})
            /\ UNCHANGED <<waitVars, batch, lookup, part, members>>
    /\ UNCHANGED <<sendVars, fate, due, timer, stopping, stopped, confirmed>>

-----------------------------------------------------------------------------
(* Responses: _handle_send_response() *)

Exhausted == attempts >= MaxAttempts

\* Every Deferred of the batch gets the same result.
DeliverAll(outcome) ==
    /\ due' = [r \in Ids |-> IF r \in members THEN outcome ELSE "no"]
    /\ again' = {}
    /\ UNCHANGED confirmed

\* Mutant: one answer is taken for the whole batch.
OneAnswerForAll(ok, code, failed, r) ==
    IF ok # {} THEN "ack" ELSE IF Exhausted THEN "failure" ELSE "no"

\* What request r of the batch is told when the partitions `ok` have answered
\* without error, `code` with an error code, and `failed` not at all.
Verdict(ok, code, failed, r) ==
    IF part[r] \in ok THEN "ack"
    ELSE IF Exhausted /\ part[r] \in failed THEN "failure"
    ELSE IF Exhausted /\ part[r] \in code THEN "errorvalue"
    ELSE "no"

\* Mutant: payloads that the broker refused are not retried.
RefusedNotRetried(code, failed) == IF Exhausted THEN {} ELSE failed

\* What _check_retry_payloads() schedules a retry for.
Retried(code, failed) == IF Exhausted THEN {} ELSE code \cup failed

\* The loop over the results and _check_retry_payloads().
Settle(ok, code, failed) ==
    /\ due' = [r \in Ids |-> IF r \in members THEN Verdict(ok, code, failed, r) ELSE "no"]
    /\ again' = Retried(code, failed)
    /\ confirmed' = confirmed \cup At(ok)

\* A list of responses, or FailedPayloadsError with the responses there are and
\* the payloads that failed.  Without acks there are no responses.
Answered(failed) ==
    \E ok \in SUBSET (flight \ failed) :
        IF Acks THEN Settle(ok, (flight \ failed) \ ok, failed)
        ELSE failed # {} /\ Settle({}, {}, failed)

\* A KafkaError: nothing could be sent, all payloads of the batch have failed.
Unavailable == Settle({}, {}, {part[r] : r \in members})

\* The Deferred of send_produce_request() fires.
HandleSendResponse ==
    /\ Idle /\ phase = "sent"
    /\ \/ DeliverAll(IF Acks THEN "failure" ELSE "none") \* an empty result
       \/ DeliverAll("failure")                          \* any other exception
       \/ Unavailable
       \/ \E failed \in SUBSET flight : Answered(failed)
    /\ phase' = "delivering"
    /\ UNCHANGED <<sendVars, fate, waitVars, batch, lookup, part, members, flight,
                   attempts, timer, stopping, cb, stopped, ever>>

\* An iteration of _deliver_result().
Deliver ==
    /\ phase = "delivering"
    /\ \E r \in Ids :
         /\ due[r] # "no"
         /\ due' = [due EXCEPT ![r] = "no"]
         /\ fate' = IF Pending(r) THEN [fate EXCEPT ![r] = due[r]] ELSE fate
         /\ cb' = Pending(r)
    /\ UNCHANGED <<sendVars, waitVars, phase, batch, lookup, part, members, flight,
                   again, attempts, timer, stopping, histVars>>

\* The end of _handle_send_response(): wait to retry, or end the batch.
DeliveryDone ==
    /\ phase = "delivering" /\ \A r \in Ids : due[r] = "no"
    /\ IF again # {}
       THEN /\ phase' = "retry" /\ cb' = FALSE
            /\ UNCHANGED <<waitVars, batch, lookup, part, members, flight, again, attempts>>
       ELSE CompleteBatch
    /\ UNCHANGED <<sendVars, fate, due, timer, stopping, histVars>>

\* _do_retry()
DoRetry ==
    /\ Idle /\ phase = "retry"
    /\ HandOver(again)
    /\ UNCHANGED <<sendVars, fate, waitVars, batch, lookup, part, members, due,
                   timer, stopping, stopped, confirmed>>

-----------------------------------------------------------------------------
(* Cancellation and stop() *)

\* Mutant: the wrong way round.
RequestSentSwapped(r) == IF r \in waiting \/ phase # "idle" THEN "unsent" ELSE "cancelled"

\* What _cancel_send_messages() tells the caller.
RequestSent(r) == IF r \in waiting \/ phase = "idle" THEN "unsent" ELSE "cancelled"

\* Mutants: the bytes of cancelled requests are not taken off; messages are taken
\* off even if they do not wait any more.
BytesKept(S) == bytes
MsgsAlwaysTakenOff(S) == msgs - MsgsOf(S)

\* The counters when the requests S are cancelled.
BytesWithout(S) == bytes - BytesOf(S \cap waiting)
MsgsWithout(S)  == msgs - MsgsOf(S \cap waiting)

\* _cancel_send_messages() for the requests S.
CancelAll(S) ==
    /\ fate' = [r \in Ids |-> IF r \in S THEN RequestSent(r) ELSE fate[r]]
    /\ waiting' = waiting \ S
    /\ msgs' = MsgsWithout(S)
    /\ bytes' = BytesWithout(S)

Cancel(r) ==
    /\ CallerRuns
    /\ Pending(r)
    /\ CancelAll({r})
    /\ UNCHANGED <<sendVars, batchVars, timer, stopping, cb, histVars>>

\* The second half of stop(): the LoopingCall, then _cancel_outstanding().  The
\* callbacks it runs find the other Deferreds as a caller does before or after.
StopRest ==
    /\ CancelAll({r \in Ids : Pending(r)})
    /\ timer' = IF timer = "on" THEN "off" ELSE timer

\* Cancelling the DeferredList cancels the lookups: one that waits for its delay
\* fails, one that waits for metadata sees load_metadata_for_topics() give up,
\* and goes on, or try its next host.
CancelLookups ==
    /\ phase = "lookup"
    /\ LET loading == {r \in batch : lookup[r] = "loading"} IN
       \E then \in [loading -> {"loading", "delay", "found", "failed"}],
          where \in [loading -> Part] :
            /\ lookup' = [r \in Ids |->
                            IF r \in loading THEN then[r]
                            ELSE IF r \in batch /\ lookup[r] = "delay" THEN "failed"
                            ELSE lookup[r]]
            /\ part' = [r \in Ids |-> IF r \in loading /\ then[r] = "found"
                                      THEN where[r] ELSE part[r]]
            /\ attempts' = attempts + Cardinality({r \in loading : then[r] = "delay"})
    /\ LookedUp(lookup', batch)
    /\ UNCHANGED <<due, again, confirmed>>

\* Cancelling send_produce_request() fails what is still in flight, and the
\* client reports that as FailedPayloadsError; or it was looking for leaders.
CancelSend ==
    /\ phase = "sent"
    /\ Unavailable \/ \E failed \in SUBSET flight : failed # {} /\ Answered(failed)
    /\ phase' = "delivering"
    /\ UNCHANGED <<lookup, part, attempts>>

\* _cancel_retry()
CancelRetry ==
    /\ phase = "retry"
    /\ DeliverAll("aborted")
    /\ phase' = "delivering"
    /\ UNCHANGED <<lookup, part, attempts>>

\* stop() while a batch is under way.
StopBatch ==
    /\ Idle
    /\ CancelLookups \/ CancelSend \/ CancelRetry
    /\ stopping' = TRUE
    /\ stopped' = made
    /\ UNCHANGED <<sendVars, fate, waitVars, batch, members, flight, timer, cb, ever>>

StopBatchDone ==
    /\ stopping /\ phase \notin Loops
    /\ StopRest
    /\ stopping' = FALSE
    /\ UNCHANGED <<sendVars, batchVars, cb, histVars>>

\* stop() with no batch, or from a callback: then cancelling _batch_send_d, whose
\* callbacks are running, does nothing.
StopNow ==
    /\ CallerRuns
    /\ phase \in Loops \cup {"idle"}
    /\ StopRest
    /\ stopped' = made
    /\ UNCHANGED <<sendVars, batchVars, stopping, cb, ever, confirmed>>

-----------------------------------------------------------------------------

Next ==
    \/ \E n \in 1 .. MaxMsgs, b \in 0 .. MaxBytes : SendMessages(n, b)
    \/ \E r \in Ids : Cancel(r) \/ LoadMetadata(r) \/ DelayOver(r)
    \/ TimerFires
    \/ GroupRequest \/ SendRequests
    \/ HandleSendResponse \/ Deliver \/ DeliveryDone
    \/ DoRetry
    \/ StopBatch \/ StopBatchDone \/ StopNow

Spec == Init /\ [][Next]_vars

(***************************************************************************)
(* The loops run to their end.  The client answers: each of its requests   *)
(* has a time-out (RequestTimeout!EveryRequestEnds).  Delayed calls and    *)
(* the LoopingCall are called.                                             *)
(***************************************************************************)
Fairness ==
    /\ WF_vars(GroupRequest) /\ WF_vars(SendRequests)
    /\ WF_vars(Deliver) /\ WF_vars(DeliveryDone) /\ WF_vars(StopBatchDone)
    /\ \A r \in Ids : WF_vars(LoadMetadata(r)) /\ WF_vars(DelayOver(r))
    /\ WF_vars(HandleSendResponse) /\ WF_vars(DoRetry)
    /\ WF_vars(TimerFires)

FairSpec == Spec /\ Fairness

-----------------------------------------------------------------------------
(* Properties *)

TypeOK ==
    /\ made \in 0 .. MaxSends
    /\ size \in [Ids -> [msgs : 0 .. MaxMsgs, bytes : 0 .. MaxBytes]]
    /\ fate \in [Ids -> Outcomes \cup {"unmade", "pending"}]
    /\ waiting \subseteq Ids /\ msgs \in Nat /\ bytes \in Nat
    /\ phase \in {"idle", "lookup", "sent", "retry"} \cup Loops
    /\ batch \subseteq Ids /\ members \subseteq Ids
    /\ lookup \in [Ids -> {"off", "loading", "delay", "found", "failed"}]
    /\ part \in [Ids -> Part]
    /\ flight \subseteq Part /\ again \subseteq Part
    /\ due \in [Ids -> Outcomes \cup {"no"}]
    /\ attempts \in Nat
    /\ timer \in {"none", "on", "off"}
    /\ stopping \in BOOLEAN /\ cb \in BOOLEAN
    /\ stopped \in 0 .. MaxSends /\ ever \subseteq Ids /\ confirmed \subseteq Ids

\* _waitingMsgCount and _waitingByteCount are those of _batch_reqs, whatever was
\* sent, cancelled or stopped in which order: drifting counters would send
\* early or never.
CountersMatch == msgs = MsgsOf(waiting) /\ bytes = BytesOf(waiting)

\* Whenever no batch is under way less than a batch is waiting: requests that
\* piled up behind a batch do not wait for the next send_messages().
NothingLeftWaiting == phase = "idle" => ~Enough(msgs, bytes)

\* The state has its type, the counters are right and full batches go out.
BatchesGoOut == TypeOK /\ CountersMatch /\ NothingLeftWaiting

\* A Deferred that has not fired is held by the waiting batch, by the batch that
\* is under way, or by a payload that is in flight, to be delivered or to be
\* retried: something will fire it.
PendingIsHeld ==
    Acks /\ CanEncode =>
        \A r \in Ids : Pending(r) =>
            \/ r \in waiting \cup batch
            \/ r \in members /\ phase = "grouping"
            \/ r \in members /\ phase = "sent" /\ part[r] \in flight
            \/ r \in members /\ phase \in {"delivering", "retry"}
                 /\ (due[r] # "no" \/ part[r] \in again)

\* The messages of a partition reach the client in the order of send_messages():
\* a new batch never overtakes, nor is overtaken by, one that is being retried.
OrderKept ==
    [][\A r \in ever' \ ever, s \in ever :
            part'[r] = part[s] => s < r]_vars

\* CancelledError(request_sent=False) is the truth: the request was not handed
\* to the client and never will be.
UnsentStaysUnsent == \A r \in ever : fate[r] # "unsent"

\* A caller gets the verdict of its own partition, as far as the client passes the
\* answers on (LenientNeverRaises of ClientMetadata): it is told of success only if
\* that partition has answered without error, and a request whose partition has
\* done so is never reported as failed, even if the rest of the batch fails
\* or the retry of the batch fails as a whole.
VerdictIsOwn ==
    \A r \in Ids :
        /\ fate[r] = "ack" => r \in confirmed
        /\ r \in confirmed => fate[r] \notin {"failure", "errorvalue"}

\* What a caller is told is the truth: that its messages were not sent, that they were
\* acknowledged, or that they failed.
VerdictIsTrue == UnsentStaysUnsent /\ VerdictIsOwn

\* Every Deferred fires, or waits in a batch whose timer stop() has ended.
EverySendAnswered ==
    \A r \in Ids : Pending(r) ~> ~Pending(r) \/ timer = "off"

\* _check_retry_payloads(): "If not, errback the remaining deferreds with
\* failure": a failed request is never reported through the success path.
FailuresAreErrbacks == \A r \in Ids : fate[r] # "errorvalue"

\* stop(): "Terminate any outstanding requests": no request made before stop()
\* is handed to the client once stop() has returned.
StopTerminates ==
    [][phase # "sent" /\ phase' = "sent" /\ ~stopping =>
            \A r \in members' : part'[r] \in flight' => r > stopped]_vars

\* _cancel_send_messages(): "Errback the deferred with whether or not we sent the
\* request to Kafka already".
RequestSentIsTrue == \A r \in Ids : fate[r] = "cancelled" => r \in ever

\* _do_retry(): "so we can determine which requests were successful, and which
\* failed for retry": what was acknowledged is not sent again.
AckedIsNotRetried ==
    [][phase = "retry" /\ phase' = "sent" =>
            \A r \in members : part[r] \in flight' => r \notin confirmed]_vars
=============================================================================
