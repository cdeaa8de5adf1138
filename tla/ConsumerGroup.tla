---------------------------- MODULE ConsumerGroup ----------------------------
(***************************************************************************)
(* afkak/_group.py: a member of a consumer group.  Coordinator joins the   *)
(* group, keeps its membership alive with heartbeats and rejoins after     *)
(* errors; ConsumerGroup runs one Consumer per assigned partition.         *)
(*                                                                         *)
(* Coroutines (inlineCallbacks) are Tasks that wait at a stage: each run   *)
(* of _join_and_sync() is one, rejoinD names the one that self._rejoin_d   *)
(* refers to.  A call of ConsumerGroup.stop() waits first for the          *)
(* consumers it shuts down (a member of closing) and then for the answer   *)
(* to LeaveGroup (leaving).  Handlers run inside other handlers; stack     *)
(* holds the calls still to be made, innermost first, and the reactor's    *)
(* events wait until it is empty.                                          *)
(*                                                                         *)
(* A consumer is what Consumer promises: it runs until it is stopped, its  *)
(* start() Deferred may fail once, shutdown() ends in a success or in a    *)
(* failure or never, stop() always stops it, even when it raises.  An      *)
(* error is the class that rejoin_after_error() puts it in:                *)
(*   "retry"       rejoin (a rebalance, a lost coordinator, a Kafka error) *)
(*   "generation"  stop the consumers and rejoin (also: a time-out)        *)
(*   "member"      the same, and forget the member id                      *)
(*   "cancelled"   CancelledError                                          *)
(*   "other"       not a KafkaError                                        *)
(***************************************************************************)
EXTENDS Integers, FiniteSets, Sequences, SequencesExt

CONSTANTS Partitions,  \* what the group leader may assign to this member
          Tasks,       \* names (strings) of runs of _join_and_sync(); a bound
          MaxJoins,    \* bound: answered JoinGroup requests
          MaxStops     \* bound: calls of stop() by the user

ASSUME GroupAssumption ==
  /\ IsFiniteSet(Partitions) /\ {MaxJoins, MaxStops} \subseteq Nat \ {0}
  /\ Tasks # {} /\ Tasks \cap {"none", "ok", "error"} = {}

None == 0
Consumers == (1 .. MaxJoins) \X Partitions
Errors == {"retry", "generation", "member", "cancelled", "other"}
Stages == {"none", "coordinator", "metadata", "prepare", "join", "partitions", "sync"}

VARIABLES
  startD,        \* _start_d: "none", "waiting"
  outcome,       \* how the last start() Deferred fired: "-", "ok", "error"
  stopping,      \* _stopping
  stops,         \* how often the user has called stop()
  leaving,       \* stop() waits for LeaveGroup, and then reports this: "no", "ok", "error"
  rejoinNeeded,  \* _rejoin_needed
  waitDc,        \* _rejoin_wait_dc: "none", "active", "dead" (cancelled)
  loose,         \* delayed calls of join_and_sync() that nothing refers to
  task,          \* the stage of each run of _join_and_sync()
  rejoinD,       \* _rejoin_d
  joins,         \* JoinGroup requests answered so far
  member,        \* is member_id known?
  generation,    \* generation_id: the number of the join that gave it
  coordinator,   \* is coordinator_broker known?
  looper,        \* is _heartbeat_looper running?
  beat,          \* _heartbeat_request_d: the generation it was sent for
  held,          \* the consumers in self.consumers
  live,          \* the consumers that have been started and not stopped
  failed,        \* the consumers whose start() Deferred has failed
  closing,       \* the graceful shutdowns: who waits for which consumers
  stack,         \* the calls still to be made
  crashed,       \* history: the stage at which rejoin_d_errback() last logged an error
  fatal,         \* history: a running group has met an error it cannot handle
  late           \* history: the consumers started while a stop() was waiting

lifeVars == <<startD, outcome, stopping, stops, leaving>>
joinVars == <<rejoinNeeded, waitDc, loose, task, rejoinD>>
memberVars == <<joins, member, generation, coordinator>>
beatVars == <<looper, beat>>
consVars == <<held, live, failed, closing>>
history == <<crashed, fatal, late>>
vars == <<lifeVars, joinVars, memberVars, beatVars, consVars, stack, history>>

Idle == stack = <<>>
Frame(op, arg) == [op |-> op, arg |-> arg]
At(op) == stack # <<>> /\ Head(stack).op = op
Arg == Head(stack).arg
Call(frames) == stack' = frames \o stack
Then(frames) == stack' = frames \o Tail(stack)

Init ==
  /\ startD = "none" /\ outcome = "-" /\ stopping = FALSE /\ stops = 0 /\ leaving = "no"
  /\ rejoinNeeded = TRUE /\ waitDc = "none" /\ loose = 0
  /\ task = [t \in Tasks |-> "none"] /\ rejoinD = "none"
  /\ joins = 0 /\ member = FALSE /\ generation = None /\ coordinator = FALSE
  /\ looper = FALSE /\ beat = None
  /\ held = {} /\ live = {} /\ failed = {} /\ closing = {}
  /\ stack = <<>> /\ crashed = "-" /\ fatal = FALSE /\ late = {}

-----------------------------------------------------------------------------
(* Joining.                                                                *)

Start ==
  /\ Idle /\ startD = "none"
  /\ startD' = "waiting" /\ outcome' = "-"
  /\ Call(<<Frame("joinAndSync", "-")>>)
  /\ UNCHANGED <<stopping, stops, leaving, joinVars, memberVars, beatVars, consVars,
                 history>>

(* The reactor makes the delayed call that _rejoin_wait_dc refers to, or   *)
(* one that it does not refer to.                                          *)
RejoinCall ==
  /\ Idle /\ \E t \in Tasks : task[t] = "none"
  /\ \/ waitDc = "active" /\ waitDc' = "dead" /\ UNCHANGED loose
     \/ loose > 0 /\ loose' = loose - 1 /\ UNCHANGED waitDc
  /\ Call(<<Frame("joinAndSync", "-")>>)
  /\ UNCHANGED <<lifeVars, rejoinNeeded, task, rejoinD, memberVars, beatVars, consVars,
                 history>>

(* self._rejoin_wait_dc = None, whichever call this is: a delayed call     *)
(* that is still to come is no longer referred to.                         *)
MayRejoin == rejoinNeeded /\ rejoinD = "none"

JoinAndSync ==
  /\ At("joinAndSync") /\ Then(<<>>)
  /\ waitDc' = "none"
  /\ loose' = IF waitDc = "active" THEN loose + 1 ELSE loose
  /\ IF MayRejoin
       THEN LET t == CHOOSE u \in Tasks : task[u] = "none"
            IN task' = [task EXCEPT ![t] = "coordinator"] /\ rejoinD' = t
       ELSE UNCHANGED <<task, rejoinD>>
  /\ UNCHANGED <<lifeVars, rejoinNeeded, memberVars, beatVars, consVars, history>>

Advance(t, stage) == task' = [task EXCEPT ![t] = stage] /\ UNCHANGED rejoinD
(* The coroutine returns, and cleanup_rejoin_d() runs. *)
Finish(t) == task' = [task EXCEPT ![t] = "none"] /\ rejoinD' = "none"

(* There is no coordinator, or the lookup fails with a KafkaError. *)
LookupAgainNot == UNCHANGED loose
LookupAgain == loose' = loose + 1

GetCoordinatorFailed(t) ==
  /\ Idle /\ task[t] = "coordinator"
  /\ Finish(t) /\ LookupAgain
  /\ UNCHANGED <<lifeVars, rejoinNeeded, waitDc, memberVars, beatVars, consVars, stack,
                 history>>

GetCoordinatorSuccess(t) ==
  /\ Idle /\ task[t] = "coordinator"
  /\ Advance(t, "metadata")
  /\ UNCHANGED <<lifeVars, rejoinNeeded, waitDc, loose, memberVars, beatVars, consVars,
                 stack, history>>

(* An exception leaves _join_and_sync(): rejoin_d_errback() logs it.  The  *)
(* lookup fails with something other than a KafkaError, or one of the two  *)
(* metadata loads fails with anything.                                     *)
JoinRaises(t) ==
  /\ Idle /\ task[t] \in {"coordinator", "metadata", "partitions"}
  /\ Finish(t) /\ crashed' = task[t]
  /\ UNCHANGED <<lifeVars, rejoinNeeded, waitDc, loose, memberVars, beatVars, consVars,
                 stack, fatal, late>>

(* shutdown_consumers(), up to its yield.  A shutdown() that ends at once  *)
(* is one that ends before anything else happens.                          *)
ShutdownConsumers(who) ==
  /\ held' = {}
  /\ closing' = closing \cup {[who |-> who, which |-> held]}
  /\ UNCHANGED <<live, failed>>

AlwaysNothing == TRUE
NothingToShutDown == held = {}

MetadataLoaded(t) ==
  /\ Idle /\ task[t] = "metadata"
  /\ IF stopping
       THEN Finish(t) /\ UNCHANGED <<coordinator, consVars>>
       ELSE /\ coordinator' = TRUE
            /\ IF NothingToShutDown THEN Advance(t, "join") /\ UNCHANGED consVars
                                    ELSE Advance(t, "prepare") /\ ShutdownConsumers(t)
  /\ UNCHANGED <<lifeVars, rejoinNeeded, waitDc, loose, joins, member, generation,
                 beatVars, stack, history>>

(* on_join_prepare() is done; nothing looks at _stopping here. *)
SendJoin ==
  /\ At("sendJoin") /\ Then(<<>>)
  /\ task' = [task EXCEPT ![Arg] = "join"]
  /\ UNCHANGED <<lifeVars, rejoinNeeded, waitDc, loose, rejoinD, memberVars, beatVars,
                 consVars, history>>

(* A leader has to load the partitions before it can assign them. *)
JoinGroupSuccess(t, leader) ==
  /\ Idle /\ task[t] = "join" /\ joins < MaxJoins
  /\ joins' = joins + 1 /\ generation' = joins' /\ member' = TRUE
  /\ IF stopping THEN Finish(t)
                 ELSE Advance(t, IF leader THEN "partitions" ELSE "sync")
  /\ UNCHANGED <<lifeVars, rejoinNeeded, waitDc, loose, coordinator, beatVars, consVars,
                 stack, history>>

PartitionsLoaded(t) ==
  /\ Idle /\ task[t] = "partitions"
  /\ Advance(t, "sync")
  /\ UNCHANGED <<lifeVars, rejoinNeeded, waitDc, loose, memberVars, beatVars, consVars,
                 stack, history>>

(* The error handler of a JoinGroup or SyncGroup request returns None, on  *)
(* which the coroutine returns.                                            *)
JoinOrSyncFails(t, cls) ==
  /\ Idle /\ task[t] \in {"join", "sync"} /\ cls # "cancelled"
  /\ Finish(t)
  /\ Call(<<Frame("rejoinAfterError", cls)>>)
  /\ UNCHANGED <<lifeVars, rejoinNeeded, waitDc, loose, memberVars, beatVars, consVars,
                 history>>

(* A call of stop() waits for consumers. *)
StopWaits == \E w \in closing : w.who \notin Tasks

HeartbeatNotRestarted == looper
ResetHeartbeatTimer == TRUE

(* The assignment arrives: heartbeats, and on_join_complete(). *)
SyncGroupSuccess(t, assignment) ==
  /\ Idle /\ task[t] = "sync"
  /\ Finish(t)
  /\ IF stopping
       THEN UNCHANGED <<rejoinNeeded, looper, held, live, late>>
       ELSE /\ looper' = ResetHeartbeatTimer /\ rejoinNeeded' = FALSE
            /\ LET started == {generation} \X assignment
               IN /\ held' = held \cup started /\ live' = live \cup started
                  /\ late' = IF StopWaits THEN late \cup started ELSE late
  /\ UNCHANGED <<lifeVars, waitDc, loose, memberVars, beat, failed, closing, stack,
                 crashed, fatal>>

-----------------------------------------------------------------------------
(* Heartbeats.                                                             *)

MayBeat == ~stopping /\ ~rejoinNeeded /\ beat = None

Heartbeat ==
  /\ Idle /\ looper /\ MayBeat
  /\ beat' = generation
  /\ UNCHANGED <<lifeVars, joinVars, memberVars, looper, consVars, stack, history>>

HandleHeartbeatSuccess ==
  /\ Idle /\ beat # None
  /\ beat' = None
  /\ UNCHANGED <<lifeVars, joinVars, memberVars, looper, consVars, stack, history>>

(* LoopingCall.stop() asserts that it is running: if it were not, nothing  *)
(* after it would be done.                                                 *)
HandleHeartbeatFailure(cls) ==
  /\ Idle /\ beat # None /\ cls # "cancelled"
  /\ beat' = None /\ looper' = FALSE
  /\ IF looper THEN Call(<<Frame("rejoinAfterError", cls)>>) ELSE UNCHANGED stack
  /\ UNCHANGED <<lifeVars, joinVars, memberVars, consVars, history>>

-----------------------------------------------------------------------------
(* Errors.                                                                 *)

Handled(cls) == cls \in {"retry", "generation", "member"}
LeavesGroupOnlyRejected(cls) == cls \in {"generation", "member"}
LeavesGroup(cls) == cls # "retry"

RejoinAfterError ==
  /\ At("rejoinAfterError")
  /\ IF Arg = "cancelled" /\ stopping
       THEN Then(<<>>) /\ UNCHANGED fatal
       ELSE /\ Then((IF LeavesGroup(Arg) THEN <<Frame("onGroupLeave", "-")>> ELSE <<>>)
                    \o (IF Handled(Arg) THEN <<Frame("scheduleRejoin", Arg)>>
                                        ELSE <<Frame("stop", "error")>>))
            /\ fatal' = (fatal \/ (~Handled(Arg) /\ startD = "waiting" /\ ~stopping))
  /\ UNCHANGED <<lifeVars, joinVars, memberVars, beatVars, consVars, crashed,
                 late>>

(* The end of rejoin_after_error(), with what "member" does before it. *)
ScheduleRejoin ==
  /\ At("scheduleRejoin") /\ Then(<<>>)
  /\ member' = (member /\ Arg # "member")
  /\ rejoinNeeded' = TRUE
  /\ waitDc' = IF waitDc = "none" THEN "active" ELSE waitDc
  /\ UNCHANGED <<lifeVars, loose, task, rejoinD, joins, generation, coordinator, beatVars,
                 consVars, history>>

(* on_group_leave(): stop_consumers(). *)
StopFrames(which) == [i \in DOMAIN SetToSeq(which) |-> Frame("stopConsumer", SetToSeq(which)[i])]

LeaveStillHolding ==
  /\ At("onGroupLeave") /\ Then(StopFrames(held))
  /\ UNCHANGED <<lifeVars, joinVars, memberVars, beatVars, held, live, failed, closing, history>>
OnGroupLeave ==
  /\ At("onGroupLeave") /\ held' = {} /\ Then(StopFrames(held))
  /\ UNCHANGED <<lifeVars, joinVars, memberVars, beatVars, live, failed, closing, history>>

(* consumer.stop(), if the consumer still runs.  It may fail the start()   *)
(* Deferred with what it cancels: a CancelledError, or the Kafka error     *)
(* that the client turns a cancelled request into.                         *)
StopConsumer ==
  /\ At("stopConsumer")
  /\ live' = live \ {Arg}
  /\ \/ Then(<<>>) /\ UNCHANGED failed
     \/ /\ Arg \in live \ failed
        /\ failed' = failed \cup {Arg}
        /\ \E cls \in {"cancelled", "retry"} : Then(<<Frame("onConsumerError", cls)>>)
  /\ UNCHANGED <<lifeVars, joinVars, memberVars, beatVars, held, closing, history>>

ConsumerFails(c, cls) ==
  /\ Idle /\ c \in live \ failed
  /\ failed' = failed \cup {c}
  /\ Call(<<Frame("onConsumerError", cls)>>)
  /\ UNCHANGED <<lifeVars, joinVars, memberVars, beatVars, held, live, closing, history>>

ExpectedError(cls) == cls = "cancelled" /\ held = {}

OnConsumerError ==
  /\ At("onConsumerError")
  /\ Then(IF ExpectedError(Arg) THEN <<>> ELSE <<Frame("rejoinAfterError", Arg)>>)
  /\ UNCHANGED <<lifeVars, joinVars, memberVars, beatVars, consVars, history>>

-----------------------------------------------------------------------------
(* Shutting down and stopping.                                             *)

Resume(who) ==
  IF who \in Tasks THEN Frame("sendJoin", who) ELSE Frame("coordinatorStop", who)

(* A consumer's shutdown() calls stop() and then fires its Deferred. *)
ShutdownEnds(w, c, ok) ==
  /\ Idle /\ w \in closing /\ c \in w.which \cap live
  /\ Call(<<Frame("stopConsumer", c), Frame("shutDown", [wait |-> w, ok |-> ok])>>)
  /\ UNCHANGED <<lifeVars, joinVars, memberVars, beatVars, consVars, history>>

(* The DeferredList of shutdown_consumers() fires when all have ended or   *)
(* one has failed; in the second case the others are stopped.              *)
OthersLeftRunning(which) == {}
OthersToStop(which) == which \cap live

ShutDown ==
  /\ At("shutDown")
  /\ LET w == Arg.wait
     IN IF w \notin closing \/ (Arg.ok /\ w.which \cap live # {})
          THEN Then(<<>>) /\ UNCHANGED closing
          ELSE /\ closing' = closing \ {w}
               /\ Then(StopFrames(OthersToStop(w.which)) \o <<Resume(w.who)>>)
  /\ UNCHANGED <<lifeVars, joinVars, memberVars, beatVars, held, live, failed, history>>

UserStop ==
  /\ Idle /\ stops < MaxStops
  /\ stops' = stops + 1
  /\ Call(<<Frame("stop", "ok")>>)
  /\ UNCHANGED <<startD, outcome, stopping, leaving, joinVars, memberVars, beatVars,
                 consVars, history>>

(* ConsumerGroup.stop(errback_result) *)
Stop ==
  /\ At("stop")
  /\ IF NothingToShutDown
       THEN Then(<<Frame("coordinatorStop", Arg)>>) /\ UNCHANGED consVars
       ELSE Then(<<>>) /\ ShutdownConsumers(Arg)
  /\ UNCHANGED <<lifeVars, joinVars, memberVars, beatVars, history>>


(* Coordinator.stop(), up to its yield.  Cancelling the heartbeat runs its *)
(* error handler, which finds _stopping set.                               *)
CoordinatorStop ==
  /\ At("coordinatorStop")
  /\ IF startD = "none" \/ stopping
       THEN /\ Then(<<>>)  \* RestopError
            /\ UNCHANGED <<stopping, leaving, rejoinNeeded, waitDc, beatVars>>
       ELSE /\ stopping' = TRUE /\ rejoinNeeded' = FALSE
            /\ waitDc' = IF waitDc = "active" THEN "dead" ELSE waitDc
            /\ beat' = None /\ looper' = FALSE
            /\ IF coordinator /\ member
                 THEN leaving' = Arg /\ Then(<<>>)
                 ELSE Then(<<Frame("stopEnd", Arg)>>) /\ UNCHANGED leaving
  /\ UNCHANGED <<startD, outcome, stops, loose, task, rejoinD, memberVars, consVars,
                 history>>

AfterLeaveGroupIfOk(ok) == IF ok THEN <<Frame("stopEnd", leaving)>> ELSE <<>>
AfterLeaveGroup(ok) == <<Frame("stopEnd", leaving)>>

LeaveGroupEnds(ok) ==
  /\ Idle /\ leaving # "no"
  /\ leaving' = "no"
  /\ Call(AfterLeaveGroup(ok))
  /\ IF ok THEN member' = FALSE /\ generation' = None ELSE UNCHANGED <<member, generation>>
  /\ UNCHANGED <<startD, outcome, stopping, stops, joinVars, joins, coordinator, beatVars,
                 consVars, history>>

(* self._rejoin_d.cancel() ends a run of _join_and_sync(), except one that *)
(* waits in shutdown_consumers(): there the cancellation is an error like  *)
(* any other, the consumers are stopped, and the run goes on.              *)
StopEnd ==
  /\ At("stopEnd")
  /\ rejoinD' = "none"
  /\ LET waits == {w \in closing : w.who = rejoinD}
         which == UNION {w.which : w \in waits}
     IN /\ closing' = closing \ waits
        /\ Then(StopFrames(which \cap live)
                \o (IF waits # {} THEN <<Resume(rejoinD)>> ELSE <<>>)
                \o <<Frame("stopped", Arg)>>)
  /\ task' = [t \in Tasks |-> IF t = rejoinD /\ task[t] # "prepare" THEN "none" ELSE task[t]]
  /\ UNCHANGED <<lifeVars, rejoinNeeded, waitDc, loose, memberVars, beatVars, held, live,
                 failed, history>>

Stopped ==
  /\ At("stopped") /\ Then(<<>>)
  /\ member' = FALSE /\ generation' = None /\ coordinator' = FALSE
  /\ startD' = "none" /\ outcome' = Arg
  /\ UNCHANGED <<stopping, stops, leaving, joinVars, joins, beatVars, consVars, history>>

-----------------------------------------------------------------------------
Rejoining ==
  \E t \in Tasks :
    \/ GetCoordinatorFailed(t) \/ GetCoordinatorSuccess(t) \/ JoinRaises(t)
    \/ MetadataLoaded(t) \/ PartitionsLoaded(t)
    \/ \E leader \in BOOLEAN : JoinGroupSuccess(t, leader)
    \/ \E cls \in Errors : JoinOrSyncFails(t, cls)
    \/ \E assignment \in SUBSET Partitions : SyncGroupSuccess(t, assignment)

(* The calls made inside a handler: plain code, which runs to its end. *)
Inside ==
  \/ JoinAndSync \/ SendJoin \/ RejoinAfterError \/ ScheduleRejoin \/ OnGroupLeave
  \/ StopConsumer \/ OnConsumerError \/ ShutDown \/ Stop \/ CoordinatorStop \/ StopEnd
  \/ Stopped

ConsumersShutDown == \E w \in closing, ok \in BOOLEAN : \E c \in w.which : ShutdownEnds(w, c, ok)

Next ==
  \/ Start \/ RejoinCall \/ Rejoining \/ Inside
  \/ Heartbeat \/ HandleHeartbeatSuccess \/ \E cls \in Errors : HandleHeartbeatFailure(cls)
  \/ \E c \in Consumers, cls \in Errors : ConsumerFails(c, cls)
  \/ ConsumersShutDown \/ UserStop \/ \E ok \in BOOLEAN : LeaveGroupEnds(ok)

Spec == Init /\ [][Next]_vars

-----------------------------------------------------------------------------
(* Types, and that the dict holds only consumers that have not been        *)
(* stopped.                                                                *)
TypeOK ==
  /\ startD \in {"none", "waiting"} /\ outcome \in {"-", "ok", "error"}
  /\ stopping \in BOOLEAN /\ stops \in 0 .. MaxStops /\ leaving \in {"no", "ok", "error"}
  /\ rejoinNeeded \in BOOLEAN /\ waitDc \in {"none", "active", "dead"} /\ loose \in Nat
  /\ task \in [Tasks -> Stages] /\ rejoinD \in Tasks \cup {"none"}
  /\ joins \in 0 .. MaxJoins /\ member \in BOOLEAN /\ generation \in 0 .. joins
  /\ coordinator \in BOOLEAN /\ looper \in BOOLEAN /\ beat \in 0 .. joins
  /\ held \subseteq live /\ live \cup failed \cup late \subseteq Consumers
  /\ \A w \in closing : w.who \in Tasks \cup {"ok", "error"} /\ w.which \subseteq Consumers
  /\ crashed \in Stages \cup {"-"} /\ fatal \in BOOLEAN

Running == startD = "waiting" /\ ~stopping
StopWaitsFor(c) == \E w \in closing : w.who \notin Tasks /\ c \in w.which
RejoinComes == rejoinD # "none" \/ waitDc = "active" \/ loose > 0

(* A running member that needs to rejoin is rejoining or will be called    *)
(* again, unless rejoin_d_errback() has swallowed an error: "we'll be      *)
(* called again after a small delay" holds although join_and_sync()        *)
(* forgets _rejoin_wait_dc and ignores calls while a rejoin is under way.  *)
RejoinPending == (Idle /\ Running /\ rejoinNeeded /\ crashed = "-") => RejoinComes

(* The heartbeat timer runs as long as the member believes it has joined   *)
(* (and then there is a generation to send), which keeps its membership    *)
(* alive, and as long as a heartbeat is out: otherwise                     *)
(* _handle_heartbeat_failure(), which stops the timer first, would raise   *)
(* and lose the rejoin.                                                    *)
HeartbeatTimerRuns ==
  /\ beat # None => looper
  /\ (Idle /\ Running /\ ~rejoinNeeded) => looper /\ generation # None

(* The state has its type, and a running member stays one or gets back in. *)
StaysMember == TypeOK /\ RejoinPending /\ HeartbeatTimerRuns

(* Nobody consumes for an old generation once the member asks to be in a   *)
(* new one ("all currently-held partition consumers will commit and        *)
(* close"), except consumers that a call of stop() waits for.              *)
NoOverlap ==
  Idle => \A c \in live :
    \/ StopWaitsFor(c)
    \/ /\ \A d \in live : d[1] <= c[1]
       /\ \A t \in Tasks : task[t] \notin {"join", "partitions", "sync"}

(* "otherwise we will shutdown and raise it on our start() deferred": an   *)
(* error that is not handled is what start() reports, even if the user     *)
(* calls stop() at the same time.                                          *)
FatalIsReported == (startD = "none" /\ fatal) => outcome = "error"

(* A member that has stopped leaves no consumer behind, except those that  *)
(* another call of stop() is shutting down and those that a rejoin has     *)
(* started while stop() was waiting for the earlier ones.                  *)
StopLeavesOnlyLate ==
  (Idle /\ stopping /\ startD = "none") =>
    \A c \in live : c \in late \/ StopWaitsFor(c)

(* A call of stop() on a running member ends with start()'s Deferred fired *)
(* and _start_d cleared, whatever joins, heartbeats and errors do.         *)
StopCompletes == (At("stop") /\ Running) ~> startD = "none"

(* The handlers run to their end, shutdowns end and LeaveGroup is answered *)
(* (or times out); an event may have to wait for others again and again.   *)
FairSpec ==
  /\ Spec /\ WF_vars(Inside)
  /\ SF_vars(ConsumersShutDown) /\ SF_vars(\E ok \in BOOLEAN : LeaveGroupEnds(ok))

-----------------------------------------------------------------------------
(* What the documentation and the tests say and the code does not do.      *)

(* join_and_sync(): "Failures will result in join_and_sync being           *)
(* rescheduled to run again after a short delay, until it succeeds."  (A   *)
(* lookup that fails with no KafkaError is documented not to be.)          *)
RescheduledUntilItSucceeds ==
  (Idle /\ Running /\ rejoinNeeded /\ crashed # "coordinator") => RejoinComes

(* test_start_stop: after stop() the group has no consumers. *)
StopEmptiesTheGroup == (Idle /\ stopping /\ startD = "none") => held = {}

(* A stopping member does not ask to join ("if not coordinator_broker or   *)
(* self._stopping: return").                                               *)
StoppingNeverJoins ==
  [][\A t \in Tasks : task[t] # "join" /\ task'[t] = "join" => ~stopping]_vars
=============================================================================
