------------------------------ MODULE Consumer ------------------------------
(***************************************************************************)
(* afkak.Consumer: it fetches the messages of one partition, hands them to *)
(* the processor in blocks, and commits the offset of the last processed   *)
(* message to Kafka.                                                       *)
(*                                                                         *)
(* Everything a handler does happens before the reactor runs again, but a  *)
(* handler fires and cancels Deferreds whose callbacks are handlers in     *)
(* turn (stop() cancels the processor, whose generator resumes, ...).      *)
(* `stack' is the rest of the calls in progress, innermost first: every    *)
(* step with a non-empty stack performs its first frame, and the reactor   *)
(* (a response, a timer, the caller) acts only when it is empty.           *)
(*                                                                         *)
(* The caller's own code runs in the reactor's turns and in the processor, *)
(* which may call stop() or shutdown().  A processor's Deferred fires when *)
(* it is cancelled.                                                        *)
(***************************************************************************)
EXTENDS Integers, FiniteSets, Sequences, SequencesExt

CONSTANTS
  LastOffset,   \* the log holds the offsets 0 .. LastOffset
  StartAt,      \* start() is called with "zero", "earliest", "latest" or "committed"
  Group,        \* a consumer_group is set
  EveryN,       \* auto_commit_every_n, 0 disables
  Timer,        \* auto_commit_every_ms is not 0
  MaxAttempts,  \* request_retry_max_attempts
  Reset,        \* auto_offset_reset: "none", "earliest" or "latest"
  Corrupt,      \* a fetched message may be undecodable
  MaxStarts,    \* bound: calls of start()
  MaxWaiters    \* bound: _commit_ds, for calls from outside

OFFSET_LATEST    == -1
OFFSET_EARLIEST  == -2
OFFSET_COMMITTED == -101
Named(name) == CASE name = "zero" -> 0
                 [] name = "earliest" -> OFFSET_EARLIEST
                 [] name = "latest" -> OFFSET_LATEST
                 [] name = "committed" -> OFFSET_COMMITTED
None    == -1             \* no offset, OFFSET_NOT_COMMITTED
Offsets == 0 .. LastOffset

ASSUME ConsumerAssumption ==
  /\ LastOffset \in Nat /\ EveryN \in Nat /\ MaxAttempts \in Nat
  /\ Reset \in {"none", "earliest", "latest"}
  /\ StartAt \in {"zero", "earliest", "latest", "committed"}
  /\ {Group, Timer, Corrupt} \subseteq BOOLEAN
  /\ ~Group => EveryN = 0 /\ ~Timer   \* else __init__() raises ValueError
  /\ MaxStarts \in Nat /\ MaxWaiters \in Nat

VARIABLES
  startD,    \* _start_d: "none", "waiting" or "fired"
  outcome,   \* what the Deferred of the last start() fired with
  starts,    \* how often start() was called
  stopping,  \* _stopping
  shutting,  \* _shuttingdown
  shutD,     \* the Deferred of the last shutdown(): "none", "waiting" (_shutdown_d),
             \* "taken" (_shutdown_d is None, not fired yet), "ok", "failed"
  maxTries,  \* request_retry_max_attempts, which shutdown() changes
  fetchOff,  \* _fetch_offset
  request,   \* _request_d: "none", "offset", "committed", "fetch", or fired and
             \* still set: "parked" behind _msg_block_d, "dropped" by stop()
  parked,    \* the response that waits for _msg_block_d
  retry,     \* _retry_call: "none", "active" or "dead"
  tries,     \* _fetch_attempt_count
  blockD,    \* _msg_block_d is set
  next,      \* first offset of the block at hand in _process_messages()
  last,      \* last offset of `messages' there
  proc,      \* _processor_d: "none" or "pending"
  procShut,  \* shutdown() has added _commit_and_stop() to it
  processed, \* _last_processed_offset
  committed, \* _last_committed_offset
  stored,    \* the offset Kafka has for the group
  waiters,   \* _commit_ds, by what each Deferred's callbacks do
  commitReq, \* _commit_req: the offset in flight
  commitTry, \* its `attempt'
  commitCall,\* _commit_call: "none", "active" or "dead"
  looper,    \* _commit_looper runs
  stack,     \* the calls in progress
  asked,     \* history: offsets given to the processor since start()
  done,      \* history: those it has finished with success
  skipped,   \* history: those it failed on, or that were cancelled
  fails,     \* history: consecutive failed fetch attempts
  raised     \* history: exceptions that left stop()

lifeVars   == <<startD, outcome, starts, stopping, shutting, shutD, maxTries>>
fetchVars  == <<fetchOff, request, parked, retry, tries, fails>>
procVars   == <<blockD, next, last, proc, procShut, processed, asked, done, skipped>>
commitVars == <<committed, stored, waiters, commitReq, commitTry, commitCall, looper>>
vars == <<lifeVars, fetchVars, procVars, commitVars, stack, raised>>

-----------------------------------------------------------------------------
(* The stack.                                                              *)

Frame(op, how) == [op |-> op, how |-> how]
Calls(ops) == [i \in 1 .. Len(ops) |-> Frame(ops[i], "-")]

Idle == stack = <<>>
At(op) == stack # <<>> /\ Head(stack).op = op
How == Head(stack).how
Then(frames) == stack' = frames \o Tail(stack)

(* What stop() does after its check.  `end' marks where a Deferred catches *)
(* an exception, `return' where the caller of stop() sees it.              *)
Stop == Calls(<<"stop", "cancelRequest", "cancelBlock", "cancelProcessor",
                "cancelRetry", "cancelWaiters", "cancelCommitReq",
                "cancelCommitCall", "stopLooper", "stopped">>)

(* An exception drops the frames up to whoever catches it.                 *)
Raise(exc) ==
  LET i == SelectInSeq(stack, LAMBDA f : f.op \in {"end", "return"})
  IN /\ stack' = SubSeq(stack, i + 1, Len(stack))
     /\ raised' = raised \cup (IF stack[i].op = "return" THEN {exc} ELSE {})

(* self._start_d.errback(): on a Deferred that has fired, or on None, it   *)
(* raises, which only the Deferred that runs the handler notices.          *)
FailStartNotForProcessor(why) ==
  IF startD = "waiting" /\ why # "processor" THEN startD' = "fired" /\ outcome' = why
                                             ELSE UNCHANGED <<startD, outcome>>
FailStart(why) ==
  IF startD = "waiting" THEN startD' = "fired" /\ outcome' = why
                        ELSE UNCHANGED <<startD, outcome>>

Saturate(n) == IF n >= 2 /\ n >= MaxAttempts THEN n ELSE n + 1
ExhaustedOneLater(n) == maxTries # 0 /\ n > maxTries
Exhausted(n) == maxTries # 0 /\ n >= maxTries

Init ==
  /\ startD = "none" /\ outcome = "pending" /\ starts = 0
  /\ stopping = FALSE /\ shutting = FALSE /\ shutD = "none" /\ maxTries = MaxAttempts
  /\ fetchOff = None /\ request = "none" /\ parked = [hi |-> None, how |-> "fine"]
  /\ retry = "none" /\ tries = 1 /\ fails = 0
  /\ blockD = FALSE /\ next = 0 /\ last = None /\ proc = "none" /\ procShut = FALSE
  /\ processed = None /\ asked = {} /\ done = {} /\ skipped = {}
  /\ committed = None /\ stored \in {None, 0} /\ waiters = <<>> /\ commitReq = None
  /\ commitTry = 1 /\ commitCall = "none" /\ looper = FALSE
  /\ stack = <<>> /\ raised = {}

-----------------------------------------------------------------------------
(* Fetching.                                                               *)

Start ==
  /\ Idle /\ startD = "none" /\ starts < MaxStarts
  /\ startD' = "waiting" /\ outcome' = "pending" /\ starts' = starts + 1
  /\ fetchOff' = Named(StartAt)
  /\ looper' = Timer
  /\ asked' = {} /\ done' = {} /\ skipped' = {}
  /\ stack' = Calls(<<"fetch">>)
  /\ UNCHANGED <<stopping, shutting, shutD, maxTries, request, parked, retry, tries,
                 fails, blockD, next, last, proc, procShut, processed, committed,
                 stored, waiters, commitReq, commitTry, commitCall, raised>>

RequestFor(off) == CASE off \in {OFFSET_EARLIEST, OFFSET_LATEST} -> "offset"
                     [] off = OFFSET_COMMITTED -> "committed"
                     [] off >= 0 -> "fetch"

RetryCallKept == retry
RetryCallCleared == "none"

DoFetch ==
  /\ At("fetch") /\ Then(<<>>)
  /\ IF request # "none"
       THEN UNCHANGED <<retry, request, startD, outcome>>
       ELSE /\ retry' = RetryCallCleared
            /\ request' = RequestFor(fetchOff)
            /\ IF fetchOff = OFFSET_COMMITTED /\ ~Group
                 THEN FailStart("no group") ELSE UNCHANGED <<startD, outcome>>
  /\ UNCHANGED <<starts, stopping, shutting, shutD, maxTries, fetchOff, parked, tries,
                 fails, procVars, commitVars, raised>>

HandleOffsetResponse ==
  /\ Idle /\ request \in {"offset", "committed"}
  /\ request' = "none" /\ tries' = 1 /\ fails' = 0
  /\ IF request = "offset"
       THEN fetchOff' \in 0 .. LastOffset + 1 /\ UNCHANGED committed
       ELSE IF stored = None
       THEN /\ fetchOff' = IF Reset = "latest" THEN OFFSET_LATEST ELSE OFFSET_EARLIEST
            /\ UNCHANGED committed
       ELSE fetchOff' = stored + 1 /\ committed' = stored
  /\ stack' = Calls(<<"fetch">>)
  /\ UNCHANGED <<lifeVars, parked, retry, procVars, stored, waiters, commitReq,
                 commitTry, commitCall, looper, raised>>

GiveUpOrRetry ==
  /\ request' = "none"
  /\ fails' = IF How = "cancelled" THEN fails ELSE Saturate(fails)
  /\ IF stopping /\ How = "cancelled"
       THEN Then(<<>>) /\ UNCHANGED <<startD, outcome>>
       ELSE IF Exhausted(tries)
       THEN Then(<<>>) /\ FailStart(IF stopping THEN "cancelled" ELSE "exhausted")
       ELSE Then(Calls(<<"retryFetch">>)) /\ UNCHANGED <<startD, outcome>>

HandleOffsetError ==
  /\ At("offsetError") /\ GiveUpOrRetry
  /\ UNCHANGED <<starts, stopping, shutting, shutD, maxTries, fetchOff, parked, retry,
                 tries, procVars, commitVars, raised>>

HandleFetchError ==
  /\ At("fetchError")
  /\ IF How = "range" /\ Reset = "none"
       THEN /\ request' = "none" /\ FailStart("out of range") /\ Then(<<>>)
            /\ UNCHANGED <<fetchOff, fails>>
       ELSE /\ fetchOff' = IF How = "range" THEN Named(Reset) ELSE fetchOff
            /\ GiveUpOrRetry
  /\ UNCHANGED <<starts, stopping, shutting, shutD, maxTries, parked, retry, tries,
                 procVars, commitVars, raised>>

Outstanding == request \in {"offset", "committed", "fetch"}
RequestError(how) ==
  Frame(IF request = "fetch" THEN "fetchError" ELSE "offsetError", how)

RequestFails ==
  /\ Idle /\ Outstanding
  /\ \E how \in {"kafka"} \cup (IF request = "fetch" THEN {"range"} ELSE {}) :
       stack' = <<RequestError(how)>>
  /\ UNCHANGED <<lifeVars, fetchVars, procVars, commitVars, raised>>

RetryFetch ==
  /\ At("retryFetch") /\ Then(<<>>)
  /\ IF stopping \/ shutting \/ startD = "none" \/ retry # "none"
       THEN UNCHANGED <<retry, tries>>
       ELSE retry' = "active" /\ tries' = Saturate(tries)
  /\ UNCHANGED <<lifeVars, fetchOff, request, parked, fails, procVars, commitVars, raised>>

RetryCall ==
  /\ Idle /\ retry = "active"
  /\ retry' = "dead"
  /\ stack' = Calls(<<"fetch">>)
  /\ UNCHANGED <<lifeVars, fetchOff, request, parked, tries, fails, procVars,
                 commitVars, raised>>

(* The client delivers the messages fetchOff .. hi.  Instead of ending     *)
(* well the message set may be too small for its first message at the      *)
(* largest buffer size, or hold a message that cannot be decoded.          *)
FetchArrives(hi, how) ==
  /\ Idle /\ request = "fetch"
  /\ hi \in fetchOff - 1 .. LastOffset
  /\ how = "small" => hi = fetchOff - 1
  /\ how = "corrupt" => Corrupt
  /\ parked' = [hi |-> hi, how |-> how]
  /\ stack' = <<Frame("response", "direct")>>
  /\ UNCHANGED <<lifeVars, fetchOff, request, retry, tries, fails, procVars,
                 commitVars, raised>>

(* An exception is an error of the request if the response is handled when *)
(* it arrives; behind _msg_block_d there is nobody to handle it.           *)
AfterMessagesOnlyDirect == IF How = "direct" THEN Calls(<<"retryFetch">>) ELSE <<>>
AfterMessages ==
  IF parked.how = "fine" THEN Calls(<<"retryFetch">>)
  ELSE IF How = "direct" /\ (parked.how = "corrupt" \/ startD # "waiting")
  THEN <<Frame("fetchError", "kafka")>>
  ELSE <<>>

(* Still working through the last block of messages.                       *)
NeverBusy == FALSE
Busy == blockD

FetchLastAgain(offset) == offset
FetchAfter(offset) == offset + 1

HandleFetchResponse ==
  /\ At("response")
  /\ tries' = 1 /\ fails' = 0
  /\ IF Busy
       THEN /\ request' = "parked" /\ Then(<<>>)
            /\ UNCHANGED <<fetchOff, parked, blockD, next, last, startD, outcome>>
       ELSE /\ request' = "none"
            /\ parked' = [hi |-> None, how |-> "fine"]
            /\ IF parked.hi >= fetchOff
                 THEN /\ blockD' = TRUE /\ next' = fetchOff /\ last' = parked.hi
                      /\ fetchOff' = FetchAfter(parked.hi)
                      /\ Then(Calls(<<"process">>) \o AfterMessages)
                 ELSE /\ UNCHANGED <<blockD, next, last, fetchOff>>
                      /\ Then(AfterMessages)
            /\ IF parked.how = "small" THEN FailStart("too small")
                                       ELSE UNCHANGED <<startD, outcome>>
  /\ UNCHANGED <<starts, stopping, shutting, shutD, maxTries, retry, proc, procShut,
                 processed, asked, done, skipped, commitVars, raised>>

-----------------------------------------------------------------------------
(* Processing.                                                             *)

BlockEndOneMore == next + EveryN
BlockEnd == IF EveryN = 0 \/ next + EveryN - 1 > last THEN last ELSE next + EveryN - 1

(* The loop of _process_messages(): call the processor with the next       *)
(* block.  It returns a result, raises, or returns a Deferred, and it may  *)
(* call stop() or shutdown() first.                                        *)
Process ==
  /\ At("process")
  /\ IF next > last \/ shutting
       THEN Then(Calls(<<"blockDone">>)) /\ UNCHANGED asked
       ELSE /\ asked' = asked \cup next .. BlockEnd
            /\ \E how \in {"ok", "failed", "pending"} :
                 \/ Then(<<Frame("returned", how)>>)
                 \/ ~stopping /\ startD # "none"
                    /\ Then(Stop \o <<Frame("end", "-"), Frame("returned", how)>>)
                 \/ ~stopping /\ Then(<<Frame("shutdown", "-"), Frame("returned", how)>>)
  /\ UNCHANGED <<lifeVars, fetchVars, blockD, next, last, proc, procShut, processed,
                 done, skipped, commitVars, raised>>

BlockProcessed ==
  /\ processed' = BlockEnd
  /\ done' = done \cup next .. BlockEnd
  /\ UNCHANGED skipped
BlockSkipped ==
  /\ skipped' = skipped \cup next .. BlockEnd
  /\ UNCHANGED <<processed, done>>

Halted == stopping \/ startD = "none"

(* The processor has returned.                                             *)
ProcessorReturned ==
  /\ At("returned")
  /\ CASE How = "ok" ->
            /\ BlockProcessed
            /\ Then(<<Frame("autoCommit", "count"), Frame("advance", "-")>>)
            /\ UNCHANGED <<proc, startD, outcome>>
       [] How = "failed" ->
            /\ BlockSkipped /\ FailStart("processor")
            /\ Then(IF startD = "fired" /\ ~Halted THEN <<>> ELSE Calls(<<"advance">>))
            /\ UNCHANGED proc
       [] How = "pending" /\ Halted ->
            BlockSkipped /\ Then(Calls(<<"blockDone">>)) /\ UNCHANGED <<proc, startD, outcome>>
       [] How = "pending" /\ ~Halted ->
            /\ proc' = "pending" /\ Then(<<>>)
            /\ UNCHANGED <<processed, done, skipped, startD, outcome>>
  /\ UNCHANGED <<starts, stopping, shutting, shutD, maxTries, fetchVars, blockD, next,
                 last, procShut, asked, commitVars, raised>>

Advance ==
  /\ At("advance")
  /\ Then(Calls(<<IF Halted THEN "blockDone" ELSE "resume">>))
  /\ UNCHANGED <<lifeVars, fetchVars, procVars, commitVars, raised>>

Resume ==
  /\ At("resume")
  /\ next' = BlockEnd + 1
  /\ Then(Calls(<<"process">>))
  /\ UNCHANGED <<lifeVars, fetchVars, blockD, last, proc, procShut, processed, asked,
                 done, skipped, commitVars, raised>>

ShutdownNotTold == <<>>
ThenShutdown == IF procShut THEN Calls(<<"commitAndStop">>) ELSE <<>>

(* The Deferred of the processor fires.  A second failure raises           *)
(* AlreadyCalledError into the generator, which ends there.                *)
ProcessorFires ==
  /\ Idle /\ proc = "pending"
  /\ proc' = "none" /\ procShut' = FALSE
  /\ \/ /\ BlockProcessed
        /\ stack' = <<Frame("autoCommit", "count"), Frame("resume", "-")>> \o ThenShutdown
        /\ UNCHANGED <<startD, outcome>>
     \/ /\ BlockSkipped /\ FailStart("processor")
        /\ stack' = (IF startD = "fired" THEN <<>> ELSE Calls(<<"resume">>)) \o ThenShutdown
  /\ UNCHANGED <<starts, stopping, shutting, shutD, maxTries, fetchVars, blockD, next,
                 last, asked, commitVars, raised>>

BlockDone ==
  /\ At("blockDone")
  /\ blockD' = FALSE
  /\ Then(IF blockD /\ request = "parked" THEN <<Frame("response", "parked")>> ELSE <<>>)
  /\ UNCHANGED <<lifeVars, fetchVars, next, last, proc, procShut, processed, asked, done,
                 skipped, commitVars, raised>>

-----------------------------------------------------------------------------
(* Committing.  A member of _commit_ds is named by its callbacks.          *)

Waiters == {"toUser", "toAuto", "toRetryCount", "toRetryTimer", "toShutdown",
            "toShutdownAgain"}

AutoCommit ==
  /\ At("autoCommit")
  /\ LET off == stopping \/ shutting \/ startD = "none" \/ processed = None \/ ~Group
                \/ (How = "count" /\ EveryN = 0)
         due == How = "timer" \/ committed = None \/ processed - committed >= EveryN
     IN IF off \/ ~due THEN Then(<<>>) /\ UNCHANGED waiters
        ELSE IF waiters = <<>>
        THEN Then(<<Frame("commit", "toAuto")>>) /\ UNCHANGED waiters
        ELSE /\ Then(<<>>)
             /\ waiters' = Append(waiters, IF How = "count" THEN "toRetryCount"
                                                            ELSE "toRetryTimer")
  /\ UNCHANGED <<lifeVars, fetchVars, procVars, committed, stored, commitReq, commitTry,
                 commitCall, looper, raised>>

TimerFires ==
  /\ Idle /\ looper /\ Len(waiters) < MaxWaiters
  /\ stack' = <<Frame("autoCommit", "timer")>>
  /\ UNCHANGED <<lifeVars, fetchVars, procVars, commitVars, raised>>

FetchedOffset == fetchOff - 1
CommitOffset == processed

SendCommitRequest(attempt) ==
  /\ commitReq' = CommitOffset
  /\ commitTry' = attempt
  /\ commitCall' = IF commitCall = "dead" THEN "none" ELSE commitCall

Commit ==
  /\ At("commit")
  /\ IF processed = None \/ processed = committed
       THEN /\ Then(IF How = "toShutdown" THEN <<Frame("finishShutdown", "ok")>> ELSE <<>>)
            /\ UNCHANGED <<waiters, commitReq, commitTry, commitCall>>
       ELSE IF waiters # <<>>
       THEN /\ waiters' = Append(waiters, IF How = "toShutdown" THEN "toShutdownAgain"
                                                                ELSE How)
            /\ Then(<<>>)
            /\ UNCHANGED <<commitReq, commitTry, commitCall>>
       ELSE waiters' = <<How>> /\ SendCommitRequest(1) /\ Then(<<>>)
  /\ UNCHANGED <<lifeVars, fetchVars, procVars, committed, stored, looper, raised>>

UserCommit ==
  /\ Idle /\ Group /\ Len(waiters) < MaxWaiters
  /\ stack' = <<Frame("commit", "toUser")>>
  /\ UNCHANGED <<lifeVars, fetchVars, procVars, commitVars, raised>>

(* _deliver_commit_result(): the list is cleared first, and popped.        *)
Deliver(result) == [i \in 1 .. Len(waiters) |-> Frame(Reverse(waiters)[i], result)]

CommitSucceeds ==
  /\ Idle /\ commitReq # None
  /\ committed' = commitReq /\ stored' = commitReq /\ commitReq' = None
  /\ waiters' = <<>> /\ stack' = Deliver("ok")
  /\ UNCHANGED <<lifeVars, fetchVars, procVars, commitTry, commitCall, looper, raised>>

(* The commit may have reached Kafka all the same.                         *)
CommitFails ==
  /\ Idle /\ commitReq # None
  /\ stored' \in {stored, commitReq}
  /\ \E how \in {"kafka", "final"} : stack' = <<Frame("commitError", how)>>
  /\ UNCHANGED <<lifeVars, fetchVars, procVars, committed, waiters, commitReq, commitTry,
                 commitCall, looper, raised>>

NoCommitRetry == UNCHANGED <<commitCall, commitTry>>
RetryCommit == commitCall' = "active" /\ commitTry' = Saturate(commitTry)

HandleCommitError ==
  /\ At("commitError")
  /\ commitReq' = None
  /\ IF How # "kafka" \/ Exhausted(commitTry)
       THEN /\ waiters' = <<>>
            /\ Then(Deliver(IF stopping /\ How = "cancelled" THEN "ok" ELSE "failed"))
            /\ UNCHANGED <<commitTry, commitCall>>
       ELSE /\ RetryCommit
            /\ Then(<<>>) /\ UNCHANGED waiters
  /\ UNCHANGED <<lifeVars, fetchVars, procVars, committed, stored, looper, raised>>

CommitCall ==
  /\ Idle /\ commitCall = "active"
  /\ commitReq' = CommitOffset /\ commitCall' = "none"
  /\ UNCHANGED <<lifeVars, fetchVars, procVars, committed, stored, waiters, commitTry,
                 looper, stack, raised>>

(* A Deferred of _commit_ds fires.                                         *)
CommitAnswered ==
  /\ stack # <<>> /\ Head(stack).op \in Waiters
  /\ LET who == Head(stack).op IN
     /\ CASE who = "toShutdown" -> Then(<<Frame("finishShutdown", How)>>)
          [] who = "toShutdownAgain" /\ How = "ok" -> Then(Calls(<<"commitAndStop">>))
          [] who = "toRetryCount" /\ How = "ok" -> Then(<<Frame("autoCommit", "count")>>)
          [] who = "toRetryTimer" /\ How = "ok" -> Then(<<Frame("autoCommit", "timer")>>)
          [] OTHER -> Then(<<>>)
     /\ IF who = "toAuto" /\ How # "ok" THEN FailStart(How) ELSE UNCHANGED <<startD, outcome>>
  /\ UNCHANGED <<starts, stopping, shutting, shutD, maxTries, fetchVars, procVars,
                 commitVars, raised>>

-----------------------------------------------------------------------------
(* shutdown()                                                              *)

CallShutdown ==
  /\ Idle /\ startD # "none" /\ shutD # "waiting"
  /\ stack' = Calls(<<"shutdown">>)
  /\ UNCHANGED <<lifeVars, fetchVars, procVars, commitVars, raised>>

Shutdown ==
  /\ At("shutdown")
  /\ IF startD = "none" \/ shutD = "waiting"
       THEN Then(<<>>) /\ UNCHANGED <<shutting, shutD, maxTries, procShut>>
       ELSE /\ shutting' = TRUE /\ shutD' = "waiting"
            /\ maxTries' = IF maxTries = 0 THEN 2 ELSE maxTries
            /\ procShut' = (proc = "pending")
            /\ Then(IF proc = "pending" THEN <<>> ELSE Calls(<<"commitAndStop">>))
  /\ UNCHANGED <<startD, outcome, starts, stopping, fetchVars, blockD, next, last, proc,
                 processed, asked, done, skipped, commitVars, raised>>

CommitAndStop ==
  /\ At("commitAndStop")
  /\ Then(<<IF Group THEN Frame("commit", "toShutdown") ELSE Frame("finishShutdown", "ok")>>)
  /\ UNCHANGED <<lifeVars, fetchVars, procVars, commitVars, raised>>

FinishShutdown ==
  /\ At("finishShutdown")
  /\ shutD' = IF shutD = "waiting" THEN "taken" ELSE shutD
  /\ Then(Stop \o <<Frame("shutdownDone", How), Frame("end", "-")>>)
  /\ UNCHANGED <<startD, outcome, starts, stopping, shutting, maxTries, fetchVars,
                 procVars, commitVars, raised>>

ShutdownDone ==
  /\ At("shutdownDone") /\ Then(<<>>)
  /\ shutting' = FALSE
  /\ shutD' = IF shutD # "taken" THEN shutD ELSE IF How = "ok" THEN "ok" ELSE "failed"
  /\ UNCHANGED <<startD, outcome, starts, stopping, maxTries, fetchVars, procVars,
                 commitVars, raised>>

-----------------------------------------------------------------------------
(* stop(), one action per `if' of its body.                                *)

CallStop ==
  /\ Idle /\ startD # "none"
  /\ stack' = Stop \o Calls(<<"return">>)
  /\ UNCHANGED <<lifeVars, fetchVars, procVars, commitVars, raised>>

StopBegin ==
  /\ At("stop")
  /\ IF startD = "none"
       THEN Raise("RestopError") /\ UNCHANGED stopping
       ELSE stopping' = TRUE /\ Then(<<>>) /\ UNCHANGED raised
  /\ UNCHANGED <<startD, outcome, starts, shutting, shutD, maxTries, fetchVars, procVars,
                 commitVars>>

(* The client turns the cancellation of a request that it has spread over  *)
(* the brokers into FailedPayloadsError, a KafkaError.                     *)
CancelRequest ==
  /\ At("cancelRequest")
  /\ IF Outstanding THEN \E how \in {"cancelled", "kafka"} : Then(<<RequestError(how)>>)
                    ELSE Then(<<>>)
  /\ UNCHANGED <<lifeVars, fetchVars, procVars, commitVars, raised>>

CancelBlock ==
  /\ At("cancelBlock") /\ Then(<<>>)
  /\ blockD' = FALSE
  /\ request' = IF blockD /\ request = "parked" THEN "dropped" ELSE request
  /\ UNCHANGED <<lifeVars, fetchOff, parked, retry, tries, fails, next, last, proc,
                 procShut, processed, asked, done, skipped, commitVars, raised>>

(* The processor's Deferred fires with CancelledError, which is no error   *)
(* while _stopping, and the generator of _process_messages() resumes.      *)
CancelProcessor ==
  /\ At("cancelProcessor")
  /\ IF proc = "none"
       THEN Then(<<>>) /\ UNCHANGED <<proc, procShut, processed, done, skipped>>
       ELSE /\ proc' = "none" /\ procShut' = FALSE /\ BlockSkipped
            /\ Then(Calls(<<"resume">>) \o ThenShutdown)
  /\ UNCHANGED <<lifeVars, fetchVars, blockD, next, last, asked, commitVars, raised>>

(* DelayedCall.cancel() raises if the call is no longer active.            *)
CancelRetryNot ==
  /\ At("cancelRetry") /\ Then(<<>>)
  /\ UNCHANGED <<lifeVars, fetchVars, procVars, commitVars, raised>>
CancelRetry ==
  /\ At("cancelRetry")
  /\ IF retry = "dead" THEN Raise("AlreadyCancelled") /\ UNCHANGED retry
     ELSE /\ retry' = IF retry = "active" THEN "dead" ELSE retry
          /\ Then(<<>>) /\ UNCHANGED raised
  /\ UNCHANGED <<lifeVars, fetchOff, request, parked, tries, fails, procVars, commitVars>>

CancelOneWaiter ==
  /\ At("cancelWaiters")
  /\ IF waiters = <<>> THEN Then(<<>>) /\ UNCHANGED waiters
     ELSE waiters' = Front(waiters) /\ Then(<<Frame(Last(waiters), "cancelled")>>)
  /\ UNCHANGED <<lifeVars, fetchVars, procVars, committed, stored, commitReq, commitTry,
                 commitCall, looper, raised>>
CancelWaiters ==
  /\ At("cancelWaiters")
  /\ IF waiters = <<>> THEN Then(<<>>) /\ UNCHANGED waiters
     ELSE /\ waiters' = Front(waiters)
          /\ Then(<<Frame(Last(waiters), "cancelled"), Frame("cancelWaiters", "-")>>)
  /\ UNCHANGED <<lifeVars, fetchVars, procVars, committed, stored, commitReq, commitTry,
                 commitCall, looper, raised>>

CancelCommitReq ==
  /\ At("cancelCommitReq")
  /\ IF commitReq = None THEN Then(<<>>)
     ELSE \E how \in {"cancelled", "kafka"} : Then(<<Frame("commitError", how)>>)
  /\ UNCHANGED <<lifeVars, fetchVars, procVars, commitVars, raised>>

CancelCommitCall ==
  /\ At("cancelCommitCall")
  /\ IF commitCall = "dead" THEN Raise("AlreadyCancelled") /\ UNCHANGED commitCall
     ELSE /\ commitCall' = IF commitCall = "active" THEN "dead" ELSE commitCall
          /\ Then(<<>>) /\ UNCHANGED raised
  /\ UNCHANGED <<lifeVars, fetchVars, procVars, committed, stored, waiters, commitReq,
                 commitTry, looper>>

StopLooper ==
  /\ At("stopLooper") /\ Then(<<>>)
  /\ looper' = FALSE
  /\ UNCHANGED <<lifeVars, fetchVars, procVars, committed, stored, waiters, commitReq,
                 commitTry, commitCall, raised>>

(* If a callback has already run stop() to its end, _start_d is None.      *)
Stopped ==
  /\ At("stopped")
  /\ stopping' = FALSE
  /\ IF startD = "none"
       THEN Raise("AttributeError") /\ UNCHANGED <<startD, outcome>>
       ELSE /\ startD' = "none"
            /\ outcome' = IF startD = "waiting" THEN "offset" ELSE outcome
            /\ Then(<<>>) /\ UNCHANGED raised
  /\ UNCHANGED <<starts, shutting, shutD, maxTries, fetchVars, procVars, commitVars>>

Return ==
  /\ At("end") \/ At("return")
  /\ Then(<<>>)
  /\ UNCHANGED <<lifeVars, fetchVars, procVars, commitVars, raised>>

-----------------------------------------------------------------------------
Run ==
  \/ DoFetch \/ HandleOffsetError \/ HandleFetchError \/ RetryFetch
  \/ HandleFetchResponse \/ Process \/ ProcessorReturned \/ Advance \/ Resume
  \/ BlockDone \/ AutoCommit \/ Commit \/ HandleCommitError \/ CommitAnswered
  \/ Shutdown \/ CommitAndStop \/ FinishShutdown \/ ShutdownDone
  \/ StopBegin \/ CancelRequest \/ CancelBlock \/ CancelProcessor \/ CancelRetry
  \/ CancelWaiters \/ CancelCommitReq \/ CancelCommitCall \/ StopLooper \/ Stopped
  \/ Return

Hows == {"fine", "small", "corrupt"}

Next ==
  \/ Run
  \/ Start \/ HandleOffsetResponse \/ RequestFails \/ RetryCall
  \/ \E hi \in None .. LastOffset, how \in Hows : FetchArrives(hi, how)
  \/ ProcessorFires \/ TimerFires \/ UserCommit \/ CommitSucceeds \/ CommitFails
  \/ CommitCall \/ CallShutdown \/ CallStop

Spec == Init /\ [][Next]_vars

(* The reactor calls delayed calls, the client answers, the processor      *)
(* finishes, and a partition that is fetched again and again yields its    *)
(* next message in the end.  Strong fairness, since each of these must     *)
(* wait for the handlers of other events to return.                        *)
FairSpec ==
  /\ Spec
  /\ WF_vars(Run)
  /\ SF_vars(RetryCall) /\ SF_vars(CommitCall) /\ SF_vars(ProcessorFires)
  /\ SF_vars(HandleOffsetResponse)
  /\ SF_vars(\E hi \in Offsets : hi >= fetchOff /\ FetchArrives(hi, "fine"))
  /\ SF_vars(CommitSucceeds)

-----------------------------------------------------------------------------
(* Properties.                                                             *)

(* The type of every variable.                                             *)
TypeOK ==
  /\ startD \in {"none", "waiting", "fired"}
  /\ outcome \in {"pending", "offset", "exhausted", "out of range", "too small",
                  "processor", "failed", "cancelled", "no group"}
  /\ starts \in 0 .. MaxStarts /\ {stopping, shutting} \subseteq BOOLEAN
  /\ shutD \in {"none", "waiting", "taken", "ok", "failed"}
  /\ maxTries \in {MaxAttempts, 2}
  /\ fetchOff \in -2 .. LastOffset + 1 \cup {OFFSET_COMMITTED}
  /\ request \in {"none", "offset", "committed", "fetch", "parked", "dropped"}
  /\ parked \in [hi : None .. LastOffset, how : Hows]
  /\ retry \in {"none", "active", "dead"} /\ commitCall \in {"none", "active", "dead"}
  /\ tries \in Nat /\ fails \in Nat /\ commitTry \in Nat
  /\ blockD \in BOOLEAN /\ next \in Nat /\ last \in None .. LastOffset
  /\ proc \in {"none", "pending"} /\ {procShut, looper} \subseteq BOOLEAN
  /\ {processed, committed, stored, commitReq} \subseteq None .. LastOffset
  /\ waiters \in Seq(Waiters)
  /\ asked \cup done \cup skipped \subseteq Offsets

(* The processor "will not be called again until this Deferred resolves":  *)
(* the generator of _process_messages() never runs while a block is with   *)
(* the processor, however fetches, stop() and shutdown() interleave.       *)
OneBlockAtATime ==
  \A i \in DOMAIN stack :
    stack[i].op \in {"process", "returned", "advance"} => proc = "none"

(* Messages reach the processor in order and once: a new block starts at   *)
(* the offset after the last one asked for.                                *)
InOrder ==
  (At("process") /\ next <= last /\ ~shutting /\ asked # {}) =>
    \A o \in asked : o < next /\ (o + 1 \in asked \/ o + 1 = next)

(* The state has its type, and the processor gets one block after another, *)
(* in order.                                                               *)
BlocksInOrder == TypeOK /\ OneBlockAtATime /\ InOrder

(* Whatever the auto-commit, the retries and the caller do, a commit never *)
(* covers a message that the processor still has.                          *)
NothingUnprocessedCommitted ==
  commitReq # None => \A o \in asked : o <= commitReq => o \in done \cup skipped

(* Between two turns of the reactor somebody waits for a commit if and     *)
(* only if a commit is in flight or about to be retried: no Deferred of    *)
(* _commit_ds is forgotten, and _send_commit_request() is never entered    *)
(* while a request is out, so its OperationInProgress is never raised.     *)
WaitersHaveACommit ==
  Idle => (waiters # <<>> <=> commitReq # None \/ commitCall = "active")

(* A running consumer whose Deferred has not failed always waits for       *)
(* something that makes it fetch again.                                    *)
KeepsFetching ==
  (Idle /\ startD = "waiting" /\ ~shutting) =>
    Outstanding \/ retry = "active" \/ (request = "parked" /\ proc = "pending")

(* A processor that fails is reported: as long as the Deferred of start()  *)
(* has not fired, every message up to last_processed_offset was processed. *)
NothingSkippedSilently ==
  (Idle /\ startD = "waiting") => \A o \in asked : o <= processed => o \in done

(* request_retry_max_attempts is "the number of attempts to make before    *)
(* returning failure": a consumer never makes more, and gives up at most   *)
(* one too early (the refetch after a success counts as a second attempt). *)
GivesUpInTime ==
  /\ (MaxAttempts > 0 /\ startD = "waiting" /\ ~stopping) => fails < MaxAttempts
  /\ outcome = "exhausted" => fails >= MaxAttempts - 1

(* Apart from RestopError, stop() raises only if it cuts a graceful        *)
(* shutdown short, whose handlers then call stop() inside it; so even then *)
(* the consumer ends up stopped, which a consumer group relies on.         *)
StopRaisesOnlyInShutdown ==
  raised # {} => shutD # "none" /\ (Idle => startD = "none")

(* "This cancels all outstanding operations": a stopped consumer has no    *)
(* request, timer or processor, and of its commits only those that the     *)
(* caller asks for afterwards; and stop() itself ends properly.            *)
StoppedIsQuiet ==
  /\ StopRaisesOnlyInShutdown
  /\ (Idle /\ startD = "none") =>
       /\ ~Outstanding /\ retry # "active" /\ proc = "none" /\ ~looper /\ ~stopping
       /\ \A i \in DOMAIN waiters : waiters[i] = "toUser"

(* Everybody who waits for a commit is answered.                           *)
CommitsAreAnswered == waiters # <<>> ~> waiters = <<>>

(* A consumer that was started at offset zero and is neither stopped nor   *)
(* reports a failure processes every message of the log.                   *)
EverythingProcessed ==
  <>[](startD = "waiting" /\ ~shutting) => <>(Offsets \subseteq done)

(* What the documentation says and the code does not do.                   *)

(* stop() raises RestopError if the consumer is not running, and nothing   *)
(* else is documented: on a running consumer it raises nothing.            *)
StopNeverRaises == raised = {}

(* "if the deferred returned by `start` hasn't been called, it is called   *)
(* with the value of last_processed_offset" by stop().                     *)
StopGivesTheOffset == [][(stopping /\ outcome = "pending") => outcome' \in {"pending", "offset"}]_vars

(* "Fail when the Consumer encounters an error from which it is unable to  *)
(* recover, such as an exception thrown by the processor": the Deferred of *)
(* start() fires "when the consumer is stopped", so after the failure the  *)
(* processor is not called any more.                                       *)
FailureIsTheEnd == [][startD = "fired" => asked' = asked]_vars

(* stop() "cancels all outstanding operations": it does not hand the       *)
(* processor more messages.                                                *)
StopAsksForNothing == [][stopping => asked' = asked]_vars

(* shutdown() returns a Deferred "that fires with the value of             *)
(* last_processed_offset.  It may fail if a commit fails": it fires.       *)
ShutdownCompletes == shutD = "waiting" ~> shutD \in {"ok", "failed"}
=============================================================================
