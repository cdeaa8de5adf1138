--------------------------- MODULE RequestTimeout ---------------------------
(***************************************************************************)
(* KafkaClient._make_request_to_broker() (afkak/client.py) on top of       *)
(* BrokerClient: every request gets a delayed call that cancels it, and    *)
(* the client may be configured to drop the connection when that happens.  *)
(***************************************************************************)
EXTENDS BrokerClient

CONSTANT DisconnectOnTimeout \* KafkaClient(disconnect_on_timeout=...)

ASSUME DisconnectOnTimeoutIsBool == DisconnectOnTimeout \in BOOLEAN

VARIABLE timer \* the delayed call of each request; "expired": `failure` is set

tvars == <<vars, timer>>

TimedInit == Init /\ timer = [id \in Ids |-> "off"]

\* Mutants: the clock starts when the request is written; `failure` is not kept.
ArmWhenSent ==
    timer' = [id \in Ids |->
                IF timer[id] = "expired" THEN "expired"
                ELSE IF result'[id] = "pending" /\ id \in sent' THEN "armed" ELSE "off"]
FailureForgotten ==
    timer' = [id \in Ids |-> IF result'[id] = "pending" THEN "armed" ELSE "off"]

\* callLater() follows makeRequest(); _mrtb_cb() cancels it when the Deferred
\* fires, which may be at once.
ArmOrCancel ==
    timer' = [id \in Ids |->
                IF timer[id] = "expired" THEN "expired"
                ELSE IF result'[id] = "pending" THEN "armed" ELSE "off"]

BrokerStep == Next /\ ArmOrCancel

\* Mutant: the connection is kept.
KeepConnection == losing

\* broker.disconnect(), if the client is configured to.
DropConnection ==
    IF DisconnectOnTimeout /\ proto # None THEN losing \cup {proto} ELSE losing

\* _mrtb_timeout()
Timeout(id) ==
    /\ Idle
    /\ timer[id] = "armed"
    /\ timer' = [timer EXCEPT ![id] = "expired"]
    /\ CancelRequest(id)
    /\ losing' = DropConnection

TimedNext == BrokerStep \/ \E id \in Ids : Timeout(id)

(***************************************************************************)
(* Only the reactor is fair here: the two loops of BrokerClient run to     *)
(* their end, delayed calls are called (between any two events the reactor *)
(* gets round to them: strong fairness), and a connection that was told to *)
(* go down goes down.  Nothing is asked of the network or of the broker.   *)
(***************************************************************************)
TimedSpec ==
    /\ TimedInit /\ [][TimedNext]_tvars
    /\ WF_tvars(SendQueued /\ ArmOrCancel)
    /\ WF_tvars(SendQueuedKeyError /\ ArmOrCancel)
    /\ WF_tvars(CloseRequest /\ ArmOrCancel)
    /\ \A c \in Conn : SF_tvars(c \in losing /\ ConnectionLost(c) /\ ArmOrCancel)
    /\ \A id \in Ids : SF_tvars(Timeout(id))

\* What _mrtb_cb() gives the caller.
Reported(id) == IF timer[id] = "expired" THEN "timeout" ELSE result[id]

\* A response that comes after the time-out does not change what the caller was
\* told, and a time-out never overrides an answer that came before it.
TimeoutIsFinal ==
    [][\A id \in Ids : Reported(id) \notin {"unmade", "pending"} =>
            Reported(id)' = Reported(id)]_tvars

\* If the client disconnects on time-outs, the entry that a timed-out request
\* leaves in self.requests for the sake of a late response goes away even if
\* the broker never answers; without it, such entries pile up as long as the
\* connection lives.
TimedOutIsForgotten ==
    DisconnectOnTimeout =>
        \A id \in Ids : timer[id] = "expired" ~> id \notin requests

\* Every request is settled whatever the network and the broker do, even if
\* no connection ever comes up and nothing is ever answered; and what is left
\* of it is forgotten.
EveryRequestEnds ==
    /\ \A id \in Ids : Reported(id) = "pending" ~> Reported(id) # "pending"
    /\ TimedOutIsForgotten
=============================================================================
