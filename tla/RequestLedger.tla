---------------------------- MODULE RequestLedger ----------------------------
(***************************************************************************)
(* What _KafkaBrokerClient promises its callers, without connections,      *)
(* queues or resending: makeRequest() hands out one Deferred per request,  *)
(* which fires once, and close() is the only cause of a ClientError.       *)
(* BrokerClient is shown to implement this specification.                  *)
(***************************************************************************)
CONSTANT Ids
VARIABLES
    result, \* of each request: "unmade", "pending" or what its Deferred fired with
    closed  \* close() was called

lvars == <<result, closed>>

\* What makeRequest() documents, and what a caller can do to its Deferred.
OpenOutcomes == {"response", "none", "error", "cancelled"}

Init ==
    /\ result = [id \in Ids |-> "unmade"]
    /\ closed = FALSE

\* The Deferred of a request may have fired before makeRequest() returns it.
Issue(id) ==
    /\ ~closed
    /\ result[id] = "unmade"
    /\ \E r \in {"pending", "none", "error"} : result' = [result EXCEPT ![id] = r]
    /\ UNCHANGED closed

Refuse(id) ==
    /\ closed
    /\ result[id] = "unmade"
    /\ result' = [result EXCEPT ![id] = "closed"]
    /\ UNCHANGED closed

Resolve(id) ==
    /\ result[id] = "pending"
    /\ \E r \in OpenOutcomes \cup (IF closed THEN {"closed"} ELSE {}) :
          result' = [result EXCEPT ![id] = r]
    /\ UNCHANGED closed

Close ==
    /\ ~closed
    /\ closed' = TRUE
    /\ UNCHANGED result

Next ==
    \/ \E id \in Ids : Issue(id) \/ Refuse(id) \/ Resolve(id)
    \/ Close

Spec == Init /\ [][Next]_lvars
=============================================================================
