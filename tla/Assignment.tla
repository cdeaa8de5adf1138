----------------------------- MODULE Assignment -----------------------------
(***************************************************************************)
(* _ConsumerProtocol._round_robin_assignment() (afkak/_group.py): how the  *)
(* leader of a group deals the partitions of all topics to the members.    *)
(* Topics and members are numbered in the order sorted() gives them.       *)
(***************************************************************************)
EXTENDS Integers, FiniteSets

CONSTANTS
    NTopics,
    NMembers,
    MaxPartitions  \* bound: partitions of a topic

ASSUME SizesNat == NTopics \in Nat /\ NMembers \in Nat \ {0} /\ MaxPartitions \in Nat

Topics == 1 .. NTopics
Members == 1 .. NMembers

VARIABLES
    subs,    \* member_metadata[member].subscriptions
    parts,   \* topic_partitions: number of partitions, -1: no such key
    left,    \* what is left of all_topic_partitions
    turn,    \* the member that next(member_iter) gives
    out,     \* assignment
    state    \* "start", "dealing", "done", or "need": _NeedTopicPartitions was raised

avars == <<subs, parts, left, turn, out, state>>

\* all_topics
Subscribed == {t \in Topics : \E m \in Members : t \in subs[m]}
Partitions(t) == {<<t, p>> : p \in 0 .. (parts[t] - 1)}

AssignInit ==
    /\ subs \in [Members -> SUBSET Topics] /\ Subscribed # {}
    /\ parts \in [Topics -> -1 .. MaxPartitions]
    /\ left = {}
    /\ turn = 1
    /\ out = [m \in Members |-> {}]
    /\ state = "start"

\* all_topic_partitions, or KeyError.
Gather ==
    /\ state = "start"
    /\ IF \E t \in Subscribed : parts[t] = -1
       THEN state' = "need" /\ UNCHANGED left
       ELSE state' = "dealing" /\ left' = UNION {Partitions(t) : t \in Subscribed}
    /\ UNCHANGED <<subs, parts, turn, out>>

\* all_topic_partitions.sort()
IsNext(x) == \A y \in left : x[1] < y[1] \/ (x[1] = y[1] /\ x[2] <= y[2])

\* Mutants: the cycle starts again for every partition; it stops at the last member.
FirstAgain(m, dealt) == IF dealt \/ m = NMembers THEN 1 ELSE m + 1
NoCycle(m, dealt) == IF m = NMembers THEN m ELSE m + 1

Takes(m, t) == t \in subs[m]

\* itertools.cycle(sorted(member_metadata.keys()))
NextTurn(m, dealt) == IF m = NMembers THEN 1 ELSE m + 1

\* A call of next(member_iter), in the loop over the partitions or in the inner loop
\* that looks for a member that is subscribed.
Deal ==
    /\ state = "dealing"
    /\ \E x \in left :
         /\ IsNext(x)
         /\ LET dealt == Takes(turn, x[1]) IN
            /\ left' = IF dealt THEN left \ {x} ELSE left
            /\ out' = [m \in Members |-> IF m = turn /\ dealt THEN out[m] \cup {x} ELSE out[m]]
            /\ turn' = NextTurn(turn, dealt)
    /\ UNCHANGED <<subs, parts, state>>

Dealt ==
    /\ state = "dealing" /\ left = {}
    /\ state' = "done"
    /\ UNCHANGED <<subs, parts, left, turn, out>>

AssignNext == Gather \/ Deal \/ Dealt

AssignSpec == AssignInit /\ [][AssignNext]_avars

-----------------------------------------------------------------------------
(* Properties *)

AssignTypeOK ==
    /\ subs \in [Members -> SUBSET Topics]
    /\ parts \in [Topics -> -1 .. MaxPartitions]
    /\ left \subseteq Topics \X Nat
    /\ turn \in Members
    /\ out \in [Members -> SUBSET (Topics \X Nat)]
    /\ state \in {"start", "dealing", "done", "need"}

\* Every partition of every topic that a member wants goes to exactly one member, one
\* that is subscribed to the topic; no partition is invented.
AssignedOnce ==
    state = "done" =>
        /\ \A t \in Subscribed : \A x \in Partitions(t) : \E m \in Members : x \in out[m]
        /\ \A m, n \in Members : m # n => out[m] \cap out[n] = {}
        /\ \A m \in Members : \A x \in out[m] : x[1] \in subs[m] /\ x \in Partitions(x[1])

\* Members with the same subscriptions as all others get the same number of
\* partitions, give or take one.
Balanced ==
    (\A m, n \in Members : subs[m] = subs[n]) =>
        \A m, n \in Members : Cardinality(out[m]) <= Cardinality(out[n]) + 1

AssignmentIsRight == AssignTypeOK /\ AssignedOnce /\ Balanced

\* "we should be safe assuming that each topic in all_topic_partitions is in at least
\* one member subscription; otherwise this could yield an infinite loop": it ends.
AssignmentEnds == state = "dealing" ~> state = "done"
=============================================================================
