-------------------------- MODULE AssignmentProofs --------------------------
(***************************************************************************)
(* The assignment of partitions is right for any number of topics, members *)
(* and partitions.                                                         *)
(***************************************************************************)
EXTENDS Assignment, FiniteSetTheorems, TLAPS

\* A partition that is not dealt yet belongs to a topic somebody wants.
LeftIsWanted == \A x \in left : x[1] \in Subscribed /\ x \in Partitions(x[1])

\* A member has partitions of its own topics, and they are not left to deal.
OwnTopics ==
    \A m \in Members : \A x \in out[m] :
        x[1] \in subs[m] /\ x \in Partitions(x[1]) /\ x \notin left

Disjoint == \A m, n \in Members : m # n => out[m] \cap out[n] = {}

NothingLost ==
    state \in {"dealing", "done"} =>
        \A t \in Subscribed : \A x \in Partitions(t) : x \in left \/ \E m \in Members : x \in out[m]

Phases ==
    /\ state \in {"start", "need"} => turn = 1 /\ left = {} /\ \A m \in Members : out[m] = {}
    /\ state = "done" => left = {}

SameSubs == \A m, n \in Members : subs[m] = subs[n]

\* In every round of the cycle those before `turn` have got one partition more.
Rounds ==
    /\ \A m \in Members : IsFiniteSet(out[m])
    /\ SameSubs => \E k \in Nat : \A m \in Members :
                      Cardinality(out[m]) = IF m < turn THEN k + 1 ELSE k

\* The invariant that every step preserves.
Inv == AssignTypeOK /\ LeftIsWanted /\ OwnTopics /\ Disjoint /\ NothingLost /\ Phases /\ Rounds

-----------------------------------------------------------------------------

\* Partitions are pairs of the topic and a number.
LEMMA PartitionsType ==
    ASSUME AssignTypeOK, NEW t \in Topics
    PROVE  \A x \in Partitions(t) : x \in Topics \X Nat /\ x[1] = t
BY DEF AssignTypeOK, Partitions

\* The turn passes to a member, the one after this or the first.
LEMMA TurnType ==
    ASSUME NEW m \in Members, NEW d \in BOOLEAN
    PROVE  NextTurn(m, d) \in Members
BY SizesNat DEF NextTurn, Members

\* Nothing is dealt at first.
LEMMA InitInv == AssignInit => Inv
<1> SUFFICES ASSUME AssignInit PROVE Inv
    OBVIOUS
<1>1. AssignTypeOK
    BY SizesNat DEF AssignInit, AssignTypeOK, Members
<1>2. Rounds
    <2>1. \A m \in Members : out[m] = {} /\ turn = 1
        BY DEF AssignInit
    <2>2. IsFiniteSet({}) /\ Cardinality({}) = 0
        BY FS_EmptySet
    <2>3. \A m \in Members : Cardinality(out[m]) = IF m < turn THEN 0 + 1 ELSE 0
        BY <2>1, <2>2 DEF Members
    <2> QED BY <2>1, <2>2, <2>3 DEF Rounds
<1> QED
    BY <1>1, <1>2 DEF Inv, AssignInit, LeftIsWanted, OwnTopics, Disjoint, NothingLost, Phases

\* Collecting the partitions of all topics preserves the invariant.
LEMMA GatherInv == ASSUME Inv, Gather PROVE Inv'
<1>0. /\ subs' = subs /\ parts' = parts /\ turn' = turn /\ out' = out
      /\ Subscribed' = Subscribed /\ \A t \in Topics : Partitions(t)' = Partitions(t)
    BY DEF Gather, Subscribed, Partitions
<1>1. \A m \in Members : out[m] = {}
    BY DEF Inv, Phases, Gather
<1>2. Subscribed \subseteq Topics
    BY DEF Subscribed
<1>3. CASE state' = "need" /\ left' = left
    BY <1>0, <1>1, <1>3 DEF Inv, AssignTypeOK, LeftIsWanted, OwnTopics, Disjoint, NothingLost,
        Phases, Rounds, SameSubs, Gather
<1>4. CASE state' = "dealing" /\ left' = UNION {Partitions(t) : t \in Subscribed}
    <2>1. \A x \in left' : \E t \in Subscribed : x \in Partitions(t) /\ x \in Topics \X Nat /\ x[1] = t
        BY <1>2, <1>4, PartitionsType DEF Inv
    <2>2. AssignTypeOK'
        BY <1>0, <1>4, <2>1 DEF Inv, AssignTypeOK
    <2>3. LeftIsWanted' /\ NothingLost'
        BY <1>0, <1>2, <1>4, <2>1 DEF LeftIsWanted, NothingLost
    <2>4. OwnTopics' /\ Disjoint' /\ Phases'
        BY <1>0, <1>1, <1>4 DEF OwnTopics, Disjoint, Phases
    <2>5. Rounds'
        BY <1>0 DEF Inv, Rounds, SameSubs
    <2> QED BY <2>2, <2>3, <2>4, <2>5 DEF Inv
<1> QED BY <1>3, <1>4 DEF Gather

\* If all want the same, the member whose turn it is takes the partition, and the
\* counts stay level: after the last member of a round the next round begins.
LEMMA DealKeepsRounds ==
    ASSUME Inv, NEW x \in left,
           out' = [m \in Members |-> IF m = turn /\ Takes(turn, x[1]) THEN out[m] \cup {x} ELSE out[m]],
           turn' = NextTurn(turn, Takes(turn, x[1])),
           subs' = subs
    PROVE  Rounds'
<1>1. turn \in Members /\ \A m \in Members : x \notin out[m]
    BY DEF Inv, AssignTypeOK, OwnTopics
<1>2. \A m \in Members :
        /\ IsFiniteSet(out[m] \cup {x})
        /\ Cardinality(out[m] \cup {x}) = Cardinality(out[m]) + 1
    BY <1>1, FS_AddElement DEF Inv, Rounds
<1>3. \A m \in Members : IsFiniteSet(out'[m])
    BY <1>2 DEF Inv, Rounds
<1>4. ASSUME SameSubs
      PROVE  \E k \in Nat : \A m \in Members :
                Cardinality(out'[m]) = IF m < turn' THEN k + 1 ELSE k
    <2>1. Takes(turn, x[1])
        BY <1>1, <1>4 DEF Inv, LeftIsWanted, Subscribed, Takes, SameSubs
    <2>2. PICK k \in Nat : \A m \in Members :
                Cardinality(out[m]) = IF m < turn THEN k + 1 ELSE k
        BY <1>4 DEF Inv, Rounds
    <2>3. \A m \in Members :
                Cardinality(out'[m]) = IF m <= turn THEN k + 1 ELSE k
        <3> SUFFICES ASSUME NEW m \in Members
                     PROVE  Cardinality(out'[m]) = IF m <= turn THEN k + 1 ELSE k
            OBVIOUS
        <3>1. CASE m = turn
            <4>1. out'[m] = out[m] \cup {x}
                BY <2>1, <3>1
            <4> QED BY <1>1, <1>2, <2>2, <3>1, <4>1 DEF Members
        <3>2. CASE m # turn
            <4>1. out'[m] = out[m]
                BY <3>2
            <4> QED BY <1>1, <2>2, <3>2, <4>1 DEF Members
        <3> QED BY <3>1, <3>2
    <2>4. CASE turn = NMembers
        <3>1. turn' = 1 /\ \A m \in Members : m <= turn /\ ~(m < 1)
            BY <2>4, SizesNat DEF NextTurn, Members
        <3>2. \A m \in Members : Cardinality(out'[m]) = IF m < turn' THEN (k + 1) + 1 ELSE k + 1
            BY <2>3, <3>1
        <3>3. k + 1 \in Nat
            OBVIOUS
        <3> QED BY <3>2, <3>3
    <2>5. CASE turn # NMembers
        <3>1. turn' = turn + 1 /\ \A m \in Members : m <= turn <=> m < turn + 1
            BY <1>1, <2>5 DEF NextTurn, Members
        <3> QED BY <2>3, <3>1
    <2> QED BY <2>4, <2>5
<1>5. SameSubs' => SameSubs
    BY DEF SameSubs
<1> QED BY <1>3, <1>4, <1>5 DEF Rounds

\* A call of next(member_iter) preserves the invariant.
LEMMA DealInv == ASSUME Inv, Deal PROVE Inv'
<1>1. PICK x \in left :
        /\ left' = IF Takes(turn, x[1]) THEN left \ {x} ELSE left
        /\ out' = [m \in Members |-> IF m = turn /\ Takes(turn, x[1]) THEN out[m] \cup {x} ELSE out[m]]
        /\ turn' = NextTurn(turn, Takes(turn, x[1]))
    BY DEF Deal
<1>2. /\ subs' = subs /\ parts' = parts /\ state' = state /\ state = "dealing"
      /\ Subscribed' = Subscribed /\ \A t \in Topics : Partitions(t)' = Partitions(t)
    BY DEF Deal, Subscribed, Partitions
<1>3. /\ turn \in Members /\ x \in Topics \X Nat /\ Takes(turn, x[1]) \in BOOLEAN
      /\ x[1] \in Topics /\ x \in Partitions(x[1]) /\ \A m \in Members : x \notin out[m]
    BY DEF Inv, AssignTypeOK, LeftIsWanted, OwnTopics, Takes
<1>4. AssignTypeOK'
    <2>1. turn' \in Members
        BY <1>1, <1>3, TurnType
    <2>2. out' \in [Members -> SUBSET (Topics \X Nat)]
        BY <1>1, <1>3 DEF Inv, AssignTypeOK
    <2> QED BY <1>1, <1>2, <2>1, <2>2 DEF Inv, AssignTypeOK
<1>5. LeftIsWanted'
    BY <1>1, <1>2 DEF Inv, LeftIsWanted, AssignTypeOK, Subscribed
<1>6. OwnTopics'
    <2> SUFFICES ASSUME NEW m \in Members, NEW y \in out'[m]
                 PROVE  y[1] \in subs[m] /\ y \in Partitions(y[1])' /\ y \notin left'
        BY <1>2 DEF OwnTopics
    <2>1. CASE y \in out[m]
        BY <1>1, <1>2, <2>1 DEF Inv, OwnTopics, AssignTypeOK, Partitions
    <2>2. CASE y \notin out[m]
        <3>1. y = x /\ m = turn /\ Takes(turn, x[1])
            BY <1>1, <2>2
        <3> QED BY <1>1, <1>2, <1>3, <3>1 DEF Takes
    <2> QED BY <2>1, <2>2
<1>7. Disjoint'
    BY <1>1, <1>3 DEF Inv, Disjoint
<1>8. NothingLost'
    <2> SUFFICES ASSUME NEW t \in Subscribed, NEW y \in Partitions(t)
                 PROVE  y \in left' \/ \E m \in Members : y \in out'[m]
        BY <1>2 DEF NothingLost, Subscribed
    <2>1. CASE y = x /\ Takes(turn, x[1])
        BY <1>1, <1>3, <2>1
    <2>2. CASE ~(y = x /\ Takes(turn, x[1]))
        <3>1. y \in left \/ \E m \in Members : y \in out[m]
            BY <1>2 DEF Inv, NothingLost
        <3> QED BY <1>1, <2>2, <3>1
    <2> QED BY <2>1, <2>2
<1>9. Phases'
    BY <1>2 DEF Phases
<1>10. Rounds'
    BY <1>1, <1>2, DealKeepsRounds
<1> QED BY <1>4, <1>5, <1>6, <1>7, <1>8, <1>9, <1>10 DEF Inv

\* Every step preserves the invariant.
LEMMA StepInv == Inv /\ [AssignNext]_avars => Inv'
<1> SUFFICES ASSUME Inv, [AssignNext]_avars PROVE Inv'
    OBVIOUS
<1>1. CASE Gather
    BY <1>1, GatherInv
<1>2. CASE Deal
    BY <1>2, DealInv
<1>3. CASE Dealt
    BY <1>3 DEF Dealt, Inv, AssignTypeOK, LeftIsWanted, OwnTopics, Disjoint, NothingLost, Phases,
        Rounds, SameSubs, Subscribed, Partitions
<1>4. CASE UNCHANGED avars
    BY <1>4 DEF avars, Inv, AssignTypeOK, LeftIsWanted, OwnTopics, Disjoint, NothingLost, Phases,
        Rounds, SameSubs, Subscribed, Partitions
<1> QED BY <1>1, <1>2, <1>3, <1>4 DEF AssignNext

\* The invariant says what AssignmentIsRight says.
LEMMA InvIsEnough == Inv => AssignmentIsRight
<1> SUFFICES ASSUME Inv PROVE AssignmentIsRight
    OBVIOUS
<1>1. AssignTypeOK
    BY DEF Inv
<1>2. AssignedOnce
    BY DEF Inv, AssignedOnce, NothingLost, Phases, Disjoint, OwnTopics
<1>3. Balanced
    <2> SUFFICES ASSUME SameSubs, NEW m \in Members, NEW n \in Members
                 PROVE  Cardinality(out[m]) <= Cardinality(out[n]) + 1
        BY DEF Balanced, SameSubs
    <2>1. PICK k \in Nat : \A i \in Members :
                Cardinality(out[i]) = IF i < turn THEN k + 1 ELSE k
        BY DEF Inv, Rounds
    <2> QED BY <2>1
<1> QED BY <1>1, <1>2, <1>3 DEF AssignmentIsRight

\* The leader's round robin gives every partition of every wanted topic to exactly one
\* member, which is subscribed to it, and shares that differ by at most one if all
\* members want the same topics, for any numbers of topics, members and partitions.
THEOREM AssignmentCorrect == AssignSpec => []AssignmentIsRight
<1>1. AssignInit => Inv
    BY InitInv
<1>2. Inv /\ [AssignNext]_avars => Inv'
    BY StepInv
<1>3. Inv => AssignmentIsRight
    BY InvIsEnough
<1> QED BY <1>1, <1>2, <1>3, PTL DEF AssignSpec
=============================================================================
