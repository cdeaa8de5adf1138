----------------------------- MODULE Partitioner -----------------------------
(***************************************************************************)
(* RoundRobinPartitioner (afkak/partitioner.py), as a Producer uses it:    *)
(* partition() is given the list of the topic's partitions in every call,  *)
(* and starts a new cycle when the list has changed.                       *)
(***************************************************************************)
EXTENDS Naturals, Sequences, FiniteSets

CONSTANTS
    PartitionLists,  \* lists partition() may be given
    RandomStart,     \* RoundRobinPartitioner.randomStart
    MaxPicks         \* bound: calls on one list

ASSUME ListsNotEmpty == \A l \in PartitionLists : Len(l) > 0
ASSUME RandomStartIsBool == RandomStart \in BOOLEAN

VARIABLES
    kept,    \* self.partitions, sorted
    cycled,  \* the list of self.iterpart
    at,      \* index in it of what next(self.iterpart) gives
    given,   \* the list of the latest call
    picks    \* history: what was picked since another list was given

pvars == <<kept, cycled, at, given, picks>>

Elements(l) == {l[i] : i \in DOMAIN l}

\* sorted()
Sorted(l) ==
    CHOOSE s \in [DOMAIN l -> Elements(l)] :
        Elements(s) = Elements(l) /\ \A i, j \in DOMAIN s : i < j => s[i] <= s[j]

\* Mutant: the list is not compared.
NeverChanged(l) == FALSE

\* next() is called randint(0, len(partitions) - 1) times.
Starts(l) == IF RandomStart THEN 1 .. Len(l) ELSE {1}

\* The test in partition().
Changed(l) == kept # l

After(i, l) == (i % Len(l)) + 1

PickInit ==
    \E l \in PartitionLists :
        /\ kept = Sorted(l) /\ cycled = l /\ given = l
        /\ at \in Starts(l)
        /\ picks = <<>>

\* partition(key, l)
Partition(l) ==
    \E start \in Starts(l) :
        LET new == Changed(l)
            c == IF new THEN l ELSE cycled
            i == IF new THEN start ELSE at
        IN  /\ kept' = IF new THEN Sorted(l) ELSE kept
            /\ cycled' = c
            /\ at' = After(i, c)
            /\ given' = l
            /\ picks' = IF l = given THEN Append(picks, c[i]) ELSE <<c[i]>>

PickNext ==
    \E l \in PartitionLists :
        /\ l = given => Len(picks) < MaxPicks
        /\ Partition(l)

-----------------------------------------------------------------------------
(* Properties *)

Picked(p) == Cardinality({i \in DOMAIN picks : picks[i] = p})

\* As long as the list stays the same every partition gets its share, give or take
\* one message; and only partitions of the list that was given are picked.
PicksInTurn ==
    /\ Elements(picks) \subseteq Elements(given)
    /\ \A p, q \in Elements(given) : Picked(p) <= Picked(q) + 1
=============================================================================
