---------------------------- MODULE MCAlgorithms ----------------------------
(***************************************************************************)
(* The sequential algorithms of afkak for TLC, side by side: a behaviour   *)
(* runs one of them, on one of its inputs.                                 *)
(***************************************************************************)
EXTENDS Assignment, Partitioner, MessageSet

VARIABLE algorithm

vars == <<algorithm, avars, pvars, mvars>>

\* The others rest in one of their initial states.
AssignRests ==
    /\ subs = [m \in Members |-> Topics] /\ parts = [t \in Topics |-> 0]
    /\ left = {} /\ turn = 1 /\ out = [m \in Members |-> {}] /\ state = "start"
PickRests ==
    LET l == CHOOSE k \in PartitionLists : TRUE IN
    kept = Sorted(l) /\ cycled = l /\ at = 1 /\ given = l /\ picks = <<>>
DecodeRests ==
    set = <<>> /\ bad = 0 /\ length = 0 /\ cur = 0 /\ index = 0 /\ yielded = <<>> /\ ended = "no"

Init ==
    \/ algorithm = "assign" /\ AssignInit /\ PickRests /\ DecodeRests
    \/ algorithm = "pick" /\ AssignRests /\ PickInit /\ DecodeRests
    \/ algorithm = "decode" /\ AssignRests /\ PickRests /\ DecodeInit

Next ==
    \/ algorithm = "assign" /\ AssignNext /\ UNCHANGED <<algorithm, pvars, mvars>>
    \/ algorithm = "pick" /\ PickNext /\ UNCHANGED <<algorithm, avars, mvars>>
    \/ algorithm = "decode" /\ DecodeNext /\ UNCHANGED <<algorithm, avars, pvars>>

\* A call runs to its end.
Spec == Init /\ [][Next]_vars /\ WF_vars(algorithm = "assign" /\ Next)

\* Sorted lists, as KafkaClient keeps topic_partitions.
Lists == {<<0>>, <<0, 1>>, <<0, 2>>, <<0, 1, 2>>, <<1, 2, 3>>}

\* A list that some other user of RoundRobinPartitioner might give it.
UnsortedLists == {<<1, 0>>}

\* Plain and compressed entries, an empty compressed set included.
SomeSets ==
    UNION {{[i \in 1 .. n |-> [j \in 1 .. c[i] |-> 10 * i + j]] : c \in [1 .. n -> 0 .. 2]} : n \in 0 .. 3}
=============================================================================
