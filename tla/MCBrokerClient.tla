--------------------------- MODULE MCBrokerClient ---------------------------
(* Small instances of BrokerClient for TLC. *)
EXTENDS BrokerClient, TLC

\* The names of connections and of connect loops are interchangeable.
Symmetry == Permutations(Conn) \cup Permutations(Loop)
=============================================================================
