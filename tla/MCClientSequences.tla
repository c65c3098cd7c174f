------------------------- MODULE MCClientSequences -------------------------
(* ClientSequences with two slots, for TLC. *)
EXTENDS ClientSequences, TLC

MCCommandPriority == [start |-> 4, stop |-> 0]

\* Only for invariants: the servers are alike.
MCSymmetry == Permutations(Servers)

=============================================================================
