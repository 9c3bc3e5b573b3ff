------------------------------ MODULE MCEvents ------------------------------
(* Small instances of Events for TLC. *)
EXTENDS Events, TLC

Item(P, n) == [parties |-> P, amount |-> n]

\* One official party, two of them with another amount, or a party known by name only.
MCOne     == {Item({"i1"}, 1)}
MCParties == {Item({"i1"}, 1), Item({"i1", "i2"}, 2), Item({"i1", "n1"}, 1), Item({"n1"}, 1)}
Symmetry == Permutations(Records) \cup Permutations(Ents) \cup Permutations(Srcs)
              \cup Permutations(Scopes)
=============================================================================
