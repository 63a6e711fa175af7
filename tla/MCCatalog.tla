----------------------------- MODULE MCCatalog -----------------------------
(* Catalog on small instances: constants for TLC.                          *)
EXTENDS Catalog, TLC

Symmetry == Permutations(Channels) \cup Permutations(Editors) \cup Permutations(Names)

OnePrice == {[input |-> 1, output |-> 1]}

=============================================================================
