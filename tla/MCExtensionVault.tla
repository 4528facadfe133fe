---------------------------- MODULE MCExtensionVault ---------------------------
(* Constants that TLC needs for ExtensionVault. *)
EXTENDS ExtensionVault, TLC

\* A vault of the PWA in which two secrets have been given one name.
TwoOfOneName ==
    LET n == CHOOSE n \in Names : TRUE
    IN  {[key |-> 0, entries |-> {[id |-> e, name |-> n, value |-> e, key |-> 0] : e \in Elsewhere}]}

\* Pages are interchangeable, and so are operations and the entries of that vault.
Symmetry == Permutations(Tabs) \cup Permutations(Tasks) \cup Permutations(Elsewhere)

================================================================================
