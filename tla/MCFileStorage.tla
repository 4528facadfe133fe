----------------------------- MODULE MCFileStorage -----------------------------
(* Constants that TLC needs for FileStorage. *)
EXTENDS FileStorage, TLC

\* Sessions are interchangeable: no step or property names one of them.
SessionSymmetry == Permutations(Sessions)

================================================================================
