---------------------------- MODULE MCContentScript ----------------------------
(* Constants that TLC needs for ContentScript. *)
EXTENDS ContentScript, TLC

\* The passes of onSubmit are interchangeable.
PassSymmetry == Permutations(Passes)

================================================================================
