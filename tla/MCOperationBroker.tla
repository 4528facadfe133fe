--------------------------- MODULE MCOperationBroker ---------------------------
(* Constants that TLC needs for OperationBroker. *)
EXTENDS OperationBroker, TLC

\* Calls are interchangeable.
CallSymmetry == Permutations(Calls)

================================================================================
