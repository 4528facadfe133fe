--------------------------- MODULE MCExtensionBridge ---------------------------
(* Constants that TLC needs for ExtensionBridge. *)
EXTENDS ExtensionBridge, TLC

\* Pages, requests and clicks are interchangeable.
Symmetry == Permutations(Pages) \cup Permutations(Requests) \cup Permutations(Clicks)

================================================================================
