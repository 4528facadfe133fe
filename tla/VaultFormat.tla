------------------------------ MODULE VaultFormat ------------------------------
(***************************************************************************)
(* What a vault file can hold, as far as vault-core.js tells contents      *)
(* apart.  A sealed vault is its format version and the set of rewrites it *)
(* contains: every encodeVault draws a fresh nonce, so two rewrites never  *)
(* produce the same bytes, and each is given a number of its own.  The     *)
(* revision of a file is the SHA-256 of its bytes (vault-core.js:24); it   *)
(* is collision free here, so the content itself is used as its revision.  *)
(***************************************************************************)
EXTENDS Naturals

CONSTANTS
    MaxWrites,      \* Bound: how many vault encodings a behaviour may make.
    Missing,        \* There is no file of that name (ENOENT).
    Torn,           \* A file whose bytes were written in part, or not flushed.
    Corrupt,        \* Bytes that something outside the program has damaged.
    Foreign         \* A file put there by hand before the program ran.

ASSUME MaxWritesAssumption == MaxWrites \in Nat

Writes == 1 .. MaxWrites

\* The versions validateHeader accepts.
Versions == {1, 2}

Vaults == [version : Versions, updates : SUBSET Writes]

NonVaults == {Missing, Torn, Corrupt, Foreign}

Contents == Vaults \cup NonVaults

ASSUME ContentsAssumption ==
    /\ NonVaults \cap Vaults = {}
    /\ Missing \notin {Torn, Corrupt, Foreign}
    /\ Torn \notin {Corrupt, Foreign}
    /\ Corrupt # Foreign

\* The rewrites a file's content carries.
UpdatesOf(c) == IF c \in Vaults THEN c.updates ELSE {}

\* encodeVault: a version 2 envelope of a session's entries with one more change.
Seal(c, u) == [version |-> 2, updates |-> UpdatesOf(c) \cup {u}]

================================================================================
