----------------------------- MODULE VaultRegister -----------------------------
(***************************************************************************)
(* What vault storage promises to the sessions that share one vault file,  *)
(* whatever interleaving, crash or I/O error happens inside it: one atomic *)
(* register.  A write extends the register's current value by one rewrite, *)
(* so nothing that is in the register is overwritten unseen; a write that  *)
(* was acknowledged is still in the register after any crash; an explicit  *)
(* recovery gives up at most one acknowledged write.  FileStorage is shown *)
(* to implement this module, and VaultSession is built on it.              *)
(***************************************************************************)
EXTENDS VaultFormat

VARIABLES
    register,       \* The content of the vault file.
    acked           \* The rewrites whose save() has resolved and that no
                    \* recovery has given up.

registerVars == <<register, acked>>

TypeOK ==
    /\ register \in Contents
    /\ acked \in SUBSET Writes

Init ==
    /\ register \in {Missing, [version |-> 1, updates |-> {}]}
    /\ acked = {}

\* A new file is created, or the current vault is replaced by one that extends it.
Commit ==
    /\ register \in Vaults \cup {Missing}
    /\ \E u \in Writes \ UpdatesOf(register) :
          \/ register' = Seal(register, u)
          \/ /\ register = Missing
             /\ register' = [version |-> 1, updates |-> {u}]
    /\ UNCHANGED acked

\* A save() resolves: its rewrite is in the register at that moment.
Acknowledge ==
    /\ \E u \in UpdatesOf(register) : acked' = acked \cup {u}
    /\ UNCHANGED register

\* An operator's explicit recovery puts back an earlier vault, which misses at
\* most one acknowledged rewrite.
Restore ==
    /\ register' \in Vaults
    /\ \E u \in Writes \cup {0} : acked \subseteq UpdatesOf(register') \cup {u}
    /\ acked' = acked \cap UpdatesOf(register')

\* Something outside the program damages the file.
Damage ==
    /\ register' = Corrupt
    /\ UNCHANGED acked

\* A power loss may undo writes, but no acknowledged one.
PowerLoss ==
    /\ register' \in Vaults \cup {Missing, Corrupt}
    /\ register' # Corrupt => acked \subseteq UpdatesOf(register')
    /\ UNCHANGED acked

Next == Commit \/ Acknowledge \/ Restore \/ Damage \/ PowerLoss

Spec == Init /\ [][Next]_registerVars

\* Every acknowledged write is in the register, unless the file is damaged.
Retained == register # Corrupt => acked \subseteq UpdatesOf(register)

================================================================================
