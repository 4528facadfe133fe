----------------------------- MODULE MCVaultAdmin -----------------------------
(* Constants that TLC needs for VaultAdmin: one name in two spellings, an    *)
(* alias of each kind, and the entries that an alias may hide.               *)
EXTENDS VaultAdmin

MCNames == {"KEY", "key", "login:a", "doc:key", "doc_key"}
MCLower == [n \in MCNames |-> IF n = "KEY" THEN "key" ELSE n]
MCLoginHost == [n \in MCNames |-> IF n = "login:a" THEN "a" ELSE None]
MCDocument == [n \in MCNames |-> IF n = "doc:key" THEN "doc_key" ELSE None]
MCCovers == [a |-> {"a", "sub.a"}, b |-> {"b"}]

MCCommands ==
    {[op |-> o] : o \in {"program", "create", "migrate", "export"}}
    \cup {[op |-> "import", migrate |-> b] : b \in BOOLEAN}
    \cup {[op |-> "add", name |-> n, domain |-> "a"] : n \in {"key", "doc_key"}}
    \cup {[op |-> "rename", name |-> n, to |-> "KEY"] : n \in {"key", "login:a", "doc:key"}}
    \cup {[op |-> "domain", name |-> "KEY", domain |-> d] : d \in {"a", "b"}}
    \cup {[op |-> "del", name |-> n] : n \in {"KEY", "login:a"}}

MCPatches == {[name |-> "KEY"], [domain |-> "a"], [domain |-> None], [name |-> Undefined]}
MCOpenPatches == MCPatches \cup {[domain |-> Undefined], [name |-> "KEY", domain |-> Undefined]}

\* A legacy vault, a vault of the current format and no vault.
MCFiles ==
    {Missing}
    \cup {[write |-> 0, vault |-> 0, version |-> v,
           entries |-> <<[id |-> -1, name |-> "key", domain |-> None],
                         [id |-> -2, name |-> "doc_key", domain |-> "a"]>>] : v \in {1, 2}}

=============================================================================
