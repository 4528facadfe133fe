----------------------------- MODULE VaultEntries -----------------------------
(***************************************************************************)
(* The entries of a vault, as the callbacks of VaultManager's mutations    *)
(* and lookups treat them (vault-core.js).  An entry is a function from    *)
(* its fields; a patch may set a field to Undefined, which Object.assign   *)
(* stores and JSON.stringify leaves out.  The value of a secret is stood   *)
(* for by the entry's id.                                                  *)
(***************************************************************************)
EXTENDS Naturals, Sequences, SequencesExt

CONSTANTS
    Names,          \* Names that validateName accepts.
    Lower,          \* Lower[n] is n.toLowerCase().
    LoginHost,      \* LoginHost[n] is the host of a name login:HOST, else None.
    Document,       \* Document[n] is doc_X, in lower case, of a name doc:X, else None.
    Covers,         \* Covers[h] is the set of origins that the host h matches.
    MaxEntries,     \* MAX_ENTRIES
    None,           \* null
    Undefined       \* undefined

ASSUME EntriesAssumption == MaxEntries \in Nat

ASSUME NamesAssumption ==
    /\ Lower \in [Names -> Names]
    /\ LoginHost \in [Names -> DOMAIN Covers \cup {None}]
    /\ Document \in [Names -> Names \cup {None}]
    /\ None \notin DOMAIN Covers \cup Names
    /\ Undefined \notin DOMAIN Covers \cup Names \cup {None}

Hosts == DOMAIN Covers

Fields == {"id", "name", "domain"}

NoEntry == [id |-> 0, name |-> None, domain |-> None]

IsCalled(e, n) == /\ e.name \in Names
                  /\ Lower[e.name] = Lower[n]

\* find: an alias names an entry by its host or by its document name, and hides
\* an entry that is literally called like the alias.
Denotes(n, e) ==
    IF LoginHost[n] # None THEN e.domain = LoginHost[n]
    ELSE IF Document[n] # None THEN IsCalled(e, Document[n])
    ELSE IsCalled(e, n)

Find(es, n) ==
    LET i == SelectInSeq(es, LAMBDA e : Denotes(n, e))
    IN  IF i = 0 THEN NoEntry ELSE es[i]

\* resolve: the entry whose value is told, or the refusal.
Resolve(es, n, origin) ==
    LET e == Find(es, n)
    IN  IF e = NoEntry THEN "not_found"
        ELSE IF e.domain \notin Hosts THEN "no_domain_binding"
        ELSE IF origin \notin Covers[e.domain] THEN "domain_mismatch"
        ELSE "ok"

Ids(es) == {e.id : e \in ToSet(es)}

Taken(es, n, id) == \E e \in ToSet(es) : e.id # id /\ IsCalled(e, n)

\* The callbacks of addSecret, updateSecret and deleteSecret: the entries after
\* the change, or None where they throw.
Add(es, id, n, d) ==
    IF Taken(es, n, id) THEN None
    ELSE Append(es, [id |-> id, name |-> n, domain |-> d])

\* Object.assign
Assign(target, fields) ==
    [f \in DOMAIN target \cup DOMAIN fields |->
        IF f \in DOMAIN fields THEN fields[f] ELSE target[f]]

Update(es, id, patch) ==
    IF \/ id \notin Ids(es)
       \/ "name" \in DOMAIN patch /\ patch.name # Undefined /\ Taken(es, patch.name, id)
    THEN None
    ELSE [i \in DOMAIN es |-> IF es[i].id = id THEN Assign(es[i], patch) ELSE es[i]]

Delete(es, id) ==
    IF id \notin Ids(es) THEN None
    ELSE RemoveAt(es, SelectInSeq(es, LAMBDA e : e.id = id))

\* validateEntries: not too many, the exact fields, names in the accepted alphabet,
\* no id and no name twice.  normalizeDomain takes undefined for null.
Valid(es) ==
    /\ Len(es) <= MaxEntries
    /\ \A e \in ToSet(es) : DOMAIN e = Fields /\ e.name \in Names
    /\ \A i, j \in DOMAIN es : i # j => /\ es[i].id # es[j].id
                                        /\ Lower[es[i].name] # Lower[es[j].name]

\* JSON.stringify: a field that holds undefined is not written.
Serialised(es) ==
    [i \in DOMAIN es |->
        [f \in {g \in DOMAIN es[i] : es[i][g] # Undefined} |-> es[i][f]]]

=============================================================================
