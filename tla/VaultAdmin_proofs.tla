---------------------------- MODULE VaultAdmin_proofs ----------------------------
(***************************************************************************)
(* Proofs about VaultAdmin, for every set of processes, commands, patches, *)
(* names and files.                                                        *)
(***************************************************************************)
EXTENDS VaultAdmin, SequenceTheorems, TLAPS

\* A replaced vault is the one that was read, and what is sealed keeps its salt.
LEMMA ReplaceKeeps ==
  ASSUME NEW p, NEW version, NEW es, Replace(p, Sealed(session[p].read.vault, version, es))
  PROVE  main'.vault = main.vault /\ side' = side
  BY DEF Replace, Sealed

\* However the commands of all processes interleave, a vault gives way only to a
\* newer state of the same vault, to its backup or to damage, and an export to nothing.
THEOREM VaultsNotOverwritten == Spec => NeverOverwritten
  <1> DEFINE Kept == /\ IsVault(main) /\ main' \notin {main, backup, Damaged} => main'.vault = main.vault
                     /\ side # Missing => side' = side
  <1>1. [Next]_vars => [Kept]_vars
    <2> SUFFICES ASSUME Next PROVE Kept
      OBVIOUS
    <2>1. ASSUME NEW p \in Processes, NEW c \in Commands, Open(p, c) \/ OpenNew(p, c)
          PROVE  Kept
      BY <2>1 DEF Open, OpenNew
    <2>2. ASSUME NEW p \in Processes, Leave(p) \/ Recover(p)
          PROVE  Kept
      BY <2>2 DEF Leave, Recover
    <2>3. ASSUME NEW p \in Processes, Export(p)
          PROVE  Kept
      BY <2>3 DEF Export
    <2>4. ASSUME NEW p \in Processes, Writing(p)
          PROVE  Kept
      <3>1. CASE Edit(p)
        BY <3>1, ReplaceKeeps DEF Edit
      <3>2. CASE ProgramEdit(p)
        BY <3>2, ReplaceKeeps DEF ProgramEdit
      <3>3. CASE Migrate(p)
        BY <3>3, ReplaceKeeps DEF Migrate
      <3>4. CASE Create(p) \/ Import(p)
        BY <3>4 DEF Create, Import, IsVault
      <3> QED
        BY <2>4, <3>1, <3>2, <3>3, <3>4 DEF Writing
    <2>5. CASE Damage
      BY <2>5 DEF Damage
    <2> QED
      BY <2>1, <2>2, <2>3, <2>4, <2>5 DEF Next
  <1> QED
    BY <1>1, PTL DEF Spec, NeverOverwritten

--------------------------------------------------------------------------------
(* Lists of entries. *)

\* In memory a program may have set the binding to undefined; a file has no
\* field for it then.
EntryOf(D) == [id : AllIds, name : Names, domain : D]

MemoryEntry == EntryOf(Hosts \cup {None, Undefined})

WrittenEntry == Entry \cup [id : AllIds, name : Names]

LEMMA EntryIs == Entry = EntryOf(Hosts \cup {None}) /\ Entry \subseteq MemoryEntry /\ Entry \subseteq WrittenEntry
  BY DEF Entry, EntryOf, MemoryEntry, WrittenEntry

LEMMA CompleteIs ==
  ASSUME NEW es \in Seq(Entry)
  PROVE  es \in Seq(MemoryEntry) /\ es \in Seq(WrittenEntry)
  <1>1. ASSUME NEW i \in 1 .. Len(es) PROVE es[i] \in MemoryEntry /\ es[i] \in WrittenEntry
    <2>1. es[i] \in Entry
      OBVIOUS
    <2> QED
      BY <2>1, EntryIs
  <1>2. es = [i \in 1 .. Len(es) |-> es[i]] /\ Len(es) \in Nat
    OBVIOUS
  <1> QED
    BY <1>1, <1>2

\* Nothing undefined is in an entry that is complete.
LEMMA SerialisedSame ==
  ASSUME NEW es \in Seq(Entry)
  PROVE  Serialised(es) = es
  <1>1. ASSUME NEW i \in DOMAIN es
        PROVE  [f \in {g \in DOMAIN es[i] : es[i][g] # Undefined} |-> es[i][f]] = es[i]
    <2>1. es[i] \in Entry
      OBVIOUS
    <2>2. DOMAIN es[i] = {"id", "name", "domain"}
      BY <2>1 DEF Entry
    <2>3. \A g \in DOMAIN es[i] : es[i][g] # Undefined
      BY <2>1, <2>2, FilesAssumption, NamesAssumption DEF Entry, Hosts
    <2>4. {g \in DOMAIN es[i] : es[i][g] # Undefined} = DOMAIN es[i]
      BY <2>3
    <2> QED
      BY <2>1, <2>4 DEF Entry
  <1> DEFINE Kept(e) == [f \in {g \in DOMAIN e : e[g] # Undefined} |-> e[f]]
  <1>2. Serialised(es) = [i \in DOMAIN es |-> Kept(es[i])]
    BY DEF Serialised
  <1>3. \A i \in DOMAIN es : Kept(es[i]) = es[i]
    BY <1>1
  <1> HIDE DEF Kept
  <1> QED
    BY <1>2, <1>3

LEMMA SerialisedWritten ==
  ASSUME NEW es \in Seq(MemoryEntry)
  PROVE  /\ Serialised(es) \in Seq(WrittenEntry)
         /\ DOMAIN Serialised(es) = DOMAIN es
         /\ \A i \in DOMAIN es : Serialised(es)[i].id = es[i].id /\ Serialised(es)[i].name = es[i].name
  <1> DEFINE Kept(e) == [f \in {g \in DOMAIN e : e[g] # Undefined} |-> e[f]]
  <1>1. ASSUME NEW e \in MemoryEntry
        PROVE  Kept(e) \in WrittenEntry /\ Kept(e).id = e.id /\ Kept(e).name = e.name
    <2>1. DOMAIN e = {"id", "name", "domain"} /\ e.id # Undefined /\ e.name # Undefined
      BY FilesAssumption, NamesAssumption DEF MemoryEntry, EntryOf
    <2>2. CASE e.domain = Undefined
      <3>1. {g \in DOMAIN e : e[g] # Undefined} = {"id", "name"}
        BY <2>1, <2>2
      <3>2. [f \in {"id", "name"} |-> e[f]] \in [id : AllIds, name : Names]
        BY DEF MemoryEntry, EntryOf
      <3> QED
        BY <3>1, <3>2 DEF WrittenEntry
    <2>3. CASE e.domain # Undefined
      <3>1. {g \in DOMAIN e : e[g] # Undefined} = DOMAIN e
        BY <2>1, <2>3
      <3>2. e \in Entry /\ [f \in DOMAIN e |-> e[f]] = e
        BY <2>3 DEF MemoryEntry, EntryOf, Entry
      <3> QED
        BY <3>1, <3>2 DEF WrittenEntry
    <2> QED
      BY <2>2, <2>3
  <1>2. \A i \in 1 .. Len(es) : es[i] \in MemoryEntry
    OBVIOUS
  <1>3. Serialised(es) = [i \in 1 .. Len(es) |-> Kept(es[i])]
    BY DEF Serialised
  <1> HIDE DEF Kept
  <1> QED
    BY <1>1, <1>2, <1>3

\* A patch leaves the id of an entry.
LEMMA Patched ==
  ASSUME NEW D, NEW e \in EntryOf(D), NEW t, DOMAIN t \subseteq {"name", "domain"},
         "name" \in DOMAIN t => t.name \in Names, "domain" \in DOMAIN t => t.domain \in D
  PROVE  /\ Assign(e, t) \in EntryOf(D)
         /\ Assign(e, t).id = e.id
         /\ Assign(e, t).name = IF "name" \in DOMAIN t THEN t.name ELSE e.name
  <1>1. DOMAIN e = {"id", "name", "domain"} /\ e.id \in AllIds /\ e.name \in Names /\ e.domain \in D
    BY DEF EntryOf
  <1>2. Assign(e, t) = [x \in {"id", "name", "domain"} |-> IF x \in DOMAIN t THEN t[x] ELSE e[x]]
    BY <1>1 DEF Assign
  <1> QED
    BY <1>1, <1>2 DEF EntryOf

\* An id that occurs once is found where it is.
LEMMA OnlyPlace ==
  ASSUME NEW es \in Seq(MemoryEntry), NEW k \in DOMAIN es,
         \A i \in DOMAIN es : es[i].id = es[k].id => i = k
  PROVE  SelectInSeq(es, LAMBDA e : e.id = es[k].id) = k
  <1>1. {i \in 1 .. Len(es) : es[i].id = es[k].id} = {k}
    OBVIOUS
  <1> QED
    BY <1>1 DEF SelectInSeq, Min

LEMMA Removal ==
  ASSUME NEW S, NEW es \in Seq(S), NEW k \in DOMAIN es
  PROVE  /\ RemoveAt(es, k) \in Seq(S)
         /\ Len(RemoveAt(es, k)) = Len(es) - 1
         /\ \A i \in 1 .. Len(es) - 1 : RemoveAt(es, k)[i] = IF i < k THEN es[i] ELSE es[i + 1]
  <1> DEFINE before == SubSeq(es, 1, k - 1)
             after == SubSeq(es, k + 1, Len(es))
  <1>1. /\ before \in Seq(S) /\ Len(before) = k - 1
        /\ \A i \in 1 .. k - 1 : before[i] = es[i]
    BY SubSeqProperties
  <1>2. /\ after \in Seq(S) /\ Len(after) = Len(es) - k
        /\ \A i \in 1 .. Len(es) - k : after[i] = es[k + i]
    BY SubSeqProperties
  <1>3. RemoveAt(es, k) = before \o after
    BY DEF RemoveAt
  <1> HIDE DEF before, after
  <1>4. Len(before \o after) = Len(es) - 1
    BY <1>1, <1>2
  <1>5. ASSUME NEW i \in 1 .. Len(es) - 1
        PROVE  (before \o after)[i] = IF i < k THEN es[i] ELSE es[i + 1]
    <2>1. CASE i < k
      BY <1>1, <1>2, <2>1
    <2>2. CASE ~(i < k)
      <3>1. /\ i \in 1 .. Len(before) + Len(after) /\ ~(i <= Len(before))
            /\ i - Len(before) \in 1 .. Len(es) - k
        BY <1>1, <1>2, <2>2
      <3>2. (before \o after)[i] = after[i - Len(before)]
        BY <1>1, <1>2, <3>1, ConcatProperties, Zenon
      <3>3. after[i - Len(before)] = es[k + (i - Len(before))]
        BY <1>2, <3>1, Zenon
      <3>4. k + (i - Len(before)) = i + 1
        BY <1>1
      <3> QED
        BY <2>2, <3>2, <3>3, <3>4, Zenon
    <2> QED
      BY <2>1, <2>2
  <1> QED
    BY <1>1, <1>2, <1>3, <1>4, <1>5

--------------------------------------------------------------------------------
(* What commands and library calls make of a list of entries. *)

\* No id twice, no name twice, and ids of the first vaults or of n encodings.
Distinct(es, n) ==
  /\ \A i, j \in DOMAIN es : i # j => /\ es[i].id # es[j].id
                                      /\ Lower[es[i].name] # Lower[es[j].name]
  /\ \A i \in DOMAIN es : es[i].id \in OldIds \cup 1 .. n

\* The entries of a session and those of a file, after n encodings.
InMemory(es, n) == es \in Seq(MemoryEntry) /\ Distinct(es, n)

OnDisk(es, n) == es \in Seq(WrittenEntry) /\ Len(es) <= MaxEntries /\ Distinct(es, n)

\* The entries es and fs differ in no entry but that with the given id.
DiffersAt(es, fs, id) ==
  \A other : other # id =>
      {e \in ToSet(es) : e.id = other} = {e \in ToSet(fs) : e.id = other}

LEMMA InMemoryLater ==
  ASSUME NEW es, NEW n \in Nat, InMemory(es, n)
  PROVE  InMemory(es, n + 1)
  BY DEF InMemory, Distinct

LEMMA AddKeeps ==
  ASSUME NEW n \in Nat, NEW es, InMemory(es, n), NEW name \in Names, NEW d \in Hosts \cup {None},
         Add(es, n + 1, name, d) # None
  PROVE  /\ InMemory(Add(es, n + 1, name, d), n + 1)
         /\ es \in Seq(Entry) => Add(es, n + 1, name, d) \in Seq(Entry)
  <1> DEFINE e == [id |-> n + 1, name |-> name, domain |-> d]
             fs == Append(es, e)
  <1>1. ~Taken(es, name, n + 1) /\ Add(es, n + 1, name, d) = fs
    BY DEF Add
  <1>2. e \in Entry /\ e \in MemoryEntry
    BY DEF Entry, AllIds, MemoryEntry, EntryOf
  <1>3. es \in Seq(MemoryEntry) /\ fs \in Seq(MemoryEntry) /\ Len(fs) = Len(es) + 1
    BY <1>2 DEF InMemory, Distinct
  <1>4. ASSUME NEW i \in DOMAIN es PROVE fs[i] = es[i] /\ es[i].name \in Names
    <2>1. es[i] \in MemoryEntry
      BY <1>3
    <2> QED
      BY <1>3, <2>1 DEF MemoryEntry, EntryOf
  <1>5. fs[Len(fs)] = e /\ DOMAIN fs = DOMAIN es \cup {Len(fs)}
    BY <1>3
  <1>6. \A i \in DOMAIN es : es[i].id # n + 1
    BY FilesAssumption DEF InMemory, Distinct
  <1>7. \A i \in DOMAIN es : Lower[es[i].name] # Lower[name]
    BY <1>1, <1>4, <1>6 DEF Taken, IsCalled, ToSet
  <1>8. e.id = n + 1 /\ e.name = name
    OBVIOUS
  <1>9. es \in Seq(Entry) => fs \in Seq(Entry)
    BY <1>2
  <1> HIDE DEF e, fs
  <1>10. ASSUME NEW i \in DOMAIN fs, NEW j \in DOMAIN fs, i # j
        PROVE  fs[i].id # fs[j].id /\ Lower[fs[i].name] # Lower[fs[j].name]
    <2>1. CASE i \in DOMAIN es /\ j \in DOMAIN es
      BY <1>4, <1>10, <2>1 DEF InMemory, Distinct
    <2>2. CASE i = Len(fs)
      BY <1>4, <1>5, <1>6, <1>7, <1>8, <1>10, <2>2
    <2>3. CASE j = Len(fs)
      BY <1>4, <1>5, <1>6, <1>7, <1>8, <1>10, <2>3
    <2> QED
      BY <1>5, <2>1, <2>2, <2>3
  <1>11. ASSUME NEW i \in DOMAIN fs PROVE fs[i].id \in OldIds \cup 1 .. n + 1
    <2>1. CASE i \in DOMAIN es
      BY <1>4, <2>1 DEF InMemory, Distinct
    <2>2. CASE i = Len(fs)
      BY <1>5, <1>8, <2>2
    <2> QED
      BY <1>5, <2>1, <2>2
  <1> QED
    BY <1>1, <1>3, <1>9, <1>10, <1>11 DEF InMemory, Distinct

LEMMA UpdateKeeps ==
  ASSUME NEW n \in Nat, NEW es, InMemory(es, n), NEW id, NEW t, Update(es, id, t) # None,
         DOMAIN t \subseteq {"name", "domain"},
         "name" \in DOMAIN t => t.name \in Names,
         "domain" \in DOMAIN t => t.domain \in Hosts \cup {None, Undefined}
  PROVE  /\ InMemory(Update(es, id, t), n)
         /\ DiffersAt(es, Update(es, id, t), id)
         /\ es \in Seq(Entry) /\ ("domain" \in DOMAIN t => t.domain # Undefined)
            => Update(es, id, t) \in Seq(Entry)
  <1> DEFINE fs == [i \in DOMAIN es |-> IF es[i].id = id THEN Assign(es[i], t) ELSE es[i]]
  <1>1. Update(es, id, t) = fs /\ ("name" \in DOMAIN t => ~Taken(es, t.name, id))
    BY NamesAssumption DEF Update
  <1>2. \A i \in DOMAIN es : es[i] \in MemoryEntry
    BY DEF InMemory, Distinct
  <1>3. ASSUME NEW i \in DOMAIN es
        PROVE  /\ fs[i] \in MemoryEntry
               /\ fs[i].id = es[i].id
               /\ fs[i].name = IF es[i].id = id /\ "name" \in DOMAIN t THEN t.name ELSE es[i].name
               /\ es[i].id # id => fs[i] = es[i]
    <2>1. CASE es[i].id = id
      <3>1. es[i] \in EntryOf(Hosts \cup {None, Undefined})
        BY <1>2 DEF MemoryEntry
      <3>2. /\ Assign(es[i], t) \in EntryOf(Hosts \cup {None, Undefined})
            /\ Assign(es[i], t).id = es[i].id
            /\ Assign(es[i], t).name = IF "name" \in DOMAIN t THEN t.name ELSE es[i].name
        BY <3>1, Patched
      <3> QED
        BY <2>1, <3>2 DEF MemoryEntry
    <2>2. CASE es[i].id # id
      BY <1>2, <2>2
    <2> QED
      BY <2>1, <2>2
  <1>4. fs \in Seq(MemoryEntry) /\ DOMAIN fs = DOMAIN es
    BY <1>3 DEF InMemory, Distinct
  <1>5. es \in Seq(Entry) /\ ("domain" \in DOMAIN t => t.domain # Undefined) => fs \in Seq(Entry)
    <2> SUFFICES ASSUME es \in Seq(Entry), "domain" \in DOMAIN t => t.domain # Undefined
                 PROVE  fs \in Seq(Entry)
      OBVIOUS
    <2>1. ASSUME NEW i \in DOMAIN es PROVE fs[i] \in Entry
      BY Patched, EntryIs
    <2> QED
      BY <2>1
  <1> HIDE DEF fs
  <1>6. ASSUME NEW i \in DOMAIN fs, NEW j \in DOMAIN fs, i # j
        PROVE  fs[i].id # fs[j].id /\ Lower[fs[i].name] # Lower[fs[j].name]
    <2>1. es[i].id # es[j].id /\ Lower[es[i].name] # Lower[es[j].name]
      BY <1>4, <1>6 DEF InMemory, Distinct
    <2>2. \A k \in DOMAIN es : es[k] \in ToSet(es) /\ es[k].name \in Names
      BY <1>2 DEF ToSet, MemoryEntry, EntryOf
    <2>3. "name" \in DOMAIN t => \A k \in DOMAIN es : es[k].id # id => Lower[es[k].name] # Lower[t.name]
      BY <1>1, <2>2 DEF Taken, IsCalled
    <2> QED
      BY <1>3, <1>4, <2>1, <2>3
  <1>7. \A i \in DOMAIN fs : fs[i].id \in OldIds \cup 1 .. n
    BY <1>3, <1>4 DEF InMemory, Distinct
  <1>8. DiffersAt(es, fs, id)
    BY <1>3, <1>4 DEF DiffersAt, ToSet
  <1> QED
    BY <1>1, <1>4, <1>5, <1>6, <1>7, <1>8 DEF InMemory, Distinct

LEMMA DeleteKeeps ==
  ASSUME NEW n \in Nat, NEW es, InMemory(es, n), NEW id, Delete(es, id) # None
  PROVE  /\ InMemory(Delete(es, id), n)
         /\ DiffersAt(es, Delete(es, id), id)
         /\ es \in Seq(Entry) => Delete(es, id) \in Seq(Entry)
  <1>1. PICK k \in DOMAIN es : es[k].id = id
    BY DEF Delete, Ids, ToSet
  <1>2. es \in Seq(MemoryEntry) /\ \A i \in DOMAIN es : es[i].id = es[k].id => i = k
    BY DEF InMemory, Distinct
  <1>3. SelectInSeq(es, LAMBDA e : e.id = es[k].id) = k
    BY <1>2, OnlyPlace
  <1> DEFINE fs == RemoveAt(es, k)
             at(i) == IF i < k THEN i ELSE i + 1
  <1>4. Delete(es, id) = fs
    BY <1>1, <1>3 DEF Delete, Ids, ToSet
  <1>5. /\ fs \in Seq(MemoryEntry)
        /\ es \in Seq(Entry) => fs \in Seq(Entry)
        /\ DOMAIN fs = 1 .. Len(es) - 1
        /\ \A i \in DOMAIN fs : at(i) \in DOMAIN es /\ at(i) # k /\ fs[i] = es[at(i)]
    <2>1. /\ fs \in Seq(MemoryEntry) /\ Len(fs) = Len(es) - 1
          /\ \A i \in 1 .. Len(es) - 1 : fs[i] = IF i < k THEN es[i] ELSE es[i + 1]
      BY <1>2, Removal
    <2>2. es \in Seq(Entry) => fs \in Seq(Entry)
      BY Removal
    <2>3. k \in 1 .. Len(es) /\ Len(es) \in Nat
      BY <1>2
    <2> HIDE DEF fs
    <2> QED
      BY <1>2, <2>1, <2>2, <2>3
  <1>6. \A i, j \in DOMAIN fs : i # j => at(i) # at(j)
    BY <1>5
  <1>7. ASSUME NEW j \in DOMAIN es, j # k PROVE \E i \in DOMAIN fs : at(i) = j
    <2>1. CASE j < k
      BY <1>5, <1>7, <2>1
    <2>2. CASE j > k
      <3>1. j - 1 \in DOMAIN fs /\ at(j - 1) = j
        BY <1>2, <1>5, <2>2
      <3> QED
        BY <3>1
    <2> QED
      BY <1>2, <1>7, <2>1, <2>2
  <1> HIDE DEF fs, at
  <1>8. DiffersAt(es, fs, id)
    BY <1>1, <1>5, <1>7 DEF DiffersAt, ToSet
  <1>9. InMemory(fs, n)
    BY <1>5, <1>6 DEF InMemory, Distinct
  <1> QED
    BY <1>4, <1>5, <1>8, <1>9

LEMMA OnDiskLater ==
  ASSUME NEW es, NEW n \in Nat, OnDisk(es, n)
  PROVE  OnDisk(es, n + 1)
  BY DEF OnDisk, Distinct

LEMMA WrittenToDisk ==
  ASSUME NEW es, NEW n, InMemory(es, n), Len(es) <= MaxEntries
  PROVE  OnDisk(Serialised(es), n)
  <1>1. /\ es \in Seq(MemoryEntry) /\ Serialised(es) \in Seq(WrittenEntry)
        /\ DOMAIN Serialised(es) = DOMAIN es
        /\ \A i \in DOMAIN es : Serialised(es)[i].id = es[i].id /\ Serialised(es)[i].name = es[i].name
    BY SerialisedWritten DEF InMemory
  <1>2. Len(Serialised(es)) = Len(es)
    BY <1>1
  <1> QED
    BY <1>1, <1>2 DEF InMemory, OnDisk, Distinct

\* What decodeVault accepts is complete, and what is complete it accepts.
LEMMA DecodedComplete ==
  ASSUME NEW es, NEW n, OnDisk(es, n), Valid(es)
  PROVE  es \in Seq(Entry) /\ InMemory(es, n)
  <1>1. ASSUME NEW i \in 1 .. Len(es) PROVE es[i] \in Entry
    <2>1. es[i] \in WrittenEntry /\ es[i] \in ToSet(es)
      BY DEF OnDisk, ToSet
    <2>2. DOMAIN es[i] = {"id", "name", "domain"}
      BY <2>1 DEF Valid, Fields
    <2>3. ASSUME es[i] \in [id : AllIds, name : Names] PROVE FALSE
      <3>1. DOMAIN es[i] = {"id", "name"}
        BY <2>3
      <3>2. "domain" \notin {"id", "name"}
        OBVIOUS
      <3> QED
        BY <2>2, <3>1, <3>2
    <2> QED
      BY <2>1, <2>3 DEF WrittenEntry
  <1>2. es \in Seq(Entry)
    BY <1>1 DEF OnDisk
  <1> QED
    BY <1>2, CompleteIs DEF OnDisk, InMemory

LEMMA CompleteAccepted ==
  ASSUME NEW es \in Seq(Entry), NEW n, OnDisk(es, n)
  PROVE  Valid(es)
  <1>1. ASSUME NEW e \in ToSet(es) PROVE DOMAIN e = Fields /\ e.name \in Names
    <2>1. e \in Entry
      BY DEF ToSet
    <2> QED
      BY <2>1 DEF Entry, Fields
  <1> QED
    BY <1>1 DEF Valid, OnDisk, Distinct

LEMMA FirstFile ==
  ASSUME NEW f \in Files, IsVault(f)
  PROVE  f.entries \in Seq(Entry) /\ OnDisk(f.entries, 0)
  <1>1. f.entries \in Seq(Entry) /\ Valid(f.entries)
    BY FilesAssumption
  <1>2. f.entries \in Seq(WrittenEntry)
    BY <1>1, CompleteIs
  <1>3. \A i \in DOMAIN f.entries : f.entries[i].id \in OldIds
    BY DEF OldIds, Ids, ToSet
  <1> QED
    BY <1>1, <1>2, <1>3 DEF OnDisk, Distinct, Valid

\* The patch of a library call is stored only when encodeVault accepts every name
\* afterwards, so it does not set the name to undefined.
LEMMA PatchNames ==
  ASSUME NEW n, NEW es, InMemory(es, n), NEW id \in Ids(es), NEW t \in Patches,
         Update(es, id, t) # None, \A e \in ToSet(Update(es, id, t)) : e.name \in Names
  PROVE  /\ DOMAIN t \subseteq {"name", "domain"}
         /\ "name" \in DOMAIN t => t.name \in Names
         /\ "domain" \in DOMAIN t => t.domain \in Hosts \cup {None, Undefined}
  <1> DEFINE fs == [i \in DOMAIN es |-> IF es[i].id = id THEN Assign(es[i], t) ELSE es[i]]
  <1>1. Update(es, id, t) = fs
    BY NamesAssumption DEF Update
  <1>2. PICK k \in DOMAIN es : es[k].id = id
    BY DEF Ids, ToSet
  <1>3. fs \in Seq({fs[i] : i \in DOMAIN es}) /\ DOMAIN fs = DOMAIN es
    BY DEF InMemory
  <1>4. fs[k] = Assign(es[k], t) /\ fs[k] \in ToSet(fs)
    BY <1>2, <1>3 DEF ToSet
  <1>5. "name" \in DOMAIN t => fs[k].name = t.name
    BY <1>4 DEF Assign
  <1> QED
    BY <1>1, <1>4, <1>5, PatchesAssumption

--------------------------------------------------------------------------------
(* The invariant. *)

\* A command edits what it read; a program keeps what it wrote last.
SessionOK(s, n) ==
  /\ s.op \in Edits \cup {"program", "migrate"} => InMemory(s.entries, n)
  /\ s.op \in Edits \cup {"migrate"} => s.entries \in Seq(Entry) /\ s.entries = s.read.entries
  /\ s.op \in Edits => s.name \in Names
  /\ s.op = "rename" => s.to \in Names
  /\ s.op \in {"add", "domain"} => s.domain \in Hosts \cup {None}
  /\ s.op = "program" => {"read", "entries"} \subseteq DOMAIN s
  /\ s.op \in {"import", "export"} => /\ s.read.entries \in Seq(Entry)
                                      /\ InMemory(s.read.entries, n) /\ OnDisk(s.read.entries, n)

FileOK(f, n) == IsVault(f) => OnDisk(f.entries, n)

Inv ==
  /\ writes \in Nat
  /\ FileOK(main, writes) /\ FileOK(backup, writes) /\ FileOK(side, writes)
  /\ DOMAIN session = Processes
  /\ \A p \in Processes : SessionOK(session[p], writes)

\* With patches that set no field to undefined, nothing is missing anywhere.
Complete ==
  /\ \A f \in {main, backup, side} : IsVault(f) => f.entries \in Seq(Entry)
  /\ \A p \in Processes : session[p].op = "program" => session[p].entries \in Seq(Entry)

LEMMA SessionLater ==
  ASSUME NEW s, NEW n \in Nat, SessionOK(s, n)
  PROVE  SessionOK(s, n + 1)
  BY InMemoryLater, OnDiskLater DEF SessionOK

LEMMA FileLater ==
  ASSUME NEW f, NEW n \in Nat, FileOK(f, n)
  PROVE  FileOK(f, n + 1)
  BY OnDiskLater DEF FileOK

LEMMA SealedOK ==
  ASSUME NEW vault, NEW version, NEW es, NEW n, InMemory(es, n),
         Sealed(vault, version, es) # None
  PROVE  /\ FileOK(Sealed(vault, version, es), n)
         /\ Sealed(vault, version, es).entries = Serialised(es)
  <1>1. Valid(es) /\ Sealed(vault, version, es).entries = Serialised(es)
    BY DEF Sealed
  <1>2. OnDisk(Serialised(es), n)
    BY <1>1, WrittenToDisk DEF Valid
  <1> QED
    BY <1>1, <1>2 DEF FileOK

\* A command that the tool accepts keeps the entries well formed, and only an
\* addition concerns another entry than the one it looked up.
LEMMA ToolEdits ==
  ASSUME writes \in Nat, NEW s, SessionOK(s, writes), s.op \in Edits, Edited(s) # None
  PROVE  /\ InMemory(Edited(s), writes + 1)
         /\ Edited(s) \in Seq(Entry)
         /\ s.op # "add" => DiffersAt(s.entries, Edited(s), Find(s.entries, s.name).id)
  <1> DEFINE id == Find(s.entries, s.name).id
  <1>1. InMemory(s.entries, writes) /\ s.entries \in Seq(Entry) /\ s.name \in Names
    BY DEF SessionOK
  <1>2. CASE s.op = "add"
    <2>1. Edited(s) = Add(s.entries, writes + 1, s.name, s.domain) /\ s.domain \in Hosts \cup {None}
      BY <1>2 DEF Edited, SessionOK
    <2> QED
      BY <1>1, <1>2, <2>1, AddKeeps
  <1>3. CASE s.op = "rename"
    <2>1. Edited(s) = Update(s.entries, id, [name |-> s.to]) /\ s.to \in Names
      BY <1>3 DEF Edited, SessionOK
    <2>2. /\ InMemory(Edited(s), writes) /\ Edited(s) \in Seq(Entry)
          /\ DiffersAt(s.entries, Edited(s), id)
      BY <1>1, <2>1, UpdateKeeps
    <2> QED
      BY <2>2, InMemoryLater
  <1>4. CASE s.op = "domain"
    <2>1. Edited(s) = Update(s.entries, id, [domain |-> s.domain]) /\ s.domain \in Hosts \cup {None}
      BY <1>4 DEF Edited, SessionOK
    <2>2. s.domain # Undefined
      BY <2>1, NamesAssumption DEF Hosts
    <2>3. /\ InMemory(Edited(s), writes) /\ Edited(s) \in Seq(Entry)
          /\ DiffersAt(s.entries, Edited(s), id)
      BY <1>1, <2>1, <2>2, UpdateKeeps
    <2> QED
      BY <2>3, InMemoryLater
  <1>5. CASE s.op = "del"
    <2>1. Edited(s) = Delete(s.entries, id)
      BY <1>5 DEF Edited
    <2>2. /\ InMemory(Edited(s), writes) /\ Edited(s) \in Seq(Entry)
          /\ DiffersAt(s.entries, Edited(s), id)
      BY <1>1, <2>1, DeleteKeeps
    <2> QED
      BY <2>2, InMemoryLater
  <1> QED
    BY <1>2, <1>3, <1>4, <1>5 DEF Edits

\* The patches of a library call set no domain to undefined.
Careful == \A t \in Patches : "domain" \in DOMAIN t => t.domain # Undefined

LEMMA LibraryEditsKeep ==
  ASSUME writes \in Nat, NEW old, InMemory(old, writes),
         NEW es \in LibraryEdits(old),
         es # None, Valid(es)
  PROVE  /\ InMemory(es, writes + 1)
         /\ Careful /\ old \in Seq(Entry) => es \in Seq(Entry)
  <1>1. ASSUME NEW n \in Names, es = Add(old, writes + 1, n, None)
        PROVE  /\ InMemory(es, writes + 1)
               /\ old \in Seq(Entry) => es \in Seq(Entry)
    BY <1>1, AddKeeps
  <1>2. ASSUME NEW id \in Ids(old), NEW t \in Patches, es = Update(old, id, t)
        PROVE  /\ InMemory(es, writes + 1)
               /\ Careful /\ old \in Seq(Entry) => es \in Seq(Entry)
    <2>1. /\ DOMAIN t \subseteq {"name", "domain"}
          /\ "name" \in DOMAIN t => t.name \in Names
          /\ "domain" \in DOMAIN t => t.domain \in Hosts \cup {None, Undefined}
      BY <1>2, PatchNames DEF Valid
    <2>2. /\ InMemory(es, writes)
          /\ old \in Seq(Entry) /\ ("domain" \in DOMAIN t => t.domain # Undefined) => es \in Seq(Entry)
      BY <1>2, <2>1, UpdateKeeps
    <2> QED
      BY <2>2, InMemoryLater DEF Careful
  <1>3. ASSUME NEW id \in Ids(old), es = Delete(old, id)
        PROVE  /\ InMemory(es, writes + 1)
               /\ old \in Seq(Entry) => es \in Seq(Entry)
    BY <1>3, DeleteKeeps, InMemoryLater
  <1> QED
    BY <1>1, <1>2, <1>3 DEF LibraryEdits

--------------------------------------------------------------------------------
(* The steps. *)

LEMMA InvInit == Init => Inv /\ Complete
  <1> SUFFICES ASSUME Init PROVE Inv /\ Complete
    OBVIOUS
  <1>1. writes = 0 /\ DOMAIN session = Processes
    BY DEF Init
  <1>2. \A f \in {main, backup, side} : IsVault(f) => f.entries \in Seq(Entry) /\ OnDisk(f.entries, 0)
    BY FirstFile DEF Init, IsVault
  <1>3. \A p \in Processes : session[p].op = "none"
    BY DEF Init, Closed
  <1> QED
    BY <1>1, <1>2, <1>3 DEF Inv, Complete, FileOK, SessionOK, Edits

\* What a process has in memory when it has opened the vault for the command c.
LEMMA OpenSession ==
  ASSUME NEW c \in Commands, NEW f
  PROVE  LET s == Assign([read |-> f, entries |-> f.entries], c)
         IN  /\ s.op = c.op /\ s.read = f /\ s.entries = f.entries
             /\ {"read", "entries"} \subseteq DOMAIN s
             /\ \A x \in DOMAIN c : s[x] = c[x]
  BY CommandsAssumption DEF Assign

LEMMA InvOpen ==
  ASSUME Inv, NEW p \in Processes, NEW c \in Commands, Open(p, c)
  PROVE  Inv' /\ (Complete => Complete')
  <1> DEFINE s == Assign([read |-> main, entries |-> main.entries], c)
  <1>1. /\ main.entries \in Seq(Entry) /\ InMemory(main.entries, writes)
        /\ OnDisk(main.entries, writes)
    BY DecodedComplete DEF Inv, FileOK, Open, Decodes
  <1>2. /\ s.op = c.op /\ s.read = main /\ s.entries = main.entries
        /\ {"read", "entries"} \subseteq DOMAIN s
        /\ \A x \in DOMAIN c : s[x] = c[x]
    BY OpenSession
  <1>3. /\ session' = [session EXCEPT ![p] = s]
        /\ UNCHANGED <<main, backup, side, writes>>
        /\ c.op \notin {"create", "import", "recover"}
    BY DEF Open
  <1> HIDE DEF s
  <1>4. SessionOK(s, writes)
    BY <1>1, <1>2, <1>3, CommandsAssumption DEF SessionOK, Edits
  <1>5. /\ DOMAIN session' = Processes
        /\ \A q \in Processes : session'[q] = IF q = p THEN s ELSE session[q]
    BY <1>3 DEF Inv
  <1>6. Inv'
    BY <1>3, <1>4, <1>5 DEF Inv
  <1>7. Complete => Complete'
    BY <1>1, <1>2, <1>3, <1>5 DEF Complete
  <1> QED
    BY <1>6, <1>7

LEMMA InvOpenNew ==
  ASSUME Inv, NEW p \in Processes, NEW c \in Commands, OpenNew(p, c)
  PROVE  Inv' /\ (Complete => Complete')
  <1>1. PICK s : /\ session' = [session EXCEPT ![p] = s]
                 /\ \/ s = c /\ c.op = "create"
                    \/ s = Assign([read |-> side], c) /\ c.op = "import" /\ Decodes(side)
    BY DEF OpenNew
  <1>2. UNCHANGED <<main, backup, side, writes>>
    BY DEF OpenNew
  <1>3. s.op \in {"create", "import"} /\ SessionOK(s, writes)
    <2>1. CASE s = c /\ c.op = "create"
      BY <2>1 DEF SessionOK, Edits
    <2>2. CASE s = Assign([read |-> side], c) /\ c.op = "import" /\ Decodes(side)
      <3>1. /\ side.entries \in Seq(Entry) /\ InMemory(side.entries, writes)
            /\ OnDisk(side.entries, writes)
        BY <2>2, DecodedComplete DEF Inv, FileOK, Decodes
      <3>2. s.op = "import" /\ s.read = side
        BY <2>2, CommandsAssumption DEF Assign
      <3> QED
        BY <3>1, <3>2 DEF SessionOK, Edits
    <2> QED
      BY <1>1, <2>1, <2>2
  <1>4. /\ DOMAIN session' = Processes
        /\ \A q \in Processes : session'[q] = IF q = p THEN s ELSE session[q]
    BY <1>1 DEF Inv
  <1>5. Inv'
    BY <1>2, <1>3, <1>4 DEF Inv
  <1>6. Complete => Complete'
    BY <1>2, <1>3, <1>4 DEF Complete
  <1> QED
    BY <1>5, <1>6

\* A session that is closed, and every file one that was there.
LEMMA InvClose ==
  ASSUME Inv, NEW p \in Processes, Close(p), writes' = writes,
         main' = main, backup' = backup,
         side' = side \/ (session[p].op = "export" /\ side' = session[p].read)
  PROVE  Inv' /\ (Complete => Complete')
  <1>1. /\ DOMAIN session' = Processes
        /\ \A q \in Processes : session'[q] = IF q = p THEN Closed ELSE session[q]
    BY DEF Inv, Close
  <1>2. Closed.op = "none" /\ SessionOK(Closed, writes)
    BY DEF SessionOK, Closed, Edits
  <1>3. session[p].op = "export" => /\ session[p].read.entries \in Seq(Entry)
                                    /\ OnDisk(session[p].read.entries, writes)
    BY DEF Inv, SessionOK
  <1>5. FileOK(side', writes)
    BY <1>3 DEF Inv, FileOK
  <1>6. Inv'
    BY <1>1, <1>2, <1>5 DEF Inv
  <1>7. Complete => Complete'
    BY <1>1, <1>2, <1>3 DEF Complete
  <1> QED
    BY <1>6, <1>7

\* A new vault file, and the session of the process that wrote it; the backup
\* stays or is the vault file that was there.
LEMMA InvWrite ==
  ASSUME Inv, NEW p \in Processes, NEW s, NEW vault,
         session' = [session EXCEPT ![p] = s], SessionOK(s, writes + 1),
         main' = vault, FileOK(vault, writes + 1),
         writes' = writes + 1, side' = side, backup' \in {backup, main}
  PROVE  /\ Inv'
         /\ /\ Complete /\ (IsVault(vault) => vault.entries \in Seq(Entry))
            /\ s.op = "program" => s.entries \in Seq(Entry)
            => Complete'
  <1>1. /\ DOMAIN session' = Processes
        /\ \A q \in Processes : session'[q] = IF q = p THEN s ELSE session[q]
    BY DEF Inv
  <1>2. FileOK(backup', writes + 1) /\ FileOK(side, writes + 1)
    BY FileLater DEF Inv
  <1>3. \A q \in Processes : SessionOK(session'[q], writes + 1)
    BY <1>1, SessionLater DEF Inv
  <1>4. Inv'
    BY <1>1, <1>2, <1>3 DEF Inv
  <1>5. ASSUME Complete, IsVault(vault) => vault.entries \in Seq(Entry),
               s.op = "program" => s.entries \in Seq(Entry)
        PROVE  Complete'
    BY <1>1, <1>5 DEF Complete
  <1> QED
    BY <1>4, <1>5

\* Complete entries are sealed as they are.
LEMMA SealedComplete ==
  ASSUME NEW vault, NEW version, NEW es \in Seq(Entry), NEW n, InMemory(es, n),
         Sealed(vault, version, es) # None
  PROVE  /\ FileOK(Sealed(vault, version, es), n)
         /\ Sealed(vault, version, es).entries = es
  BY SealedOK, SerialisedSame

LEMMA ClosedOK == Closed.op = "none" /\ \A n : SessionOK(Closed, n)
  BY DEF SessionOK, Closed, Edits

LEMMA InvEdit ==
  ASSUME Inv, NEW p \in Processes, Edit(p)
  PROVE  Inv' /\ (Complete => Complete')
  <1> DEFINE es == Edited(session[p])
             vault == Sealed(session[p].read.vault, 2, es)
  <1>1. SessionOK(session[p], writes) /\ session[p].op \in Edits /\ es # None /\ writes \in Nat
    BY DEF Inv, Edit
  <1>2. InMemory(es, writes + 1) /\ es \in Seq(Entry)
    BY <1>1, ToolEdits
  <1>3. /\ main' = vault /\ backup' = main /\ writes' = writes + 1 /\ side' = side
        /\ session' = [session EXCEPT ![p] = Closed] /\ vault # None
    BY DEF Edit, Replace, Close
  <1> HIDE DEF es
  <1>4. FileOK(vault, writes + 1) /\ vault.entries = es
    BY <1>2, <1>3, SealedComplete
  <1> HIDE DEF vault
  <1> QED
    BY <1>2, <1>3, <1>4, ClosedOK, InvWrite

LEMMA InvProgramEdit ==
  ASSUME Inv, NEW p \in Processes, ProgramEdit(p)
  PROVE  Inv' /\ (Careful /\ Complete => Complete')
  <1> DEFINE old == session[p].entries
  <1>1. /\ SessionOK(session[p], writes) /\ session[p].op = "program" /\ writes \in Nat
    BY DEF Inv, ProgramEdit
  <1>2. InMemory(old, writes) /\ {"read", "entries"} \subseteq DOMAIN session[p]
    BY <1>1 DEF SessionOK
  <1>3. PICK es \in LibraryEdits(old) :
              /\ es # None
              /\ Replace(p, Sealed(session[p].read.vault, 2, es))
              /\ session' = [session EXCEPT ![p] = [session[p] EXCEPT !.read = main', !.entries = es]]
    BY DEF ProgramEdit
  <1> DEFINE vault == Sealed(session[p].read.vault, 2, es)
  <1>5. /\ main' = vault /\ backup' = main /\ writes' = writes + 1 /\ side' = side
        /\ vault # None
    BY <1>3 DEF Replace
  <1>11. Valid(es)
    BY <1>5 DEF Sealed
  <1>4. InMemory(es, writes + 1) /\ (Careful /\ old \in Seq(Entry) => es \in Seq(Entry))
    BY <1>1, <1>2, <1>3, <1>11, LibraryEditsKeep
  <1>6. FileOK(vault, writes + 1) /\ vault.entries = Serialised(es)
    BY <1>4, <1>5, SealedOK
  <1> HIDE DEF vault
  <1>7. PICK s : /\ session' = [session EXCEPT ![p] = s]
                 /\ s.op = "program" /\ s.entries = es /\ {"read", "entries"} \subseteq DOMAIN s
    <2> DEFINE r == [session[p] EXCEPT !.read = main', !.entries = es]
    <2>1. r.op = "program" /\ r.entries = es /\ {"read", "entries"} \subseteq DOMAIN r
      BY <1>1, <1>2
    <2>2. session' = [session EXCEPT ![p] = r]
      BY <1>3
    <2> HIDE DEF r
    <2> QED
      BY <2>1, <2>2
  <1>8. SessionOK(s, writes + 1)
    BY <1>4, <1>7 DEF SessionOK, Edits
  <1>9. Careful /\ Complete => es \in Seq(Entry) /\ Serialised(es) = es
    BY <1>1, <1>4, SerialisedSame DEF Complete
  <1>10. /\ Inv'
         /\ Complete /\ vault.entries \in Seq(Entry) /\ s.entries \in Seq(Entry) => Complete'
    BY <1>5, <1>6, <1>7, <1>8, InvWrite
  <1> QED
    BY <1>6, <1>7, <1>9, <1>10

LEMMA InvMigrate ==
  ASSUME Inv, NEW p \in Processes, Migrate(p)
  PROVE  Inv' /\ (Complete => Complete')
  <1> DEFINE es == session[p].entries
             vault == Sealed(session[p].read.vault, 2, es)
  <1>1. InMemory(es, writes) /\ es \in Seq(Entry) /\ writes \in Nat
    BY DEF Inv, SessionOK, Migrate
  <1>2. /\ main' = vault /\ backup' = main /\ writes' = writes + 1 /\ side' = side
        /\ session' = [session EXCEPT ![p] = Closed] /\ vault # None
    BY DEF Migrate, Replace, Close
  <1> HIDE DEF es
  <1>3. FileOK(vault, writes + 1) /\ vault.entries = es
    BY <1>1, <1>2, SealedComplete, InMemoryLater
  <1> HIDE DEF vault
  <1> QED
    BY <1>1, <1>2, <1>3, ClosedOK, InvWrite

LEMMA InvCreate ==
  ASSUME Inv, NEW p \in Processes, Create(p)
  PROVE  Inv' /\ (Complete => Complete')
  <1> DEFINE vault == Sealed(writes + 1, 2, <<>>)
             program == [op |-> "program", read |-> vault, entries |-> <<>>]
  <1>1. <<>> \in Seq(Entry) /\ InMemory(<<>>, writes + 1)
    BY DEF InMemory, Distinct
  <1>3. /\ main' = vault /\ backup' = backup /\ writes' = writes + 1 /\ side' = side
        /\ vault # None
    BY DEF Create
  <1>2. FileOK(vault, writes + 1) /\ vault.entries = <<>>
    BY <1>1, <1>3, SealedComplete
  <1>4. PICK s \in {Closed, program} : session' = [session EXCEPT ![p] = s]
    BY <1>3 DEF Create, Close
  <1>5. program.op = "program" /\ program.entries = <<>> /\ SessionOK(program, writes + 1)
    BY <1>1 DEF SessionOK, Edits
  <1> HIDE DEF vault, program
  <1>6. SessionOK(s, writes + 1) /\ (s.op = "program" => s.entries \in Seq(Entry))
    BY <1>1, <1>5, ClosedOK
  <1> QED
    BY <1>1, <1>2, <1>3, <1>4, <1>6, InvWrite

LEMMA InvImport ==
  ASSUME Inv, NEW p \in Processes, Import(p)
  PROVE  Inv' /\ (Complete => Complete')
  <1> DEFINE f == session[p].read
             sealed == Sealed(f.vault, 2, f.entries)
  <1>1. /\ f.entries \in Seq(Entry) /\ InMemory(f.entries, writes) /\ OnDisk(f.entries, writes)
        /\ writes \in Nat
    BY DEF Inv, SessionOK, Import
  <1>2. sealed # None => FileOK(sealed, writes + 1) /\ sealed.entries = f.entries
    BY <1>1, SealedComplete, InMemoryLater
  <1>4. FileOK(f, writes + 1)
    BY <1>1, OnDiskLater DEF FileOK
  <1>5. /\ main' \in {f, sealed} /\ backup' = backup /\ writes' = writes + 1 /\ side' = side
        /\ session' = [session EXCEPT ![p] = Closed] /\ main' # None
    BY DEF Import, Close
  <1> HIDE DEF f, sealed
  <1> QED
    BY <1>1, <1>2, <1>4, <1>5, ClosedOK, InvWrite

LEMMA InvNext ==
  ASSUME Inv, [Next]_vars
  PROVE  Inv' /\ (Careful /\ Complete => Complete')
  <1>1. ASSUME NEW p \in Processes, NEW c \in Commands, Open(p, c) \/ OpenNew(p, c)
        PROVE  Inv' /\ (Complete => Complete')
    BY <1>1, InvOpen, InvOpenNew
  <1>2. ASSUME NEW p \in Processes, Writing(p)
        PROVE  Inv' /\ (Careful /\ Complete => Complete')
    BY <1>2, InvEdit, InvProgramEdit, InvMigrate, InvCreate, InvImport DEF Writing
  <1>3. ASSUME NEW p \in Processes, Export(p) \/ Leave(p)
        PROVE  Inv' /\ (Complete => Complete')
    <2>1. Close(p) /\ writes' = writes /\ main' = main /\ backup' = backup
      BY <1>3 DEF Export, Leave
    <2>2. side' = side \/ (session[p].op = "export" /\ side' = session[p].read)
      BY <1>3 DEF Export, Leave
    <2> QED
      BY <2>1, <2>2, InvClose
  <1>4. ASSUME NEW p \in Processes, Recover(p)
        PROVE  Inv' /\ (Complete => Complete')
    BY <1>4 DEF Recover, Inv, Complete
  <1>5. CASE Damage
    BY <1>5 DEF Damage, Inv, Complete, FileOK, IsVault
  <1>6. CASE UNCHANGED vars
    BY <1>6 DEF vars, Inv, Complete
  <1> QED
    BY <1>1, <1>2, <1>3, <1>4, <1>5, <1>6 DEF Next

--------------------------------------------------------------------------------
(* The theorems. *)

\* Whatever is edited, renamed, migrated, copied or restored: in every file and in
\* every session no id and no name occurs twice, and a tool holds complete entries.
THEOREM EntriesStayDistinct == Spec => []Inv
  <1>1. Init => Inv
    BY InvInit
  <1>2. Inv /\ [Next]_vars => Inv'
    BY InvNext
  <1> QED
    BY <1>1, <1>2, PTL DEF Spec

\* As long as no library call sets a binding to undefined, every vault that is
\* stored can be opened again, whatever processes do to it and in which order.
THEOREM CarefulVaultsOpen == Careful /\ Spec => []StoredVaultsOpen
  <1> SUFFICES ASSUME Careful PROVE Spec => []StoredVaultsOpen
    OBVIOUS
  <1>1. Init => Inv /\ Complete
    BY InvInit
  <1>2. Inv /\ Complete /\ [Next]_vars => (Inv /\ Complete)'
    BY InvNext
  <1>3. Inv /\ Complete => StoredVaultsOpen
    BY CompleteAccepted DEF Inv, Complete, FileOK, StoredVaultsOpen, Decodes
  <1> QED
    BY <1>1, <1>2, <1>3, PTL DEF Spec

\* Between the moment a tool looks its entry up and the moment it writes, any
\* process may write, restore or replace the vault: what the tool changes is the
\* entry that the name denotes in the file it replaces.
THEOREM ToolsEditWhatTheyNamed == Spec => EditsWhatItNamed
  <1> DEFINE A == \A t \in Tools :
                    session[t].op \in Edits \ {"add"} /\ session'[t] = Closed /\ main' # main
                    => Touched(main, main') \subseteq {Find(main.entries, session[t].name).id}
  <1>1. Inv /\ [Next]_vars => [A]_vars
    <2> SUFFICES ASSUME Inv, Next, NEW t \in Tools,
                        session[t].op \in Edits \ {"add"}, session'[t] = Closed, main' # main
                 PROVE  Touched(main, main') \subseteq {Find(main.entries, session[t].name).id}
      OBVIOUS
    <2> DEFINE s == session[t]
    <2>1. t \in Processes /\ s # Closed /\ s.op \notin {"program", "migrate", "create", "import", "export"}
      BY DEF Processes, Edits, Closed
    <2>2. Edit(t)
      <3>1. ASSUME NEW p \in Processes, NEW v, session' = [session EXCEPT ![p] = v]
            PROVE  p = t
        BY <2>1, <3>1 DEF Inv
      <3>2. ASSUME NEW p \in Processes, Writing(p) PROVE Edit(t)
        <4>1. CASE Edit(p)
          BY <3>1, <4>1 DEF Edit, Close
        <4>2. CASE ProgramEdit(p)
          <5>1. PICK v : session' = [session EXCEPT ![p] = v]
            BY <4>2 DEF ProgramEdit
          <5> QED
            BY <2>1, <3>1, <4>2, <5>1 DEF ProgramEdit
        <4>3. CASE Migrate(p) \/ Import(p)
          BY <2>1, <3>1, <4>3 DEF Migrate, Import, Close
        <4>4. CASE Create(p)
          <5>1. PICK v : session' = [session EXCEPT ![p] = v]
            BY <4>4 DEF Create, Close
          <5> QED
            BY <2>1, <3>1, <4>4, <5>1 DEF Create
        <4> QED
          BY <3>2, <4>1, <4>2, <4>3, <4>4 DEF Writing
      <3>3. ASSUME NEW p \in Processes, NEW c \in Commands, Open(p, c) \/ OpenNew(p, c)
            PROVE  main' = main
        BY <3>3 DEF Open, OpenNew
      <3>4. ASSUME NEW p \in Processes, Export(p) \/ Leave(p)
            PROVE  main' = main
        BY <3>4 DEF Export, Leave
      <3>5. ASSUME NEW p \in Processes, Recover(p)
            PROVE  session' = session
        BY <3>5 DEF Recover
      <3>6. ~Damage
        BY <2>1 DEF Damage
      <3>7. PICK p \in Processes : \/ \E c \in Commands : Open(p, c) \/ OpenNew(p, c)
                                   \/ Writing(p) \/ Export(p) \/ Leave(p) \/ Recover(p)
        BY <3>6 DEF Next
      <3> QED
        BY <2>1, <3>2, <3>3, <3>4, <3>5, <3>7
    <2>3. SessionOK(s, writes) /\ s.op \in Edits /\ s.op # "add" /\ Edited(s) # None /\ writes \in Nat
      BY <2>1, <2>2 DEF Inv, Edit
    <2>4. Edited(s) \in Seq(Entry) /\ DiffersAt(s.entries, Edited(s), Find(s.entries, s.name).id)
      BY <2>3, ToolEdits
    <2>5. /\ main = s.read /\ main' = Sealed(s.read.vault, 2, Edited(s)) /\ main' # None
          /\ s.entries = s.read.entries
      BY <2>2, <2>3 DEF Edit, Replace, SessionOK
    <2>6. main'.entries = Edited(s)
      BY <2>4, <2>5, SerialisedSame DEF Sealed
    <2> QED
      BY <2>4, <2>5, <2>6 DEF Touched, DiffersAt
  <1>2. Spec => [][A]_vars
    BY <1>1, EntriesStayDistinct, PTL DEF Spec
  <1> QED
    BY <1>2 DEF EditsWhatItNamed

=============================================================================
