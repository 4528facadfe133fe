-------------------------- MODULE ExtensionVault_proofs -------------------------
(***************************************************************************)
(* Proofs about ExtensionVault, for every number of pages, operations and  *)
(* names, and for a user who waits until the page is done (Overlap = {}).  *)
(***************************************************************************)
EXTENDS ExtensionVault, TLAPS

--------------------------------------------------------------------------------
(* Vaults that are well kept. *)

Stays(tk, tk2) == \A l \in Tasks : tk[l].op = "add" /\ tk[l].at = "done" =>
                                   tk2[l].op = "add" /\ tk2[l].at = "done"

LEMMA KeptStays ==
  ASSUME NEW v \in Vaults \cup {Null}, NEW tk, NEW tk2, Kept(v, tk), Stays(tk, tk2)
  PROVE  Kept(v, tk2)
  BY DEF Kept, Stays, Vaults, Entries

LEMMA VaultFields ==
  ASSUME NEW v \in Vaults
  PROVE  v # Null /\ v.key \in Keys /\ v.entries \subseteq Entries
  BY VaultsAssumption DEF Vaults

LEMMA MadeVault ==
  ASSUME NEW k \in Keys, NEW es \in SUBSET Entries
  PROVE  [key |-> k, entries |-> es] \in Vaults
  BY DEF Vaults

\* An entry is added by an operation that is then done.
LEMMA KeptAdd ==
  ASSUME NEW v \in Vaults, NEW tk, NEW tk2, Kept(v, tk), Stays(tk, tk2),
         NEW k \in Tasks, tk[k].at # "done", tk2[k].op = "add", tk2[k].at = "done",
         NEW n \in Names, \A e \in v.entries : e.name # n
  PROVE  LET e == [id |-> k, name |-> n, value |-> k, key |-> v.key]
         IN  /\ e \in Entries
             /\ Kept([key |-> v.key, entries |-> v.entries \cup {e}], tk2)
  <1> DEFINE e == [id |-> k, name |-> n, value |-> k, key |-> v.key]
             w == [key |-> v.key, entries |-> v.entries \cup {e}]
  <1>1. v \in Vaults /\ v # Null /\ v.key \in Keys /\ v.entries \subseteq Entries
    BY VaultFields
  <1>2. e \in Entries /\ e.id = k /\ e.name = n /\ e.key = v.key
    BY <1>1 DEF Entries, Ids
  <1>3. \A d \in v.entries : d.id # k /\ d.name # n
    BY <1>1 DEF Kept
  <1>4. w.key = v.key /\ w.entries = v.entries \cup {e}
    OBVIOUS
  <1> HIDE DEF e, w
  <1>5. \A d \in w.entries :
           /\ d.key = w.key
           /\ d.id \in Tasks => tk2[d.id].op = "add" /\ tk2[d.id].at = "done"
    BY <1>1, <1>2, <1>3, <1>4 DEF Kept, Stays
  <1>6. \A c, d \in w.entries : c.id = d.id => c = d
    BY <1>1, <1>2, <1>3, <1>4 DEF Kept
  <1>7. Platform = "extension" => \A c, d \in w.entries : c.name = d.name => c = d \/ GivenTogether(c, d)
    BY <1>1, <1>2, <1>3, <1>4 DEF Kept
  <1>8. Kept(w, tk2)
    BY <1>5, <1>6, <1>7 DEF Kept
  <1> QED
    BY <1>2, <1>8 DEF e, w

LEMMA KeptRemove ==
  ASSUME NEW v \in Vaults, NEW tk, Kept(v, tk), NEW e
  PROVE  Kept([key |-> v.key, entries |-> v.entries \ {e}], tk)
  BY VaultFields DEF Kept

LEMMA TogetherSymmetric ==
  ASSUME NEW d, NEW e, GivenTogether(d, e)
  PROVE  GivenTogether(e, d)
  BY DEF GivenTogether

\* An entry gets another name, or another value with the key of its vault.
LEMMA KeptChange ==
  ASSUME NEW v \in Vaults, NEW tk, Kept(v, tk), NEW e \in v.entries, NEW f \in Entries,
         f.id = e.id, f.key = v.key,
         Platform = "extension" => \A d \in v.entries :
                                       d.name = f.name => d.id = e.id \/ GivenTogether(d, f)
  PROVE  Kept([key |-> v.key, entries |-> (v.entries \ {e}) \cup {f}], tk)
  <1> DEFINE w == [key |-> v.key, entries |-> (v.entries \ {e}) \cup {f}]
  <1>1. v # Null /\ v.key \in Keys /\ v.entries \subseteq Entries
    BY VaultFields
  <1>2. w.key = v.key /\ w.entries = (v.entries \ {e}) \cup {f}
    OBVIOUS
  <1>3. \A d \in v.entries \ {e} : d.id # e.id
    BY <1>1 DEF Kept
  <1> HIDE DEF w
  <1>4. \A d \in w.entries :
           /\ d.key = w.key
           /\ d.id \in Tasks => tk[d.id].op = "add" /\ tk[d.id].at = "done"
    BY <1>1, <1>2 DEF Kept
  <1>5. \A c, d \in w.entries : c.id = d.id => c = d
    BY <1>1, <1>2, <1>3 DEF Kept
  <1>6. ASSUME Platform = "extension", NEW c \in w.entries, NEW d \in w.entries, c.name = d.name
        PROVE  c = d \/ GivenTogether(c, d)
    <2>1. CASE c # f /\ d # f
      BY <1>1, <1>2, <1>6, <2>1 DEF Kept
    <2>2. CASE c = f \/ d = f
      BY <1>2, <1>3, <1>6, <2>2, TogetherSymmetric
    <2> QED
      BY <2>1, <2>2
  <1>7. Kept(w, tk)
    BY <1>4, <1>5, <1>6 DEF Kept
  <1> QED
    BY <1>7 DEF w

LEMMA KeptEmpty ==
  ASSUME NEW k, NEW tk
  PROVE  Kept([key |-> k, entries |-> {}], tk)
  BY DEF Kept

\* A file that was made elsewhere is kept as it is.
LEMMA ForeignKept ==
  ASSUME NEW f \in Foreign, NEW tk
  PROVE  f \in Vaults /\ Kept(f, tk)
  <1>1. /\ f \in Vaults /\ f.key = 0
        /\ \A e \in f.entries : e.id \in Elsewhere /\ e.key = 0
        /\ \A d, e \in f.entries : d.id = e.id => d = e
    BY ForeignAssumption
  <1>2. \A e \in f.entries : e.id \notin Tasks
    BY <1>1, NullAssumption
  <1>3. \A d, e \in f.entries : d.name = e.name => GivenTogether(d, e)
    BY DEF GivenTogether
  <1> QED
    BY <1>1, <1>2, <1>3 DEF Kept

--------------------------------------------------------------------------------
(* The parts of steps. *)

LEMMA UnusedRecord == Unused \in Records
  BY BoundsAssumption DEF Unused, Records, Keys

LEMMA Beginning ==
  ASSUME TypeOK, NEW k \in Tasks, NEW r \in Records, Begin(k, r)
  PROVE  /\ task[k].at = "unused"
         /\ task' \in [Tasks -> Records] /\ task'[k] = r
         /\ \A l \in Tasks : l # k => task'[l] = task[l]
         /\ Stays(task, task')
  BY DEF TypeOK, Begin, Stays

LEMMA At ==
  ASSUME NEW r \in Records, NEW x \in {"unused", "asking", "deriving", "sealing", "done"}
  PROVE  /\ [r EXCEPT !.at = x] \in Records
         /\ [r EXCEPT !.at = x].at = x /\ [r EXCEPT !.at = x].op = r.op
         /\ [r EXCEPT !.at = x].tab = r.tab
  BY DEF Records

\* The operation k goes on to x.
To(k, x) == /\ task' \in [Tasks -> Records]
            /\ task'[k].at = x /\ task'[k].op = task[k].op /\ task'[k].tab = task[k].tab
            /\ \A l \in Tasks : l # k => task'[l] = task[l]

LEMMA Going ==
  ASSUME TypeOK, NEW k \in Tasks, NEW x \in {"unused", "asking", "deriving", "sealing", "done"},
         task' = [task EXCEPT ![k].at = x]
  PROVE  To(k, x)
  <1> DEFINE r == [task[k] EXCEPT !.at = x]
  <1>1. task \in [Tasks -> Records] /\ task' = [task EXCEPT ![k] = r]
    BY DEF TypeOK
  <1>2. r \in Records /\ r.at = x /\ r.op = task[k].op /\ r.tab = task[k].tab
    BY <1>1, At
  <1> HIDE DEF r
  <1> QED
    BY <1>1, <1>2 DEF To

LEMMA Ending ==
  ASSUME TypeOK, NEW k \in Tasks, Done(k)
  PROVE  To(k, "done") /\ Stays(task, task')
  <1>1. To(k, "done")
    BY Going DEF Done
  <1> QED
    BY <1>1 DEF To, Stays

LEMMA Setting ==
  ASSUME TypeOK, NEW t \in Tabs, vault[t] # Null, NEW es \in SUBSET Entries, SetEntries(t, es)
  PROVE  /\ vault[t] \in Vaults
         /\ vault' \in [Tabs -> Vaults \cup {Null}]
         /\ vault'[t] = [key |-> vault[t].key, entries |-> es] /\ vault'[t] # Null
         /\ \A u \in Tabs : u # t => vault'[u] = vault[u]
  <1>1. vault[t] \in Vaults
    BY DEF TypeOK
  <1>2. [key |-> vault[t].key, entries |-> es] \in Vaults
    BY <1>1, VaultFields, MadeVault
  <1> QED
    BY <1>1, <1>2, VaultsAssumption DEF SetEntries, TypeOK

LEMMA Replacing ==
  ASSUME TypeOK, NEW t \in Tabs, NEW k \in Keys \cup {Null}, NEW v \in Vaults \cup {Null}, Replace(t, k, v)
  PROVE  /\ key' \in [Tabs -> Keys \cup {Null}] /\ key'[t] = k
         /\ vault' \in [Tabs -> Vaults \cup {Null}] /\ vault'[t] = v
         /\ opening' \in [Tabs -> 0 .. MaxOpenings]
         /\ \A u \in Tabs : u # t => key'[u] = key[u] /\ vault'[u] = vault[u] /\ opening'[u] = opening[u]
  BY BoundsAssumption DEF TypeOK, Replace

LEMMA Saving ==
  ASSUME NEW t, NEW es, NEW written \in BOOLEAN, Save(t, es, written)
  PROVE  /\ stored' \in {vault'[t], stored} /\ told' \in {es, told}
         /\ ~WritesFail => stored' = vault'[t] /\ told' = es
  BY DEF Save, ExtensionSave, PwaSave

LEMMA Entering ==
  ASSUME TypeOK, NEW t \in Tabs, NEW entered, EnterIf(t, entered)
  PROVE  view' \in [Tabs -> {"auth", "vault"}] /\ buttons' \in [Tabs -> BOOLEAN]
  BY DEF TypeOK, EnterIf

--------------------------------------------------------------------------------
(* Operations one at a time. *)

Alone(k) == \A l \in Tasks : l # k => ~Busy(l)

LEMMA BusyAlone ==
  ASSUME OneAtATime, NEW k \in Tasks, Busy(k)
  PROVE  Alone(k)
  BY DEF OneAtATime, Alone

LEMMA UserIsAlone ==
  ASSUME Overlap = {}, NEW t, NEW shown, Acts(t, shown)
  PROVE  \A k \in Tasks : ~Busy(k)
  BY DEF Acts, Quiet, Busy

LEMMA QuietAgrees ==
  ASSUME \A k \in Tasks : ~Busy(k)'
  PROVE  OneAtATime' /\ TasksAgree'
  BY DEF OneAtATime, TasksAgree, Busy

\* The only operation is over.
LEMMA EndAgrees ==
  ASSUME IndInv, NEW k \in Tasks, Busy(k), Done(k)
  PROVE  OneAtATime' /\ TasksAgree' /\ To(k, "done") /\ Stays(task, task')
  <1>1. To(k, "done") /\ Stays(task, task')
    BY Ending DEF IndInv
  <1>2. \A l \in Tasks : ~Busy(l)'
    BY <1>1, BusyAlone DEF IndInv, Alone, To, Busy
  <1> QED
    BY <1>1, <1>2, QuietAgrees

\* Pages that did not change still agree, if no addition is undone.
LEMMA OthersAgree ==
  ASSUME TypeOK, PagesAgree, Stays(task, task'), NEW t \in Tabs,
         key'[t] = key[t], vault'[t] = vault[t]
  PROVE  Agrees(t)'
  <1>1. vault[t] \in Vaults \cup {Null} /\ Agrees(t) /\ Kept(vault[t], task)
    BY DEF TypeOK, PagesAgree, Agrees
  <1>2. Kept(vault[t], task')
    BY <1>1, KeptStays
  <1> QED
    BY <1>1, <1>2 DEF Agrees

LEMMA StoredKept ==
  ASSUME TypeOK, PagesAgree, Stays(task, task')
  PROVE  Kept(stored, task')
  BY KeptStays DEF TypeOK, PagesAgree

LEMMA FilesKept ==
  ASSUME TypeOK, PagesAgree, Stays(task, task')
  PROVE  \A f \in files : Kept(f, task')
  <1> TAKE f \in files
  <1>1. f \in Vaults /\ Kept(f, task)
    BY DEF TypeOK, PagesAgree
  <1> QED
    BY <1>1, KeptStays

LEMMA AllAgree ==
  ASSUME TypeOK, PagesAgree, Stays(task, task'), files' = files,
         Kept(stored', task'), \A t \in Tabs : Agrees(t)'
  PROVE  PagesAgree'
  BY FilesKept DEF PagesAgree

LEMMA SameAgree ==
  ASSUME TypeOK, PagesAgree, Stays(task, task'), UNCHANGED <<stored, key, vault, files>>
  PROVE  PagesAgree'
  <1>1. \A t \in Tabs : Agrees(t)'
    BY OthersAgree
  <1>2. Kept(stored', task')
    BY StoredKept
  <1> QED
    BY <1>1, <1>2, AllAgree

\* One page changed.
LEMMA PageAgrees ==
  ASSUME TypeOK, PagesAgree, Stays(task, task'), files' = files, NEW t \in Tabs, Agrees(t)',
         \A u \in Tabs : u # t => key'[u] = key[u] /\ vault'[u] = vault[u],
         Kept(stored', task')
  PROVE  PagesAgree'
  <1>1. ASSUME NEW u \in Tabs, u # t PROVE Agrees(u)'
    BY <1>1, OthersAgree
  <1>2. \A u \in Tabs : Agrees(u)'
    BY <1>1
  <1> QED
    BY <1>2, AllAgree

\* What an operation that begins or goes on has to agree with.
Fits(k) ==
    /\ task[k].tab \in Tabs
    /\ task[k].at = "asking" => task[k].op = "create"
    /\ task[k].at = "deriving" /\ task[k].op # "create" =>
           /\ task[k].vault \in Vaults /\ Kept(task[k].vault, task)
           /\ task[k].op = "unlock" => task[k].vault = stored
    /\ task[k].at = "sealing" =>
           /\ vault[task[k].tab] # Null
           /\ task[k].op # "create" => key[task[k].tab] = task[k].key
           /\ task[k].op = "update" => task[k].opening = opening[task[k].tab]
           /\ task[k].op = "add" => task[k].name \in Names /\ ~Taken(task[k].tab, task[k].name, Null)

LEMMA OneAgrees ==
  ASSUME NEW k \in Tasks, Alone(k)', Fits(k)'
  PROVE  OneAtATime' /\ TasksAgree'
  <1>1. OneAtATime'
    BY DEF Alone, OneAtATime
  <1>2. TasksAgree'
    BY DEF Alone, Busy, Fits, TasksAgree
  <1> QED
    BY <1>1, <1>2

--------------------------------------------------------------------------------
(* The authentication view. *)

LEMMA StartCreateKeeps ==
  ASSUME Overlap = {}, IndInv, NEW k \in Tasks, NEW t \in Tabs, StartCreate(k, t)
  PROVE  IndInv'
  <1> DEFINE r == [Unused EXCEPT !.op = "create", !.at = "asking", !.tab = t]
  <1>1. r \in Records /\ r.op = "create" /\ r.at = "asking" /\ r.tab = t
    BY UnusedRecord DEF Records
  <1>2. Begin(k, r) /\ UNCHANGED <<stored, pages, nextVault, files, told, deleted>> /\ Acts(t, "auth")
    BY DEF StartCreate
  <1> HIDE DEF r
  <1>3. /\ task' \in [Tasks -> Records] /\ task'[k] = r /\ Stays(task, task')
        /\ \A l \in Tasks : l # k => task'[l] = task[l]
    BY <1>1, <1>2, Beginning DEF IndInv
  <1>4. TypeOK'
    BY <1>2, <1>3 DEF IndInv, TypeOK, pages
  <1>5. PagesAgree'
    BY <1>2, <1>3, SameAgree DEF IndInv, pages
  <1>6. Alone(k)'
    BY <1>2, <1>3, UserIsAlone DEF Alone, Busy
  <1>7. Fits(k)'
    BY <1>1, <1>3 DEF Fits
  <1> QED
    BY <1>4, <1>5, <1>6, <1>7, OneAgrees DEF IndInv

LEMMA ConfirmedKeeps ==
  ASSUME IndInv, NEW k \in Tasks, Confirmed(k)
  PROVE  IndInv'
  <1>1. task[k].at = "asking" /\ task[k].op = "create" /\ Busy(k) /\ task[k].tab \in Tabs
    BY DEF Confirmed, Busy, IndInv, TasksAgree
  <1>2. To(k, "deriving") /\ UNCHANGED <<stored, key, vault, opening, view, nextVault, files, told, deleted>>
    BY Going DEF Confirmed, IndInv
  <1>3. buttons' \in [Tabs -> BOOLEAN]
    BY <1>1 DEF Confirmed, IndInv, TypeOK
  <1>4. TypeOK'
    BY <1>2, <1>3 DEF IndInv, TypeOK, To
  <1>5. Stays(task, task')
    BY <1>1, <1>2 DEF Stays, To
  <1>6. PagesAgree'
    BY <1>2, <1>5, SameAgree DEF IndInv
  <1>7. Alone(k)'
    BY <1>1, <1>2, BusyAlone DEF IndInv, Alone, Busy, To
  <1>8. Fits(k)'
    BY <1>1, <1>2 DEF Fits, To
  <1> QED
    BY <1>4, <1>6, <1>7, <1>8, OneAgrees DEF IndInv

LEMMA DeclinedKeeps ==
  ASSUME IndInv, NEW k \in Tasks, Declined(k)
  PROVE  IndInv'
  <1>1. Busy(k) /\ Done(k) /\ UNCHANGED <<stored, pages, nextVault, files, told, deleted>>
    BY DEF Declined, Busy
  <1>2. OneAtATime' /\ TasksAgree' /\ To(k, "done") /\ Stays(task, task')
    BY <1>1, EndAgrees
  <1>3. PagesAgree'
    BY <1>1, <1>2, SameAgree DEF IndInv, pages
  <1>4. TypeOK'
    BY <1>1, <1>2 DEF IndInv, TypeOK, To, pages
  <1> QED
    BY <1>2, <1>3, <1>4 DEF IndInv

LEMMA OpeningFailsKeeps ==
  ASSUME IndInv, NEW k \in Tasks, OpeningFails(k)
  PROVE  IndInv'
  <1>1. /\ Busy(k) /\ Done(k) /\ task[k].tab \in Tabs
        /\ UNCHANGED <<stored, key, vault, opening, view, nextVault, files, told, deleted>>
    BY DEF OpeningFails, Busy, IndInv, TasksAgree
  <1>2. OneAtATime' /\ TasksAgree' /\ To(k, "done") /\ Stays(task, task')
    BY <1>1, EndAgrees
  <1>3. PagesAgree'
    BY <1>1, <1>2, SameAgree DEF IndInv
  <1>4. buttons' \in [Tabs -> BOOLEAN]
    BY <1>1 DEF OpeningFails, IndInv, TypeOK
  <1>5. TypeOK'
    BY <1>1, <1>2, <1>4 DEF IndInv, TypeOK, To
  <1> QED
    BY <1>2, <1>3, <1>5 DEF IndInv

LEMMA CreatedKeeps ==
  ASSUME IndInv, NEW k \in Tasks, Created(k)
  PROVE  IndInv'
  <1> DEFINE v == [key |-> nextVault, entries |-> {}]
  <1>0. PICK t \in Tabs : t = task[k].tab
    BY DEF Created, Busy, IndInv, TasksAgree
  <1>1. task[k].op = "create" /\ task[k].at = "deriving" /\ Busy(k)
    BY DEF Created, Busy
  <1>2. nextVault \in Keys /\ nextVault + 1 \in 1 .. MaxVaults + 1
    BY BoundsAssumption DEF Created, IndInv, TypeOK, Keys
  <1>3. v \in Vaults /\ v.key = nextVault /\ v # Null /\ nextVault # Null
    <2>1. {} \in SUBSET Entries
      OBVIOUS
    <2>2. v \in Vaults /\ v.key = nextVault
      BY <1>2, <2>1, MadeVault
    <2>3. nextVault # Null
      BY <1>2, NullAssumption, BoundsAssumption DEF Keys
    <2> QED
      BY <2>2, <2>3, VaultsAssumption
  <1>4. Replace(t, nextVault, v) /\ UNCHANGED <<stored, view, buttons, files, told, deleted>>
        /\ nextVault' = nextVault + 1
    BY <1>0 DEF Created
  <1>5. To(k, "sealing")
    BY Going DEF Created, IndInv
  <1>k. \A tk : Kept(v, tk)
    BY KeptEmpty
  <1> HIDE DEF v
  <1>6. /\ key' \in [Tabs -> Keys \cup {Null}] /\ key'[t] = nextVault
        /\ vault' \in [Tabs -> Vaults \cup {Null}] /\ vault'[t] = v
        /\ opening' \in [Tabs -> 0 .. MaxOpenings]
        /\ \A u \in Tabs : u # t => key'[u] = key[u] /\ vault'[u] = vault[u] /\ opening'[u] = opening[u]
    BY <1>2, <1>3, <1>4, Replacing DEF IndInv
  <1>7. Stays(task, task')
    BY <1>1, <1>5 DEF Stays, To
  <1>8. TypeOK'
    BY <1>2, <1>4, <1>5, <1>6 DEF IndInv, TypeOK, To
  <1>9. PagesAgree'
    <2>1. Agrees(t)'
      <3>1. (key'[t] = Null <=> vault'[t] = Null) /\ key'[t] = vault'[t].key
        BY <1>3, <1>6
      <3>2. Kept(vault'[t], task')
        BY <1>6, <1>k
      <3> QED
        BY <3>1, <3>2 DEF Agrees
    <2>2. Kept(stored', task')
      BY <1>4, <1>7, StoredKept DEF IndInv
    <2> QED
      BY <1>4, <1>6, <1>7, <2>1, <2>2, PageAgrees DEF IndInv
  <1>10. Alone(k)'
    BY <1>1, <1>5, BusyAlone DEF IndInv, Alone, Busy, To
  <1>11. Fits(k)'
    BY <1>0, <1>1, <1>3, <1>5, <1>6 DEF Fits, To
  <1> QED
    BY <1>8, <1>9, <1>10, <1>11, OneAgrees DEF IndInv

LEMMA CreateSealedKeeps ==
  ASSUME IndInv, NEW k \in Tasks, CreateSealed(k)
  PROVE  IndInv'
  <1>0. PICK t \in Tabs : t = task[k].tab
    BY DEF CreateSealed, Busy, IndInv, TasksAgree
  <1>1. Busy(k) /\ Done(k) /\ vault[t] # Null /\ UNCHANGED <<key, vault, opening, nextVault, files, deleted>>
    BY <1>0 DEF CreateSealed, Busy, IndInv, TasksAgree
  <1>2. OneAtATime' /\ TasksAgree' /\ To(k, "done") /\ Stays(task, task')
    BY <1>1, EndAgrees
  <1>3. PICK w \in BOOLEAN : Save(t, {}, w) /\ EnterIf(t, Continues(w))
    BY <1>0 DEF CreateSealed
  <1>4. stored' \in {vault[t], stored} /\ told' \in {{}, told}
    BY <1>1, <1>3, Saving
  <1>5. view' \in [Tabs -> {"auth", "vault"}] /\ buttons' \in [Tabs -> BOOLEAN]
    BY <1>3, Entering DEF IndInv
  <1>6. TypeOK'
    BY <1>1, <1>2, <1>4, <1>5 DEF IndInv, TypeOK, To
  <1>7. \A u \in Tabs : Agrees(u)'
    BY <1>1, <1>2, OthersAgree DEF IndInv
  <1>8. Kept(stored, task') /\ Kept(vault[t], task')
    BY <1>1, <1>2, <1>7, StoredKept DEF IndInv, Agrees
  <1>9. PagesAgree'
    BY <1>1, <1>2, <1>4, <1>7, <1>8, AllAgree DEF IndInv
  <1> QED
    BY <1>2, <1>6, <1>9 DEF IndInv

LEMMA StartUnlockKeeps ==
  ASSUME Overlap = {}, IndInv, NEW k \in Tasks, NEW t \in Tabs, StartUnlock(k, t)
  PROVE  IndInv'
  <1>1. PICK o \in {"unlock", "import"}, v \in Vaults :
           /\ Begin(k, [Unused EXCEPT !.op = o, !.at = "deriving", !.tab = t, !.vault = v])
           /\ Kept(v, task) /\ (o = "unlock" => v = stored)
    BY DEF StartUnlock, IndInv, TypeOK, PagesAgree
  <1> DEFINE r == [Unused EXCEPT !.op = o, !.at = "deriving", !.tab = t, !.vault = v]
  <1>2. r \in Records /\ r.op = o /\ r.at = "deriving" /\ r.tab = t /\ r.vault = v
    BY UnusedRecord DEF Records
  <1>3. Begin(k, r) /\ Acts(t, "auth")
        /\ UNCHANGED <<stored, key, vault, opening, view, nextVault, files, told, deleted>>
    BY <1>1 DEF StartUnlock
  <1> HIDE DEF r
  <1>4. /\ task' \in [Tasks -> Records] /\ task'[k] = r /\ Stays(task, task')
        /\ \A l \in Tasks : l # k => task'[l] = task[l]
    BY <1>2, <1>3, Beginning DEF IndInv
  <1>5. buttons' \in [Tabs -> BOOLEAN]
    BY DEF StartUnlock, IndInv, TypeOK
  <1>6. TypeOK'
    BY <1>3, <1>4, <1>5 DEF IndInv, TypeOK
  <1>7. PagesAgree'
    BY <1>3, <1>4, SameAgree DEF IndInv
  <1>8. Alone(k)'
    BY <1>3, <1>4, UserIsAlone DEF Alone, Busy
  <1>9. Kept(v, task')
    BY <1>1, <1>4, KeptStays
  <1>10. Fits(k)'
    BY <1>1, <1>2, <1>3, <1>4, <1>9 DEF Fits
  <1> QED
    BY <1>6, <1>7, <1>8, <1>10, OneAgrees DEF IndInv

LEMMA UnlockedKeeps ==
  ASSUME IndInv, NEW k \in Tasks, Unlocked(k)
  PROVE  IndInv'
  <1>0. PICK t \in Tabs : t = task[k].tab
    BY DEF Unlocked, Busy, IndInv, TasksAgree
  <1>v. PICK v \in Vaults : v = task[k].vault /\ Kept(v, task)
    BY DEF Unlocked, IndInv, TasksAgree
  <1>1. Busy(k) /\ Done(k) /\ Replace(t, v.key, v) /\ UNCHANGED <<nextVault, files>>
    BY <1>0, <1>v DEF Unlocked, Busy
  <1>2. OneAtATime' /\ TasksAgree' /\ To(k, "done") /\ Stays(task, task')
    BY <1>1, EndAgrees
  <1>3. v # Null /\ v.key \in Keys /\ v.key # Null
    BY VaultFields, NullAssumption, BoundsAssumption DEF Keys
  <1>4. /\ key' \in [Tabs -> Keys \cup {Null}] /\ key'[t] = v.key
        /\ vault' \in [Tabs -> Vaults \cup {Null}] /\ vault'[t] = v
        /\ opening' \in [Tabs -> 0 .. MaxOpenings]
        /\ \A u \in Tabs : u # t => key'[u] = key[u] /\ vault'[u] = vault[u] /\ opening'[u] = opening[u]
    BY <1>1, <1>3, Replacing DEF IndInv
  <1>5. /\ stored' \in {v, stored} /\ told' \in {v.entries, told} /\ deleted' \subseteq deleted
        /\ view' \in [Tabs -> {"auth", "vault"}] /\ buttons' \in [Tabs -> BOOLEAN]
    <2>1. CASE task[k].op = "import"
      <3>1. PICK w \in BOOLEAN : Save(t, v.entries, w) /\ EnterIf(t, Continues(w))
        BY <1>0, <1>v, <2>1 DEF Unlocked
      <3>2. deleted' \subseteq deleted
        BY <2>1 DEF Unlocked
      <3> QED
        BY <1>4, <3>1, <3>2, Saving, Entering DEF IndInv
    <2>2. CASE task[k].op # "import"
      BY <1>0, <2>2, Entering DEF Unlocked, IndInv
    <2> QED
      BY <2>1, <2>2
  <1>6. TypeOK'
    BY <1>1, <1>2, <1>4, <1>5, VaultFields DEF IndInv, TypeOK, To
  <1>7. Kept(v, task') /\ Kept(stored, task')
    BY <1>v, <1>2, KeptStays, StoredKept DEF IndInv
  <1>8. Agrees(t)'
    BY <1>3, <1>4, <1>7 DEF Agrees
  <1>9. PagesAgree'
    BY <1>1, <1>2, <1>4, <1>5, <1>7, <1>8, PageAgrees DEF IndInv
  <1> QED
    BY <1>2, <1>6, <1>9 DEF IndInv

--------------------------------------------------------------------------------
(* The vault view. *)

LEMMA EmptyPage == Kept(Null, task')
  BY DEF Kept

LEMMA LockKeeps ==
  ASSUME Overlap = {}, IndInv, NEW t \in Tabs, Lock(t)
  PROVE  IndInv'
  <1>1. /\ Replace(t, Null, Null) /\ view' = [view EXCEPT ![t] = "auth"]
        /\ UNCHANGED <<stored, buttons, task, nextVault, files, told, deleted>> /\ Acts(t, "vault")
    BY DEF Lock
  <1>2. /\ key' \in [Tabs -> Keys \cup {Null}] /\ key'[t] = Null
        /\ vault' \in [Tabs -> Vaults \cup {Null}] /\ vault'[t] = Null
        /\ opening' \in [Tabs -> 0 .. MaxOpenings]
        /\ \A u \in Tabs : u # t => key'[u] = key[u] /\ vault'[u] = vault[u] /\ opening'[u] = opening[u]
    BY <1>1, Replacing DEF IndInv
  <1>3. TypeOK'
    BY <1>1, <1>2 DEF IndInv, TypeOK
  <1>4. Stays(task, task')
    BY <1>1 DEF Stays
  <1>5. Agrees(t)'
    BY <1>2, EmptyPage DEF Agrees
  <1>6. PagesAgree'
    BY <1>1, <1>2, <1>4, <1>5, StoredKept, PageAgrees DEF IndInv
  <1>7. \A k \in Tasks : ~Busy(k)'
    BY <1>1, UserIsAlone DEF Busy
  <1> QED
    BY <1>3, <1>6, <1>7, QuietAgrees DEF IndInv

LEMMA ReloadKeeps ==
  ASSUME Overlap = {}, IndInv, NEW t \in Tabs, Reload(t)
  PROVE  IndInv'
  <1>1. /\ Replace(t, Null, Null) /\ view' = [view EXCEPT ![t] = "auth"]
        /\ buttons' = [buttons EXCEPT ![t] = TRUE]
        /\ task' = [k \in Tasks |-> IF task[k].tab = t THEN [task[k] EXCEPT !.at = "done"] ELSE task[k]]
        /\ UNCHANGED <<stored, nextVault, files, told, deleted>> /\ Acts(t, view[t])
    BY DEF Reload
  <1>2. /\ key' \in [Tabs -> Keys \cup {Null}] /\ key'[t] = Null
        /\ vault' \in [Tabs -> Vaults \cup {Null}] /\ vault'[t] = Null
        /\ opening' \in [Tabs -> 0 .. MaxOpenings]
        /\ \A u \in Tabs : u # t => key'[u] = key[u] /\ vault'[u] = vault[u] /\ opening'[u] = opening[u]
    BY <1>1, Replacing DEF IndInv
  <1>3. \A k \in Tasks : /\ task[k] \in Records /\ [task[k] EXCEPT !.at = "done"] \in Records
                         /\ [task[k] EXCEPT !.at = "done"].at = "done"
                         /\ [task[k] EXCEPT !.at = "done"].op = task[k].op
    BY At DEF IndInv, TypeOK
  <1>4. task' \in [Tasks -> Records]
    BY <1>1, <1>3
  <1>5. \A k \in Tasks : task'[k].op = task[k].op /\ task'[k].at \in {"done", task[k].at}
    BY <1>1, <1>3
  <1>6. Stays(task, task')
    BY <1>5 DEF Stays
  <1>7. TypeOK'
    BY <1>1, <1>2, <1>4 DEF IndInv, TypeOK
  <1>8. Agrees(t)'
    BY <1>2, EmptyPage DEF Agrees
  <1>9. PagesAgree'
    BY <1>1, <1>2, <1>6, <1>8, StoredKept, PageAgrees DEF IndInv
  <1>10. \A k \in Tasks : ~Busy(k)'
    BY <1>1, <1>5, UserIsAlone DEF Busy
  <1> QED
    BY <1>7, <1>9, <1>10, QuietAgrees DEF IndInv

LEMMA StartAddKeeps ==
  ASSUME Overlap = {}, IndInv, NEW k \in Tasks, NEW t \in Tabs, StartAdd(k, t)
  PROVE  IndInv'
  <1>1. PICK n \in Names :
           /\ ~Taken(t, n, Null)
           /\ Begin(k, [Unused EXCEPT !.op = "add", !.at = "sealing", !.tab = t,
                          !.opening = opening[t], !.key = key[t], !.id = k, !.name = n])
    BY DEF StartAdd
  <1> DEFINE r == [Unused EXCEPT !.op = "add", !.at = "sealing", !.tab = t,
                     !.opening = opening[t], !.key = key[t], !.id = k, !.name = n]
  <1>2. /\ r \in Records /\ r.op = "add" /\ r.at = "sealing" /\ r.tab = t
        /\ r.key = key[t] /\ r.name = n
    <2>1. opening[t] \in 0 .. MaxOpenings /\ key[t] \in Keys \cup {Null}
      BY DEF IndInv, TypeOK
    <2> QED
      BY <2>1, UnusedRecord DEF Records, Ids
  <1>3. /\ Begin(k, r) /\ Acts(t, "vault") /\ vault[t] # Null
        /\ UNCHANGED <<stored, pages, nextVault, files, told, deleted>>
    BY <1>1 DEF StartAdd
  <1> HIDE DEF r
  <1>4. /\ task' \in [Tasks -> Records] /\ task'[k] = r /\ Stays(task, task')
        /\ \A l \in Tasks : l # k => task'[l] = task[l]
    BY <1>2, <1>3, Beginning DEF IndInv
  <1>5. TypeOK'
    BY <1>3, <1>4 DEF IndInv, TypeOK, pages
  <1>6. PagesAgree'
    BY <1>3, <1>4, SameAgree DEF IndInv, pages
  <1>7. Alone(k)'
    BY <1>3, <1>4, UserIsAlone DEF Alone, Busy
  <1>8. Fits(k)'
    BY <1>1, <1>2, <1>3, <1>4 DEF Fits, Taken, pages
  <1> QED
    BY <1>5, <1>6, <1>7, <1>8, OneAgrees DEF IndInv

\* A page with an operation in it that seals a value with its key.
LEMMA Sealing ==
  ASSUME IndInv, NEW k \in Tasks, task[k].at = "sealing", task[k].op # "create"
  PROVE  \E t \in Tabs : /\ t = task[k].tab /\ Busy(k)
                         /\ vault[t] \in Vaults /\ Kept(vault[t], task)
                         /\ task[k].key = vault[t].key /\ key[t] = vault[t].key /\ key[t] # Null
  <1>1. Busy(k)
    BY DEF Busy
  <1>2. PICK t \in Tabs : t = task[k].tab /\ vault[t] # Null /\ key[t] = task[k].key
    BY <1>1 DEF IndInv, TasksAgree
  <1>3. Agrees(t) /\ vault[t] \in Vaults
    BY <1>2 DEF IndInv, PagesAgree, TypeOK
  <1> QED
    BY <1>1, <1>2, <1>3 DEF Agrees

\* The entries of one page change, and its vault may be written.
LEMMA PageChanges ==
  ASSUME IndInv, NEW t \in Tabs, vault[t] \in Vaults, key[t] = vault[t].key, key[t] # Null,
         NEW es \in SUBSET Entries, SetEntries(t, es), UNCHANGED <<key, files>>,
         Kept([key |-> vault[t].key, entries |-> es], task'), Stays(task, task'),
         stored' \in {vault'[t], stored}
  PROVE  /\ PagesAgree'
         /\ vault' \in [Tabs -> Vaults \cup {Null}] /\ vault'[t] # Null
         /\ stored' \in Vaults \cup {Null}
  <1> DEFINE w == [key |-> vault[t].key, entries |-> es]
  <1>1. vault[t] # Null
    BY VaultFields
  <1>2. w.key = key[t]
    OBVIOUS
  <1>3. Kept(w, task')
    OBVIOUS
  <1>4. /\ vault' \in [Tabs -> Vaults \cup {Null}] /\ vault'[t] = w /\ vault'[t] # Null
        /\ \A u \in Tabs : u # t => vault'[u] = vault[u]
    BY <1>1, Setting DEF IndInv
  <1> HIDE DEF w
  <1>5. Agrees(t)'
    BY <1>2, <1>3, <1>4 DEF Agrees
  <1>6. Kept(stored', task')
    BY <1>3, <1>4, StoredKept DEF IndInv
  <1>7. PagesAgree'
    BY <1>4, <1>5, <1>6, PageAgrees DEF IndInv
  <1>8. stored' \in Vaults \cup {Null}
    BY <1>4 DEF IndInv, TypeOK
  <1> QED
    BY <1>4, <1>7, <1>8

LEMMA AddSealedKeeps ==
  ASSUME IndInv, NEW k \in Tasks, AddSealed(k)
  PROVE  IndInv'
  <1>1. task[k].op = "add" /\ task[k].at = "sealing" /\ Done(k)
        /\ UNCHANGED <<key, opening, view, buttons, nextVault, files, deleted>>
    BY DEF AddSealed
  <1>2. PICK t \in Tabs : /\ t = task[k].tab /\ Busy(k)
                          /\ vault[t] \in Vaults /\ Kept(vault[t], task)
                          /\ task[k].key = vault[t].key /\ key[t] = vault[t].key /\ key[t] # Null
    BY <1>1, Sealing
  <1>3. PICK n \in Names : n = task[k].name /\ ~Taken(t, n, Null)
    BY <1>1, <1>2 DEF IndInv, TasksAgree
  <1> DEFINE e == [id |-> k, name |-> n, value |-> k, key |-> vault[t].key]
             w == [key |-> vault[t].key, entries |-> vault[t].entries \cup {e}]
  <1>4. OneAtATime' /\ TasksAgree' /\ To(k, "done") /\ Stays(task, task')
    BY <1>1, <1>2, EndAgrees
  <1>5. \A d \in vault[t].entries : d.name # n
    <2>1. \A d \in vault[t].entries : d.id # Null
      BY <1>2, VaultFields, NullAssumption DEF Entries, Ids
    <2> QED
      BY <1>3, <2>1 DEF Taken
  <1>6. e \in Entries /\ Kept(w, task')
    BY <1>1, <1>2, <1>4, <1>5, KeptAdd DEF To
  <1>7. vault[t] # Null /\ vault[t].key \in Keys /\ vault[t].entries \subseteq Entries
    BY <1>2, VaultFields
  <1>8. SetEntries(t, vault[t].entries \cup {e})
        /\ \E written \in BOOLEAN : Save(t, told \cup {e}, written)
    BY <1>1, <1>2, <1>3, <1>7 DEF AddSealed
  <1> HIDE DEF e
  <1>9. stored' \in {vault'[t], stored} /\ told' \in {told \cup {e}, told}
    BY <1>8, Saving
  <1>10. vault[t].entries \cup {e} \in SUBSET Entries
    BY <1>6, <1>7
  <1>11. /\ PagesAgree' /\ vault' \in [Tabs -> Vaults \cup {Null}]
         /\ stored' \in Vaults \cup {Null}
    BY <1>1, <1>2, <1>4, <1>6, <1>8, <1>9, <1>10, PageChanges
  <1>12. told' \subseteq Entries
    BY <1>6, <1>9 DEF IndInv, TypeOK
  <1>13. TypeOK'
    BY <1>1, <1>4, <1>11, <1>12 DEF IndInv, TypeOK, To
  <1> QED
    BY <1>4, <1>11, <1>13 DEF IndInv

\* An entry that gets another name, which is free.
LEMMA Renaming ==
  ASSUME IndInv, NEW t \in Tabs, vault[t] # Null, NEW e \in vault[t].entries, NEW n \in Names,
         AllowsName(t, n, e.id)
  PROVE  LET f == [e EXCEPT !.name = n]
         IN  /\ vault[t] \in Vaults /\ key[t] = vault[t].key /\ key[t] # Null
             /\ e \in Entries /\ f \in Entries
             /\ (vault[t].entries \ {e}) \cup {f} \in SUBSET Entries
             /\ Kept([key |-> vault[t].key, entries |-> (vault[t].entries \ {e}) \cup {f}], task)
  <1> DEFINE f == [e EXCEPT !.name = n]
  <1>1. vault[t] \in Vaults /\ Agrees(t)
    BY DEF IndInv, TypeOK, PagesAgree
  <1>2. vault[t].entries \subseteq Entries /\ key[t] = vault[t].key /\ key[t] # Null /\ Kept(vault[t], task)
    BY <1>1, VaultFields DEF Agrees
  <1>3. e \in Entries /\ f \in Entries /\ f.id = e.id /\ f.key = e.key /\ f.name = n
    BY <1>2 DEF Entries
  <1>4. e.key = vault[t].key
    BY <1>2 DEF Kept
  <1>5. Platform = "extension" => \A d \in vault[t].entries : d.name = n => d.id = e.id
    BY PlatformAssumption DEF AllowsName, Taken
  <1> HIDE DEF f
  <1>6. Kept([key |-> vault[t].key, entries |-> (vault[t].entries \ {e}) \cup {f}], task)
    BY <1>1, <1>2, <1>3, <1>4, <1>5, KeptChange
  <1>7. (vault[t].entries \ {e}) \cup {f} \in SUBSET Entries
    BY <1>2, <1>3
  <1> QED
    BY <1>1, <1>2, <1>3, <1>6, <1>7 DEF f

LEMMA StartUpdateKeeps ==
  ASSUME Overlap = {}, IndInv, NEW k \in Tasks, NEW t \in Tabs, StartUpdate(k, t)
  PROVE  IndInv'
  <1>1. PICK e \in vault[t].entries, n \in Names :
           /\ AllowsName(t, n, e.id)
           /\ Begin(k, [Unused EXCEPT !.op = "update", !.at = "sealing", !.tab = t,
                          !.opening = opening[t], !.key = key[t], !.id = e.id, !.name = n])
           /\ SetEntries(t, (vault[t].entries \ {e}) \cup {[e EXCEPT !.name = n]})
    BY DEF StartUpdate
  <1> DEFINE f == [e EXCEPT !.name = n]
             es == (vault[t].entries \ {e}) \cup {f}
             r == [Unused EXCEPT !.op = "update", !.at = "sealing", !.tab = t,
                     !.opening = opening[t], !.key = key[t], !.id = e.id, !.name = n]
  <1>2. /\ Acts(t, "vault") /\ vault[t] # Null
        /\ UNCHANGED <<stored, key, opening, view, buttons, nextVault, files, told, deleted>>
    BY DEF StartUpdate
  <1>3. /\ vault[t] \in Vaults /\ key[t] = vault[t].key /\ key[t] # Null /\ e \in Entries
        /\ es \in SUBSET Entries /\ Kept([key |-> vault[t].key, entries |-> es], task)
    BY <1>1, <1>2, Renaming
  <1>4. r \in Records /\ r.op = "update" /\ r.at = "sealing" /\ r.tab = t /\ r.key = key[t]
        /\ r.opening = opening[t]
    <2>1. opening[t] \in 0 .. MaxOpenings /\ key[t] \in Keys \cup {Null} /\ e.id \in Ids
      BY <1>3 DEF IndInv, TypeOK, Entries
    <2> QED
      BY <2>1, UnusedRecord DEF Records
  <1>5. Begin(k, r) /\ SetEntries(t, es)
    BY <1>1
  <1> HIDE DEF r, f, es
  <1>6. /\ task' \in [Tasks -> Records] /\ task'[k] = r /\ Stays(task, task')
        /\ \A l \in Tasks : l # k => task'[l] = task[l]
    BY <1>4, <1>5, Beginning DEF IndInv
  <1>7. Kept([key |-> vault[t].key, entries |-> es], task')
    <2>1. [key |-> vault[t].key, entries |-> es] \in Vaults
      BY <1>3, VaultFields, MadeVault
    <2> QED
      BY <1>3, <1>6, <2>1, KeptStays
  <1>8. /\ PagesAgree' /\ vault' \in [Tabs -> Vaults \cup {Null}] /\ vault'[t] # Null
        /\ stored' \in Vaults \cup {Null}
    BY <1>2, <1>3, <1>5, <1>6, <1>7, PageChanges
  <1>9. TypeOK'
    BY <1>2, <1>6, <1>8 DEF IndInv, TypeOK
  <1>10. Alone(k)'
    BY <1>2, <1>6, UserIsAlone DEF Alone, Busy
  <1>11. Fits(k)'
    BY <1>2, <1>4, <1>6, <1>8 DEF Fits
  <1> QED
    BY <1>8, <1>9, <1>10, <1>11, OneAgrees DEF IndInv

LEMMA UpdateSealedKeeps ==
  ASSUME IndInv, NEW k \in Tasks, UpdateSealed(k)
  PROVE  IndInv'
  <1>1. task[k].op = "update" /\ task[k].at = "sealing" /\ Done(k)
        /\ UNCHANGED <<key, opening, view, buttons, nextVault, files, deleted>>
    BY DEF UpdateSealed
  <1>2. PICK t \in Tabs : /\ t = task[k].tab /\ Busy(k)
                          /\ vault[t] \in Vaults /\ Kept(vault[t], task)
                          /\ task[k].key = vault[t].key /\ key[t] = vault[t].key /\ key[t] # Null
    BY <1>1, Sealing
  <1>3. OneAtATime' /\ TasksAgree' /\ To(k, "done") /\ Stays(task, task')
    BY <1>1, <1>2, EndAgrees
  <1>4. vault[t] # Null /\ vault[t].key \in Keys /\ vault[t].entries \subseteq Entries
    BY <1>2, VaultFields
  <1> DEFINE found == {e \in vault[t].entries : e.id = task[k].id}
             news  == {[e EXCEPT !.value = k, !.key = task[k].key] : e \in found}
             es    == (vault[t].entries \ found) \cup news
             shown == {e \in told : e.id # task[k].id} \cup news
  <1>5. task[k].opening = opening[t]
    BY <1>1, <1>2 DEF IndInv, TasksAgree
  <1>6. /\ IF found # {} THEN SetEntries(t, es) ELSE UNCHANGED vault
        /\ \E written \in BOOLEAN : Save(t, IF found = {} THEN told ELSE shown, written)
    BY <1>2, <1>4, <1>5 DEF UpdateSealed
  <1>7. stored' \in {vault'[t], stored} /\ told' \in {told, shown}
    BY <1>6, Saving
  <1>8. news \subseteq Entries
    <2>1. task[k].key \in Keys
      BY <1>2, <1>4
    <2>2. ASSUME NEW e \in Entries PROVE [e EXCEPT !.value = k, !.key = task[k].key] \in Entries
      <3> DEFINE q == task[k].key
      <3> HIDE DEF q
      <3>1. [e EXCEPT !.value = k, !.key = q] \in Entries
        BY <2>1 DEF Entries, Ids, q
      <3> QED
        BY <3>1 DEF q
    <2> QED
      BY <1>4, <2>2
  <1>9. told' \subseteq Entries
    BY <1>7, <1>8 DEF IndInv, TypeOK
  <1>10. PagesAgree' /\ vault' \in [Tabs -> Vaults \cup {Null}] /\ stored' \in Vaults \cup {Null}
    <2>1. CASE found = {}
      <3>1. UNCHANGED vault
        BY <1>6, <2>1
      <3>2. \A u \in Tabs : Agrees(u)'
        BY <1>1, <1>3, <3>1, OthersAgree DEF IndInv
      <3>3. Kept(stored, task') /\ Kept(vault[t], task')
        BY <1>3, <3>1, <3>2, StoredKept DEF IndInv, Agrees
      <3>4. PagesAgree'
        BY <1>1, <1>3, <1>7, <3>1, <3>2, <3>3, AllAgree DEF IndInv
      <3> QED
        BY <1>2, <1>7, <3>1, <3>4 DEF IndInv, TypeOK
    <2>2. CASE found # {}
      <3>1. PICK e \in found : TRUE
        BY <2>2
      <3>2. e \in vault[t].entries /\ found = {e}
        BY <1>2, <1>4, <3>1 DEF Kept
      <3> DEFINE f == [e EXCEPT !.value = k, !.key = task[k].key]
      <3>3. es = (vault[t].entries \ {e}) \cup {f}
        BY <3>2
      <3>4. f \in Entries /\ f.id = e.id /\ f.key = vault[t].key /\ f.name = e.name
        BY <1>2, <1>4, <3>2 DEF Entries, Ids
      <3>5. Platform = "extension" => \A d \in vault[t].entries :
                                          d.name = f.name => d.id = e.id \/ GivenTogether(d, f)
        BY <1>2, <1>4, <3>2, <3>4 DEF Kept, GivenTogether
      <3>6. SetEntries(t, es)
        BY <1>6, <2>2
      <3> HIDE DEF found, news, es, f
      <3>7. Kept([key |-> vault[t].key, entries |-> (vault[t].entries \ {e}) \cup {f}], task)
        BY <1>2, <3>2, <3>4, <3>5, KeptChange
      <3>8. Kept([key |-> vault[t].key, entries |-> es], task) /\ es \in SUBSET Entries
        BY <1>4, <3>3, <3>4, <3>7
      <3>9. [key |-> vault[t].key, entries |-> es] \in Vaults
        BY <1>4, <3>8, MadeVault
      <3>10. Kept([key |-> vault[t].key, entries |-> es], task')
        BY <1>3, <3>8, <3>9, KeptStays
      <3> QED
        BY <1>1, <1>2, <1>3, <1>7, <3>6, <3>8, <3>10, PageChanges
    <2> QED
      BY <2>1, <2>2
  <1>11. TypeOK'
    BY <1>1, <1>3, <1>9, <1>10 DEF IndInv, TypeOK, To
  <1> QED
    BY <1>3, <1>10, <1>11 DEF IndInv

LEMMA RenameKeeps ==
  ASSUME Overlap = {}, IndInv, NEW t \in Tabs, Rename(t)
  PROVE  IndInv'
  <1>1. PICK e \in vault[t].entries, n \in Names, written \in BOOLEAN :
           /\ AllowsName(t, n, e.id)
           /\ SetEntries(t, (vault[t].entries \ {e}) \cup {[e EXCEPT !.name = n]})
           /\ Save(t, {d \in told : d.id # e.id} \cup {[e EXCEPT !.name = n]}, written)
    BY DEF Rename
  <1> DEFINE f == [e EXCEPT !.name = n]
             es == (vault[t].entries \ {e}) \cup {f}
  <1>2. /\ Acts(t, "vault") /\ vault[t] # Null
        /\ UNCHANGED <<key, opening, view, buttons, task, nextVault, files, deleted>>
    BY DEF Rename
  <1>3. /\ vault[t] \in Vaults /\ key[t] = vault[t].key /\ key[t] # Null /\ f \in Entries
        /\ es \in SUBSET Entries /\ Kept([key |-> vault[t].key, entries |-> es], task)
    BY <1>1, <1>2, Renaming
  <1>4. SetEntries(t, es)
    BY <1>1
  <1>5. stored' \in {vault'[t], stored} /\ told' \in {{d \in told : d.id # e.id} \cup {f}, told}
    BY <1>1, Saving
  <1> HIDE DEF f, es
  <1>6. Stays(task, task') /\ Kept([key |-> vault[t].key, entries |-> es], task')
    BY <1>2, <1>3 DEF Stays
  <1>7. /\ PagesAgree' /\ vault' \in [Tabs -> Vaults \cup {Null}]
        /\ stored' \in Vaults \cup {Null}
    BY <1>2, <1>3, <1>4, <1>5, <1>6, PageChanges
  <1>8. told' \subseteq Entries
    BY <1>3, <1>5 DEF IndInv, TypeOK
  <1>9. TypeOK'
    BY <1>2, <1>7, <1>8 DEF IndInv, TypeOK
  <1>10. \A k \in Tasks : ~Busy(k)'
    BY <1>2, UserIsAlone DEF Busy
  <1> QED
    BY <1>7, <1>9, <1>10, QuietAgrees DEF IndInv

LEMMA DeleteKeeps ==
  ASSUME Overlap = {}, IndInv, NEW t \in Tabs, Delete(t)
  PROVE  IndInv'
  <1>1. PICK e \in vault[t].entries, written \in BOOLEAN :
           /\ SetEntries(t, vault[t].entries \ {e})
           /\ Save(t, {d \in told : d.id # e.id}, written)
           /\ deleted' \in {deleted \cup {e.id}, deleted}
    BY DEF Delete
  <1>2. /\ Acts(t, "vault") /\ vault[t] # Null
        /\ UNCHANGED <<key, opening, view, buttons, task, nextVault, files>>
    BY DEF Delete
  <1>3. vault[t] \in Vaults /\ Agrees(t)
    BY <1>2 DEF IndInv, TypeOK, PagesAgree
  <1>4. vault[t].entries \subseteq Entries /\ key[t] = vault[t].key /\ key[t] # Null /\ Kept(vault[t], task)
    BY <1>2, <1>3, VaultFields DEF Agrees
  <1>5. vault[t].entries \ {e} \in SUBSET Entries /\ e.id \in Ids
    BY <1>4 DEF Entries
  <1>6. Stays(task, task') /\ Kept([key |-> vault[t].key, entries |-> vault[t].entries \ {e}], task')
    BY <1>2, <1>3, <1>4, KeptRemove DEF Stays
  <1>7. stored' \in {vault'[t], stored} /\ told' \in {{d \in told : d.id # e.id}, told}
    BY <1>1, Saving
  <1>8. /\ PagesAgree' /\ vault' \in [Tabs -> Vaults \cup {Null}]
        /\ stored' \in Vaults \cup {Null}
    BY <1>1, <1>2, <1>3, <1>4, <1>5, <1>6, <1>7, PageChanges
  <1>9. told' \subseteq Entries /\ deleted' \subseteq Ids
    BY <1>1, <1>5, <1>7 DEF IndInv, TypeOK
  <1>10. TypeOK'
    BY <1>2, <1>8, <1>9 DEF IndInv, TypeOK
  <1>11. \A k \in Tasks : ~Busy(k)'
    BY <1>2, UserIsAlone DEF Busy
  <1> QED
    BY <1>8, <1>10, <1>11, QuietAgrees DEF IndInv

LEMMA ExportKeeps ==
  ASSUME Overlap = {}, IndInv, NEW t \in Tabs, Export(t)
  PROVE  IndInv'
  <1>1. /\ Acts(t, "vault") /\ vault[t] # Null /\ files' = files \cup {vault[t]}
        /\ UNCHANGED <<stored, key, vault, opening, view, buttons, task, nextVault, told, deleted>>
    BY DEF Export, pages
  <1>2. vault[t] \in Vaults /\ Kept(vault[t], task) /\ Kept(stored, task)
    BY <1>1 DEF IndInv, TypeOK, PagesAgree, Agrees
  <1>3. TypeOK'
    BY <1>1, <1>2 DEF IndInv, TypeOK
  <1>4. Stays(task, task')
    BY <1>1 DEF Stays
  <1>5. \A u \in Tabs : Agrees(u)'
    BY <1>1, <1>4, OthersAgree DEF IndInv
  <1>6. PagesAgree'
    BY <1>1, <1>2, <1>5 DEF IndInv, PagesAgree
  <1>7. \A k \in Tasks : ~Busy(k)'
    BY <1>1, UserIsAlone DEF Busy
  <1> QED
    BY <1>3, <1>6, <1>7, QuietAgrees DEF IndInv

--------------------------------------------------------------------------------
(* The theorems. *)

LEMMA IndStart == Init => IndInv
  <1> SUFFICES ASSUME Init PROVE IndInv
    OBVIOUS
  <1>1. \A k \in Tasks : task[k] = Unused /\ task[k].at = "unused"
    BY DEF Init, Unused
  <1>2. TypeOK
    BY <1>1, UnusedRecord, BoundsAssumption, ForeignAssumption DEF Init, TypeOK
  <1>3. OneAtATime /\ TasksAgree
    BY <1>1 DEF OneAtATime, TasksAgree, Busy
  <1>4. PagesAgree
    <2>1. \A f \in files : Kept(f, task)
      BY ForeignKept DEF Init
    <2> QED
      BY <2>1 DEF Init, PagesAgree, Agrees, Kept
  <1> QED
    BY <1>2, <1>3, <1>4 DEF IndInv

LEMMA IndStep ==
  ASSUME Overlap = {}, IndInv, [Next]_vars
  PROVE  IndInv'
  <1>1. CASE UNCHANGED vars
    BY <1>1 DEF vars, pages, IndInv, TypeOK, OneAtATime, Busy, PagesAgree, Agrees, Kept, TasksAgree, Taken
  <1>2. ASSUME NEW k \in Tasks, TaskStep(k) PROVE IndInv'
    BY <1>2, ConfirmedKeeps, DeclinedKeeps, CreatedKeeps, CreateSealedKeeps, UnlockedKeeps,
       OpeningFailsKeeps, AddSealedKeeps, UpdateSealedKeeps DEF TaskStep
  <1>3. ASSUME NEW t \in Tabs, UserStep(t) PROVE IndInv'
    BY <1>3, StartCreateKeeps, StartUnlockKeeps, StartAddKeeps, StartUpdateKeeps, LockKeeps,
       RenameKeeps, DeleteKeeps, ExportKeeps, ReloadKeeps DEF UserStep
  <1> QED
    BY <1>1, <1>2, <1>3 DEF Next

LEMMA AlwaysInd ==
  ASSUME Overlap = {}
  PROVE  Spec => []IndInv
  BY IndStart, IndStep, PTL DEF Spec

\* For a user who waits: what is stored, by any number of pages and through every
\* refused write, can be decrypted with the key of the vault that holds it.
THEOREM StoredDecrypts ==
  ASSUME Overlap = {}
  PROVE  Spec => []EntriesDecrypt
  <1>1. IndInv => EntriesDecrypt
    BY DEF IndInv, PagesAgree, Kept, EntriesDecrypt
  <1> QED
    BY <1>1, AlwaysInd, PTL

\* For a user who waits, the extension gives no name to a second secret, whatever files
\* are imported, and in whatever states the vault was exported: two stored secrets of
\* one name have it from a file that was made elsewhere. A name that was free when an
\* addition began is still free when its value is encrypted.
THEOREM StoredNamesUnique ==
  ASSUME Overlap = {}, Platform = "extension"
  PROVE  Spec => []NamesUnique
  <1>1. IndInv => NamesUnique
    BY DEF IndInv, PagesAgree, Kept, NamesUnique
  <1> QED
    BY <1>1, AlwaysInd, PTL

\* For a user who waits, every variable has its type.
THEOREM TypeCorrect ==
  ASSUME Overlap = {}
  PROVE  Spec => []TypeOK
  BY AlwaysInd, PTL DEF IndInv

--------------------------------------------------------------------------------
(* Pages that are unlocked one at a time, and a storage that is never full. *)

Undisturbed == Overlap = {} /\ ~WritesFail

\* No two pages are unlocked.
OneOpen == \A t, u \in Tabs : vault[t] # Null /\ vault[u] # Null => t = u

\* No page but t is unlocked.
Only(t) == \A u \in Tabs : vault[u] # Null => u = t

NoneSeals == \A k \in Tasks : task[k].at # "sealing"

LEMMA NotBusy ==
  ASSUME \A k \in Tasks : ~Busy(k)
  PROVE  NoneSeals
  BY DEF NoneSeals, Busy

\* What the page shows is what is stored and what the user was told.
LEMMA Shown ==
  ASSUME StoredIsShown, NEW t \in Tabs, vault[t] # Null,
         \A k \in Tasks : task[k].at = "sealing" => task[k].op = "add"
  PROVE  stored = vault[t] /\ stored # Null /\ told = vault[t].entries
  BY DEF StoredIsShown

\* An operation begins, goes on or fails, and nothing is changed yet.
LEMMA ShownStays ==
  ASSUME StoredIsShown, NoneSeals, UNCHANGED <<stored, told, vault>>,
         \A k \in Tasks : task'[k].at = "sealing" => task'[k].op = "add"
  PROVE  StoredIsShown'
  <1>1. stored' # Null => stored'.entries = told'
    BY DEF StoredIsShown
  <1>2. \A t \in Tabs : vault'[t] # Null => stored' = vault'[t]
    BY DEF StoredIsShown, NoneSeals
  <1> QED
    BY <1>1, <1>2 DEF StoredIsShown

\* The page is saved.
LEMMA ShownWritten ==
  ASSUME Undisturbed, NEW t \in Tabs, Only(t)',
         NEW written \in BOOLEAN, Save(t, vault'[t].entries, written), NoneSeals'
  PROVE  StoredIsShown'
  <1>1. stored' = vault'[t] /\ told' = vault'[t].entries
    BY Saving DEF Undisturbed
  <1> QED
    BY <1>1 DEF StoredIsShown, NoneSeals, Only

\* The entries of the unlocked page change.
LEMMA OnlyChanges ==
  ASSUME OneOpen, IndInv, NEW t \in Tabs, vault[t] # Null, NEW es, SetEntries(t, es)
  PROVE  Only(t)'
  BY DEF SetEntries, OneOpen, Only, IndInv, TypeOK

LEMMA EndsQuiet ==
  ASSUME IndInv, NEW k \in Tasks, Busy(k), Done(k)
  PROVE  NoneSeals'
  BY EndAgrees, BusyAlone DEF IndInv, Alone, Busy, To, NoneSeals

LEMMA QuietShown ==
  ASSUME Undisturbed, IndInv, StoredIsShown, NEW t, NEW shown, Acts(t, shown)
  PROVE  NoneSeals
  BY UserIsAlone, NotBusy DEF Undisturbed

\* A request that awaits no encryption.
LEMMA WaitingShown ==
  ASSUME Undisturbed, IndInv, StoredIsShown, NEW k \in Tasks,
         Confirmed(k) \/ Declined(k) \/ OpeningFails(k)
  PROVE  StoredIsShown'
  <1>1. Busy(k) /\ task[k].at # "sealing" /\ UNCHANGED <<stored, told, vault>>
    BY DEF Confirmed, Declined, OpeningFails, Busy, pages
  <1>2. To(k, "deriving") \/ To(k, "done")
    BY Going, Ending DEF Confirmed, Declined, OpeningFails, IndInv
  <1>3. NoneSeals /\ NoneSeals'
    BY <1>1, <1>2, BusyAlone DEF IndInv, Alone, Busy, To, NoneSeals
  <1> QED
    BY <1>1, <1>3, ShownStays DEF NoneSeals

LEMMA StartShown ==
  ASSUME Undisturbed, IndInv, StoredIsShown, NEW k \in Tasks, NEW t \in Tabs,
         StartCreate(k, t) \/ StartUnlock(k, t) \/ StartAdd(k, t)
  PROVE  StoredIsShown'
  <1>1. NoneSeals /\ UNCHANGED <<stored, told, vault>>
    BY QuietShown DEF StartCreate, StartUnlock, StartAdd, pages
  <1>2. PICK r : Begin(k, r) /\ (r.at \in {"asking", "deriving"} \/ r.op = "add")
    <2>1. CASE StartCreate(k, t)
      <3> DEFINE r == [Unused EXCEPT !.op = "create", !.at = "asking", !.tab = t]
      <3>1. r.at = "asking"
        BY DEF Unused
      <3>2. Begin(k, r)
        BY <2>1 DEF StartCreate
      <3> HIDE DEF r
      <3> QED
        BY <3>1, <3>2
    <2>2. CASE StartUnlock(k, t)
      <3>1. PICK op, v : Begin(k, [Unused EXCEPT !.op = op, !.at = "deriving", !.tab = t, !.vault = v])
        BY <2>2 DEF StartUnlock
      <3> DEFINE r == [Unused EXCEPT !.op = op, !.at = "deriving", !.tab = t, !.vault = v]
      <3>2. r.at = "deriving"
        BY DEF Unused
      <3> HIDE DEF r
      <3> QED
        BY <3>1, <3>2 DEF r
    <2>3. CASE StartAdd(k, t)
      <3>1. PICK name : Begin(k, [Unused EXCEPT !.op = "add", !.at = "sealing", !.tab = t,
                                    !.opening = opening[t], !.key = key[t], !.id = k, !.name = name])
        BY <2>3 DEF StartAdd
      <3> DEFINE r == [Unused EXCEPT !.op = "add", !.at = "sealing", !.tab = t,
                         !.opening = opening[t], !.key = key[t], !.id = k, !.name = name]
      <3>2. r.op = "add"
        BY DEF Unused
      <3> HIDE DEF r
      <3> QED
        BY <3>1, <3>2 DEF r
    <2> QED
      BY <2>1, <2>2, <2>3
  <1>3. task'[k] = r /\ \A l \in Tasks : l # k => task'[l] = task[l]
    BY <1>2 DEF Begin, IndInv, TypeOK
  <1>4. \A l \in Tasks : task'[l].at = "sealing" => task'[l].op = "add"
    BY <1>1, <1>2, <1>3 DEF NoneSeals
  <1> QED
    BY <1>1, <1>4, ShownStays

LEMMA CreatedShown ==
  ASSUME Undisturbed, IndInv, StoredIsShown, NEW k \in Tasks, Created(k)
  PROVE  StoredIsShown'
  <1>0. PICK t \in Tabs : t = task[k].tab
    BY DEF Created, Busy, IndInv, TasksAgree
  <1>1. Busy(k) /\ task[k].op = "create" /\ UNCHANGED <<stored, told>> /\ To(k, "sealing")
    BY Going DEF Created, Busy, IndInv
  <1>2. vault'[t].entries = {}
    BY <1>0 DEF Created, Replace, IndInv, TypeOK
  <1>3. \A l \in Tasks : task'[l].at = "sealing" => l = k
    BY <1>1, BusyAlone DEF IndInv, Alone, Busy, To
  <1>4. task'[k].at = "sealing" /\ task'[k].op = "create" /\ task'[k].tab = t
    BY <1>0, <1>1 DEF To
  <1>5. stored' # Null => stored'.entries = told'
    BY <1>1 DEF StoredIsShown
  <1> QED
    BY <1>2, <1>3, <1>4, <1>5 DEF StoredIsShown

LEMMA CreateSealedShown ==
  ASSUME Undisturbed, OneOpen, IndInv, StoredIsShown, NEW k \in Tasks, CreateSealed(k)
  PROVE  StoredIsShown'
  <1>0. PICK t \in Tabs : t = task[k].tab
    BY DEF CreateSealed, Busy, IndInv, TasksAgree
  <1>1. Busy(k) /\ Done(k) /\ vault' = vault /\ vault[t].entries = {}
    BY <1>0 DEF CreateSealed, Busy, StoredIsShown
  <1>2. PICK w \in BOOLEAN : Save(t, {}, w)
    BY <1>0 DEF CreateSealed
  <1>3. NoneSeals'
    BY <1>1, EndsQuiet
  <1>4. vault[t] # Null
    BY <1>0 DEF CreateSealed, IndInv, TasksAgree
  <1>5. Only(t)'
    BY <1>1, <1>4 DEF OneOpen, Only
  <1> QED
    BY <1>1, <1>2, <1>3, <1>5, ShownWritten

LEMMA UnlockedShown ==
  ASSUME Undisturbed, OneOpen', IndInv, StoredIsShown, NEW k \in Tasks, Unlocked(k)
  PROVE  StoredIsShown'
  <1>0. PICK t \in Tabs : t = task[k].tab
    BY DEF Unlocked, Busy, IndInv, TasksAgree
  <1>1. Busy(k) /\ Done(k) /\ vault'[t] = task[k].vault
    BY <1>0 DEF Unlocked, Busy, Replace, IndInv, TypeOK
  <1>2. NoneSeals'
    BY <1>1, EndsQuiet
  <1>o. vault'[t] # Null
    BY <1>1, VaultFields DEF Unlocked, IndInv, TasksAgree
  <1>p. Only(t)'
    BY <1>o DEF OneOpen, Only
  <1>3. CASE task[k].op = "unlock"
    <2>1. vault'[t] = stored /\ stored' = stored /\ told' = told
      BY <1>0, <1>1, <1>3 DEF Unlocked, IndInv, TasksAgree
    <2> QED
      BY <1>2, <1>p, <2>1 DEF StoredIsShown, NoneSeals, Only
  <1>4. CASE task[k].op = "import"
    <2>1. PICK w \in BOOLEAN : Save(t, task[k].vault.entries, w)
      BY <1>0, <1>4 DEF Unlocked
    <2> QED
      BY <1>1, <1>2, <1>p, <2>1, ShownWritten
  <1> QED
    BY <1>3, <1>4 DEF Unlocked

LEMMA LeavingShown ==
  ASSUME Undisturbed, IndInv, StoredIsShown, NEW t \in Tabs, Lock(t) \/ Reload(t)
  PROVE  StoredIsShown'
  <1>1. /\ vault'[t] = Null /\ \A u \in Tabs : u # t => vault'[u] = vault[u]
        /\ UNCHANGED <<stored, told>> /\ NoneSeals
    BY QuietShown DEF Lock, Reload, Replace, IndInv, TypeOK
  <1>2. NoneSeals'
    <2>1. CASE Lock(t)
      BY <1>1, <2>1 DEF Lock, NoneSeals
    <2>2. CASE Reload(t)
      <3>1. \A k \in Tasks : [task[k] EXCEPT !.at = "done"].at = "done"
        BY At DEF IndInv, TypeOK
      <3>2. task' = [k \in Tasks |-> IF task[k].tab = t THEN [task[k] EXCEPT !.at = "done"] ELSE task[k]]
        BY <2>2 DEF Reload
      <3> QED
        BY <1>1, <3>1, <3>2 DEF NoneSeals
    <2> QED
      BY <2>1, <2>2
  <1>3. \A u \in Tabs : vault'[u] # Null => stored' = vault'[u]
    BY <1>1 DEF StoredIsShown, NoneSeals
  <1>4. stored' # Null => stored'.entries = told'
    BY <1>1 DEF StoredIsShown
  <1> QED
    BY <1>1, <1>2, <1>3, <1>4 DEF StoredIsShown, NoneSeals

LEMMA AddSealedShown ==
  ASSUME Undisturbed, OneOpen, IndInv, StoredIsShown, NEW k \in Tasks, AddSealed(k)
  PROVE  StoredIsShown'
  <1>1. task[k].op = "add" /\ task[k].at = "sealing" /\ Done(k)
    BY DEF AddSealed
  <1>2. PICK t \in Tabs : t = task[k].tab /\ Busy(k) /\ vault[t] \in Vaults
    BY <1>1, Sealing
  <1>3. vault[t] # Null
    BY <1>2, VaultFields
  <1>4. \A l \in Tasks : task[l].at = "sealing" => task[l].op = "add"
    BY <1>1, <1>2, BusyAlone DEF IndInv, Alone, Busy
  <1>5. told = vault[t].entries
    BY <1>3, <1>4, Shown
  <1> DEFINE e == [id |-> k, name |-> task[k].name, value |-> k, key |-> task[k].key]
  <1>6. PICK w \in BOOLEAN : SetEntries(t, told \cup {e}) /\ Save(t, told \cup {e}, w)
    BY <1>2, <1>3, <1>5 DEF AddSealed
  <1> HIDE DEF e
  <1>7. vault'[t].entries = told \cup {e}
    BY <1>6 DEF SetEntries, IndInv, TypeOK
  <1>8. NoneSeals'
    BY <1>1, <1>2, EndsQuiet
  <1>9. Only(t)'
    BY <1>3, <1>6, OnlyChanges
  <1> QED
    BY <1>6, <1>7, <1>8, <1>9, ShownWritten

LEMMA StartUpdateShown ==
  ASSUME Undisturbed, IndInv, StoredIsShown, NEW k \in Tasks, NEW t \in Tabs, StartUpdate(k, t)
  PROVE  StoredIsShown'
  <1>1. PICK e \in vault[t].entries, n \in Names :
           /\ AllowsName(t, n, e.id)
           /\ Begin(k, [Unused EXCEPT !.op = "update", !.at = "sealing", !.tab = t,
                          !.opening = opening[t], !.key = key[t], !.id = e.id, !.name = n])
           /\ SetEntries(t, (vault[t].entries \ {e}) \cup {[e EXCEPT !.name = n]})
    BY DEF StartUpdate
  <1> DEFINE f == [e EXCEPT !.name = n]
             r == [Unused EXCEPT !.op = "update", !.at = "sealing", !.tab = t,
                     !.opening = opening[t], !.key = key[t], !.id = e.id, !.name = n]
  <1>2. NoneSeals /\ vault[t] # Null /\ UNCHANGED <<stored, told>>
    BY QuietShown DEF StartUpdate
  <1>3. told = vault[t].entries
    BY <1>2, Shown DEF NoneSeals
  <1>4. vault[t] \in Vaults /\ vault[t].entries \subseteq Entries
    BY <1>2, VaultFields DEF IndInv, TypeOK
  <1>5. f.id = e.id
    BY <1>4 DEF Entries
  <1>6. r.op = "update" /\ r.at = "sealing" /\ r.tab = t /\ r.id = e.id
    BY DEF Unused
  <1>7. Begin(k, r) /\ SetEntries(t, (told \ {e}) \cup {f})
    BY <1>1, <1>3
  <1> HIDE DEF f, r
  <1>8. task'[k] = r /\ \A l \in Tasks : l # k => task'[l] = task[l]
    BY <1>7 DEF Begin, IndInv, TypeOK
  <1>9. vault'[t].entries = (told \ {e}) \cup {f}
    BY <1>7 DEF SetEntries, IndInv, TypeOK
  <1>10. \A l \in Tasks : task'[l].at = "sealing" => l = k
    BY <1>2, <1>8 DEF NoneSeals
  <1>11. \E x \in vault'[t].entries : x.id = e.id
    BY <1>5, <1>9
  <1>12. {x \in vault'[t].entries : x.id # e.id} = {x \in told' : x.id # e.id}
    BY <1>2, <1>5, <1>9
  <1>13. stored' # Null => stored'.entries = told'
    BY <1>2 DEF StoredIsShown
  <1> QED
    BY <1>6, <1>8, <1>9, <1>10, <1>11, <1>12, <1>13 DEF StoredIsShown

LEMMA UpdateSealedShown ==
  ASSUME Undisturbed, OneOpen, IndInv, StoredIsShown, NEW k \in Tasks, UpdateSealed(k)
  PROVE  StoredIsShown'
  <1>1. task[k].op = "update" /\ task[k].at = "sealing" /\ Done(k)
    BY DEF UpdateSealed
  <1>2. PICK t \in Tabs : t = task[k].tab /\ Busy(k) /\ vault[t] \in Vaults
    BY <1>1, Sealing
  <1> DEFINE found == {e \in vault[t].entries : e.id = task[k].id}
             news  == {[e EXCEPT !.value = k, !.key = task[k].key] : e \in found}
             shown == {e \in told : e.id # task[k].id} \cup news
  <1>3. vault[t] # Null /\ task[k].opening = opening[t]
    BY <1>1, <1>2, VaultFields DEF IndInv, TasksAgree
  <1>4. /\ found # {}
        /\ {e \in vault[t].entries : e.id # task[k].id} = {e \in told : e.id # task[k].id}
    BY <1>1, <1>2 DEF StoredIsShown
  <1>5. /\ SetEntries(t, (vault[t].entries \ found) \cup news)
        /\ \E w \in BOOLEAN : Save(t, shown, w)
    BY <1>2, <1>3, <1>4 DEF UpdateSealed
  <1>6. (vault[t].entries \ found) \cup news = shown
    <2>1. vault[t].entries \ found = {e \in vault[t].entries : e.id # task[k].id}
      OBVIOUS
    <2> HIDE DEF found, news
    <2> QED
      BY <1>4, <2>1
  <1> HIDE DEF found, news, shown
  <1>7. vault'[t].entries = shown
    BY <1>5, <1>6 DEF SetEntries, IndInv, TypeOK
  <1>8. NoneSeals'
    BY <1>1, <1>2, EndsQuiet
  <1>9. Only(t)'
    BY <1>3, <1>5, OnlyChanges
  <1> QED
    BY <1>5, <1>7, <1>8, <1>9, ShownWritten

\* Entries have ids of their own.
LEMMA Others ==
  ASSUME IndInv, NEW t \in Tabs, vault[t] # Null, NEW e \in vault[t].entries
  PROVE  vault[t].entries \ {e} = {d \in vault[t].entries : d.id # e.id}
  BY DEF IndInv, PagesAgree, Agrees, Kept

LEMMA RenameShown ==
  ASSUME Undisturbed, OneOpen, IndInv, StoredIsShown, NEW t \in Tabs, Rename(t)
  PROVE  StoredIsShown'
  <1>1. PICK e \in vault[t].entries, n \in Names, written \in BOOLEAN :
           /\ SetEntries(t, (vault[t].entries \ {e}) \cup {[e EXCEPT !.name = n]})
           /\ Save(t, {d \in told : d.id # e.id} \cup {[e EXCEPT !.name = n]}, written)
    BY DEF Rename
  <1>2. NoneSeals /\ NoneSeals' /\ vault[t] # Null
    BY QuietShown DEF Rename, NoneSeals
  <1>3. told = vault[t].entries
    BY <1>2, Shown DEF NoneSeals
  <1>4. vault'[t].entries = {d \in told : d.id # e.id} \cup {[e EXCEPT !.name = n]}
    BY <1>1, <1>2, <1>3, Others DEF SetEntries, IndInv, TypeOK
  <1>5. Only(t)'
    BY <1>1, <1>2, OnlyChanges
  <1> QED
    BY <1>1, <1>2, <1>4, <1>5, ShownWritten

LEMMA DeleteShown ==
  ASSUME Undisturbed, OneOpen, IndInv, StoredIsShown, NEW t \in Tabs, Delete(t)
  PROVE  StoredIsShown'
  <1>1. PICK e \in vault[t].entries, written \in BOOLEAN :
           /\ SetEntries(t, vault[t].entries \ {e})
           /\ Save(t, {d \in told : d.id # e.id}, written)
    BY DEF Delete
  <1>2. NoneSeals /\ NoneSeals' /\ vault[t] # Null
    BY QuietShown DEF Delete, NoneSeals
  <1>3. told = vault[t].entries
    BY <1>2, Shown DEF NoneSeals
  <1>4. vault'[t].entries = {d \in told : d.id # e.id}
    BY <1>1, <1>2, <1>3, Others DEF SetEntries, IndInv, TypeOK
  <1>5. Only(t)'
    BY <1>1, <1>2, OnlyChanges
  <1> QED
    BY <1>1, <1>2, <1>4, <1>5, ShownWritten

LEMMA ExportShown ==
  ASSUME Undisturbed, IndInv, StoredIsShown, NEW t \in Tabs, Export(t)
  PROVE  StoredIsShown'
  <1>1. NoneSeals /\ UNCHANGED <<stored, told, vault, task>>
    BY QuietShown DEF Export, pages
  <1> QED
    BY <1>1, ShownStays DEF NoneSeals

LEMMA ShownStep ==
  ASSUME Undisturbed, OneOpen, OneOpen', IndInv, StoredIsShown, [Next]_vars
  PROVE  StoredIsShown'
  <1>1. CASE UNCHANGED vars
    BY <1>1 DEF vars, pages, StoredIsShown
  <1>2. ASSUME NEW k \in Tasks, TaskStep(k) PROVE StoredIsShown'
    BY <1>2, WaitingShown, CreatedShown, CreateSealedShown, UnlockedShown, AddSealedShown,
       UpdateSealedShown DEF TaskStep
  <1>3. ASSUME NEW t \in Tabs, UserStep(t) PROVE StoredIsShown'
    BY <1>3, StartShown, StartUpdateShown, LeavingShown, RenameShown, DeleteShown, ExportShown
       DEF UserStep
  <1> QED
    BY <1>1, <1>2, <1>3 DEF Next

\* With any number of pages that are unlocked one at a time, a storage that is never
\* full and a user who waits, the vault that is stored when nothing is under way holds
\* exactly what the user was told: no secret is lost, none that was deleted is back,
\* and each has its last value.
THEOREM StoredInTurn ==
  ASSUME Overlap = {}, ~WritesFail
  PROVE  Spec /\ []OneOpen => []StoredAsTold
  <1>1. Init => StoredIsShown
    BY DEF Init, StoredIsShown, Unused
  <1>2. OneOpen /\ OneOpen' /\ IndInv /\ StoredIsShown /\ [Next]_vars => StoredIsShown'
    BY ShownStep DEF Undisturbed
  <1>3. Spec => []IndInv
    BY AlwaysInd
  <1>4. StoredIsShown => StoredAsTold
    BY DEF StoredIsShown, StoredAsTold
  <1> QED
    BY <1>1, <1>2, <1>3, <1>4, PTL DEF Spec

OnePage == Overlap = {} /\ ~WritesFail /\ \A t, u \in Tabs : t = u

\* So it does in the one page of a user who opens no other.
THEOREM StoredWhatWasTold ==
  ASSUME OnePage
  PROVE  Spec => []StoredAsTold
  <1>1. OneOpen
    BY DEF OnePage, OneOpen
  <1>2. Spec /\ []OneOpen => []StoredAsTold
    BY StoredInTurn DEF OnePage
  <1> QED
    BY <1>1, <1>2, PTL

--------------------------------------------------------------------------------
(* The stored vault goes on being stored. *)

\* A page that keeps its key keeps a vault open.
LEMMA StaysOpen ==
  ASSUME IndInv, IndInv', NEW t \in Tabs, vault[t] # Null, key' = key
  PROVE  vault'[t] # Null
  BY DEF IndInv, PagesAgree, Agrees

\* A save puts an open vault in the place of the stored one, or nothing at all.
LEMMA SaveKeeps ==
  ASSUME stored # Null, NEW t, vault'[t] # Null, NEW es,
         \E written \in BOOLEAN : Save(t, es, written)
  PROVE  stored' # Null
  BY Saving

LEMMA TaskStores ==
  ASSUME IndInv, IndInv', stored # Null, NEW k \in Tasks, TaskStep(k)
  PROVE  stored' # Null
  <1>1. CASE Confirmed(k) \/ Declined(k) \/ Created(k) \/ OpeningFails(k)
    BY <1>1 DEF Confirmed, Declined, Created, OpeningFails
  <1>2. CASE CreateSealed(k)
    <2>1. PICK t \in Tabs : t = task[k].tab /\ vault[t] # Null
      BY <1>2 DEF CreateSealed, Busy, IndInv, TasksAgree
    <2>2. key' = key /\ \E written \in BOOLEAN : Save(t, {}, written)
      BY <1>2, <2>1 DEF CreateSealed
    <2> QED
      BY <2>1, <2>2, StaysOpen, SaveKeeps
  <1>3. CASE Unlocked(k)
    <2>1. PICK t \in Tabs : t = task[k].tab /\ task[k].vault \in Vaults
      BY <1>3 DEF Unlocked, Busy, IndInv, TasksAgree
    <2>2. vault'[t] = task[k].vault
      BY <1>3, <2>1 DEF Unlocked, Replace, IndInv, TypeOK
    <2>3. vault'[t] # Null
      BY <2>1, <2>2, VaultFields
    <2>4. stored' = stored \/ \E written \in BOOLEAN : Save(t, task[k].vault.entries, written)
      BY <1>3, <2>1 DEF Unlocked
    <2> QED
      BY <2>3, <2>4, SaveKeeps
  <1>4. CASE AddSealed(k)
    <2>1. PICK t \in Tabs : t = task[k].tab /\ vault[t] # Null
      BY <1>4 DEF AddSealed, Busy, IndInv, TasksAgree
    <2>2. key' = key /\ \E es : \E written \in BOOLEAN : Save(t, es, written)
      BY <1>4, <2>1 DEF AddSealed
    <2> QED
      BY <2>1, <2>2, StaysOpen, SaveKeeps
  <1>5. CASE UpdateSealed(k)
    <2>1. PICK t \in Tabs : t = task[k].tab /\ vault[t] # Null
      BY <1>5 DEF UpdateSealed, Busy, IndInv, TasksAgree
    <2>2. key' = key /\ \E es : \E written \in BOOLEAN : Save(t, es, written)
      BY <1>5, <2>1 DEF UpdateSealed
    <2> QED
      BY <2>1, <2>2, StaysOpen, SaveKeeps
  <1> QED
    BY <1>1, <1>2, <1>3, <1>4, <1>5 DEF TaskStep

LEMMA UserStores ==
  ASSUME IndInv, IndInv', stored # Null, NEW t \in Tabs, UserStep(t)
  PROVE  stored' # Null
  <1>1. CASE \E k \in Tasks : \/ StartCreate(k, t) \/ StartUnlock(k, t)
                              \/ StartAdd(k, t) \/ StartUpdate(k, t)
    BY <1>1 DEF StartCreate, StartUnlock, StartAdd, StartUpdate
  <1>2. CASE Lock(t) \/ Reload(t) \/ Export(t)
    BY <1>2 DEF Lock, Reload, Export
  <1>3. CASE Rename(t)
    <2>1. vault[t] # Null /\ key' = key /\ \E es : \E written \in BOOLEAN : Save(t, es, written)
      BY <1>3 DEF Rename
    <2> QED
      BY <2>1, StaysOpen, SaveKeeps
  <1>4. CASE Delete(t)
    <2>1. vault[t] # Null /\ key' = key /\ \E es : \E written \in BOOLEAN : Save(t, es, written)
      BY <1>4 DEF Delete
    <2> QED
      BY <2>1, StaysOpen, SaveKeeps
  <1> QED
    BY <1>1, <1>2, <1>3, <1>4 DEF UserStep

\* For a user who waits, no operation of any page, and no refused write, leaves
\* nothing in the place of the stored vault. Of a user who does not wait, the run
\* extension_locked shows the loss.
THEOREM VaultNeverVanishes ==
  ASSUME Overlap = {}
  PROVE  Spec => VaultStaysStored
  <1>1. IndInv /\ IndInv' /\ [Next]_vars => [stored # Null => stored' # Null]_vars
    BY TaskStores, UserStores DEF Next
  <1>2. Spec => []IndInv
    BY AlwaysInd
  <1> QED
    BY <1>1, <1>2, PTL DEF Spec, VaultStaysStored

--------------------------------------------------------------------------------
(* Deleted secrets. *)

\* No addition is undone.
LEMMA TaskStays ==
  ASSUME IndInv, NEW k \in Tasks, TaskStep(k)
  PROVE  Stays(task, task')
  <1>1. CASE Confirmed(k)
    <2>1. task[k].at = "asking" /\ To(k, "deriving")
      BY <1>1, Going DEF Confirmed, IndInv
    <2> QED
      BY <2>1 DEF To, Stays
  <1>2. CASE Created(k)
    <2>1. task[k].at = "deriving" /\ To(k, "sealing")
      BY <1>2, Going DEF Created, IndInv
    <2> QED
      BY <2>1 DEF To, Stays
  <1>3. CASE \/ Declined(k) \/ CreateSealed(k) \/ Unlocked(k) \/ OpeningFails(k)
             \/ AddSealed(k) \/ UpdateSealed(k)
    <2>1. Done(k)
      BY <1>3 DEF Declined, CreateSealed, Unlocked, OpeningFails, AddSealed, UpdateSealed
    <2> QED
      BY <2>1, Ending DEF IndInv
  <1> QED
    BY <1>1, <1>2, <1>3 DEF TaskStep

LEMMA UserStays ==
  ASSUME IndInv, NEW t \in Tabs, UserStep(t)
  PROVE  Stays(task, task')
  <1>1. CASE \E k \in Tasks : \/ StartCreate(k, t) \/ StartUnlock(k, t)
                              \/ StartAdd(k, t) \/ StartUpdate(k, t)
    <2>1. PICK k \in Tasks : \E r : Begin(k, r)
      BY <1>1 DEF StartCreate, StartUnlock, StartAdd, StartUpdate
    <2>2. task[k].at = "unused" /\ \A l \in Tasks : l # k => task'[l] = task[l]
      BY <2>1 DEF Begin, IndInv, TypeOK
    <2> QED
      BY <2>2 DEF Stays
  <1>2. CASE Lock(t) \/ Rename(t) \/ Delete(t) \/ Export(t)
    BY <1>2 DEF Lock, Rename, Delete, Export, Stays
  <1>3. CASE Reload(t)
    <2>1. \A k \in Tasks : /\ [task[k] EXCEPT !.at = "done"].at = "done"
                           /\ [task[k] EXCEPT !.at = "done"].op = task[k].op
      BY At DEF IndInv, TypeOK
    <2>2. task' = [k \in Tasks |-> IF task[k].tab = t THEN [task[k] EXCEPT !.at = "done"] ELSE task[k]]
      BY <1>3 DEF Reload
    <2> QED
      BY <2>1, <2>2 DEF Stays
  <1> QED
    BY <1>1, <1>2, <1>3 DEF UserStep

\* A vault has no deleted entry.
Without(v, ids) == v # Null => \A e \in v.entries : e.id \notin ids

\* Deleted entries are entries that were added, and no page and no storage has one.
DeletedGone ==
  /\ \A d \in deleted : d \in Tasks => task[d].op = "add" /\ task[d].at = "done"
  /\ Without(stored, deleted)
  /\ \A t \in Tabs : Without(vault[t], deleted)

\* One page changes, and is saved or not.
LEMMA GoneStays ==
  ASSUME DeletedGone, deleted' = deleted, Stays(task, task'), NEW t \in Tabs,
         \A u \in Tabs : u # t => vault'[u] = vault[u],
         Without(vault'[t], deleted), stored' \in {vault'[t], stored}
  PROVE  DeletedGone'
  <1>1. \A d \in deleted : d \in Tasks => task'[d].op = "add" /\ task'[d].at = "done"
    BY DEF DeletedGone, Stays
  <1>2. Without(stored', deleted)
    BY DEF DeletedGone
  <1>3. \A u \in Tabs : Without(vault'[u], deleted)
    BY DEF DeletedGone
  <1> QED
    BY <1>1, <1>2, <1>3 DEF DeletedGone

\* Nothing is changed but operations.
LEMMA GoneSame ==
  ASSUME DeletedGone, UNCHANGED <<deleted, stored, vault>>, Stays(task, task')
  PROVE  DeletedGone'
  BY DEF DeletedGone, Stays

LEMMA WithoutMore ==
  ASSUME NEW v, NEW ids, v # Null, Without(v, ids), NEW es,
         \A e \in es : e.id \in ids => \E d \in v.entries : d.id = e.id
  PROVE  Without([key |-> v.key, entries |-> es], ids)
  BY DEF Without

LEMMA GoneEntries ==
  ASSUME IndInv, DeletedGone, deleted' = deleted, Stays(task, task'),
         NEW t \in Tabs, vault[t] # Null, NEW es, SetEntries(t, es),
         \A e \in es : e.id \in deleted => \E d \in vault[t].entries : d.id = e.id,
         stored' = stored \/ \E s : \E written \in BOOLEAN : Save(t, s, written)
  PROVE  DeletedGone'
  <1>1. /\ vault'[t] = [key |-> vault[t].key, entries |-> es]
        /\ \A u \in Tabs : u # t => vault'[u] = vault[u]
    BY DEF SetEntries, IndInv, TypeOK
  <1>2. Without(vault[t], deleted)
    BY DEF DeletedGone
  <1>3. Without(vault'[t], deleted)
    BY <1>1, <1>2, WithoutMore
  <1>4. stored' \in {vault'[t], stored}
    BY Saving
  <1> QED
    BY <1>1, <1>3, <1>4, GoneStays

\* A page opens a vault that has no deleted entry, or none at all.
LEMMA GoneReplaced ==
  ASSUME IndInv, DeletedGone, deleted' = deleted, Stays(task, task'),
         NEW t \in Tabs, NEW k, NEW v, Replace(t, k, v), Without(v, deleted),
         stored' = stored \/ \E s : \E written \in BOOLEAN : Save(t, s, written)
  PROVE  DeletedGone'
  <1>1. vault'[t] = v /\ \A u \in Tabs : u # t => vault'[u] = vault[u]
    BY DEF Replace, IndInv, TypeOK
  <1>2. stored' \in {vault'[t], stored}
    BY Saving
  <1> QED
    BY <1>1, <1>2, GoneStays

\* A file is imported: what it holds is not deleted any more.
LEMMA GoneImported ==
  ASSUME IndInv, DeletedGone, Stays(task, task'), NEW t \in Tabs, NEW k, NEW v, Replace(t, k, v),
         deleted' = deleted \ {e.id : e \in v.entries},
         \E written \in BOOLEAN : Save(t, v.entries, written)
  PROVE  DeletedGone'
  <1>1. vault'[t] = v /\ \A u \in Tabs : u # t => vault'[u] = vault[u]
    BY DEF Replace, IndInv, TypeOK
  <1>2. deleted' \subseteq deleted /\ Without(v, deleted')
    BY DEF Without
  <1>3. \A w : Without(w, deleted) => Without(w, deleted')
    BY <1>2 DEF Without
  <1>4. \A d \in deleted' : d \in Tasks => task'[d].op = "add" /\ task'[d].at = "done"
    BY <1>2 DEF DeletedGone, Stays
  <1>5. Without(stored', deleted')
    BY <1>1, <1>2, <1>3, Saving DEF DeletedGone
  <1>6. \A u \in Tabs : Without(vault'[u], deleted')
    BY <1>1, <1>2, <1>3 DEF DeletedGone
  <1> QED
    BY <1>4, <1>5, <1>6 DEF DeletedGone

LEMMA CreatedGone ==
  ASSUME IndInv, DeletedGone, Stays(task, task'), NEW k \in Tasks, Created(k)
  PROVE  DeletedGone'
  <1> DEFINE v == [key |-> nextVault, entries |-> {}]
  <1>1. PICK t \in Tabs : t = task[k].tab
    BY DEF Created, Busy, IndInv, TasksAgree
  <1>2. Without(v, deleted)
    BY DEF Without
  <1>3. Replace(t, nextVault, v) /\ deleted' = deleted /\ stored' = stored
    BY <1>1 DEF Created
  <1> HIDE DEF v
  <1> QED
    BY <1>2, <1>3, GoneReplaced

LEMMA CreateSealedGone ==
  ASSUME IndInv, DeletedGone, Stays(task, task'), NEW k \in Tasks, CreateSealed(k)
  PROVE  DeletedGone'
  <1>1. PICK t \in Tabs : t = task[k].tab
    BY DEF CreateSealed, Busy, IndInv, TasksAgree
  <1>2. /\ vault' = vault /\ deleted' = deleted
        /\ \E written \in BOOLEAN : Save(t, {}, written)
    BY <1>1 DEF CreateSealed
  <1>3. Without(vault'[t], deleted)
    BY <1>2 DEF DeletedGone
  <1>4. stored' \in {vault'[t], stored}
    BY <1>2, Saving
  <1> QED
    BY <1>2, <1>3, <1>4, GoneStays

LEMMA UnlockedGone ==
  ASSUME IndInv, DeletedGone, Stays(task, task'), NEW k \in Tasks, Unlocked(k)
  PROVE  DeletedGone'
  <1>1. PICK t \in Tabs : t = task[k].tab
    BY DEF Unlocked, Busy, IndInv, TasksAgree
  <1>2. Replace(t, task[k].vault.key, task[k].vault)
    BY <1>1 DEF Unlocked
  <1>3. CASE task[k].op = "unlock"
    <2>1. task[k].vault = stored /\ deleted' = deleted /\ stored' = stored
      BY <1>3 DEF Unlocked, IndInv, TasksAgree
    <2>2. Without(task[k].vault, deleted)
      BY <2>1 DEF DeletedGone
    <2> QED
      BY <1>2, <2>1, <2>2, GoneReplaced
  <1>4. CASE task[k].op = "import"
    <2>1. /\ deleted' = deleted \ {e.id : e \in task[k].vault.entries}
          /\ \E written \in BOOLEAN : Save(t, task[k].vault.entries, written)
      BY <1>1, <1>4 DEF Unlocked
    <2> QED
      BY <1>2, <2>1, GoneImported
  <1> QED
    BY <1>3, <1>4 DEF Unlocked

LEMMA LeavingGone ==
  ASSUME IndInv, DeletedGone, Stays(task, task'), NEW t \in Tabs, Lock(t) \/ Reload(t)
  PROVE  DeletedGone'
  <1>1. Replace(t, Null, Null) /\ deleted' = deleted /\ stored' = stored
    BY DEF Lock, Reload
  <1>2. Without(Null, deleted)
    BY DEF Without
  <1> QED
    BY <1>1, <1>2, GoneReplaced

\* The operation that adds an entry was not done when its entry could be deleted.
LEMMA AddSealedGone ==
  ASSUME IndInv, DeletedGone, Stays(task, task'), NEW k \in Tasks, AddSealed(k)
  PROVE  DeletedGone'
  <1>1. PICK t \in Tabs : t = task[k].tab /\ vault[t] # Null
    BY DEF AddSealed, Busy, IndInv, TasksAgree
  <1> DEFINE e == [id |-> k, name |-> task[k].name, value |-> k, key |-> task[k].key]
  <1>2. e.id = k /\ k \notin deleted
    BY DEF AddSealed, DeletedGone
  <1>3. /\ SetEntries(t, vault[t].entries \cup {e}) /\ deleted' = deleted
        /\ \E s : \E written \in BOOLEAN : Save(t, s, written)
    BY <1>1 DEF AddSealed
  <1> HIDE DEF e
  <1>4. \A d \in vault[t].entries \cup {e} : d.id \in deleted => \E c \in vault[t].entries : c.id = d.id
    BY <1>2
  <1> QED
    BY <1>1, <1>3, <1>4, GoneEntries

\* Another name leaves the ids as they are.
LEMMA RenamedId ==
  ASSUME IndInv, NEW t \in Tabs, vault[t] # Null, NEW e \in vault[t].entries, NEW n
  PROVE  [e EXCEPT !.name = n].id = e.id
  <1>1. e \in Entries
    BY VaultFields DEF IndInv, TypeOK
  <1> QED
    BY <1>1 DEF Entries

LEMMA SameIds ==
  ASSUME NEW old, NEW e \in old, NEW f, f.id = e.id
  PROVE  \A d \in (old \ {e}) \cup {f} : \E c \in old : c.id = d.id
  OBVIOUS

LEMMA StartUpdateGone ==
  ASSUME IndInv, DeletedGone, Stays(task, task'), NEW k \in Tasks, NEW t \in Tabs, StartUpdate(k, t)
  PROVE  DeletedGone'
  <1>1. PICK e \in vault[t].entries, n \in Names :
           SetEntries(t, (vault[t].entries \ {e}) \cup {[e EXCEPT !.name = n]})
    BY DEF StartUpdate
  <1>2. vault[t] # Null /\ deleted' = deleted /\ stored' = stored
    BY DEF StartUpdate
  <1> DEFINE f == [e EXCEPT !.name = n]
             es == (vault[t].entries \ {e}) \cup {f}
  <1>3. f.id = e.id
    BY <1>2, RenamedId
  <1>4. SetEntries(t, es)
    BY <1>1
  <1> HIDE DEF f
  <1>5. \A d \in es : \E c \in vault[t].entries : c.id = d.id
    BY <1>3, SameIds
  <1> HIDE DEF es
  <1> QED
    BY <1>2, <1>4, <1>5, GoneEntries

LEMMA RenameGone ==
  ASSUME IndInv, DeletedGone, Stays(task, task'), NEW t \in Tabs, Rename(t)
  PROVE  DeletedGone'
  <1>1. PICK e \in vault[t].entries, n \in Names :
           /\ SetEntries(t, (vault[t].entries \ {e}) \cup {[e EXCEPT !.name = n]})
           /\ \E s : \E written \in BOOLEAN : Save(t, s, written)
    BY DEF Rename
  <1>2. vault[t] # Null /\ deleted' = deleted
    BY DEF Rename
  <1> DEFINE f == [e EXCEPT !.name = n]
             es == (vault[t].entries \ {e}) \cup {f}
  <1>3. f.id = e.id
    BY <1>2, RenamedId
  <1>4. SetEntries(t, es)
    BY <1>1
  <1> HIDE DEF f
  <1>5. \A d \in es : \E c \in vault[t].entries : c.id = d.id
    BY <1>3, SameIds
  <1> HIDE DEF es
  <1> QED
    BY <1>1, <1>2, <1>4, <1>5, GoneEntries

LEMMA UpdateSealedGone ==
  ASSUME IndInv, DeletedGone, Stays(task, task'), NEW k \in Tasks, UpdateSealed(k)
  PROVE  DeletedGone'
  <1>1. task[k].op = "update" /\ task[k].at = "sealing" /\ deleted' = deleted
    BY DEF UpdateSealed
  <1>2. PICK t \in Tabs : t = task[k].tab /\ vault[t] # Null /\ task[k].opening = opening[t]
    BY <1>1 DEF Busy, IndInv, TasksAgree
  <1> DEFINE found == {e \in vault[t].entries : e.id = task[k].id}
             news  == {[e EXCEPT !.value = k, !.key = task[k].key] : e \in found}
             es    == (vault[t].entries \ found) \cup news
  <1>3. /\ IF found # {} THEN SetEntries(t, es) ELSE UNCHANGED vault
        /\ \E s : \E written \in BOOLEAN : Save(t, s, written)
    BY <1>2 DEF UpdateSealed
  <1>4. \A e \in vault[t].entries : [e EXCEPT !.value = k, !.key = task[k].key].id = e.id
    BY <1>2, VaultFields DEF IndInv, TypeOK, Entries
  <1>5. \A d \in es : \E c \in vault[t].entries : c.id = d.id
    <2>1. TAKE d \in es
    <2>2. CASE d \in vault[t].entries
      BY <2>2
    <2>3. CASE d \in news
      <3>1. PICK e \in vault[t].entries : d = [e EXCEPT !.value = k, !.key = task[k].key]
        BY <2>3
      <3>2. e.id = d.id
        BY <1>4, <3>1, Zenon
      <3> HIDE DEF news
      <3> QED
        BY <3>2
    <2> HIDE DEF news, found
    <2> QED
      BY <2>1, <2>2, <2>3
  <1> HIDE DEF es, found
  <1>6. CASE found # {}
    <2>1. SetEntries(t, es)
      BY <1>3, <1>6
    <2> QED
      BY <1>1, <1>2, <1>3, <1>5, <2>1, GoneEntries
  <1>7. CASE found = {}
    <2>1. vault' = vault
      BY <1>3, <1>7
    <2>2. Without(vault'[t], deleted) /\ stored' \in {vault'[t], stored}
      BY <1>3, <2>1, Saving DEF DeletedGone
    <2> QED
      BY <1>1, <2>1, <2>2, GoneStays
  <1> QED
    BY <1>6, <1>7

\* A refused write is seen, or there is none.
Noticed == Platform = "pwa" \/ ~WritesFail

LEMMA NoticedSave ==
  ASSUME Noticed, NEW t, NEW s, NEW written \in BOOLEAN, Save(t, s, written), Continues(written)
  PROVE  stored' = vault'[t]
  BY PlatformAssumption DEF Noticed, Save, ExtensionSave, PwaSave, Continues

LEMMA DeleteGone ==
  ASSUME Noticed, OneOpen, IndInv, DeletedGone, Stays(task, task'), NEW t \in Tabs, Delete(t)
  PROVE  DeletedGone'
  <1>1. PICK e \in vault[t].entries, written \in BOOLEAN :
           /\ SetEntries(t, vault[t].entries \ {e})
           /\ Save(t, {d \in told : d.id # e.id}, written)
           /\ deleted' = IF Continues(written) THEN deleted \cup {e.id} ELSE deleted
    BY DEF Delete
  <1>2. vault[t] # Null
    BY DEF Delete
  <1>3. CASE ~Continues(written)
    <2>1. deleted' = deleted /\ \E s : \E w \in BOOLEAN : Save(t, s, w)
      BY <1>1, <1>3
    <2> QED
      BY <1>1, <1>2, <2>1, GoneEntries
  <1>4. CASE Continues(written)
    <2>1. stored' = vault'[t] /\ deleted' = deleted \cup {e.id}
      BY <1>1, <1>4, NoticedSave
    <2>2. e.id \in Tasks => task[e.id].op = "add" /\ task[e.id].at = "done"
      <3>1. Kept(vault[t], task)
        BY DEF IndInv, PagesAgree, Agrees
      <3> QED
        BY <1>2, <3>1 DEF Kept
    <2>3. \A d \in deleted' : d \in Tasks => task'[d].op = "add" /\ task'[d].at = "done"
      BY <2>1, <2>2 DEF DeletedGone, Stays
    <2>4. /\ vault'[t] = [key |-> vault[t].key, entries |-> {d \in vault[t].entries : d.id # e.id}]
          /\ \A u \in Tabs : u # t => vault'[u] = vault[u]
      BY <1>1, <1>2, Others DEF SetEntries, IndInv, TypeOK
    <2>5. Without(vault'[t], deleted')
      BY <1>2, <2>1, <2>4 DEF DeletedGone, Without
    <2>6. \A u \in Tabs : u # t => vault'[u] = Null
      BY <1>2, <2>4 DEF OneOpen
    <2>7. \A u \in Tabs : Without(vault'[u], deleted')
      BY <2>5, <2>6 DEF Without
    <2> QED
      BY <2>1, <2>3, <2>5, <2>7 DEF DeletedGone
  <1> QED
    BY <1>3, <1>4

LEMMA GoneStep ==
  ASSUME Noticed, OneOpen, IndInv, DeletedGone, [Next]_vars
  PROVE  DeletedGone'
  <1>1. CASE UNCHANGED vars
    <2>1. UNCHANGED <<deleted, stored, vault>> /\ Stays(task, task')
      BY <1>1 DEF vars, pages, Stays
    <2> QED
      BY <2>1, GoneSame
  <1>2. ASSUME NEW k \in Tasks, TaskStep(k) PROVE DeletedGone'
    <2>1. Stays(task, task')
      BY <1>2, TaskStays
    <2>2. CASE Confirmed(k) \/ Declined(k) \/ OpeningFails(k)
      <3>1. UNCHANGED <<deleted, stored, vault>>
        BY <2>2 DEF Confirmed, Declined, OpeningFails, pages
      <3> QED
        BY <2>1, <3>1, GoneSame
    <2> QED
      BY <1>2, <2>1, <2>2, CreatedGone, CreateSealedGone, UnlockedGone, AddSealedGone,
         UpdateSealedGone DEF TaskStep
  <1>3. ASSUME NEW t \in Tabs, UserStep(t) PROVE DeletedGone'
    <2>1. Stays(task, task')
      BY <1>3, UserStays
    <2>e. CASE Export(t)
      <3>1. UNCHANGED <<deleted, stored, vault>>
        BY <2>e DEF Export, pages
      <3> QED
        BY <2>1, <3>1, GoneSame
    <2>2. ASSUME NEW k \in Tasks, StartCreate(k, t) \/ StartUnlock(k, t) \/ StartAdd(k, t)
          PROVE  DeletedGone'
      <3>1. UNCHANGED <<deleted, stored, vault>>
        BY <2>2 DEF StartCreate, StartUnlock, StartAdd, pages
      <3> QED
        BY <2>1, <3>1, GoneSame
    <2> QED
      BY <1>3, <2>1, <2>e, <2>2, StartUpdateGone, LeavingGone, RenameGone, DeleteGone DEF UserStep
  <1> QED
    BY <1>1, <1>2, <1>3 DEF Next

\* With any number of pages that are unlocked one at a time and a user who waits, a
\* deleted secret does not come back, whatever pages are opened, reloaded and saved
\* later, and in the PWA through every refused write, until the user imports a file
\* that holds it; the import of one that does not leaves it deleted. The extension does not look at
\* the error of a refused write, so there it must not happen.
THEOREM DeletedForGood ==
  ASSUME Overlap = {}, Noticed
  PROVE  Spec /\ []OneOpen => []DeletedStaysDeleted
  <1>1. Init => DeletedGone
    BY DEF Init, DeletedGone, Without
  <1>2. OneOpen /\ IndInv /\ DeletedGone /\ [Next]_vars => DeletedGone'
    BY GoneStep
  <1>3. Spec => []IndInv
    BY AlwaysInd
  <1>4. DeletedGone => DeletedStaysDeleted
    BY DEF DeletedGone, Without, DeletedStaysDeleted
  <1> QED
    BY <1>1, <1>2, <1>3, <1>4, PTL DEF Spec

=============================================================================
