----------------------------- MODULE ExtensionVault -----------------------------
(***************************************************************************)
(* extension/vault.js: vault pages open in browser tabs over the one vault *)
(* in chrome.storage.local.  Every page keeps its own copy, changes it and *)
(* writes the whole of it back; WebCrypto is awaited in between, while the *)
(* page goes on handling events.  pwa/vault-pwa.js is the same page over   *)
(* localStorage, with other checks: what differs has "Pwa" in its name.    *)
(***************************************************************************)
EXTENDS Naturals, FiniteSets

CONSTANTS
    Tabs,           \* The open vault pages.
    Names,          \* The names of secrets.
    Tasks,          \* The operations that await, each at most once.
    Platform,       \* "extension" or "pwa".
    WritesFail,     \* May the storage be full?
    Overlap,        \* The views in which the user acts while an operation is under way.
    MaxVaults,      \* Bound: vaults ever created.
    MaxOpenings,    \* Bound: how often state.vault is replaced in a page.
    MaxFiles,       \* Bound: the vault files at hand.
    Elsewhere,      \* The ids of entries that were added elsewhere, ...
    Foreign,        \* ... and the vault files that were exported there.
    Null

ASSUME PlatformAssumption == Platform \in {"extension", "pwa"} /\ WritesFail \in BOOLEAN
ASSUME OverlapAssumption == Overlap \subseteq {"auth", "vault"}
ASSUME NullAssumption == Null \notin Tabs \cup Tasks \cup Elsewhere \cup Nat /\ Tasks \cap Elsewhere = {}
ASSUME BoundsAssumption == MaxVaults \in Nat /\ MaxOpenings \in Nat /\ MaxFiles \in Nat

VARIABLES
    stored,         \* chrome.storage.local: { vault }
    key,            \* state.key of each page, named by the vault it opens
    vault,          \* state.vault of each page
    opening,        \* Which object state.vault is: the count of its replacements.
    view,           \* The view that a page shows: auth or vault.
    buttons,        \* Are btn-unlock and btn-create enabled?
    task,
    nextVault,      \* The salt of the next vault.
    files,          \* The vault files that the user can import.
    told,           \* Ghost: the entries that the user was told are stored.
    deleted         \* Ghost: the ids of the entries that were deleted.

pages == <<key, vault, opening, view, buttons>>
vars  == <<stored, pages, task, nextVault, files, told, deleted>>

--------------------------------------------------------------------------------

\* An entry is named by the operation that added it, and its ciphertext by the
\* operation that encrypted it and the key it used. Key 0 is that of a vault that
\* was made elsewhere: by the PWA, say, which may give two entries one name.
Keys    == 0 .. MaxVaults
Ids     == Tasks \cup Elsewhere
Entries == [id : Ids, name : Names, value : Ids, key : Keys]
Vaults  == [key : Keys, entries : SUBSET Entries]

ASSUME VaultsAssumption == Null \notin Vaults
ASSUME ForeignAssumption ==
    \A f \in Foreign : /\ f \in Vaults /\ f.key = 0
                       /\ \A e \in f.entries : e.id \in Elsewhere /\ e.key = 0
                       /\ \A d, e \in f.entries : d.id = e.id => d = e

Records == [op : {"none", "create", "unlock", "import", "add", "update"},
            at : {"unused", "asking", "deriving", "sealing", "done"},
            tab : Tabs \cup {Null}, opening : 0 .. MaxOpenings, key : Keys \cup {Null},
            id : Ids \cup {Null}, name : Names \cup {Null}, vault : Vaults \cup {Null}]

Unused == [op |-> "none", at |-> "unused", tab |-> Null, opening |-> 0, key |-> 0,
           id |-> Null, name |-> Null, vault |-> Null]

Init ==
    /\ stored = Null
    /\ key = [t \in Tabs |-> Null]
    /\ vault = [t \in Tabs |-> Null]
    /\ opening = [t \in Tabs |-> 0]
    /\ view = [t \in Tabs |-> "auth"]
    /\ buttons = [t \in Tabs |-> TRUE]
    /\ task = [k \in Tasks |-> Unused]
    /\ nextVault = 1
    /\ files = Foreign
    /\ told = {}
    /\ deleted = {}

\* No operation awaits anything.
Quiet == \A k \in Tasks : task[k].at \in {"unused", "done"}

\* The user acts in a page.
Acts(t, shown) == view[t] = shown /\ (shown \in Overlap \/ Quiet)

Begin(k, record) ==
    /\ task[k].at = "unused"
    /\ task' = [task EXCEPT ![k] = record]

Done(k) == task' = [task EXCEPT ![k].at = "done"]

\* state.key = ...; state.vault = ...: the page works on another object from now on.
Replace(t, k, v) ==
    /\ opening[t] < MaxOpenings
    /\ key' = [key EXCEPT ![t] = k]
    /\ vault' = [vault EXCEPT ![t] = v]
    /\ opening' = [opening EXCEPT ![t] = @ + 1]

\* state.vault.entries = es, or the array changes in place.
SetEntries(t, es) == vault' = [vault EXCEPT ![t] = [key |-> vault[t].key, entries |-> es]]

\* Names are compared without case, so Names are the names in lower case.
Taken(t, name, except) == \E e \in vault[t].entries : e.name = name /\ e.id # except

--------------------------------------------------------------------------------
(* Saving. *)

\* saveVault: chrome.storage.local.set, whose error is not looked at.
ExtensionSave(t, entries, written) ==
    /\ stored' = IF written THEN vault'[t] ELSE stored
    /\ told' = entries

\* saveVault of the PWA throws when localStorage refuses; the page keeps its change.
PwaSave(t, entries, written) ==
    /\ stored' = IF written THEN vault'[t] ELSE stored
    /\ told' = IF written THEN entries ELSE told

\* The page saves all of state.vault; the user is told that it holds these entries.
Save(t, entries, written) ==
    /\ written \/ WritesFail
    /\ IF Platform = "extension" THEN ExtensionSave(t, entries, written)
                                 ELSE PwaSave(t, entries, written)

\* Is there no error that would end the operation?
Continues(written) == written \/ Platform = "extension"

\* The new name of an entry is compared with the others' by the extension only.
AllowsName(t, name, id) == Platform = "pwa" \/ ~Taken(t, name, id)

\* enterVault, unless an error came before, and the finally of handleUnlock and
\* handleCreate.
EnterIf(t, entered) ==
    /\ view' = IF entered THEN [view EXCEPT ![t] = "vault"] ELSE view
    /\ buttons' = [buttons EXCEPT ![t] = TRUE]

--------------------------------------------------------------------------------
(* The authentication view. *)

\* handleCreate: the stored vault is looked up.
StartCreate(k, t) ==
    /\ Acts(t, "auth")
    /\ buttons[t]
    /\ Begin(k, [Unused EXCEPT !.op = "create", !.at = "asking", !.tab = t])
    /\ UNCHANGED <<stored, pages, nextVault, files, told, deleted>>

\* The user lets it be overwritten, or there is none.
Confirmed(k) ==
    /\ task[k].at = "asking"
    /\ task' = [task EXCEPT ![k].at = "deriving"]
    /\ buttons' = [buttons EXCEPT ![task[k].tab] = FALSE]
    /\ UNCHANGED <<stored, key, vault, opening, view, nextVault, files, told, deleted>>

Declined(k) ==
    /\ task[k].at = "asking"
    /\ stored # Null
    /\ Done(k)
    /\ UNCHANGED <<stored, pages, nextVault, files, told, deleted>>

\* Mutant: the old vault object is kept.
CreatedKeepsEntries(k) ==
    LET t == task[k].tab IN
    /\ task[k].op = "create" /\ task[k].at = "deriving"
    /\ nextVault <= MaxVaults
    /\ Replace(t, nextVault, [key |-> nextVault, entries |-> IF stored = Null THEN {} ELSE stored.entries])
    /\ nextVault' = nextVault + 1
    /\ task' = [task EXCEPT ![k].at = "sealing"]
    /\ UNCHANGED <<stored, view, buttons, files, told, deleted>>

\* createVault: a new key and an empty vault, whose check is then encrypted.
Created(k) ==
    LET t == task[k].tab IN
    /\ task[k].op = "create" /\ task[k].at = "deriving"
    /\ nextVault <= MaxVaults
    /\ Replace(t, nextVault, [key |-> nextVault, entries |-> {}])
    /\ nextVault' = nextVault + 1
    /\ task' = [task EXCEPT ![k].at = "sealing"]
    /\ UNCHANGED <<stored, view, buttons, files, told, deleted>>

\* saveVault() and enterVault(): what is stored is what state.vault is by now.
CreateSealed(k) ==
    LET t == task[k].tab IN
    /\ task[k].op = "create" /\ task[k].at = "sealing"
    /\ UNCHANGED <<key, vault, opening, nextVault, files, deleted>>
    /\ \E written \in BOOLEAN : Save(t, {}, written) /\ EnterIf(t, Continues(written))
    /\ Done(k)

\* handleUnlock, by the button or the Enter key, which stays enabled: of the stored
\* vault, or of a vault file that was chosen.
StartUnlock(k, t) ==
    /\ Acts(t, "auth")
    /\ \/ /\ stored # Null
          /\ Begin(k, [Unused EXCEPT !.op = "unlock", !.at = "deriving", !.tab = t, !.vault = stored])
       \/ \E f \in files :
             Begin(k, [Unused EXCEPT !.op = "import", !.at = "deriving", !.tab = t, !.vault = f])
    /\ buttons' = [buttons EXCEPT ![t] = FALSE]
    /\ UNCHANGED <<stored, key, vault, opening, view, nextVault, files, told, deleted>>

\* unlockVault, when the password is right, and enterVault(). An imported vault
\* replaces the stored one, with whatever entries it has, and so brings back what
\* was deleted since it was exported.
Unlocked(k) ==
    LET t == task[k].tab IN
    /\ task[k].op \in {"unlock", "import"} /\ task[k].at = "deriving"
    /\ Replace(t, task[k].vault.key, task[k].vault)
    /\ IF task[k].op = "import"
       THEN /\ \E written \in BOOLEAN :
                   Save(t, task[k].vault.entries, written) /\ EnterIf(t, Continues(written))
            /\ deleted' = deleted \ {e.id : e \in task[k].vault.entries}
       ELSE EnterIf(t, TRUE) /\ UNCHANGED <<stored, told, deleted>>
    /\ Done(k)
    /\ UNCHANGED <<nextVault, files>>

\* A wrong password, or no key derivation.
OpeningFails(k) ==
    /\ task[k].at = "deriving"
    /\ Done(k)
    /\ buttons' = [buttons EXCEPT ![task[k].tab] = TRUE]
    /\ UNCHANGED <<stored, key, vault, opening, view, nextVault, files, told, deleted>>

--------------------------------------------------------------------------------
(* The vault view. *)

\* doLock
Lock(t) ==
    /\ Acts(t, "vault")
    /\ Replace(t, Null, Null)
    /\ view' = [view EXCEPT ![t] = "auth"]
    /\ UNCHANGED <<stored, buttons, task, nextVault, files, told, deleted>>

\* Mutant: the name is not looked up.
StartAddUnchecked(k, t) ==
    /\ Acts(t, "vault")
    /\ vault[t] # Null /\ key[t] # Null
    /\ \E name \in Names :
          Begin(k, [Unused EXCEPT !.op = "add", !.at = "sealing", !.tab = t,
                      !.opening = opening[t], !.key = key[t], !.id = k, !.name = name])
    /\ UNCHANGED <<stored, pages, nextVault, files, told, deleted>>

\* addSecret, from the chat, the dialog or an uploaded document: the name is looked
\* up, then the value is encrypted.
StartAdd(k, t) ==
    /\ Acts(t, "vault")
    /\ vault[t] # Null /\ key[t] # Null
    /\ \E name \in Names :
          /\ ~Taken(t, name, Null)
          /\ Begin(k, [Unused EXCEPT !.op = "add", !.at = "sealing", !.tab = t,
                         !.opening = opening[t], !.key = key[t], !.id = k, !.name = name])
    /\ UNCHANGED <<stored, pages, nextVault, files, told, deleted>>

\* The entry is pushed to whatever state.vault is now, and saved with it.
AddSealed(k) ==
    LET t == task[k].tab
        e == [id |-> k, name |-> task[k].name, value |-> k, key |-> task[k].key]
    IN
    /\ task[k].op = "add" /\ task[k].at = "sealing"
    /\ IF vault[t] = Null
       THEN UNCHANGED <<vault, stored, told>>
       ELSE /\ SetEntries(t, vault[t].entries \cup {e})
            /\ \E written \in BOOLEAN : Save(t, told \cup {e}, written)
    /\ Done(k)
    /\ UNCHANGED <<key, opening, view, buttons, nextVault, files, deleted>>

\* updateSecret: the new name is checked and set at once, then the value encrypted.
StartUpdate(k, t) ==
    /\ Acts(t, "vault")
    /\ vault[t] # Null /\ key[t] # Null
    /\ \E e \in vault[t].entries, name \in Names :
          /\ AllowsName(t, name, e.id)
          /\ Begin(k, [Unused EXCEPT !.op = "update", !.at = "sealing", !.tab = t,
                         !.opening = opening[t], !.key = key[t], !.id = e.id, !.name = name])
          /\ SetEntries(t, (vault[t].entries \ {e}) \cup {[e EXCEPT !.name = name]})
    /\ UNCHANGED <<stored, key, opening, view, buttons, nextVault, files, told, deleted>>

\* Mutant: the new ciphertext is not saved.
UpdateSealedUnsaved(k) ==
    LET t     == task[k].tab
        found == {e \in (IF vault[t] = Null THEN {} ELSE vault[t].entries) : e.id = task[k].id}
        news  == {[e EXCEPT !.value = k, !.key = task[k].key] : e \in found}
    IN
    /\ task[k].op = "update" /\ task[k].at = "sealing"
    /\ IF found # {} THEN SetEntries(t, (vault[t].entries \ found) \cup news) ELSE UNCHANGED vault
    /\ told' = {e \in told : e.id # task[k].id} \cup news
    /\ Done(k)
    /\ UNCHANGED <<stored, key, opening, view, buttons, nextVault, files, deleted>>

\* The entry object that was found before gets the new ciphertext, which is in the
\* vault if state.vault is still the same object and the entry was not deleted.
\* Then state.vault is saved, whatever it is.
UpdateSealed(k) ==
    LET t     == task[k].tab
        found == {e \in (IF vault[t] # Null /\ opening[t] = task[k].opening THEN vault[t].entries ELSE {}) :
                     e.id = task[k].id}
        news  == {[e EXCEPT !.value = k, !.key = task[k].key] : e \in found}
    IN
    /\ task[k].op = "update" /\ task[k].at = "sealing"
    /\ IF found # {} THEN SetEntries(t, (vault[t].entries \ found) \cup news) ELSE UNCHANGED vault
    /\ \E written \in BOOLEAN :
          Save(t, IF found = {} THEN told ELSE {e \in told : e.id # task[k].id} \cup news, written)
    /\ Done(k)
    /\ UNCHANGED <<key, opening, view, buttons, nextVault, files, deleted>>

\* The chat command rename changes and saves without an await; domain does the same
\* to the entry's domain.
Rename(t) ==
    /\ Acts(t, "vault")
    /\ vault[t] # Null
    /\ \E e \in vault[t].entries, name \in Names, written \in BOOLEAN :
          /\ name # e.name /\ AllowsName(t, name, e.id)
          /\ SetEntries(t, (vault[t].entries \ {e}) \cup {[e EXCEPT !.name = name]})
          /\ Save(t, {d \in told : d.id # e.id} \cup {[e EXCEPT !.name = name]}, written)
    /\ UNCHANGED <<key, opening, view, buttons, task, nextVault, files, deleted>>

\* deleteSecret
Delete(t) ==
    /\ Acts(t, "vault")
    /\ vault[t] # Null
    /\ \E e \in vault[t].entries, written \in BOOLEAN :
          /\ SetEntries(t, vault[t].entries \ {e})
          /\ Save(t, {d \in told : d.id # e.id}, written)
          /\ deleted' = IF Continues(written) THEN deleted \cup {e.id} ELSE deleted
    /\ UNCHANGED <<key, opening, view, buttons, task, nextVault, files>>

\* exportVault: the vault as the page has it becomes a file.
Export(t) ==
    /\ Acts(t, "vault")
    /\ vault[t] # Null
    /\ Cardinality(files \cup {vault[t]}) <= MaxFiles
    /\ files' = files \cup {vault[t]}
    /\ UNCHANGED <<stored, pages, task, nextVault, told, deleted>>

\* The page is reloaded, or closed and another one opened: what it awaits is gone.
Reload(t) ==
    /\ Acts(t, view[t])
    /\ Replace(t, Null, Null)
    /\ view' = [view EXCEPT ![t] = "auth"]
    /\ buttons' = [buttons EXCEPT ![t] = TRUE]
    /\ task' = [k \in Tasks |-> IF task[k].tab = t THEN [task[k] EXCEPT !.at = "done"] ELSE task[k]]
    /\ UNCHANGED <<stored, nextVault, files, told, deleted>>

--------------------------------------------------------------------------------

TaskStep(k) ==
    \/ Confirmed(k) \/ Declined(k)
    \/ Created(k) \/ CreateSealed(k) \/ Unlocked(k) \/ OpeningFails(k) \/ AddSealed(k) \/ UpdateSealed(k)

UserStep(t) ==
    \/ \E k \in Tasks : StartCreate(k, t) \/ StartUnlock(k, t) \/ StartAdd(k, t) \/ StartUpdate(k, t)
    \/ Lock(t) \/ Rename(t) \/ Delete(t) \/ Export(t) \/ Reload(t)

Next == (\E k \in Tasks : TaskStep(k)) \/ (\E t \in Tabs : UserStep(t))

Spec == Init /\ [][Next]_vars

--------------------------------------------------------------------------------
(* What the extension promises. *)

\* Every variable has its type.
TypeOK ==
    /\ stored \in Vaults \cup {Null}
    /\ key \in [Tabs -> Keys \cup {Null}]
    /\ vault \in [Tabs -> Vaults \cup {Null}]
    /\ opening \in [Tabs -> 0 .. MaxOpenings]
    /\ view \in [Tabs -> {"auth", "vault"}]
    /\ buttons \in [Tabs -> BOOLEAN]
    /\ task \in [Tasks -> Records]
    /\ nextVault \in 1 .. MaxVaults + 1
    /\ files \subseteq Vaults
    /\ told \subseteq Entries
    /\ deleted \subseteq Ids

\* "chrome.storage.local (one key: 'vault'). Encrypted JSON blob." (vault.js:9):
\* once there is a vault, no operation leaves nothing in its place.
VaultStaysStored == [][ stored # Null => stored' # Null ]_vars

\* An imported file gave these entries the name that they have in common.
GivenTogether(d, e) ==
    \E f \in Foreign : /\ \E c \in f.entries : c.id = d.id /\ c.name = d.name
                       /\ \E c \in f.entries : c.id = e.id /\ c.name = e.name

\* "A secret named ... already exists." (vault.js:164): no two stored secrets have
\* one name, by which references find them, but those that had it in a file that was
\* made elsewhere: whatever is imported, exported, added, renamed and updated, the
\* extension gives no name to a second secret.
NamesUnique ==
    stored # Null => \A d, e \in stored.entries : d.name = e.name => d = e \/ GivenTogether(d, e)

\* Every stored entry can be decrypted with the key of its vault.
EntriesDecrypt == stored # Null => \A e \in stored.entries : e.key = stored.key

\* When nothing is under way, the stored vault holds what the user was told it does:
\* every secret that was stored, with its last name and value, and none that was deleted.
StoredAsTold == Quiet /\ stored # Null => stored.entries = told

\* "del NAME  permanently delete a secret" (vault.js:285): a deleted secret does not
\* come back, unless by the import of a file that holds it.
DeletedStaysDeleted == stored # Null => \A e \in stored.entries : e.id \notin deleted

--------------------------------------------------------------------------------
(* What the proofs add, for a user who waits until the page is done. *)

Busy(k) == task[k].at \notin {"unused", "done"}

OneAtATime == \A k, l \in Tasks : Busy(k) /\ Busy(l) => k = l

\* The entries of a vault have its key, ids of their own, in the extension names of
\* their own or names that a file gave them, and the ids of additions that are done or
\* were made elsewhere.
Kept(v, tasks) ==
    v # Null =>
        /\ \A e \in v.entries :
               /\ e.key = v.key
               /\ e.id \in Tasks => tasks[e.id].op = "add" /\ tasks[e.id].at = "done"
        /\ \A d, e \in v.entries : d.id = e.id => d = e
        /\ Platform = "extension" =>
               \A d, e \in v.entries : d.name = e.name => d = e \/ GivenTogether(d, e)

\* The key of a page opens its vault, which is well kept, as the stored one is.
Agrees(t) ==
    /\ key[t] = Null <=> vault[t] = Null
    /\ vault[t] # Null => key[t] = vault[t].key
    /\ Kept(vault[t], task)

PagesAgree ==
    /\ Kept(stored, task)
    /\ \A f \in files : Kept(f, task)
    /\ \A t \in Tabs : Agrees(t)

\* An operation that is under way finds the page as it was when it began.
TasksAgree ==
    \A k \in Tasks :
        /\ Busy(k) => task[k].tab \in Tabs
        /\ task[k].at = "asking" => task[k].op = "create"
        /\ task[k].at = "deriving" /\ task[k].op # "create" =>
               /\ task[k].vault \in Vaults /\ Kept(task[k].vault, task)
               /\ task[k].op = "unlock" => task[k].vault = stored
        /\ task[k].at = "sealing" =>
               /\ vault[task[k].tab] # Null
               /\ task[k].op # "create" => key[task[k].tab] = task[k].key
               /\ task[k].op = "update" => task[k].opening = opening[task[k].tab]
               /\ task[k].op = "add" => task[k].name \in Names /\ ~Taken(task[k].tab, task[k].name, Null)

IndInv == TypeOK /\ OneAtATime /\ PagesAgree /\ TasksAgree

\* With one page and no refused write: what is stored is what the user was told,
\* and what the page shows, but for the entry that is being changed.
StoredIsShown ==
    /\ stored # Null => stored.entries = told
    /\ \A t \in Tabs : vault[t] # Null /\ (\A k \in Tasks : task[k].at = "sealing" => task[k].op = "add")
                       => stored = vault[t]
    /\ \A k \in Tasks : task[k].at = "sealing" =>
           LET shown == vault[task[k].tab].entries
           IN  /\ task[k].op = "create" => shown = {}
               /\ task[k].op = "update" =>
                      /\ \E e \in shown : e.id = task[k].id
                      /\ {e \in shown : e.id # task[k].id} = {e \in told : e.id # task[k].id}

================================================================================
