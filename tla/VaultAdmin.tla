------------------------------ MODULE VaultAdmin ------------------------------
(***************************************************************************)
(* Processes that administer one vault file by the names of its entries:   *)
(* runs of the command line tool (cli/lib/vault-cli.js), each of which     *)
(* opens the vault, does one command and locks again, and a program that   *)
(* uses the library (npm-library) and keeps its session.  A process reads  *)
(* the file when it opens the vault and writes it later; the write is the  *)
(* atomic compare-and-replace that FileStorage is shown to be.             *)
(***************************************************************************)
EXTENDS VaultEntries, FiniteSets

CONSTANTS
    Tools,          \* Runs of the command line tool.
    Programs,       \* Programs that use the library.
    Commands,       \* The command lines, as records with the field op.
    Patches,        \* The patches programs pass to updateSecret.
    Files,          \* What the vault file and the other file hold at first.
    Missing,        \* There is no file of that name.
    Damaged,        \* Bytes that do not parse.
    MaxWrites       \* Bound: how often a vault is encoded.

VARIABLES
    main,           \* The vault file.
    backup,         \* Its .bak file.
    side,           \* The file that export writes and import reads.
    session,        \* session[p]: what the process p read, and its command.
    writes          \* How many encodings were made; numbers vaults and entries too.

vars == <<main, backup, side, session, writes>>

Processes == Tools \cup Programs

IsVault(f) == f \notin {Missing, Damaged}

Edits == {"add", "rename", "domain", "del"}

\* The ids of the entries that are there at first; later ones are numbered.
OldIds == UNION {Ids(f.entries) : f \in {g \in Files : IsVault(g)}}

AllIds == OldIds \cup Nat

\* A complete entry.
Entry == [id : AllIds, name : Names, domain : Hosts \cup {None}]

ASSUME FilesAssumption ==
    /\ Undefined \notin AllIds
    /\ OldIds \cap Nat = {}
    /\ \A f \in Files : IsVault(f) => f.entries \in Seq(Entry) /\ Valid(f.entries)

ASSUME CommandsAssumption ==
    \A c \in Commands :
        /\ "op" \in DOMAIN c /\ {"read", "entries"} \cap DOMAIN c = {}
        /\ c.op \in Edits \cup {"program", "create", "import", "migrate", "export"}
        /\ c.op \in Edits => "name" \in DOMAIN c /\ c.name \in Names
        /\ c.op = "rename" => "to" \in DOMAIN c /\ c.to \in Names
        /\ c.op \in {"add", "domain"} => "domain" \in DOMAIN c /\ c.domain \in Hosts \cup {None}

ASSUME PatchesAssumption ==
    \A t \in Patches :
        /\ DOMAIN t \subseteq {"name", "domain"}
        /\ "name" \in DOMAIN t => t.name \in Names \cup {Undefined}
        /\ "domain" \in DOMAIN t => t.domain \in Hosts \cup {None, Undefined}

Closed == [op |-> "none"]

\* Mutant: encodeVault leaves the entries to those who changed them.
SealedUnchecked(vault, version, entries) ==
    [write |-> writes + 1, vault |-> vault, version |-> version,
     entries |-> Serialised(entries)]

\* encodeVault refuses, as None, the entries that are not valid as they are in
\* memory, where a field may hold undefined.
Sealed(vault, version, entries) ==
    IF Valid(entries)
    THEN [write |-> writes + 1, vault |-> vault, version |-> version,
          entries |-> Serialised(entries)]
    ELSE None

\* decodeVault accepts the file: it opens, in v2 with its own check of the entries.
Decodes(f) == IsVault(f) /\ Valid(f.entries)

Init ==
    /\ main \in Files
    /\ side \in Files
    /\ backup = Missing
    /\ session = [p \in Processes |-> Closed]
    /\ writes = 0

--------------------------------------------------------------------------------
(* Opening and closing. *)

\* The vault file is read and decoded.  A program has no command yet.
Open(p, c) ==
    /\ session[p] = Closed
    /\ p \in Programs <=> c.op = "program"
    /\ c.op \notin {"create", "import", "recover"}
    /\ Decodes(main)
    /\ session' = [session EXCEPT ![p] = Assign([read |-> main, entries |-> main.entries], c)]
    /\ UNCHANGED <<main, backup, side, writes>>

\* create reads that there is no vault; import reads that too, and opens the
\* other file, which it must be allowed to migrate when that is a v1 vault.
OpenNew(p, c) ==
    /\ session[p] = Closed
    /\ main = Missing
    /\ \/ /\ c.op = "create"
          /\ session' = [session EXCEPT ![p] = c]
       \/ /\ c.op = "import"
          /\ p \in Tools
          /\ Decodes(side)
          /\ side.version = 2 \/ c.migrate
          /\ session' = [session EXCEPT ![p] = Assign([read |-> side], c)]
    /\ UNCHANGED <<main, backup, side, writes>>

Close(p) == session' = [session EXCEPT ![p] = Closed]

\* A command that was refused, or that only reads, and lock() at the end of a run.
Leave(p) ==
    /\ session[p] # Closed
    /\ Close(p)
    /\ UNCHANGED <<main, backup, side, writes>>

--------------------------------------------------------------------------------
(* Changes of the entries. *)

\* The entries after a tool's command: the entry it edits is looked up by name.
Edited(s) ==
    LET id == Find(s.entries, s.name).id
    IN  CASE s.op = "add"    -> Add(s.entries, writes + 1, s.name, s.domain)
          [] s.op = "rename" -> Update(s.entries, id, [name |-> s.to])
          [] s.op = "domain" -> Update(s.entries, id, [domain |-> s.domain])
          [] s.op = "del"    -> Delete(s.entries, id)

\* Mutant: save() over whatever the file holds now.
ReplaceUnchecked(p, vault) ==
    /\ IsVault(main) /\ vault # None
    /\ main' = vault
    /\ backup' = main
    /\ writes' = writes + 1
    /\ UNCHANGED side

\* FileStorage.save: only over the bytes that were read, which become the backup.
Replace(p, vault) ==
    /\ main = session[p].read /\ vault # None
    /\ main' = vault
    /\ backup' = main
    /\ writes' = writes + 1
    /\ UNCHANGED side

Edit(p) ==
    LET s == session[p]
    IN  /\ s.op \in Edits
        /\ s.read.version = 2
        /\ Edited(s) # None
        /\ Replace(p, Sealed(s.read.vault, 2, Edited(s)))
        /\ Close(p)

\* What addSecret, updateSecret and deleteSecret make of the entries, by id.
LibraryEdits(es) ==
    {Add(es, writes + 1, n, None) : n \in Names}
    \cup {Update(es, id, t) : id \in Ids(es), t \in Patches}
    \cup {Delete(es, id) : id \in Ids(es)}

\* A program keeps the session it now has, in which a field it set to undefined
\* is still there.
ProgramEdit(p) ==
    LET s == session[p]
    IN  /\ s.op = "program"
        /\ s.read.version = 2
        /\ \E es \in LibraryEdits(s.entries) :
              /\ es # None
              /\ Replace(p, Sealed(s.read.vault, 2, es))
              /\ session' = [session EXCEPT ![p] = [s EXCEPT !.read = main', !.entries = es]]

\* The entries of a v1 vault are sealed as they are.
Migrate(p) ==
    LET s == session[p]
    IN  /\ s.op = "migrate"
        /\ s.read.version = 1
        /\ Replace(p, Sealed(s.read.vault, 2, s.entries))
        /\ Close(p)

--------------------------------------------------------------------------------
(* Files as a whole. *)

\* An empty vault with a salt of its own, which a program has then open.
Create(p) ==
    /\ session[p].op = "create"
    /\ main = Missing
    /\ main' = Sealed(writes + 1, 2, <<>>)
    /\ main' # None
    /\ writes' = writes + 1
    /\ IF p \in Tools THEN Close(p)
       ELSE session' = [session EXCEPT ![p] =
                            [op |-> "program", read |-> main', entries |-> <<>>]]
    /\ UNCHANGED <<backup, side>>

\* Mutant: import relies on what it read before it opened the other file.
ImportUnchecked(p) ==
    LET f == session[p].read
    IN  /\ session[p].op = "import"
        /\ main' = IF f.version = 2 THEN f ELSE Sealed(f.vault, 2, f.entries)
        /\ main' # None
        /\ writes' = writes + 1
        /\ Close(p)
        /\ UNCHANGED <<backup, side>>

\* The other vault, migrated in memory first when it is a v1 vault.
Import(p) ==
    LET f == session[p].read
    IN  /\ session[p].op = "import"
        /\ main = Missing
        /\ main' = IF f.version = 2 THEN f ELSE Sealed(f.vault, 2, f.entries)
        /\ main' # None
        /\ writes' = writes + 1
        /\ Close(p)
        /\ UNCHANGED <<backup, side>>

\* The envelope as it was read, to a file that does not exist.
Export(p) ==
    /\ session[p].op = "export"
    /\ side = Missing
    /\ side' = session[p].read
    /\ Close(p)
    /\ UNCHANGED <<main, backup, writes>>

\* recover: under the lock, the backup is verified and put in place of the vault.
Recover(p) ==
    /\ session[p] = Closed
    /\ p \in Tools
    /\ Decodes(backup)
    /\ main' = backup
    /\ UNCHANGED <<backup, side, session, writes>>

\* Something else writes over the vault file.
Damage ==
    /\ IsVault(main)
    /\ main' = Damaged
    /\ UNCHANGED <<backup, side, session, writes>>

Writing(p) == writes < MaxWrites /\ (Edit(p) \/ ProgramEdit(p) \/ Migrate(p) \/ Create(p) \/ Import(p))

Next ==
    \/ \E p \in Processes : \/ \E c \in Commands : Open(p, c) \/ OpenNew(p, c)
                            \/ Writing(p) \/ Export(p) \/ Leave(p) \/ Recover(p)
    \/ Damage

Spec == Init /\ [][Next]_vars

--------------------------------------------------------------------------------
(* Properties. *)

\* Whatever commands and library calls follow one another, the vault file, its
\* backup and an export hold entries that decodeVault accepts: a session that
\* can save can be opened again.  A save validates the entries as they are in
\* memory and stores them serialised, which is what a later unlock validates.
StoredVaultsOpen ==
    \A f \in {main, backup, side} : IsVault(f) => Decodes(f)

Touched(f, g) ==
    {id \in Ids(f.entries) \cup Ids(g.entries) :
        {e \in ToSet(f.entries) : e.id = id} # {e \in ToSet(g.entries) : e.id = id}}

\* A tool looks an entry up in what it read and edits it later by its id: what
\* changes in the file is the entry that the given name denotes in the file at
\* that moment, and nothing else, though others edit, restore or recreate it.
EditsWhatItNamed ==
    [][\A t \in Tools :
          session[t].op \in Edits \ {"add"} /\ session'[t] = Closed /\ main' # main
          => Touched(main, main') \subseteq {Find(main.entries, session[t].name).id}]_vars

\* A vault gives way to another vault only in a recovery: create and import
\* never replace one, export never replaces the other file, and edits keep the
\* salt, however long ago a process saw that there was no file.
NeverOverwritten ==
    [][/\ IsVault(main) /\ main' \notin {main, backup, Damaged} => main'.vault = main.vault
       /\ side # Missing => side' = side]_vars

=============================================================================
