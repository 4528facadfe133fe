------------------------------ MODULE FileStorage ------------------------------
(***************************************************************************)
(* class FileStorage of vault-core.js: several sessions, each in a process *)
(* of its own or in one event loop, save to and recover one vault file.    *)
(* Every await that touches the file system is a step of its own, so the   *)
(* sessions' steps interleave, and a crash, an I/O error or a power loss   *)
(* can fall between any two of them.                                       *)
(*                                                                         *)
(* The directory holds the vault file, its .bak, its .v1-backup, the       *)
(* .damaged-* files and the .lock directory.  Unread leftovers (.tmp-*     *)
(* files of a crashed writer, owner.json) are left out.                    *)
(***************************************************************************)
EXTENDS VaultFormat, FiniteSets

CONSTANTS
    Sessions,       \* The cooperating sessions: one VaultManager each.
    Faults,         \* The kinds of fault that may happen, a subset of FaultKinds.
    MaxFaults,      \* Bound: how many faults a behaviour may have.
    DirSync,        \* syncDirectory flushes: FALSE on win32.
    Free,           \* No .lock directory.
    Stale           \* A .lock directory that no live call will remove.

FaultKinds == {"crash", "io", "rm", "damage", "power"}

ASSUME StorageAssumption ==
    /\ Faults \subseteq FaultKinds
    /\ MaxFaults \in Nat
    /\ DirSync \in BOOLEAN
    /\ Free # Stale
    /\ {Free, Stale} \cap Sessions = {}
    \* A power loss is tolerated only where the directory is flushed.
    /\ "power" \in Faults => DirSync

VARIABLES
    files,          \* What the directory shows under each name.
    dirty,          \* The names whose bytes have not been flushed.
    durable,        \* The directory entries that a power loss leaves.
    damaged,        \* The contents kept in .damaged-* files.
    lock,           \* Free, Stale, or the session whose call made .lock.
    pc,             \* Where each session's storage call is.
    call,           \* The arguments of the call.
    previous,       \* What the call read from the vault file.
    temp,           \* The temporary file of an atomicReplace.
    reply,          \* What the call is going to return.
    view,           \* The vault a session has open: its envelope and revision.
    nextUpdate,     \* The next rewrite.
    faults,         \* The faults so far.
    acked,          \* Ghost: rewrites whose save() resolved and no recovery gave up.
    refused,        \* Ghost: rewrites whose save() was refused.
    migrated        \* Ghost: the version 1 files that a version 2 file replaced.

directory == <<files, dirty, durable, damaged>>
calls     == <<call, previous, temp, reply>>
ghosts    == <<acked, refused, migrated>>
vars      == <<directory, lock, pc, calls, view, nextUpdate, faults, ghosts>>

--------------------------------------------------------------------------------

Names == {"main", "bak", "legacy"}

Ops == {"create", "update", "export", "recover"}

Calls == [op : Ops, data : Vaults \cup {Missing}, expected : Vaults \cup {Missing}, update : 0 .. MaxWrites]

\* The steps between the mkdir that takes the lock and the rm that gives it back.
SaveSteps    == {"read", "legacy", "legacyWrite", "bakTemp", "bakRename", "bakSync"}
RecoverSteps == {"verify", "retain"}
MainSteps    == {"mainTemp", "mainRename", "mainSync"}
Critical     == {"owner", "release"} \cup SaveSteps \cup RecoverSteps \cup MainSteps

Steps == {"idle", "lock"} \cup Critical

Refusals == {"storage_conflict", "legacy_backup_conflict"}
Replies  == {"none", "ok", "error", "not_verified"} \cup Refusals

NoCall == [op |-> "update", data |-> Missing, expected |-> Missing, update |-> 0]
\* The call of recoverBackup, once it has read the backup c.
Recovery(c) == [op |-> "recover", data |-> c, expected |-> Missing, update |-> 0]

NoTemp == [content |-> Missing, flushed |-> FALSE]

\* A version 1 vault from before this release.
Original == [version |-> 1, updates |-> {}]

\* A session that is locked has no view.
NoView == Missing

Init ==
    /\ files \in [Names -> {Missing, Foreign, Original}]
    /\ files["main"] \in {Missing, Original}
    /\ files["bak"] = Missing
    /\ files["legacy"] \in {Missing, Foreign}
    /\ dirty = {}
    /\ durable = files
    /\ damaged = {}
    /\ lock = Free
    /\ pc = [s \in Sessions |-> "idle"]
    /\ call = [s \in Sessions |-> NoCall]
    /\ previous = [s \in Sessions |-> Missing]
    /\ temp = [s \in Sessions |-> NoTemp]
    /\ reply = [s \in Sessions |-> "none"]
    /\ view = [s \in Sessions |-> NoView]
    /\ nextUpdate = 1
    /\ faults = 0
    /\ acked = {}
    /\ refused = {}
    /\ migrated = {}

--------------------------------------------------------------------------------
(* The session side: what VaultManager and the command line ask of storage. *)

\* unlock: lock() first, then adopt the file as it is, if it decodes.
Unlock(s) ==
    /\ pc[s] = "idle"
    /\ view' = [view EXCEPT ![s] = IF files["main"] \in Vaults THEN files["main"] ELSE NoView]
    /\ UNCHANGED <<directory, lock, pc, calls, nextUpdate, faults, ghosts>>

\* Start the call c; it keeps its own copy of the arguments.
Begin(s, c) ==
    /\ pc[s] = "idle"
    /\ pc' = [pc EXCEPT ![s] = "lock"]
    /\ call' = [call EXCEPT ![s] = c]
    /\ UNCHANGED <<directory, lock, previous, temp, reply, faults, ghosts>>

\* A save takes the next rewrite number.
BeginSave(s, op, data, expected) ==
    /\ nextUpdate \in Writes
    /\ nextUpdate' = nextUpdate + 1
    /\ Begin(s, [op |-> op, data |-> data, expected |-> expected, update |-> nextUpdate])

\* create: lock(), and a snapshot that must show no file.
BeginCreate(s) ==
    /\ files["main"] = Missing
    /\ BeginSave(s, "create", Seal(Missing, nextUpdate), Missing)
    /\ view' = [view EXCEPT ![s] = NoView]

\* A mutation of an open version 2 session, or the migration of a version 1 one.
BeginUpdate(s) ==
    /\ view[s] # NoView
    /\ BeginSave(s, "update", Seal(view[s], nextUpdate), view[s])
    /\ UNCHANGED view

\* exportTo this path by a session over another vault, of either version.
BeginExport(s) ==
    /\ \E v \in Versions :
          BeginSave(s, "export", [version |-> v, updates |-> {nextUpdate}], Missing)
    /\ UNCHANGED view

\* recoverBackup: the session is locked first.
BeginRecover(s) ==
    /\ Begin(s, Recovery(Missing))
    /\ view' = [view EXCEPT ![s] = NoView]
    /\ UNCHANGED nextUpdate

--------------------------------------------------------------------------------
(* #locked: the mkdir lock around every writer. *)

Goto(s, step) == pc' = [pc EXCEPT ![s] = step]

\* The call is over and its local variables are gone.
Settle(s) ==
    /\ Goto(s, "idle")
    /\ call' = [call EXCEPT ![s] = NoCall]
    /\ previous' = [previous EXCEPT ![s] = Missing]
    /\ temp' = [temp EXCEPT ![s] = NoTemp]
    /\ reply' = [reply EXCEPT ![s] = "none"]

\* The locked function returns or throws; the lock is given back next.
Finish(s, r) ==
    /\ reply' = [reply EXCEPT ![s] = r]
    /\ Goto(s, "release")

MakeLock(s) ==
    /\ pc[s] = "lock"
    /\ lock = Free
    /\ lock' = s
    /\ Goto(s, "owner")
    /\ UNCHANGED <<directory, calls, view, nextUpdate, faults, ghosts>>

\* Variant: the deadline steals the lock.
LockStolen(s) ==
    /\ pc[s] = "lock"
    /\ lock # Free
    /\ lock' = s
    /\ Goto(s, "owner")
    /\ UNCHANGED <<directory, calls, view, nextUpdate, faults, ghosts>>

\* Variant: the call reports storage_busy and goes on without the lock.
LockIgnored(s) ==
    /\ pc[s] = "lock"
    /\ lock # Free
    /\ Goto(s, "owner")
    /\ refused' = refused \cup ({call[s].update} \ {0})
    /\ UNCHANGED <<directory, lock, calls, view, nextUpdate, faults, acked, migrated>>

\* Variant: there is no deadline.
LockAwaited(s) ==
    /\ pc[s] = "lock"
    /\ lock # Free
    /\ UNCHANGED vars

\* EEXIST until the deadline of two seconds.
LockBusy(s) ==
    /\ pc[s] = "lock"
    /\ lock # Free
    /\ Settle(s)
    /\ refused' = refused \cup ({call[s].update} \ {0})
    /\ UNCHANGED <<directory, lock, view, nextUpdate, faults, acked, migrated>>

\* owner.json is written; then the locked function runs.
WriteOwner(s) ==
    /\ pc[s] = "owner"
    /\ Goto(s, IF call[s].op = "recover" THEN "verify" ELSE "read")
    /\ UNCHANGED <<directory, lock, calls, view, nextUpdate, faults, ghosts>>

\* What the caller does with a resolved call: the session adopts the envelope it
\* wrote, except after an export and before the unlock that ends a recovery.
Adopted(s) ==
    IF reply[s] = "ok" /\ call[s].op \in {"create", "update"} THEN call[s].data ELSE view[s]

\* The finally clause removes the lock; the call resolves or rejects.
Release(s) ==
    /\ pc[s] = "release"
    /\ lock' = Free
    /\ Settle(s)
    /\ view' = [view EXCEPT ![s] = Adopted(s)]
    /\ acked'   = acked   \cup {u \in {call[s].update} \ {0} : reply[s] = "ok"}
    /\ refused' = refused \cup {u \in {call[s].update} \ {0} : reply[s] \in Refusals}
    /\ UNCHANGED <<directory, nextUpdate, faults, migrated>>

--------------------------------------------------------------------------------
(* save: the revision check, the permanent copy of a version 1 file, .bak, and *)
(* the vault file, in that order.                                              *)

\* Variant: the revision is not compared.
ReadUnchecked(s) ==
    /\ pc[s] = "read"
    /\ previous' = [previous EXCEPT ![s] = files["main"]]
    /\ Goto(s, IF files["main"] = Missing THEN "mainTemp" ELSE "bakTemp")
    /\ UNCHANGED <<directory, lock, call, temp, reply, view, nextUpdate, faults, ghosts>>

\* The file must still be the one the caller's data was computed from.
ReadPrevious(s) ==
    /\ pc[s] = "read"
    /\ previous' = [previous EXCEPT ![s] = files["main"]]
    /\ \/ /\ files["main"] # call[s].expected
          /\ Finish(s, "storage_conflict")
       \/ /\ files["main"] = call[s].expected
          /\ Goto(s, IF files["main"] = Missing THEN "mainTemp"
                     ELSE IF files["main"].version = 1 /\ call[s].data.version = 2 THEN "legacy"
                     ELSE "bakTemp")
          /\ UNCHANGED reply
    /\ UNCHANGED <<directory, lock, call, temp, view, nextUpdate, faults, ghosts>>

\* Variant: a file that is there is taken for the copy.
LegacyAssumed(s) ==
    /\ pc[s] = "legacy"
    /\ \/ /\ files["legacy"] = Missing
          /\ files' = [files EXCEPT !["legacy"] = Torn]
          /\ dirty' = dirty \cup {"legacy"}
          /\ Goto(s, "legacyWrite")
       \/ /\ files["legacy"] # Missing
          /\ Goto(s, "bakTemp")
          /\ UNCHANGED <<files, dirty>>
    /\ UNCHANGED <<durable, damaged, lock, calls, view, nextUpdate, faults, ghosts>>

\* open(.v1-backup, 'wx') makes an empty file, or finds one that must be equal.
OpenLegacy(s) ==
    /\ pc[s] = "legacy"
    /\ \/ /\ files["legacy"] = Missing
          /\ files' = [files EXCEPT !["legacy"] = Torn]
          /\ dirty' = dirty \cup {"legacy"}
          /\ Goto(s, "legacyWrite")
          /\ UNCHANGED reply
       \/ /\ files["legacy"] = previous[s]
          /\ Goto(s, "bakTemp")
          /\ UNCHANGED <<files, dirty, reply>>
       \/ /\ files["legacy"] \notin {Missing, previous[s]}
          /\ Finish(s, "legacy_backup_conflict")
          /\ UNCHANGED <<files, dirty>>
    /\ UNCHANGED <<durable, damaged, lock, call, previous, temp, view, nextUpdate, faults, ghosts>>

\* writeFile and sync of .v1-backup.
WriteLegacy(s) ==
    /\ pc[s] = "legacyWrite"
    /\ files' = [files EXCEPT !["legacy"] = previous[s]]
    /\ dirty' = dirty \ {"legacy"}
    /\ Goto(s, "bakTemp")
    /\ UNCHANGED <<durable, damaged, lock, calls, view, nextUpdate, faults, ghosts>>

\* Variant: the temporary file is not flushed.
WriteTempUnflushed(s, content) ==
    /\ temp' = [temp EXCEPT ![s] = [content |-> content, flushed |-> FALSE]]
    /\ UNCHANGED <<directory, lock, call, previous, reply, view, nextUpdate, faults, ghosts>>

\* atomicReplace writes and flushes a temporary file, ...
WriteTemp(s, content) ==
    /\ temp' = [temp EXCEPT ![s] = [content |-> content, flushed |-> TRUE]]
    /\ UNCHANGED <<directory, lock, call, previous, reply, view, nextUpdate, faults, ghosts>>

\* ... renames it over the name, ...
Rename(s, name) ==
    /\ files' = [files EXCEPT ![name] = temp[s].content]
    /\ dirty' = IF temp[s].flushed THEN dirty \ {name} ELSE dirty \cup {name}
    /\ temp' = [temp EXCEPT ![s] = NoTemp]
    /\ UNCHANGED <<durable, damaged, lock, call, previous, reply, view, nextUpdate, faults, refused>>

\* ... and flushes the directory, with every entry in it.
SyncDirectory ==
    /\ durable' = IF DirSync THEN files ELSE durable
    /\ UNCHANGED <<files, dirty, damaged, lock, call, previous, temp, view, nextUpdate, faults, ghosts>>

\* Variant: a backup that is there is kept.
BakTempOnce(s) ==
    /\ pc[s] = "bakTemp"
    /\ Goto(s, "bakRename")
    /\ WriteTemp(s, IF files["bak"] = Missing THEN previous[s] ELSE files["bak"])

BakTemp(s)   == pc[s] = "bakTemp"   /\ Goto(s, "bakRename") /\ WriteTemp(s, previous[s])
BakRename(s) == pc[s] = "bakRename" /\ Goto(s, "bakSync")   /\ Rename(s, "bak") /\ UNCHANGED <<acked, migrated>>
BakSync(s)   == pc[s] = "bakSync"   /\ Goto(s, "mainTemp")  /\ SyncDirectory /\ UNCHANGED reply
MainTemp(s)  == pc[s] = "mainTemp"  /\ Goto(s, "mainRename") /\ WriteTemp(s, call[s].data)
MainSync(s)  == pc[s] = "mainSync"  /\ Finish(s, "ok")      /\ SyncDirectory

\* A recovery gives up what the backup does not hold; a version 2 file replaces
\* the version 1 file it was migrated from.
MainRename(s) ==
    /\ pc[s] = "mainRename"
    /\ Goto(s, "mainSync")
    /\ Rename(s, "main")
    /\ acked' = IF call[s].op = "recover" THEN acked \cap UpdatesOf(temp[s].content) ELSE acked
    /\ migrated' = IF call[s].op # "recover" /\ previous[s] \in Vaults
                      /\ previous[s].version = 1 /\ call[s].data.version = 2
                   THEN migrated \cup {previous[s]} ELSE migrated

--------------------------------------------------------------------------------
(* recoverBackup: the backup must decode before it replaces the vault file. *)

\* readBytes(.bak) and the caller's verify, which also fails when the password is
\* wrong or the session was locked meanwhile.
VerifyBackup(s) ==
    /\ pc[s] = "verify"
    /\ \/ /\ files["bak"] \in Vaults
          /\ call' = [call EXCEPT ![s] = Recovery(files["bak"])]
          /\ Goto(s, "retain")
          /\ UNCHANGED reply
       \/ /\ Finish(s, "not_verified")
          /\ UNCHANGED call
    /\ UNCHANGED <<directory, lock, previous, temp, view, nextUpdate, faults, ghosts>>

\* Variant: only bytes that do not decode are kept.
RetainUnreadable(s) ==
    /\ pc[s] = "retain"
    /\ previous' = [previous EXCEPT ![s] = files["main"]]
    /\ damaged' = damaged \cup ({files["main"]} \cap {Torn, Corrupt})
    /\ Goto(s, "mainTemp")
    /\ UNCHANGED <<files, dirty, durable, lock, call, temp, reply, view, nextUpdate, faults, ghosts>>

\* The bytes to be replaced are kept in a new .damaged-* file.
RetainDamaged(s) ==
    /\ pc[s] = "retain"
    /\ previous' = [previous EXCEPT ![s] = files["main"]]
    /\ damaged' = damaged \cup ({files["main"]} \ {Missing})
    /\ Goto(s, "mainTemp")
    /\ UNCHANGED <<files, dirty, durable, lock, call, temp, reply, view, nextUpdate, faults, ghosts>>

--------------------------------------------------------------------------------
(* Faults, and the operator who repairs what they leave. *)

Fault(kind) ==
    /\ kind \in Faults
    /\ faults < MaxFaults
    /\ faults' = faults + 1

\* The process ends in the middle of a call; its lock directory stays.
Crash(s) ==
    /\ Fault("crash")
    /\ pc[s] # "idle"
    /\ Settle(s)
    /\ lock' = IF lock = s THEN Stale ELSE lock
    /\ view' = [view EXCEPT ![s] = NoView]
    /\ UNCHANGED <<directory, nextUpdate, ghosts>>

\* A file-system call of a step throws: mkdir without a lock to release, ...
LockError(s) ==
    /\ Fault("io")
    /\ pc[s] = "lock"
    /\ Settle(s)
    /\ UNCHANGED <<directory, lock, view, nextUpdate, ghosts>>

\* ... any other step with it; atomicReplace removes its temporary file.
StepError(s) ==
    /\ Fault("io")
    /\ pc[s] \in Critical \ {"release", "legacyWrite"}
    /\ Finish(s, "error")
    /\ temp' = [temp EXCEPT ![s] = NoTemp]
    /\ UNCHANGED <<directory, lock, call, previous, view, nextUpdate, ghosts>>

\* .v1-backup is written in part, or in full but not flushed.
LegacyError(s) ==
    /\ Fault("io")
    /\ pc[s] = "legacyWrite"
    /\ \E c \in {Torn, previous[s]} : files' = [files EXCEPT !["legacy"] = c]
    /\ Finish(s, "error")
    /\ UNCHANGED <<dirty, durable, damaged, lock, call, previous, temp, view, nextUpdate, ghosts>>

\* The process ends between the write and the flush of .v1-backup.
LegacyCrash(s) ==
    /\ pc[s] = "legacyWrite"
    /\ Fault("crash")
    /\ files' = [files EXCEPT !["legacy"] = previous[s]]
    /\ Settle(s)
    /\ lock' = Stale
    /\ view' = [view EXCEPT ![s] = NoView]
    /\ UNCHANGED <<dirty, durable, damaged, nextUpdate, ghosts>>

\* rm of the lock directory throws, and its error replaces the result.
ReleaseError(s) ==
    /\ Fault("rm")
    /\ pc[s] = "release"
    /\ Settle(s)
    /\ lock' = Stale
    /\ UNCHANGED <<directory, view, nextUpdate, ghosts>>

\* The operator inspects the lock, with no writer running, and removes it.
RemoveStaleLock ==
    /\ lock = Stale
    /\ lock' = Free
    /\ UNCHANGED <<directory, pc, calls, view, nextUpdate, faults, ghosts>>

\* Something else damages the vault file or its backup while no call writes.
Damage(name) ==
    /\ Fault("damage")
    /\ lock \notin Sessions
    /\ files[name] # Missing
    /\ files' = [files EXCEPT ![name] = Corrupt]
    /\ durable' = [durable EXCEPT ![name] = Corrupt]
    /\ UNCHANGED <<dirty, damaged, lock, pc, calls, view, nextUpdate, ghosts>>

\* What a power loss can leave under a name.
Survivors(name) ==
    {durable[name], files[name]} \cup (IF name \in dirty THEN {Torn} ELSE {})

\* Every process ends, and unflushed entries and bytes may be lost.
PowerLoss ==
    /\ Fault("power")
    /\ files' \in [Names -> UNION {Survivors(name) : name \in Names}]
    /\ \A name \in Names : files[name]' \in Survivors(name)
    /\ durable' = files'
    /\ dirty' = {}
    /\ lock' \in {Free, Stale}
    /\ pc' = [s \in Sessions |-> "idle"]
    /\ view' = [s \in Sessions |-> NoView]
    /\ call' = [s \in Sessions |-> NoCall]
    /\ previous' = [s \in Sessions |-> Missing]
    /\ temp' = [s \in Sessions |-> NoTemp]
    /\ reply' = [s \in Sessions |-> "none"]
    /\ UNCHANGED <<damaged, nextUpdate, ghosts>>

--------------------------------------------------------------------------------

Request(s) ==
    Unlock(s) \/ BeginCreate(s) \/ BeginUpdate(s) \/ BeginExport(s) \/ BeginRecover(s)

SaveStep(s) ==
    \/ ReadPrevious(s) \/ OpenLegacy(s) \/ WriteLegacy(s)
    \/ BakTemp(s) \/ BakRename(s) \/ BakSync(s)

RecoverStep(s) == VerifyBackup(s) \/ RetainDamaged(s)

\* What the event loop runs once the call has been made.
CallStep(s) ==
    \/ MakeLock(s) \/ LockBusy(s) \/ WriteOwner(s) \/ Release(s)
    \/ SaveStep(s) \/ RecoverStep(s)
    \/ MainTemp(s) \/ MainRename(s) \/ MainSync(s)

SessionFault(s) ==
    Crash(s) \/ LockError(s) \/ StepError(s) \/ LegacyError(s) \/ LegacyCrash(s) \/ ReleaseError(s)

Environment == RemoveStaleLock \/ PowerLoss \/ \E name \in {"main", "bak"} : Damage(name)

Next ==
    \/ \E s \in Sessions : Request(s) \/ CallStep(s) \/ SessionFault(s)
    \/ Environment

Spec == Init /\ [][Next]_vars

\* Node keeps running the callbacks of a call that was made, and the clock that
\* ends the wait for the lock advances; nobody is obliged to make calls, to
\* repair anything, or to fail.
Fairness == \A s \in Sessions : WF_vars(CallStep(s))

FairSpec == Spec /\ Fairness

--------------------------------------------------------------------------------
(* Invariants. *)

TypeOK ==
    /\ files \in [Names -> Contents]
    /\ dirty \in SUBSET Names
    /\ durable \in [Names -> Contents]
    /\ damaged \in SUBSET Contents
    /\ lock \in {Free, Stale} \cup Sessions
    /\ pc \in [Sessions -> Steps]
    /\ call \in [Sessions -> Calls]
    /\ previous \in [Sessions -> Contents]
    /\ temp \in [Sessions -> [content : Contents, flushed : BOOLEAN]]
    /\ reply \in [Sessions -> Replies]
    /\ view \in [Sessions -> Vaults \cup {NoView}]
    /\ nextUpdate \in 1 .. MaxWrites + 1
    /\ faults \in 0 .. MaxFaults
    /\ acked \in SUBSET Writes
    /\ refused \in SUBSET Writes
    /\ migrated \in SUBSET Vaults

\* At most one call is between taking the lock and giving it back, through
\* crashes, failed removals, deadlines and the operator's repairs.
OneWriter == \A s \in Sessions : pc[s] \in Critical <=> lock = s

\* "Revision checks prevent lost updates between cooperating active writers": the
\* vault file holds every rewrite whose save() has resolved, whatever the sessions
\* interleave, whichever step fails and whenever the power goes.
NoLostUpdate == files["main"] \in Vaults => acked \subseteq files["main"].updates

\* "A rolling .bak also preserves the previous committed file": a recovery from a
\* readable .bak gives up at most one acknowledged rewrite.
BackupIsRecent ==
    files["bak"] \in Vaults =>
        \E u \in 0 .. MaxWrites : acked \subseteq files["bak"].updates \cup {u}

\* A save that was refused wrote nothing: no file holds its rewrite.
RefusedNotWritten == \A name \in Names : refused \cap UpdatesOf(files[name]) = {}

\* "The original v1 file is preserved in .v1-backup": every version 1 file that a
\* migration replaces is there in full when it is replaced, and no step other than
\* a power loss takes it away.
LegacyKept ==
    [][ /\ \A c \in migrated' \ migrated : files'["legacy"] = c
        /\ files["legacy"] \in migrated => files'["legacy"] = files["legacy"] \/ PowerLoss ]_vars

\* "Writes atomically replace the current file after a flushed temporary write":
\* no crash or power loss leaves a half-written vault file or backup.
NeverTorn == Torn \notin {files["main"], files["bak"]}

--------------------------------------------------------------------------------
(* The inductive invariant behind OneWriter, NoLostUpdate, BackupIsRecent and     *)
(* NeverTorn: what a call may rely on at each of its steps.                       *)

IsSave(s) == call[s].op # "recover"

\* The steps between the revision check of a save and its rename.
Checked == {"legacy", "legacyWrite", "bakTemp", "bakRename", "bakSync", "mainTemp", "mainRename"}

\* A save carries its caller's vault with one more rewrite; a recovery carries none.
CallWellFormed(s) ==
    /\ IsSave(s) /\ pc[s] # "idle" =>
          /\ call[s].update \in Writes
          /\ call[s].data \in Vaults
          /\ call[s].data.updates = UpdatesOf(call[s].expected) \cup {call[s].update}
    /\ ~IsSave(s) => call[s].update = 0
    /\ pc[s] \in SaveSteps => IsSave(s)
    /\ pc[s] \in RecoverSteps => ~IsSave(s)
    /\ reply[s] = "ok" => pc[s] = "release"

\* From the revision check to the rename nobody else writes the vault file, and
\* the file that will be replaced is in .bak by then.
SaveIsIsolated(s) ==
    IsSave(s) =>
        /\ pc[s] \in Checked => files["main"] = call[s].expected /\ previous[s] = call[s].expected
        /\ pc[s] \in Checked \ MainSteps => previous[s] \in Vaults
        /\ pc[s] \in {"bakSync"} \cup MainSteps \/ reply[s] = "ok" =>
              call[s].expected = Missing \/ files["bak"] = call[s].expected

\* A recovery writes the backup that it decoded.
RecoveryIsVerified(s) ==
    ~IsSave(s) /\ pc[s] \in {"retain", "mainTemp", "mainRename"} =>
        call[s].data \in Vaults /\ files["bak"] = call[s].data

\* What is renamed was flushed, and what a resolved call wrote is durable.
WritesReachDisk(s) ==
    /\ pc[s] = "bakRename"  => temp[s].content = previous[s] /\ temp[s].flushed
    /\ pc[s] = "mainRename" => temp[s].content = call[s].data /\ temp[s].flushed
    /\ pc[s] = "mainSync" \/ reply[s] = "ok" => files["main"] = call[s].data
    /\ DirSync /\ reply[s] = "ok" =>
          durable["main"] = files["main"] /\ durable["bak"] = files["bak"]

CallInv(s) ==
    CallWellFormed(s) /\ SaveIsIsolated(s) /\ RecoveryIsVerified(s) /\ WritesReachDisk(s)

\* One of the directory's two views of the vault file and its backup.
DirectoryHolds(dir) ==
    /\ dir["main"] \in Vaults \cup {Missing, Corrupt}
    /\ dir["bak"] \in Vaults \cup {Missing, Corrupt}
    /\ dir["main"] # Corrupt => acked \subseteq UpdatesOf(dir["main"])
    /\ dir["bak"] \in Vaults =>
          \E u \in 0 .. MaxWrites : acked \subseteq UpdatesOf(dir["bak"]) \cup {u}

IndInv ==
    /\ TypeOK
    /\ OneWriter
    /\ \A s \in Sessions : CallInv(s)
    /\ dirty \subseteq {"legacy"}
    /\ DirectoryHolds(files)
    /\ DirSync => DirectoryHolds(durable)

--------------------------------------------------------------------------------
(* The invariants behind RefusedNotWritten, ReplacedBytesSurvive and RegisterSpec: *)
(* where the contents that are in use come from.                                   *)

\* The contents that the call of t carries, and those that everybody can still use.
Carried(t) == {call[t].data, temp[t].content}
Shared ==
    {files[n] : n \in Names} \cup {durable[n] : n \in Names}
        \cup UNION {{view[t], previous[t], call[t].expected} : t \in Sessions}
Held == Shared \cup UNION {Carried(t) : t \in Sessions}

\* Rewrites are numbered in order, and a save adds its own to the content that it expects.
Numbered ==
    /\ \A c \in Held : \A u \in UpdatesOf(c) : u < nextUpdate
    /\ \A u \in refused : u < nextUpdate
    /\ \A s \in Sessions : IsSave(s) /\ pc[s] # "idle" =>
          /\ call[s].update \notin UpdatesOf(call[s].expected)
          /\ \/ call[s].data = Seal(call[s].expected, call[s].update)
             \/ /\ call[s].expected = Missing
                /\ call[s].data = [version |-> 1, updates |-> {call[s].update}]

\* The call has not renamed anything over the vault file.
Unwritten(s) ==
    pc[s] \in {"lock", "owner", "read"} \cup Checked \/ (pc[s] = "release" /\ reply[s] \in Refusals)

\* The rewrite of a save that has written nothing is with that save alone, and a
\* rewrite that was refused is nowhere.
RewritesArePrivate ==
    /\ \A s \in Sessions : IsSave(s) /\ Unwritten(s) =>
          \A c \in Shared \cup UNION {Carried(t) : t \in Sessions \ {s}} : call[s].update \notin UpdatesOf(c)
    /\ \A c \in Held : refused \cap UpdatesOf(c) = {}

\* A recovery has kept the bytes that it is going to replace.
ReplacedIsKept ==
    \A s \in Sessions : ~IsSave(s) /\ pc[s] \in {"mainTemp", "mainRename"} => files["main"] \in damaged \cup {Missing}

\* A migration that is past its .v1-backup has it in full.
Migrates(s) == IsSave(s) /\ previous[s] \in Vaults /\ previous[s].version = 1 /\ call[s].data.version = 2
LegacyIsDone ==
    \A s \in Sessions :
       /\ pc[s] = "legacyWrite" => files["legacy"] = Torn
       /\ Migrates(s) /\ pc[s] \in Checked \ {"legacy", "legacyWrite"} => files["legacy"] = previous[s]

HistoryInv == Numbered /\ RewritesArePrivate /\ ReplacedIsKept /\ LegacyIsDone

--------------------------------------------------------------------------------
(* What a step may never do, and what must happen. *)

\* When a call replaces the vault file, the bytes that were there are still in
\* .bak or in a .damaged-* file, at every instant.
ReplacedBytesSurvive ==
    [][ lock' = lock /\ lock \in Sessions /\ files["main"]' # files["main"]
        => files["main"] \in {Missing, files["bak"]'} \cup damaged' ]_vars

\* "interrupted backup creation fail closed and require operator inspection": no
\* migration goes on over a .v1-backup whose creation did not finish.
InterruptedBackupFailsClosed ==
    [][ migrated' # migrated => "legacy" \notin dirty ]_vars

\* Every call to storage ends, even against a stale lock that nobody removes.
CallsReturn == \A s \in Sessions : pc[s] # "idle" ~> pc[s] = "idle"

\* Storage implements the register.
Register == INSTANCE VaultRegister WITH register <- files["main"]
RegisterSpec == Register!Spec

================================================================================
