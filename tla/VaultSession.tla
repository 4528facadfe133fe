------------------------------ MODULE VaultSession ------------------------------
(***************************************************************************)
(* class VaultManager of vault-core.js: one session in one event loop,     *)
(* with several of its asynchronous calls under way at once.  The code     *)
(* between two awaits is one step; the steps of the calls interleave, and  *)
(* lock() may run between any two of them.  Storage is the register of     *)
(* VaultRegister, which other sessions write as well.                      *)
(***************************************************************************)
EXTENDS VaultFormat, Sequences

CONSTANTS
    Calls,          \* The calls made on the session, each at most once.
    MaxLocks,       \* Bound: lock() is called only up to this epoch.
    MaxOthers       \* Bound: changes to the file from outside this session.

ASSUME BoundsAssumption == MaxLocks \in Nat /\ MaxOthers \in Nat

VARIABLES
    register,       \* The vault file.
    acked,          \* The rewrites that storage has acknowledged.
    open,           \* #key is not null.
    envelope,       \* #envelope
    entries,        \* #entries, as the rewrites they contain
    revision,       \* #revision
    epoch,          \* #epoch
    tail,           \* The mutations chained on #tail that have not settled.
    call,           \* What each call has in its local variables.
    nextUpdate,     \* The next rewrite.
    others,         \* How often other sessions or operators changed the file.
    recent,         \* Ghost: the calls made since the last lock().
    stored          \* Ghost: every content the vault file has had.

memory  == <<open, envelope, entries, revision, epoch>>
storage == <<register, acked, stored>>
vars    == <<storage, memory, tail, call, nextUpdate, others, recent>>

Storage == INSTANCE VaultRegister

--------------------------------------------------------------------------------

Openings  == {"create", "unlock", "recover"}
Mutations == {"change", "migrate"}

\* A call is at an await: for the snapshot, the key derivation, its turn on the
\* queue, the encryption, the storage (before and after it wrote), or its result.
Awaits ==
    {"loading", "decoding", "creating", "queued", "encoding", "saving", "committed",
     "saved", "verifying", "restoring", "restored"}

Steps == {"unused", "resolved", "rejected"} \cup Awaits

Unused == [op |-> "change", at |-> "unused", epoch |-> 0, data |-> Missing, expected |-> Missing, update |-> 0]

Init ==
    /\ register \in {Missing, [version |-> 1, updates |-> {}]}
    /\ acked = {}
    /\ stored = {register}
    /\ open = FALSE
    /\ envelope = Missing
    /\ entries = {}
    /\ revision = Missing
    /\ epoch = 0
    /\ tail = <<>>
    /\ call = [c \in Calls |-> Unused]
    /\ nextUpdate = 1
    /\ others = 0
    /\ recent = {}

--------------------------------------------------------------------------------

\* lock(): forget everything and supersede whatever is under way.
Locked ==
    /\ epoch' = epoch + 1
    /\ open' = FALSE
    /\ envelope' = Missing
    /\ entries' = {}
    /\ revision' = Missing

\* #current: the session is open and was not locked since.
Current(c) == open /\ epoch = call[c].epoch

\* A session opens, or stays open, on the content d.
Adopt(d) ==
    /\ open' = TRUE
    /\ envelope' = d
    /\ entries' = UpdatesOf(d)
    /\ revision' = d
    /\ UNCHANGED epoch

At(c, step) == call[c].at = step
Move(c, step) == call' = [call EXCEPT ![c].at = step]

\* The call settles and its local variables are gone.
End(c, step) ==
    call' = [call EXCEPT ![c] = [Unused EXCEPT !.op = call[c].op, !.at = step, !.update = call[c].update]]

\* A mutation that settles hands the queue to the next one.
Settle(c, step) ==
    /\ End(c, step)
    /\ tail' = IF tail # <<>> /\ Head(tail) = c THEN Tail(tail) ELSE tail

NewUpdate == nextUpdate \in Writes /\ nextUpdate' = nextUpdate + 1

--------------------------------------------------------------------------------
(* lock, and the calls that open the session. *)

Lock ==
    /\ epoch < MaxLocks
    /\ Locked
    /\ recent' = {}
    /\ UNCHANGED <<storage, tail, call, nextUpdate, others>>

\* create, unlock and recoverBackup lock the session before anything else.
CallOpening(c, op) ==
    /\ At(c, "unused")
    /\ Locked
    /\ call' = [call EXCEPT ![c] = [Unused EXCEPT !.op = op,
                                    !.at = IF op = "recover" THEN "verifying" ELSE "loading",
                                    !.epoch = epoch + 1]]
    /\ recent' = {c}
    /\ UNCHANGED <<storage, tail, nextUpdate, others>>

\* loadSnapshot; create wants no file, unlock a vault.
Load(c) ==
    /\ At(c, "loading")
    /\ \/ /\ call[c].op = "create" /\ register = Missing
          /\ Move(c, "creating")
       \/ /\ call[c].op # "create" /\ register \in Vaults
          /\ call' = [call EXCEPT ![c].at = "decoding", ![c].data = register]
       \/ /\ (register = Missing) # (call[c].op = "create")
          /\ End(c, "rejected")
       \/ /\ register \notin Vaults \cup {Missing}
          /\ End(c, "rejected")
    /\ UNCHANGED <<storage, memory, tail, nextUpdate, others, recent>>

\* deriveKey and encodeVault of an empty vault; bad credentials and a superseded
\* call are rejected.
Create(c) ==
    /\ At(c, "creating")
    /\ \/ /\ epoch = call[c].epoch
          /\ NewUpdate
          /\ call' = [call EXCEPT ![c].at = "saving", ![c].update = nextUpdate,
                                  ![c].data = Seal(Missing, nextUpdate), ![c].expected = Missing]
       \/ /\ End(c, "rejected")
          /\ UNCHANGED nextUpdate
    /\ UNCHANGED <<storage, memory, tail, others, recent>>

\* decodeVault: a wrong password is rejected, a superseded call as well.
Decode(c) ==
    /\ At(c, "decoding")
    /\ \/ /\ epoch = call[c].epoch
          /\ Adopt(call[c].data)
          /\ End(c, "resolved")
       \/ /\ End(c, "rejected")
          /\ UNCHANGED memory
    /\ UNCHANGED <<storage, tail, nextUpdate, others, recent>>

--------------------------------------------------------------------------------
(* #mutate: addSecret, updateSecret, deleteSecret and migrate. *)

\* Only migrate() looks at the session when it is called.
CallMutation(c, op) ==
    /\ At(c, "unused")
    /\ op = "migrate" => open /\ envelope.version = 1
    /\ call' = [call EXCEPT ![c] = [Unused EXCEPT !.op = op, !.at = "queued", !.epoch = epoch]]
    /\ tail' = Append(tail, c)
    /\ recent' = recent \cup {c}
    /\ UNCHANGED <<storage, memory, nextUpdate, others>>

\* Variant: the call does not wait for its turn.
StartAtOnce(c) ==
    /\ At(c, "queued")
    /\ Current(c)
    /\ call[c].op = "change" => envelope.version = 2
    /\ NewUpdate
    /\ call' = [call EXCEPT ![c].at = "encoding", ![c].update = nextUpdate,
                            ![c].data = [version |-> 2, updates |-> entries \cup {nextUpdate}]]
    /\ UNCHANGED <<storage, memory, tail, others, recent>>

\* The turn of the first call on the queue: it works on a copy of the entries.
\* The change itself may be refused (duplicate_name, not_found).
Start(c) ==
    /\ At(c, "queued")
    /\ Head(tail) = c
    /\ \/ /\ Current(c)
          /\ call[c].op = "change" => envelope.version = 2
          /\ NewUpdate
          /\ call' = [call EXCEPT ![c].at = "encoding", ![c].update = nextUpdate,
                                  ![c].data = [version |-> 2, updates |-> entries \cup {nextUpdate}]]
          /\ UNCHANGED tail
       \/ /\ Settle(c, "rejected")
          /\ UNCHANGED nextUpdate
    /\ UNCHANGED <<storage, memory, others, recent>>

\* Variant: the epoch is not compared after the encryption.
EncodedUnchecked(c) ==
    /\ At(c, "encoding")
    /\ call' = [call EXCEPT ![c].at = "saving", ![c].expected = revision]
    /\ UNCHANGED <<storage, memory, tail, nextUpdate, others, recent>>

\* Variant: memory is updated before the save.
EncodedOptimistic(c) ==
    /\ At(c, "encoding")
    /\ Current(c)
    /\ call' = [call EXCEPT ![c].at = "saving", ![c].expected = revision]
    /\ Adopt(call[c].data)
    /\ UNCHANGED <<storage, tail, nextUpdate, others, recent>>

\* encodeVault is done: save the envelope over the revision the session has now.
Encoded(c) ==
    /\ At(c, "encoding")
    /\ \/ /\ Current(c)
          /\ call' = [call EXCEPT ![c].at = "saving", ![c].expected = revision]
          /\ UNCHANGED tail
       \/ /\ ~Current(c)
          /\ Settle(c, "rejected")
    /\ UNCHANGED <<storage, memory, nextUpdate, others, recent>>

--------------------------------------------------------------------------------
(* The storage calls, as the register they implement. *)

\* Writers exclude each other until their call has returned (FileStorage!OneWriter).
NoWriter == \A c \in Calls : ~At(c, "committed")

\* save: the revision still matches and the file is replaced.
Commit(c) ==
    /\ At(c, "saving")
    /\ NoWriter
    /\ register = call[c].expected
    /\ register' = call[c].data
    /\ stored' = stored \cup {register'}
    /\ Move(c, "committed")
    /\ UNCHANGED <<acked, memory, tail, nextUpdate, others, recent>>

\* save resolves before the lock directory is given up.
Acknowledge(c) ==
    /\ At(c, "committed")
    /\ acked' = acked \cup {call[c].update}
    /\ Move(c, "saved")
    /\ UNCHANGED <<register, stored, memory, tail, nextUpdate, others, recent>>

\* Variant: a rejected mutation is not taken off the queue.
SaveFailsAndBlocks(c) ==
    /\ At(c, "saving") \/ At(c, "committed")
    /\ End(c, "rejected")
    /\ UNCHANGED <<storage, memory, tail, nextUpdate, others, recent>>

\* save rejects: a conflict, a busy lock or an I/O error, which may also come
\* after the file was replaced.
SaveFails(c) ==
    /\ At(c, "saving") \/ At(c, "committed")
    /\ Settle(c, "rejected")
    /\ UNCHANGED <<storage, memory, nextUpdate, others, recent>>

\* Variant: the epoch is not compared after the save.
SavedUnchecked(c) ==
    /\ At(c, "saved")
    /\ Adopt(call[c].data)
    /\ Settle(c, "resolved")
    /\ UNCHANGED <<storage, nextUpdate, others, recent>>

\* The call continues with the revision that save returned.
Saved(c) ==
    /\ At(c, "saved")
    /\ \/ /\ IF call[c].op = "create" THEN epoch = call[c].epoch ELSE Current(c)
          /\ Adopt(call[c].data)
          /\ Settle(c, "resolved")
       \/ /\ IF call[c].op = "create" THEN epoch # call[c].epoch ELSE ~Current(c)
          /\ Settle(c, "rejected")
          /\ UNCHANGED memory
    /\ UNCHANGED <<storage, nextUpdate, others, recent>>

\* recoverBackup: the backup decoded under the session's epoch ...
Verify(c) ==
    /\ At(c, "verifying")
    /\ \/ /\ epoch = call[c].epoch
          /\ Move(c, "restoring")
       \/ End(c, "rejected")
    /\ UNCHANGED <<storage, memory, tail, nextUpdate, others, recent>>

\* ... replaces the file, lock() or not, or an I/O error prevents it; ...
Restore(c) ==
    /\ At(c, "restoring")
    /\ \/ /\ NoWriter
          /\ \E d \in stored \cap Vaults : register' = d
          /\ Storage!Restore
          /\ Move(c, "restored")
       \/ /\ End(c, "rejected")
          /\ UNCHANGED <<register, acked>>
    /\ UNCHANGED <<stored, memory, tail, nextUpdate, others, recent>>

\* ... and the session is unlocked with it, which locks it first.
Restored(c) ==
    /\ At(c, "restored")
    /\ \/ /\ epoch = call[c].epoch
          /\ Locked
          /\ call' = [call EXCEPT ![c].at = "loading", ![c].epoch = epoch + 1]
          /\ recent' = {c}
       \/ /\ epoch # call[c].epoch
          /\ End(c, "rejected")
          /\ UNCHANGED <<memory, recent>>
    /\ UNCHANGED <<storage, tail, nextUpdate, others>>

--------------------------------------------------------------------------------
(* The other sessions, which also go through the lock of the storage. *)

Others ==
    /\ others < MaxOthers
    /\ others' = others + 1
    /\ NoWriter
    /\ \/ /\ Storage!Commit
          /\ NewUpdate
          /\ nextUpdate \in UpdatesOf(register')
       \/ /\ \E d \in stored \cap Vaults : register' = d
          /\ Storage!Restore
          /\ UNCHANGED nextUpdate
       \/ /\ Storage!Damage
          /\ UNCHANGED nextUpdate
    /\ stored' = stored \cup {register'}
    /\ UNCHANGED <<memory, tail, call, recent>>

--------------------------------------------------------------------------------

CallStep(c) ==
    \/ Load(c) \/ Create(c) \/ Decode(c)
    \/ Start(c) \/ Encoded(c) \/ Commit(c) \/ Acknowledge(c) \/ SaveFails(c) \/ Saved(c)
    \/ Verify(c) \/ Restore(c) \/ Restored(c)

Request(c) ==
    \/ \E op \in Openings : CallOpening(c, op)
    \/ \E op \in Mutations : CallMutation(c, op)

Next == Lock \/ Others \/ \E c \in Calls : Request(c) \/ CallStep(c)

Spec == Init /\ [][Next]_vars

\* The event loop runs the continuation of every call whose await is over, and
\* storage answers every call (FileStorage!CallsReturn).
Fairness == \A c \in Calls : WF_vars(CallStep(c))

FairSpec == Spec /\ Fairness

--------------------------------------------------------------------------------
(* Properties. *)

TypeOK ==
    /\ Storage!TypeOK
    /\ stored \in SUBSET Contents
    /\ open \in BOOLEAN
    /\ envelope \in Vaults \cup {Missing}
    /\ entries \in SUBSET Writes
    /\ revision \in Vaults \cup {Missing}
    /\ epoch \in Nat
    /\ tail \in Seq(Calls)
    /\ call \in [Calls -> [op : Openings \cup Mutations, at : Steps, epoch : Nat,
                           data : Vaults \cup {Missing}, expected : Vaults \cup {Missing},
                           update : 0 .. MaxWrites]]
    /\ nextUpdate \in 1 .. MaxWrites + 1
    /\ others \in 0 .. MaxOthers
    /\ recent \in SUBSET Calls

\* "Failed writes never change its committed state": what an open session shows is
\* a vault that was on disk, with that vault's revision, and nothing of a change
\* whose save failed.
SessionIsOnDisk ==
    open => /\ envelope \in stored
            /\ revision = envelope
            /\ entries = UpdatesOf(envelope)

\* A change that failed in this session is not visible in it, one that succeeded is,
\* however the calls interleave with each other and with other sessions.
OutcomesAreVisible ==
    open => \A c \in recent : call[c].op \in Mutations =>
                /\ At(c, "resolved") => call[c].update \in entries
                /\ At(c, "rejected") => call[c].update \notin entries

\* "Locked or superseded asynchronous operations cannot reopen the session": it is
\* open only when the last of lock, create, unlock and recoverBackup was an opening
\* call, and that call succeeded.
LastOpeningWins ==
    open => \E c \in recent : call[c].op \in Openings /\ At(c, "resolved")

\* A mutation that lock() or unlock() overtook on the queue never reaches storage.
SupersededNeverSaved ==
    [][ \A c \in Calls : call[c].at' = "saving" /\ call[c].at # "saving" => c \in recent ]_vars

\* "concurrent mutations within one session are serialized without lost entries",
\* and every write of this session extends the file's content at that moment.
StorageSpec == Storage!Spec

\* Every call of the program's interface settles.
CallsSettle == \A c \in Calls : call[c].at \in Awaits ~> call[c].at \in {"resolved", "rejected"}

--------------------------------------------------------------------------------
(* The inductive invariant behind the safety properties. *)

\* Where a mutation is past its start.
Mutating == {"encoding", "saving", "committed", "saved"}

\* The step a call is at goes with its operation, and a rewrite with its number.
StepsOfOperations(c) ==
    /\ At(c, "unused") => call[c].update = 0 /\ c \notin recent
    /\ call[c].at \in {"loading", "creating", "decoding", "verifying", "restoring", "restored"} =>
          call[c].op \in Openings
    /\ At(c, "creating") => call[c].op = "create"
    /\ At(c, "queued") => call[c].op \in Mutations /\ call[c].update = 0
    /\ At(c, "encoding") => call[c].op \in Mutations
    /\ call[c].at \in {"saving", "committed", "saved"} => call[c].op \in Mutations \cup {"create"}

\* The calls since the last lock() are those whose epoch is current.
EpochsCount(c) ==
    call[c].at \in Awaits => /\ call[c].epoch <= epoch
                             /\ call[c].epoch = epoch <=> c \in recent

\* What a call has in its hands is, or was, on disk, or extends what it replaces.
DataIsOnDisk(c) ==
    /\ call[c].at \in {"decoding", "committed", "saved"} => call[c].data \in stored \cap Vaults
    /\ At(c, "saving") => /\ call[c].update \in Writes \ UpdatesOf(call[c].expected)
                          /\ call[c].data = Seal(call[c].expected, call[c].update)
    /\ At(c, "committed") => /\ register = call[c].data
                             /\ call[c].update \in UpdatesOf(call[c].data)

\* Only the first mutation on the queue is past its start.
OneMutates(c) ==
    /\ call[c].op \in Mutations /\ call[c].at \in Mutating => tail # <<>> /\ Head(tail) = c
    /\ At(c, "queued") => \E i \in 1 .. Len(tail) : tail[i] = c

\* Rewrites are numbered in order.
Numbered(c) ==
    /\ call[c].update < nextUpdate
    /\ \A u \in UpdatesOf(call[c].data) : u < nextUpdate
    /\ \A d \in Calls : c # d /\ call[c].update # 0 => call[c].update # call[d].update

\* A mutation that was not superseded works on what the session shows, and in a
\* closed session none has begun.
WorksOnSession(c) ==
    c \in recent /\ call[c].op \in Mutations =>
       /\ call[c].at \in Mutating =>
             /\ open
             /\ call[c].update \in Writes \ entries
             /\ call[c].data = [version |-> 2, updates |-> entries \cup {call[c].update}]
       /\ ~open => call[c].at \in {"queued", "rejected"} /\ call[c].update = 0

\* At most one opening call was not superseded, and it has opened what is open.
OpeningsCount(c) ==
    c \in recent /\ call[c].op \in Openings =>
       /\ open => At(c, "resolved")
       /\ \A d \in recent : call[d].op \in Openings => c = d

CallInv(c) ==
    /\ StepsOfOperations(c) /\ EpochsCount(c) /\ DataIsOnDisk(c) /\ OneMutates(c)
    /\ Numbered(c) /\ WorksOnSession(c) /\ OpeningsCount(c)

DiskInv ==
    /\ register \in stored
    /\ \A d \in stored : \A u \in UpdatesOf(d) : u < nextUpdate

IndInv ==
    /\ TypeOK /\ DiskInv
    /\ \A c \in Calls : CallInv(c)
    /\ SessionIsOnDisk /\ OutcomesAreVisible /\ LastOpeningWins

================================================================================
