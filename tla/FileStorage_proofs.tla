--------------------------- MODULE FileStorage_proofs ---------------------------
(***************************************************************************)
(* Proofs about FileStorage, for every set of sessions, every number of    *)
(* writes and faults, every kind of fault.                                 *)
(***************************************************************************)
EXTENDS FileStorage, TLAPS

--------------------------------------------------------------------------------
(* The contents of files. *)

\* What a content carries are rewrites.
LEMMA UpdatesType == ASSUME NEW c PROVE UpdatesOf(c) \in SUBSET Writes
  BY DEF UpdatesOf, Vaults

\* An envelope that is sealed is a version 2 vault with one more rewrite.
LEMMA SealType ==
  ASSUME NEW c, NEW u \in Writes
  PROVE  /\ Seal(c, u) \in Vaults
         /\ Seal(c, u).version = 2
         /\ UpdatesOf(Seal(c, u)) = UpdatesOf(c) \cup {u}
  BY UpdatesType DEF Seal, UpdatesOf, Vaults, Versions

\* The other contents are not vaults.
LEMMA NotVaults ==
  /\ Missing \notin Vaults /\ Torn \notin Vaults /\ Corrupt \notin Vaults /\ Foreign \notin Vaults
  /\ Missing # Torn /\ Missing # Corrupt /\ Missing # Foreign
  /\ Torn # Corrupt /\ Torn # Foreign /\ Corrupt # Foreign
  BY ContentsAssumption DEF NonVaults

--------------------------------------------------------------------------------
(* Type correctness. *)

LEMMA TypeInit == Init => TypeOK
  <1> SUFFICES ASSUME Init PROVE TypeOK
    OBVIOUS
  <1>1. Original \in Vaults
    BY DEF Original, Vaults, Versions
  <1>2. files \in [Names -> Contents] /\ durable = files
    BY <1>1 DEF Init, Contents, NonVaults
  <1>3. NoCall \in Calls /\ NoTemp \in [content : Contents, flushed : BOOLEAN]
    BY MaxWritesAssumption DEF NoCall, NoTemp, Calls, Ops, Contents, NonVaults
  <1>4. nextUpdate \in 1 .. MaxWrites + 1 /\ faults \in 0 .. MaxFaults
    BY MaxWritesAssumption, StorageAssumption DEF Init
  <1> QED
    BY <1>2, <1>3, <1>4 DEF Init, TypeOK, Steps, Replies, Contents, NonVaults, NoView

\* The requests.
LEMMA TypeRequest ==
  ASSUME TypeOK, NEW s \in Sessions, Request(s)
  PROVE  TypeOK'
  <1> USE DEF directory, calls, ghosts
  <1>1. CASE Unlock(s)
    BY <1>1 DEF Unlock, TypeOK, NoView
  <1>2. ASSUME NEW c \in Calls, Begin(s, c),
               view' \in [Sessions -> Vaults \cup {NoView}], nextUpdate' \in 1 .. MaxWrites + 1
        PROVE  TypeOK'
    BY <1>2 DEF Begin, TypeOK, Steps
  <1>3. ASSUME NEW op \in Ops, NEW data \in Vaults, NEW expected \in Vaults \cup {Missing},
               BeginSave(s, op, data, expected), view' \in [Sessions -> Vaults \cup {NoView}]
        PROVE  TypeOK'
    <2>1. nextUpdate' \in 1 .. MaxWrites + 1 /\ nextUpdate \in 0 .. MaxWrites
      BY <1>3, MaxWritesAssumption DEF BeginSave, Writes, TypeOK
    <2>2. [op |-> op, data |-> data, expected |-> expected, update |-> nextUpdate] \in Calls
      BY <2>1 DEF Calls, Contents
    <2> QED
      BY <1>2, <1>3, <2>1, <2>2 DEF BeginSave
  <1>4. CASE BeginCreate(s)
    <2>1. nextUpdate \in Writes
      BY <1>4 DEF BeginCreate, BeginSave
    <2>2. view' \in [Sessions -> Vaults \cup {NoView}]
      BY <1>4 DEF BeginCreate, TypeOK
    <2> QED
      BY <1>3, <1>4, <2>1, <2>2, SealType DEF BeginCreate, Ops
  <1>5. CASE BeginUpdate(s)
    <2>1. nextUpdate \in Writes
      BY <1>5 DEF BeginUpdate, BeginSave
    <2>2. view' \in [Sessions -> Vaults \cup {NoView}] /\ view[s] \in Vaults \cup {Missing}
      BY <1>5 DEF BeginUpdate, TypeOK, NoView
    <2> QED
      BY <1>3, <1>5, <2>1, <2>2, SealType DEF BeginUpdate, Ops
  <1>6. CASE BeginExport(s)
    <2>1. PICK v \in Versions : BeginSave(s, "export", [version |-> v, updates |-> {nextUpdate}], Missing)
      BY <1>6 DEF BeginExport
    <2>2. [version |-> v, updates |-> {nextUpdate}] \in Vaults
      BY <2>1 DEF BeginSave, Vaults
    <2>3. view' \in [Sessions -> Vaults \cup {NoView}]
      BY <1>6 DEF BeginExport, TypeOK
    <2> QED
      BY <1>3, <2>1, <2>2, <2>3 DEF Ops
  <1>7. CASE BeginRecover(s)
    <2>1. Recovery(Missing) \in Calls
      BY MaxWritesAssumption DEF Recovery, Calls, Ops, Contents, NonVaults
    <2>2. view' \in [Sessions -> Vaults \cup {NoView}] /\ nextUpdate' \in 1 .. MaxWrites + 1
      BY <1>7 DEF BeginRecover, TypeOK
    <2> QED
      BY <1>2, <1>7, <2>1, <2>2 DEF BeginRecover
  <1> QED
    BY <1>1, <1>4, <1>5, <1>6, <1>7 DEF Request

\* The steps of a call.
LEMMA TypeCallStep ==
  ASSUME TypeOK, NEW s \in Sessions, CallStep(s)
  PROVE  TypeOK'
  <1> USE DEF directory, calls, ghosts
  <1>1. NoCall \in Calls /\ NoTemp \in [content : Contents, flushed : BOOLEAN]
    BY MaxWritesAssumption DEF NoCall, NoTemp, Calls, Ops, Contents, NonVaults
  <1>2. call[s] \in Calls /\ call[s].update \in 0 .. MaxWrites /\ call[s].data \in Vaults \cup {Missing}
    BY DEF TypeOK, Calls
  <1>3. {call[s].update} \ {0} \subseteq Writes
    BY <1>2, MaxWritesAssumption DEF Writes
  <1>4. CASE MakeLock(s)
    BY <1>4 DEF MakeLock, Goto, TypeOK, Steps, Critical
  <1>5. CASE LockBusy(s)
    <2>1. refused' \in SUBSET Writes
      BY <1>3, <1>5 DEF LockBusy, TypeOK
    <2> QED
      BY <1>1, <1>5, <2>1 DEF LockBusy, Settle, Goto, TypeOK, Steps, Contents, NonVaults, Replies
  <1>6. CASE WriteOwner(s)
    BY <1>6 DEF WriteOwner, Goto, TypeOK, Steps, Critical, SaveSteps, RecoverSteps
  <1>7. CASE Release(s)
    <2>1. acked' \in SUBSET Writes /\ refused' \in SUBSET Writes
      BY <1>3, <1>7 DEF Release, TypeOK
    <2>2. Adopted(s) \in Vaults \cup {NoView}
      BY <1>2 DEF Adopted, NoView, TypeOK
    <2> QED
      BY <1>1, <1>7, <2>1, <2>2 DEF Release, Settle, Goto, TypeOK, Steps, Contents, NonVaults, Replies
  <1>8. CASE SaveStep(s)
    <2>1. CASE ReadPrevious(s)
      BY <2>1 DEF ReadPrevious, Finish, Goto, TypeOK, Steps, Critical, SaveSteps, MainSteps,
                  Replies, Refusals, Names
    <2>2. CASE OpenLegacy(s)
      <3>1. files' \in [Names -> Contents] /\ dirty' \in SUBSET Names
        <4>1. files \in [Names -> Contents] /\ dirty \in SUBSET Names
          BY DEF TypeOK
        <4>2. "legacy" \in Names /\ Torn \in Contents
          BY DEF Names, Contents, NonVaults
        <4>3. \/ files' = [files EXCEPT !["legacy"] = Torn] /\ dirty' = dirty \cup {"legacy"}
              \/ UNCHANGED <<files, dirty>>
          BY <2>2 DEF OpenLegacy
        <4> QED
          BY <4>1, <4>2, <4>3
      <3>2. pc' \in [Sessions -> Steps] /\ reply' \in [Sessions -> Replies]
        BY <2>2 DEF OpenLegacy, Finish, Goto, TypeOK, Steps, Critical, SaveSteps, Replies, Refusals
      <3> QED
        BY <2>2, <3>1, <3>2 DEF OpenLegacy, TypeOK
    <2>3. CASE WriteLegacy(s)
      BY <2>3 DEF WriteLegacy, Goto, TypeOK, Steps, Critical, SaveSteps, Names
    <2>4. CASE BakTemp(s)
      BY <2>4 DEF BakTemp, WriteTemp, Goto, TypeOK, Steps, Critical, SaveSteps
    <2>5. CASE BakRename(s)
      <3>1. dirty' \in SUBSET Names /\ files' \in [Names -> Contents] /\ refused' = refused
        BY <2>5 DEF BakRename, Rename, TypeOK, Names
      <3> QED
        BY <1>1, <2>5, <3>1 DEF BakRename, Rename, Goto, TypeOK, Steps, Critical, SaveSteps
    <2>6. CASE BakSync(s)
      BY <2>6 DEF BakSync, SyncDirectory, Goto, TypeOK, Steps, Critical, MainSteps
    <2> QED
      BY <1>8, <2>1, <2>2, <2>3, <2>4, <2>5, <2>6 DEF SaveStep
  <1>9. CASE RecoverStep(s)
    <2>1. CASE VerifyBackup(s)
      <3>1. files["bak"] \in Vaults => Recovery(files["bak"]) \in Calls
        BY MaxWritesAssumption DEF Recovery, Calls, Ops
      <3>2. call' \in [Sessions -> Calls]
        BY <2>1, <3>1 DEF VerifyBackup, TypeOK
      <3> QED
        BY <2>1, <3>2 DEF VerifyBackup, Finish, Goto, TypeOK, Steps, Critical, RecoverSteps, Replies
    <2>2. CASE RetainDamaged(s)
      BY <2>2 DEF RetainDamaged, Goto, TypeOK, Steps, Critical, MainSteps, Names
    <2> QED
      BY <1>9, <2>1, <2>2 DEF RecoverStep
  <1>10. CASE MainTemp(s)
    BY <1>2, <1>10 DEF MainTemp, WriteTemp, Contents, NonVaults, Goto, TypeOK, Steps, Critical, MainSteps
  <1>11. CASE MainRename(s)
    <2>1. dirty' \in SUBSET Names /\ files' \in [Names -> Contents] /\ refused' = refused
      BY <1>11 DEF MainRename, Rename, TypeOK, Names
    <2>2. acked' \in SUBSET Writes /\ migrated' \in SUBSET Vaults
      BY <1>11 DEF MainRename, TypeOK
    <2> QED
      BY <1>1, <1>11, <2>1, <2>2 DEF MainRename, Rename, Goto, TypeOK, Steps, Critical, MainSteps
  <1>12. CASE MainSync(s)
    BY <1>12 DEF MainSync, SyncDirectory, Finish, Goto, TypeOK, Steps, Critical, Replies
  <1> QED
    BY <1>4, <1>5, <1>6, <1>7, <1>8, <1>9, <1>10, <1>11, <1>12 DEF CallStep

\* The faults and the operator.
LEMMA TypeFault ==
  ASSUME TypeOK, (\E s \in Sessions : SessionFault(s)) \/ Environment
  PROVE  TypeOK'
  <1> USE DEF directory, calls, ghosts
  <1>1. NoCall \in Calls /\ NoTemp \in [content : Contents, flushed : BOOLEAN]
    BY MaxWritesAssumption DEF NoCall, NoTemp, Calls, Ops, Contents, NonVaults
  <1>2. ASSUME NEW kind, Fault(kind) PROVE faults' \in 0 .. MaxFaults
    BY <1>2, StorageAssumption DEF Fault, TypeOK
  <1>3. ASSUME NEW s \in Sessions, Crash(s) PROVE TypeOK'
    BY <1>1, <1>2, <1>3 DEF Crash, Settle, Goto, TypeOK, Steps, Contents, NonVaults, Replies, NoView
  <1>4. ASSUME NEW s \in Sessions, LockError(s) PROVE TypeOK'
    BY <1>1, <1>2, <1>4 DEF LockError, Settle, Goto, TypeOK, Steps, Contents, NonVaults, Replies
  <1>5. ASSUME NEW s \in Sessions, StepError(s) PROVE TypeOK'
    BY <1>1, <1>2, <1>5 DEF StepError, Finish, Goto, TypeOK, Steps, Critical, Replies
  <1>6. ASSUME NEW s \in Sessions, LegacyError(s) PROVE TypeOK'
    BY <1>2, <1>6 DEF LegacyError, Finish, Goto, TypeOK, Steps, Critical, Replies, Names, Contents, NonVaults
  <1>7. ASSUME NEW s \in Sessions, LegacyCrash(s) PROVE TypeOK'
    BY <1>1, <1>2, <1>7 DEF LegacyCrash, Settle, Goto, TypeOK, Steps, Contents, NonVaults, Replies, NoView, Names
  <1>8. ASSUME NEW s \in Sessions, ReleaseError(s) PROVE TypeOK'
    BY <1>1, <1>2, <1>8 DEF ReleaseError, Settle, Goto, TypeOK, Steps, Contents, NonVaults, Replies
  <1>9. CASE RemoveStaleLock
    BY <1>9 DEF RemoveStaleLock, TypeOK
  <1>10. ASSUME NEW name \in Names, Damage(name) PROVE TypeOK'
    BY <1>2, <1>10 DEF Damage, TypeOK, Contents, NonVaults
  <1>11. CASE PowerLoss
    <2>1. files' \in [Names -> Contents]
      BY <1>11 DEF PowerLoss, Survivors, TypeOK, Contents, NonVaults
    <2> QED
      BY <1>1, <1>2, <1>11, <2>1 DEF PowerLoss, TypeOK, Steps, Contents, NonVaults, Replies, NoView
  <1> QED
    BY <1>3, <1>4, <1>5, <1>6, <1>7, <1>8, <1>9, <1>10, <1>11 DEF SessionFault, Environment, Names

\* Every variable keeps its type.
LEMMA TypeNext == TypeOK /\ [Next]_vars => TypeOK'
  <1> SUFFICES ASSUME TypeOK, [Next]_vars PROVE TypeOK'
    OBVIOUS
  <1>1. CASE UNCHANGED vars
    BY <1>1 DEF vars, directory, calls, ghosts, TypeOK
  <1>2. CASE Next
    BY <1>2, TypeRequest, TypeCallStep, TypeFault DEF Next
  <1> QED
    BY <1>1, <1>2

\* The variables of FileStorage always have their types.
THEOREM TypeCorrect == Spec => []TypeOK
  BY TypeInit, TypeNext, PTL DEF Spec

--------------------------------------------------------------------------------
(* The inductive invariant. *)

LEMMA IndInvInit == Init => IndInv
  <1> SUFFICES ASSUME Init PROVE IndInv
    OBVIOUS
  <1>1. TypeOK
    BY TypeInit
  <1>2. OneWriter
    BY StorageAssumption DEF Init, OneWriter, Critical, SaveSteps, RecoverSteps, MainSteps
  <1>3. ASSUME NEW s \in Sessions PROVE CallInv(s)
    BY DEF Init, CallInv, CallWellFormed, SaveIsIsolated, RecoveryIsVerified, WritesReachDisk,
           IsSave, NoCall, SaveSteps, RecoverSteps, MainSteps, Checked
  <1>4. DirectoryHolds(files)
    <2>1. Original \in Vaults
      BY DEF Original, Vaults, Versions
    <2> QED
      BY <2>1, NotVaults DEF Init, DirectoryHolds
  <1> QED
    BY <1>1, <1>2, <1>3, <1>4 DEF Init, IndInv

\* Nothing of the call of t changes.
Idles(t) ==
    /\ pc'[t] = pc[t]
    /\ call'[t] = call[t]
    /\ previous'[t] = previous[t]
    /\ temp'[t] = temp[t]
    /\ reply'[t] = reply[t]

\* A call that does not move keeps its invariant while the call that holds the
\* lock writes, and while nobody does.
LEMMA OtherCalls ==
  ASSUME IndInv, NEW t \in Sessions, Idles(t),
         pc[t] \notin Critical \/ UNCHANGED <<files, durable>>
  PROVE  CallInv(t)'
  <1> USE DEF IsSave
  <1>1. CallInv(t)
    BY DEF IndInv
  <1>2. CallWellFormed(t)'
    BY <1>1 DEF CallInv, CallWellFormed, Idles
  <1>3. CASE UNCHANGED <<files, durable>>
    BY <1>1, <1>2, <1>3 DEF CallInv, SaveIsIsolated, RecoveryIsVerified, WritesReachDisk, Idles
  <1>4. CASE pc[t] \notin Critical
    <2>1. reply[t] # "ok"
      BY <1>1, <1>4 DEF CallInv, CallWellFormed, Critical
    <2>2. pc[t] \notin MainSteps \cup Checked \cup {"retain", "bakRename", "bakSync"}
      BY <1>4 DEF Critical, SaveSteps, RecoverSteps, MainSteps, Checked
    <2> QED
      BY <1>2, <2>1, <2>2 DEF CallInv, SaveIsIsolated, RecoveryIsVerified, WritesReachDisk, Idles, MainSteps
  <1> QED
    BY <1>3, <1>4

\* While s holds the lock, no other call is inside it.
LEMMA Exclusion ==
  ASSUME IndInv, NEW s \in Sessions, NEW t \in Sessions, t # s, pc[s] \in Critical
  PROVE  pc[t] \notin Critical
  BY DEF IndInv, OneWriter

\* A session without a call has nothing to keep.
LEMMA NoCallInv ==
  ASSUME NEW s \in Sessions, pc'[s] = "idle", call'[s] = NoCall, reply'[s] = "none"
  PROVE  CallInv(s)'
  BY DEF CallInv, CallWellFormed, SaveIsIsolated, RecoveryIsVerified, WritesReachDisk,
         IsSave, NoCall, SaveSteps, RecoverSteps, MainSteps, Checked

\* What remains to be shown of a step of s inside the lock.
LEMMA InsideLock ==
  ASSUME IndInv, TypeOK', NEW s \in Sessions, pc[s] \in Critical, lock' = lock,
         pc'[s] \in Critical, \A t \in Sessions \ {s} : Idles(t),
         CallInv(s)',
         dirty' \subseteq {"legacy"},
         DirectoryHolds(files)',
         DirSync => DirectoryHolds(durable)'
  PROVE  IndInv'
  <1>1. OneWriter'
    BY DEF IndInv, OneWriter, Idles
  <1>2. ASSUME NEW t \in Sessions, t # s PROVE CallInv(t)'
    BY <1>2, OtherCalls, Exclusion
  <1> QED
    BY <1>1, <1>2 DEF IndInv

\* What remains to be shown of a step of s that writes no file.
LEMMA NothingWritten ==
  ASSUME IndInv, TypeOK', OneWriter', NEW s \in Sessions, \A t \in Sessions \ {s} : Idles(t),
         CallInv(s)', UNCHANGED <<files, dirty, durable, acked>>
  PROVE  IndInv'
  <1>1. ASSUME NEW t \in Sessions, t # s PROVE CallInv(t)'
    BY <1>1, OtherCalls
  <1>2. DirectoryHolds(files)' /\ (DirSync => DirectoryHolds(durable)')
    BY DEF IndInv, DirectoryHolds
  <1> QED
    BY <1>1, <1>2 DEF IndInv

\* A call that ends, whatever becomes of its lock.
LEMMA Settles ==
  ASSUME TypeOK, NEW s \in Sessions, Settle(s)
  PROVE  /\ CallInv(s)'
         /\ pc'[s] = "idle"
         /\ \A t \in Sessions \ {s} : Idles(t)
  BY NoCallInv DEF Settle, Goto, TypeOK, Idles

\* Requests: a call starts outside the lock, with the arguments its session computed.
LEMMA RequestKeepsIndInv ==
  ASSUME IndInv, NEW s \in Sessions, Request(s)
  PROVE  IndInv'
  <1> USE DEF directory, calls, ghosts
  <1>1. TypeOK /\ TypeOK'
    BY TypeRequest DEF IndInv
  <1>2. pc[s] = "idle" /\ CallInv(s) /\ "idle" \notin Critical /\ "lock" \notin Critical
    BY DEF IndInv, Request, Unlock, BeginCreate, BeginUpdate, BeginExport, BeginRecover, BeginSave, Begin,
           Critical, SaveSteps, RecoverSteps, MainSteps
  <1>3. CASE Unlock(s)
    <2>1. OneWriter' /\ \A t \in Sessions : Idles(t)
      BY <1>3 DEF Unlock, IndInv, OneWriter, Idles
    <2>2. CallInv(s)'
      BY <1>2, <1>3, <2>1, OtherCalls DEF Unlock
    <2> QED
      BY <1>1, <1>3, <2>1, <2>2, NothingWritten DEF Unlock
  <1>4. ASSUME NEW c, Begin(s, c),
               c.op # "recover" => /\ c.update \in Writes
                                   /\ c.data \in Vaults
                                   /\ c.data.updates = UpdatesOf(c.expected) \cup {c.update},
               c.op = "recover" => c.update = 0
        PROVE  IndInv'
    <2>1. pc'[s] = "lock" /\ call'[s] = c /\ reply'[s] # "ok" /\ (\A t \in Sessions \ {s} : Idles(t))
      BY <1>1, <1>2, <1>4 DEF Begin, TypeOK, Idles, CallInv, CallWellFormed
    <2>2. OneWriter'
      BY <1>2, <1>4, <2>1 DEF Begin, IndInv, OneWriter, Idles
    <2>3. CallInv(s)'
      <3>1. pc'[s] \notin SaveSteps \cup RecoverSteps \cup MainSteps \cup Checked \cup {"retain"}
        BY <2>1 DEF SaveSteps, RecoverSteps, MainSteps, Checked
      <3>2. CallWellFormed(s)'
        BY <1>4, <2>1, <3>1 DEF CallWellFormed, IsSave
      <3> QED
        BY <2>1, <3>1, <3>2 DEF CallInv, SaveIsIsolated, RecoveryIsVerified, WritesReachDisk,
                                SaveSteps, MainSteps
    <2> QED
      BY <1>1, <1>4, <2>1, <2>2, <2>3, NothingWritten DEF Begin
  <1>5. CASE BeginCreate(s)
    <2> DEFINE c == [op |-> "create", data |-> Seal(Missing, nextUpdate), expected |-> Missing, update |-> nextUpdate]
    <2>1. Begin(s, c) /\ nextUpdate \in Writes
      BY <1>5 DEF BeginCreate, BeginSave
    <2>2. Seal(Missing, nextUpdate) \in Vaults
          /\ Seal(Missing, nextUpdate).updates = UpdatesOf(Missing) \cup {nextUpdate}
      BY <2>1, SealType DEF UpdatesOf
    <2> QED
      BY <1>4, <2>1, <2>2
  <1>6. CASE BeginUpdate(s)
    <2> DEFINE c == [op |-> "update", data |-> Seal(view[s], nextUpdate), expected |-> view[s], update |-> nextUpdate]
    <2>1. Begin(s, c) /\ nextUpdate \in Writes
      BY <1>6 DEF BeginUpdate, BeginSave
    <2>2. Seal(view[s], nextUpdate) \in Vaults
          /\ Seal(view[s], nextUpdate).updates = UpdatesOf(view[s]) \cup {nextUpdate}
      BY <2>1, SealType DEF UpdatesOf
    <2> QED
      BY <1>4, <2>1, <2>2
  <1>7. CASE BeginExport(s)
    <2>1. PICK v \in Versions : BeginSave(s, "export", [version |-> v, updates |-> {nextUpdate}], Missing)
      BY <1>7 DEF BeginExport
    <2> DEFINE w == [version |-> v, updates |-> {nextUpdate}]
               c == [op |-> "export", data |-> w, expected |-> Missing, update |-> nextUpdate]
    <2>2. Begin(s, c) /\ nextUpdate \in Writes
      BY <2>1 DEF BeginSave
    <2>3. w \in Vaults /\ w.updates = UpdatesOf(Missing) \cup {nextUpdate}
      BY <2>2, NotVaults DEF Vaults, UpdatesOf
    <2> QED
      BY <1>4, <2>2, <2>3
  <1>8. CASE BeginRecover(s)
    BY <1>4, <1>8 DEF BeginRecover, Recovery
  <1> QED
    BY <1>3, <1>5, <1>6, <1>7, <1>8 DEF Request

\* Taking the lock and giving it back.
LEMMA LockStepsKeepIndInv ==
  ASSUME IndInv, NEW s \in Sessions,
         MakeLock(s) \/ LockBusy(s) \/ WriteOwner(s) \/ Release(s)
  PROVE  IndInv'
  <1> USE DEF directory, calls, ghosts
  <1>1. TypeOK /\ TypeOK' /\ OneWriter /\ CallInv(s)
    BY TypeCallStep DEF IndInv, CallStep
  <1>2. Free \notin Sessions /\ Stale \notin Sessions
    BY StorageAssumption
  <1>3. "idle" \notin Critical /\ "lock" \notin Critical /\ "owner" \in Critical
        /\ "read" \in Critical /\ "verify" \in Critical /\ "release" \in Critical
    BY DEF Critical, SaveSteps, RecoverSteps, MainSteps
  <1>4. CASE MakeLock(s)
    <2>1. pc'[s] = "owner" /\ \A t \in Sessions \ {s} : Idles(t)
      BY <1>1, <1>4 DEF MakeLock, Goto, TypeOK, Idles
    <2>2. OneWriter'
      BY <1>1, <1>2, <1>3, <1>4, <2>1 DEF MakeLock, OneWriter, Idles
    <2>3. CallInv(s)'
      BY <1>1, <1>4, <2>1 DEF MakeLock, CallInv, CallWellFormed, SaveIsIsolated, RecoveryIsVerified,
                         WritesReachDisk, IsSave, SaveSteps, RecoverSteps, MainSteps, Checked
    <2> QED
      BY <1>1, <1>4, <2>1, <2>2, <2>3, NothingWritten DEF MakeLock
  <1>5. CASE LockBusy(s)
    <2>1. CallInv(s)' /\ pc'[s] = "idle" /\ \A t \in Sessions \ {s} : Idles(t)
      BY <1>1, <1>5, Settles DEF LockBusy
    <2>2. OneWriter'
      BY <1>1, <1>3, <1>5, <2>1 DEF LockBusy, OneWriter, Idles
    <2> QED
      BY <1>1, <1>5, <2>1, <2>2, NothingWritten DEF LockBusy
  <1>6. CASE WriteOwner(s)
    <2>1. pc'[s] = (IF call[s].op = "recover" THEN "verify" ELSE "read")
          /\ \A t \in Sessions \ {s} : Idles(t)
      BY <1>1, <1>6 DEF WriteOwner, Goto, TypeOK, Idles
    <2>2. OneWriter'
      BY <1>1, <1>3, <1>6, <2>1 DEF WriteOwner, OneWriter, Idles
    <2>3. CallInv(s)'
      BY <1>1, <1>6, <2>1 DEF WriteOwner, CallInv, CallWellFormed, SaveIsIsolated, RecoveryIsVerified,
                         WritesReachDisk, IsSave, SaveSteps, RecoverSteps, MainSteps, Checked
    <2> QED
      BY <1>1, <1>6, <2>1, <2>2, <2>3, NothingWritten DEF WriteOwner
  <1>7. CASE Release(s)
    <2>1. CallInv(s)' /\ pc'[s] = "idle" /\ \A t \in Sessions \ {s} : Idles(t)
      BY <1>1, <1>7, Settles DEF Release
    <2>2. OneWriter'
      BY <1>1, <1>2, <1>3, <1>7, <2>1 DEF Release, OneWriter, Idles
    <2>3. ASSUME NEW t \in Sessions, t # s PROVE CallInv(t)'
      BY <1>7, <2>1, <2>3, OtherCalls DEF Release
    <2>4. CASE acked' = acked
      BY <1>1, <1>7, <2>1, <2>2, <2>4, NothingWritten DEF Release
    <2>5. CASE acked' # acked
      <3>1. reply[s] = "ok" /\ acked' = acked \cup {call[s].update}
            /\ call[s].update # 0 /\ UNCHANGED <<files, dirty, durable>>
        BY <1>7, <2>5 DEF Release
      <3>2. IsSave(s) /\ pc[s] # "idle"
        BY <1>1, <1>7, <3>1 DEF Release, CallInv, CallWellFormed
      \* The vault file is the one the call wrote, and .bak the one it replaced.
      <3>3. /\ call[s].data \in Vaults
            /\ UpdatesOf(files["main"]) = UpdatesOf(call[s].expected) \cup {call[s].update}
            /\ files["main"] \in Vaults
            /\ call[s].expected = Missing \/ files["bak"] = call[s].expected
        BY <1>1, <3>1, <3>2 DEF CallInv, CallWellFormed, SaveIsIsolated, WritesReachDisk, UpdatesOf
      <3>4. acked \subseteq UpdatesOf(files["main"])
        BY <3>3, NotVaults DEF IndInv, DirectoryHolds
      <3>5. files["bak"] \in Vaults => acked' \subseteq UpdatesOf(files["bak"]) \cup {call[s].update}
        BY <3>1, <3>3, <3>4, NotVaults DEF UpdatesOf
      <3>6. call[s].update \in 0 .. MaxWrites
        BY <1>1 DEF TypeOK, Calls
      <3>7. DirectoryHolds(files)'
        BY <3>1, <3>3, <3>4, <3>5, <3>6 DEF IndInv, DirectoryHolds
      <3>8. ASSUME DirSync PROVE DirectoryHolds(durable)'
        <4>1. durable["main"] = files["main"] /\ durable["bak"] = files["bak"]
          BY <1>1, <3>1, <3>8 DEF CallInv, WritesReachDisk
        <4> QED
          BY <3>1, <3>3, <3>4, <3>5, <3>6, <3>8, <4>1 DEF IndInv, DirectoryHolds
      <3> QED
        BY <1>1, <2>1, <2>2, <2>3, <3>1, <3>7, <3>8 DEF IndInv
    <2> QED
      BY <2>4, <2>5
  <1> QED
    BY <1>4, <1>5, <1>6, <1>7

\* The steps of save before it writes the vault file.
LEMMA SaveStepsKeepIndInv ==
  ASSUME IndInv, NEW s \in Sessions, SaveStep(s)
  PROVE  IndInv'
  <1> USE DEF directory, calls, ghosts
  <1>1. TypeOK /\ TypeOK' /\ CallInv(s)
    BY TypeCallStep DEF IndInv, CallStep
  <1>2. DirectoryHolds(files) /\ (DirSync => DirectoryHolds(durable)) /\ dirty \subseteq {"legacy"}
    BY DEF IndInv
  <1>3. SaveSteps \cup MainSteps \cup {"release"} \subseteq Critical
    BY DEF Critical
  <1>4. pc[s] \in SaveSteps /\ pc[s] \in Critical /\ IsSave(s) /\ reply[s] # "ok"
        /\ call[s].data \in Vaults /\ call[s].expected \in Vaults \cup {Missing}
    <2>1. pc[s] \in SaveSteps
      BY DEF SaveStep, ReadPrevious, OpenLegacy, WriteLegacy, BakTemp, BakRename, BakSync, SaveSteps
    <2> QED
      BY <1>1, <1>3, <2>1 DEF CallInv, CallWellFormed, SaveSteps, TypeOK, Calls
  \* A step that writes neither the vault file nor its backup.
  <1>5. ASSUME \A t \in Sessions \ {s} : Idles(t), pc'[s] \in Critical, CallInv(s)',
               lock' = lock, dirty' \subseteq {"legacy"}, UNCHANGED <<durable, acked>>,
               files'["main"] = files["main"], files'["bak"] = files["bak"]
        PROVE  IndInv'
    <2>1. DirectoryHolds(files)' /\ (DirSync => DirectoryHolds(durable)')
      BY <1>2, <1>5 DEF DirectoryHolds
    <2> QED
      BY <1>1, <1>4, <1>5, <2>1, InsideLock
  <1> USE DEF CallInv, CallWellFormed, SaveIsIsolated, RecoveryIsVerified, WritesReachDisk, IsSave
  <1>6. CASE ReadPrevious(s)
    <2>1. \A t \in Sessions \ {s} : Idles(t)
      BY <1>1, <1>6 DEF ReadPrevious, Finish, Goto, TypeOK, Idles
    <2>2. call' = call /\ temp' = temp /\ files' = files /\ durable' = durable /\ previous'[s] = files["main"]
      BY <1>1, <1>6 DEF ReadPrevious, TypeOK
    <2>3. CASE files["main"] # call[s].expected
      <3>1. pc'[s] = "release" /\ reply'[s] = "storage_conflict"
        BY <1>1, <1>6, <2>3 DEF ReadPrevious, Finish, Goto, TypeOK
      <3>2. CallInv(s)'
        BY <1>1, <1>4, <2>2, <3>1 DEF SaveSteps, RecoverSteps, MainSteps, Checked
      <3> QED
        BY <1>2, <1>3, <1>5, <1>6, <2>1, <2>2, <3>1, <3>2 DEF ReadPrevious
    <2>4. CASE files["main"] = call[s].expected
      <3>1. /\ reply' = reply
            /\ pc'[s] \in {"mainTemp", "legacy", "bakTemp"}
            /\ pc'[s] = "mainTemp" <=> files["main"] = Missing
        BY <1>1, <1>6, <2>4 DEF ReadPrevious, Goto, TypeOK
      <3>2. CallInv(s)'
        BY <1>1, <1>4, <2>2, <2>4, <3>1 DEF SaveSteps, RecoverSteps, MainSteps, Checked
      <3>3. pc'[s] \in Critical
        BY <1>3, <3>1 DEF SaveSteps, MainSteps
      <3> QED
        BY <1>2, <1>5, <1>6, <2>1, <2>2, <3>2, <3>3 DEF ReadPrevious
    <2> QED
      BY <2>3, <2>4
  <1>7. CASE OpenLegacy(s)
    <2>1. \A t \in Sessions \ {s} : Idles(t)
      BY <1>1, <1>7 DEF OpenLegacy, Finish, Goto, TypeOK, Idles
    <2>2. /\ call' = call /\ previous' = previous /\ temp' = temp
          /\ files'["main"] = files["main"] /\ files'["bak"] = files["bak"] /\ durable' = durable
          /\ dirty' \subseteq {"legacy"}
          /\ \/ pc'[s] \in {"legacyWrite", "bakTemp"} /\ reply' = reply
             \/ pc'[s] = "release" /\ reply'[s] = "legacy_backup_conflict"
          /\ pc[s] = "legacy"
      BY <1>1, <1>2, <1>7 DEF OpenLegacy, Finish, Goto, TypeOK, Names
    <2>3. CallInv(s)'
      BY <1>1, <1>4, <2>2 DEF SaveSteps, RecoverSteps, MainSteps, Checked
    <2>4. pc'[s] \in Critical
      BY <1>3, <2>2 DEF SaveSteps
    <2> QED
      BY <1>5, <1>7, <2>1, <2>2, <2>3, <2>4 DEF OpenLegacy
  <1>8. CASE WriteLegacy(s)
    <2>1. \A t \in Sessions \ {s} : Idles(t)
      BY <1>1, <1>8 DEF WriteLegacy, Goto, TypeOK, Idles
    <2>2. /\ files'["main"] = files["main"] /\ files'["bak"] = files["bak"]
          /\ pc'[s] = "bakTemp" /\ pc[s] = "legacyWrite" /\ dirty' \subseteq {"legacy"}
      BY <1>1, <1>2, <1>8 DEF WriteLegacy, Goto, TypeOK, Names
    <2>3. CallInv(s)'
      BY <1>1, <1>4, <1>8, <2>2 DEF WriteLegacy, SaveSteps, RecoverSteps, MainSteps, Checked
    <2>4. pc'[s] \in Critical
      BY <1>3, <2>2 DEF SaveSteps
    <2> QED
      BY <1>5, <1>8, <2>1, <2>2, <2>3, <2>4 DEF WriteLegacy
  <1>9. CASE BakTemp(s)
    <2>1. \A t \in Sessions \ {s} : Idles(t)
      BY <1>1, <1>9 DEF BakTemp, WriteTemp, Goto, TypeOK, Idles
    <2>2. /\ pc'[s] = "bakRename" /\ pc[s] = "bakTemp"
          /\ temp'[s].content = previous[s] /\ temp'[s].flushed
          /\ UNCHANGED <<files, dirty, durable, lock, call, previous, reply, acked>>
      BY <1>1, <1>9 DEF BakTemp, WriteTemp, Goto, TypeOK
    <2>3. CallInv(s)'
      BY <1>1, <1>4, <2>2 DEF SaveSteps, RecoverSteps, MainSteps, Checked
    <2>4. pc'[s] \in Critical
      BY <1>3, <2>2 DEF SaveSteps
    <2> QED
      BY <1>2, <1>5, <2>1, <2>2, <2>3, <2>4
  <1>10. CASE BakRename(s)
    <2>1. /\ temp[s].content = previous[s] /\ temp[s].flushed /\ previous[s] \in Vaults
          /\ files["main"] = call[s].expected /\ previous[s] = call[s].expected
      BY <1>1, <1>4, <1>10 DEF BakRename, Checked, MainSteps
    <2>2. \A t \in Sessions \ {s} : Idles(t)
      BY <1>1, <1>10 DEF BakRename, Rename, Goto, TypeOK, Idles
    <2>3. /\ pc'[s] = "bakSync" /\ pc[s] = "bakRename"
          /\ files'["bak"] = previous[s] /\ files'["main"] = files["main"]
          /\ dirty' \subseteq {"legacy"}
          /\ UNCHANGED <<durable, lock, call, previous, reply, acked>>
      BY <1>1, <1>2, <1>10, <2>1 DEF BakRename, Rename, Goto, TypeOK, Names
    <2>4. CallInv(s)'
      BY <1>1, <1>4, <2>1, <2>3 DEF SaveSteps, RecoverSteps, MainSteps, Checked
    <2>5. DirectoryHolds(files)'
      <3>1. acked \subseteq UpdatesOf(files'["bak"]) \cup {0}
        BY <1>2, <2>1, <2>3, NotVaults DEF DirectoryHolds
      <3>2. 0 \in 0 .. MaxWrites
        BY MaxWritesAssumption
      <3> QED
        BY <1>2, <2>1, <2>3, <3>1, <3>2 DEF DirectoryHolds
    <2>6. pc'[s] \in Critical /\ (DirSync => DirectoryHolds(durable)')
      BY <1>2, <1>3, <2>3 DEF SaveSteps, DirectoryHolds
    <2> QED
      BY <1>1, <1>4, <2>2, <2>3, <2>4, <2>5, <2>6, InsideLock
  <1>11. CASE BakSync(s)
    <2>1. \A t \in Sessions \ {s} : Idles(t)
      BY <1>1, <1>11 DEF BakSync, SyncDirectory, Goto, TypeOK, Idles
    <2>2. /\ pc'[s] = "mainTemp" /\ pc[s] = "bakSync"
          /\ durable' = IF DirSync THEN files ELSE durable
          /\ UNCHANGED <<files, dirty, lock, call, previous, temp, reply, acked>>
      BY <1>1, <1>11 DEF BakSync, SyncDirectory, Goto, TypeOK
    <2>3. CallInv(s)'
      BY <1>1, <1>4, <2>2 DEF SaveSteps, RecoverSteps, MainSteps, Checked
    <2>4. pc'[s] \in Critical /\ DirectoryHolds(files)' /\ (DirSync => DirectoryHolds(durable)')
      BY <1>2, <1>3, <2>2 DEF MainSteps, DirectoryHolds
    <2> QED
      BY <1>1, <1>2, <1>4, <2>1, <2>2, <2>3, <2>4, InsideLock
  <1> QED
    BY <1>6, <1>7, <1>8, <1>9, <1>10, <1>11 DEF SaveStep

\* The steps of a recovery before it writes the vault file.
LEMMA RecoverStepsKeepIndInv ==
  ASSUME IndInv, NEW s \in Sessions, RecoverStep(s)
  PROVE  IndInv'
  <1> USE DEF directory, calls, ghosts, CallInv, CallWellFormed, SaveIsIsolated, RecoveryIsVerified,
              WritesReachDisk, IsSave
  <1>1. TypeOK /\ TypeOK' /\ CallInv(s)
    BY TypeCallStep DEF IndInv, CallStep
  <1>2. pc[s] \in RecoverSteps /\ pc[s] \in Critical /\ ~IsSave(s) /\ reply[s] # "ok"
    BY <1>1 DEF RecoverStep, VerifyBackup, RetainDamaged, RecoverSteps, Critical
  \* No file that IndInv speaks of changes.
  <1>3. ASSUME \A t \in Sessions \ {s} : Idles(t), pc'[s] \in Critical, CallInv(s)',
               UNCHANGED <<files, dirty, durable, lock, acked>>
        PROVE  IndInv'
    BY <1>1, <1>2, <1>3, InsideLock DEF IndInv, DirectoryHolds
  <1>4. CASE VerifyBackup(s)
    <2>1. \A t \in Sessions \ {s} : Idles(t)
      BY <1>1, <1>4 DEF VerifyBackup, Finish, Goto, TypeOK, Idles
    <2>2. \/ /\ files["bak"] \in Vaults
             /\ call'[s] = Recovery(files["bak"])
             /\ pc'[s] = "retain"
             /\ reply' = reply
          \/ pc'[s] = "release" /\ reply'[s] = "not_verified" /\ call' = call
      BY <1>1, <1>4 DEF VerifyBackup, Finish, Goto, TypeOK
    <2>3. files' = files /\ previous' = previous /\ temp' = temp
      BY <1>4 DEF VerifyBackup
    <2>4. CallInv(s)'
      BY <1>1, <1>2, <2>2, <2>3 DEF Recovery, SaveSteps, RecoverSteps, MainSteps, Checked
    <2>5. pc'[s] \in Critical
      BY <2>2 DEF Critical, RecoverSteps
    <2> QED
      BY <1>3, <1>4, <2>1, <2>4, <2>5 DEF VerifyBackup
  <1>5. CASE RetainDamaged(s)
    <2>1. \A t \in Sessions \ {s} : Idles(t)
      BY <1>1, <1>5 DEF RetainDamaged, Goto, TypeOK, Idles
    <2>2. pc[s] = "retain" /\ pc'[s] = "mainTemp" /\ UNCHANGED <<files, durable, call, temp, reply>>
      BY <1>1, <1>5 DEF RetainDamaged, Goto, TypeOK
    <2>3. CallInv(s)'
      BY <1>1, <1>2, <2>2 DEF SaveSteps, RecoverSteps, MainSteps, Checked
    <2>4. pc'[s] \in Critical
      BY <2>2 DEF Critical, MainSteps
    <2> QED
      BY <1>3, <1>5, <2>1, <2>3, <2>4 DEF RetainDamaged
  <1> QED
    BY <1>4, <1>5 DEF RecoverStep

\* The write of the vault file, by a save and by a recovery.
LEMMA MainStepsKeepIndInv ==
  ASSUME IndInv, NEW s \in Sessions, MainTemp(s) \/ MainRename(s) \/ MainSync(s)
  PROVE  IndInv'
  <1> USE DEF directory, calls, ghosts
  <1>1. TypeOK /\ TypeOK' /\ CallInv(s)
    BY TypeCallStep DEF IndInv, CallStep
  <1>2. DirectoryHolds(files) /\ (DirSync => DirectoryHolds(durable)) /\ dirty \subseteq {"legacy"}
    BY DEF IndInv
  <1>3. MainSteps \cup {"release"} \subseteq Critical
    BY DEF Critical
  <1>4. pc[s] \in MainSteps /\ pc[s] \in Critical /\ reply[s] # "ok"
        /\ call[s].expected \in Vaults \cup {Missing}
    BY <1>1, <1>3 DEF MainTemp, MainRename, MainSync, MainSteps, CallInv, CallWellFormed, TypeOK, Calls
  <1> USE DEF CallInv, CallWellFormed, SaveIsIsolated, RecoveryIsVerified, WritesReachDisk, IsSave
  <1>5. CASE MainTemp(s)
    <2>1. \A t \in Sessions \ {s} : Idles(t)
      BY <1>1, <1>5 DEF MainTemp, WriteTemp, Goto, TypeOK, Idles
    <2>2. /\ pc[s] = "mainTemp" /\ pc'[s] = "mainRename"
          /\ temp'[s].content = call[s].data /\ temp'[s].flushed
          /\ UNCHANGED <<files, dirty, durable, lock, call, previous, reply, acked>>
      BY <1>1, <1>5 DEF MainTemp, WriteTemp, Goto, TypeOK
    <2>3. CallInv(s)'
      BY <1>1, <1>4, <2>2 DEF SaveSteps, RecoverSteps, MainSteps, Checked
    <2>4. pc'[s] \in Critical /\ DirectoryHolds(files)' /\ (DirSync => DirectoryHolds(durable)')
      BY <1>2, <1>3, <2>2 DEF MainSteps, DirectoryHolds
    <2> QED
      BY <1>1, <1>2, <1>4, <2>1, <2>2, <2>3, <2>4, InsideLock
  <1>6. CASE MainRename(s)
    <2>1. \A t \in Sessions \ {s} : Idles(t)
      BY <1>1, <1>6 DEF MainRename, Rename, Goto, TypeOK, Idles
    <2>2. temp[s].content = call[s].data /\ temp[s].flushed /\ pc[s] = "mainRename"
      BY <1>1, <1>6 DEF MainRename
    <2>3. /\ pc'[s] = "mainSync"
          /\ files'["main"] = call[s].data /\ files'["bak"] = files["bak"]
          /\ dirty' \subseteq {"legacy"}
          /\ UNCHANGED <<durable, lock, call, previous, reply>>
      BY <1>1, <1>2, <1>6, <2>2 DEF MainRename, Rename, Goto, TypeOK, Names
    <2>4. call[s].data \in Vaults
      BY <1>1, <2>2
    <2>5. CallInv(s)'
      BY <1>1, <1>4, <2>2, <2>3 DEF SaveSteps, RecoverSteps, MainSteps, Checked
    \* A save adds to what the file held; a recovery gives up what .bak does not hold.
    <2>6. acked' \subseteq acked /\ acked' \subseteq UpdatesOf(call[s].data)
      <3>1. CASE IsSave(s)
        <4>1. files["main"] = call[s].expected
          BY <1>1, <2>2, <3>1 DEF Checked
        <4>2. acked \subseteq UpdatesOf(files["main"])
          BY <1>2, <1>4, <4>1, NotVaults DEF DirectoryHolds
        <4> QED
          BY <1>1, <1>6, <2>2, <2>4, <3>1, <4>1, <4>2 DEF MainRename, UpdatesOf
      <3>2. CASE ~IsSave(s)
        BY <1>6, <2>2, <3>2 DEF MainRename
      <3> QED
        BY <3>1, <3>2
    <2>7. DirectoryHolds(files)' /\ (DirSync => DirectoryHolds(durable)')
      BY <1>2, <2>3, <2>4, <2>6 DEF DirectoryHolds
    <2>8. pc'[s] \in Critical
      BY <1>3, <2>3 DEF MainSteps
    <2> QED
      BY <1>1, <1>4, <2>1, <2>3, <2>5, <2>7, <2>8, InsideLock
  <1>7. CASE MainSync(s)
    <2>1. \A t \in Sessions \ {s} : Idles(t)
      BY <1>1, <1>7 DEF MainSync, SyncDirectory, Finish, Goto, TypeOK, Idles
    <2>2. /\ pc[s] = "mainSync" /\ pc'[s] = "release" /\ reply'[s] = "ok"
          /\ durable' = IF DirSync THEN files ELSE durable
          /\ UNCHANGED <<files, dirty, lock, call, previous, temp, acked>>
      BY <1>1, <1>7 DEF MainSync, SyncDirectory, Finish, Goto, TypeOK
    <2>3. CallInv(s)'
      BY <1>1, <1>4, <2>2 DEF SaveSteps, RecoverSteps, MainSteps, Checked
    <2>4. pc'[s] \in Critical /\ DirectoryHolds(files)' /\ (DirSync => DirectoryHolds(durable)')
      BY <1>2, <1>3, <2>2 DEF DirectoryHolds
    <2> QED
      BY <1>1, <1>2, <1>4, <2>1, <2>2, <2>3, <2>4, InsideLock
  <1> QED
    BY <1>5, <1>6, <1>7

\* Faults of one session, and an operator's repair.
LEMMA SessionFaultKeepsIndInv ==
  ASSUME IndInv, NEW s \in Sessions, SessionFault(s)
  PROVE  IndInv'
  <1> USE DEF directory, calls, ghosts
  <1>1. TypeOK /\ TypeOK' /\ OneWriter /\ CallInv(s)
    BY TypeFault DEF IndInv
  <1>2. Free \notin Sessions /\ Stale \notin Sessions
    BY StorageAssumption
  <1>3. "idle" \notin Critical /\ "lock" \notin Critical /\ "release" \in Critical /\ "legacyWrite" \in Critical
    BY DEF Critical, SaveSteps, RecoverSteps, MainSteps
  <1>4. CASE Crash(s)
    <2>1. CallInv(s)' /\ pc'[s] = "idle" /\ \A t \in Sessions \ {s} : Idles(t)
      BY <1>1, <1>4, Settles DEF Crash
    <2>2. OneWriter'
      BY <1>1, <1>2, <1>3, <1>4, <2>1 DEF Crash, OneWriter, Idles
    <2> QED
      BY <1>1, <1>4, <2>1, <2>2, NothingWritten DEF Crash
  <1>5. CASE LockError(s)
    <2>1. CallInv(s)' /\ pc'[s] = "idle" /\ \A t \in Sessions \ {s} : Idles(t)
      BY <1>1, <1>5, Settles DEF LockError
    <2>2. OneWriter'
      BY <1>1, <1>2, <1>3, <1>5, <2>1 DEF LockError, OneWriter, Idles
    <2> QED
      BY <1>1, <1>5, <2>1, <2>2, NothingWritten DEF LockError
  <1>6. CASE ReleaseError(s)
    <2>1. CallInv(s)' /\ pc'[s] = "idle" /\ \A t \in Sessions \ {s} : Idles(t)
      BY <1>1, <1>6, Settles DEF ReleaseError
    <2>2. OneWriter'
      BY <1>1, <1>2, <1>3, <1>6, <2>1 DEF ReleaseError, OneWriter, Idles
    <2> QED
      BY <1>1, <1>6, <2>1, <2>2, NothingWritten DEF ReleaseError
  \* A failed step has nothing left to rely on.
  <1>7. ASSUME pc'[s] = "release", reply'[s] = "error", call' = call, pc[s] \in Critical \ {"release"}
        PROVE  CallInv(s)'
    BY <1>1, <1>7 DEF CallInv, CallWellFormed, SaveIsIsolated, RecoveryIsVerified, WritesReachDisk,
                 IsSave, SaveSteps, RecoverSteps, MainSteps, Checked, Critical
  <1>8. CASE StepError(s)
    <2>1. pc'[s] = "release" /\ reply'[s] = "error" /\ call' = call /\ \A t \in Sessions \ {s} : Idles(t)
      BY <1>1, <1>8 DEF StepError, Finish, Goto, TypeOK, Idles
    <2>2. OneWriter' /\ CallInv(s)'
      BY <1>1, <1>3, <1>7, <1>8, <2>1 DEF StepError, OneWriter, Idles
    <2> QED
      BY <1>1, <1>8, <2>1, <2>2, NothingWritten DEF StepError
  <1>9. ASSUME files'["main"] = files["main"], files'["bak"] = files["bak"], UNCHANGED <<durable, acked>>
        PROVE  DirectoryHolds(files)' /\ (DirSync => DirectoryHolds(durable)')
    BY <1>9 DEF IndInv, DirectoryHolds
  <1>10. CASE LegacyError(s)
    <2>1. pc'[s] = "release" /\ reply'[s] = "error" /\ call' = call /\ \A t \in Sessions \ {s} : Idles(t)
      BY <1>1, <1>10 DEF LegacyError, Finish, Goto, TypeOK, Idles
    <2>2. files'["main"] = files["main"] /\ files'["bak"] = files["bak"]
      BY <1>1, <1>10 DEF LegacyError, TypeOK, Names
    <2>3. CallInv(s)' /\ pc[s] \in Critical /\ pc'[s] \in Critical
      BY <1>3, <1>7, <1>10, <2>1 DEF LegacyError
    <2>4. dirty' \subseteq {"legacy"}
      BY <1>10 DEF LegacyError, IndInv
    <2> QED
      BY <1>1, <1>9, <1>10, <2>1, <2>2, <2>3, <2>4, InsideLock DEF LegacyError
  <1>11. CASE LegacyCrash(s)
    <2>1. CallInv(s)' /\ pc'[s] = "idle" /\ \A t \in Sessions \ {s} : Idles(t)
      BY <1>1, <1>11, Settles DEF LegacyCrash
    <2>2. files'["main"] = files["main"] /\ files'["bak"] = files["bak"] /\ dirty' = dirty
      BY <1>1, <1>11 DEF LegacyCrash, TypeOK, Names
    <2>3. OneWriter'
      BY <1>1, <1>2, <1>3, <1>11, <2>1 DEF LegacyCrash, OneWriter, Idles
    <2>4. ASSUME NEW t \in Sessions, t # s PROVE CallInv(t)'
      BY <1>3, <1>11, <2>1, <2>4, OtherCalls, Exclusion DEF LegacyCrash
    <2> QED
      BY <1>1, <1>9, <1>11, <2>1, <2>2, <2>3, <2>4 DEF LegacyCrash, IndInv
  <1> QED
    BY <1>4, <1>5, <1>6, <1>8, <1>10, <1>11 DEF SessionFault

\* The operator, damage from outside and the loss of power.
LEMMA EnvironmentKeepsIndInv ==
  ASSUME IndInv, Environment
  PROVE  IndInv'
  <1> USE DEF directory, calls, ghosts
  <1>1. TypeOK /\ TypeOK' /\ OneWriter
    BY TypeFault DEF IndInv
  <1>2. Free \notin Sessions /\ Stale \notin Sessions
    BY StorageAssumption
  <1>3. CASE RemoveStaleLock
    <2>1. OneWriter' /\ \A t \in Sessions : Idles(t)
      BY <1>1, <1>2, <1>3 DEF RemoveStaleLock, OneWriter, Idles
    <2>2. \A t \in Sessions : CallInv(t)'
      BY <1>3, <2>1, OtherCalls DEF RemoveStaleLock
    <2>3. DirectoryHolds(files)' /\ (DirSync => DirectoryHolds(durable)') /\ dirty' \subseteq {"legacy"}
      BY <1>3 DEF RemoveStaleLock, IndInv, DirectoryHolds
    <2> QED
      BY <1>1, <2>1, <2>2, <2>3 DEF IndInv
  <1>4. ASSUME NEW name \in {"main", "bak"}, Damage(name) PROVE IndInv'
    <2>1. OneWriter' /\ \A t \in Sessions : Idles(t) /\ pc[t] \notin Critical
      BY <1>1, <1>4 DEF Damage, OneWriter, Idles
    <2>2. \A t \in Sessions : CallInv(t)'
      BY <2>1, OtherCalls
    <2>3. \A n \in {"main", "bak"} : files'[n] \in {files[n], Corrupt} /\ durable'[n] \in {durable[n], Corrupt}
      BY <1>1, <1>4 DEF Damage, TypeOK, Names
    <2>4. DirectoryHolds(files)'
      BY <1>4, <2>3, NotVaults DEF Damage, IndInv, DirectoryHolds
    <2>5. ASSUME DirSync PROVE DirectoryHolds(durable)'
      BY <1>4, <2>3, <2>5, NotVaults DEF Damage, IndInv, DirectoryHolds
    <2> QED
      BY <1>1, <1>4, <2>1, <2>2, <2>4, <2>5 DEF Damage, IndInv
  <1>5. CASE PowerLoss
    <2>1. DirSync /\ DirectoryHolds(files) /\ DirectoryHolds(durable) /\ dirty \subseteq {"legacy"}
      BY <1>5, StorageAssumption DEF PowerLoss, Fault, IndInv
    <2>2. OneWriter' /\ \A t \in Sessions : CallInv(t)'
      <3>1. \A t \in Sessions : pc'[t] = "idle" /\ call'[t] = NoCall /\ reply'[t] = "none"
        BY <1>5 DEF PowerLoss
      <3>2. lock' \notin Sessions /\ "idle" \notin Critical
        BY <1>2, <1>5 DEF PowerLoss, Critical, SaveSteps, RecoverSteps, MainSteps
      <3> QED
        BY <3>1, <3>2, NoCallInv DEF OneWriter
    <2>3. files'["main"] \in {durable["main"], files["main"]} /\ files'["bak"] \in {durable["bak"], files["bak"]}
      BY <1>5, <2>1 DEF PowerLoss, Survivors, Names
    <2>4. DirectoryHolds(files)'
      BY <1>5, <2>1, <2>3 DEF PowerLoss, DirectoryHolds
    <2>5. DirectoryHolds(durable)'
      BY <1>5, <2>4 DEF PowerLoss, DirectoryHolds
    <2> QED
      BY <1>1, <1>5, <2>2, <2>4, <2>5 DEF PowerLoss, IndInv
  <1> QED
    BY <1>3, <1>4, <1>5 DEF Environment

\* IndInv is inductive.
LEMMA IndInvNext == IndInv /\ [Next]_vars => IndInv'
  <1> SUFFICES ASSUME IndInv, [Next]_vars PROVE IndInv'
    OBVIOUS
  <1>1. CASE UNCHANGED vars
    <2> USE <1>1 DEF vars, directory, calls, ghosts
    <2>1. TypeOK'
      BY TypeNext DEF IndInv
    <2>2. OneWriter' /\ \A t \in Sessions : Idles(t)
      BY DEF IndInv, OneWriter, Idles
    <2>3. \A t \in Sessions : CallInv(t)'
      BY <2>2, OtherCalls
    <2>4. DirectoryHolds(files)' /\ (DirSync => DirectoryHolds(durable)') /\ dirty' \subseteq {"legacy"}
      BY DEF IndInv, DirectoryHolds
    <2> QED
      BY <2>1, <2>2, <2>3, <2>4 DEF IndInv
  <1>2. CASE Next
    BY <1>2, RequestKeepsIndInv, LockStepsKeepIndInv, SaveStepsKeepIndInv, RecoverStepsKeepIndInv,
       MainStepsKeepIndInv, SessionFaultKeepsIndInv, EnvironmentKeepsIndInv DEF Next, CallStep
  <1> QED
    BY <1>1, <1>2

\* The inductive invariant holds of every behaviour.
LEMMA IndInvHolds == Spec => []IndInv
  BY IndInvInit, IndInvNext, PTL DEF Spec

--------------------------------------------------------------------------------
(* What it gives. *)

\* The lock directory admits one writer at a time, through every crash, failed
\* removal, deadline and repair.
THEOREM MutualExclusion == Spec => []OneWriter
  <1>1. IndInv => OneWriter
    BY DEF IndInv
  <1> QED
    BY <1>1, IndInvHolds, PTL

\* No rewrite whose save() resolved is lost from a vault file that still decodes.
THEOREM AcknowledgedWritesKept == Spec => []NoLostUpdate
  <1>1. IndInv => NoLostUpdate
    BY NotVaults DEF IndInv, DirectoryHolds, NoLostUpdate, UpdatesOf
  <1> QED
    BY <1>1, IndInvHolds, PTL

\* The rolling backup misses at most one acknowledged rewrite.
THEOREM BackupMissesAtMostOne == Spec => []BackupIsRecent
  <1>1. IndInv => BackupIsRecent
    BY DEF IndInv, DirectoryHolds, BackupIsRecent, UpdatesOf
  <1> QED
    BY <1>1, IndInvHolds, PTL

\* Neither the vault file nor its backup is ever half written.
THEOREM ReplacementIsAtomic == Spec => []NeverTorn
  <1>1. IndInv => NeverTorn
    BY NotVaults DEF IndInv, DirectoryHolds, NeverTorn
  <1> QED
    BY <1>1, IndInvHolds, PTL

--------------------------------------------------------------------------------
(* Where a step takes contents from. *)

\* A step of s moves contents that s or everybody can use; only the operator, a
\* fault and s itself write files.
Flow(s) ==
  /\ \A n \in Names : files'[n] \in {files[n], temp[s].content, previous[s], Torn}
  /\ \A n \in Names : durable'[n] \in {durable[n], files[n]}
  /\ \A t \in Sessions \ {s} : Idles(t) /\ view'[t] = view[t]
  /\ view'[s] \in {view[s], call[s].data, files["main"], Missing}
  /\ previous'[s] \in {previous[s], files["main"], Missing}
  /\ temp'[s].content \in {temp[s].content, previous[s], call[s].data, Missing}
  /\ call'[s] \in {call[s], NoCall, Recovery(Missing), Recovery(files["bak"])}
  /\ nextUpdate' = nextUpdate

LEMMA CallStepFlow == ASSUME TypeOK, NEW s \in Sessions, CallStep(s) PROVE Flow(s)
  <1> USE DEF directory, calls, ghosts, TypeOK, Flow, Idles, Goto
  <1>1. CASE MakeLock(s) \/ WriteOwner(s)
    BY <1>1 DEF MakeLock, WriteOwner
  <1>2. CASE LockBusy(s)
    BY <1>2 DEF LockBusy, Settle, NoTemp
  <1>3. CASE Release(s)
    BY <1>3 DEF Release, Settle, NoTemp, Adopted
  <1>4. CASE ReadPrevious(s)
    BY <1>4 DEF ReadPrevious, Finish, Names
  <1>5. CASE OpenLegacy(s)
    BY <1>5 DEF OpenLegacy, Finish, Names
  <1>6. CASE WriteLegacy(s)
    BY <1>6 DEF WriteLegacy, Names
  <1>7. CASE BakTemp(s) \/ MainTemp(s)
    BY <1>7 DEF BakTemp, MainTemp, WriteTemp
  <1>8. CASE BakRename(s) \/ MainRename(s)
    BY <1>8 DEF BakRename, MainRename, Rename, NoTemp, Names
  <1>9. CASE BakSync(s) \/ MainSync(s)
    BY <1>9 DEF BakSync, MainSync, SyncDirectory, Finish
  <1>10. CASE VerifyBackup(s)
    BY <1>10 DEF VerifyBackup, Finish
  <1>11. CASE RetainDamaged(s)
    BY <1>11 DEF RetainDamaged
  <1> QED
    BY <1>1, <1>2, <1>3, <1>4, <1>5, <1>6, <1>7, <1>8, <1>9, <1>10, <1>11 DEF CallStep, SaveStep, RecoverStep

LEMMA FaultFlow == ASSUME TypeOK, NEW s \in Sessions, SessionFault(s) PROVE Flow(s)
  <1> USE DEF directory, calls, ghosts, TypeOK, Flow, Idles, Goto, Fault
  <1>1. CASE Crash(s) \/ LockError(s) \/ ReleaseError(s)
    BY <1>1 DEF Crash, LockError, ReleaseError, Settle, NoTemp, NoView
  <1>2. CASE StepError(s)
    BY <1>2 DEF StepError, Finish, NoTemp
  <1>3. CASE LegacyError(s)
    BY <1>3 DEF LegacyError, Finish, Names
  <1>4. CASE LegacyCrash(s)
    BY <1>4 DEF LegacyCrash, Settle, NoTemp, NoView, Names
  <1> QED
    BY <1>1, <1>2, <1>3, <1>4 DEF SessionFault

LEMMA RequestFlow ==
  ASSUME TypeOK, NEW s \in Sessions, Unlock(s) \/ BeginRecover(s)
  PROVE  Flow(s)
  <1> USE DEF directory, calls, ghosts, TypeOK, Flow, Idles
  <1>1. CASE Unlock(s)
    BY <1>1 DEF Unlock, NoView
  <1>2. CASE BeginRecover(s)
    BY <1>2 DEF BeginRecover, Begin, NoView
  <1> QED
    BY <1>1, <1>2

\* A save begins: it carries the content it expects with the next rewrite.
SaveBegins(s) ==
  /\ pc[s] = "idle" /\ pc'[s] = "lock" /\ IsSave(s)' /\ UNCHANGED <<directory, lock, previous, temp, reply, ghosts>>
  /\ \A t \in Sessions \ {s} : Idles(t) /\ view'[t] = view[t]
  /\ view'[s] \in {view[s], Missing}
  /\ call'[s].expected \in {view[s], Missing}
  /\ nextUpdate \in Writes /\ nextUpdate' = nextUpdate + 1
  /\ call'[s].update = nextUpdate
  /\ \/ call'[s].data = Seal(call'[s].expected, nextUpdate)
     \/ call'[s].expected = Missing /\ call'[s].data = [version |-> 1, updates |-> {nextUpdate}]

LEMMA BeginFlow ==
  ASSUME TypeOK, NEW s \in Sessions, BeginCreate(s) \/ BeginUpdate(s) \/ BeginExport(s)
  PROVE  SaveBegins(s)
  <1> USE DEF directory, calls, ghosts, TypeOK, SaveBegins, Idles, BeginSave, Begin, IsSave
  <1>1. CASE BeginCreate(s)
    BY <1>1 DEF BeginCreate, NoView
  <1>2. CASE BeginUpdate(s)
    BY <1>2 DEF BeginUpdate
  <1>3. CASE BeginExport(s)
    <2>1. PICK v \in Versions : BeginSave(s, "export", [version |-> v, updates |-> {nextUpdate}], Missing)
      BY <1>3 DEF BeginExport
    <2>2. Seal(Missing, nextUpdate) = [version |-> 2, updates |-> {nextUpdate}]
      BY NotVaults DEF Seal, UpdatesOf
    <2> QED
      BY <1>3, <2>1, <2>2 DEF BeginExport, Versions
  <1> QED
    BY <1>1, <1>2, <1>3

\* The operator and the faults of the whole system.
WorldMoves ==
  /\ \A n \in Names : {files'[n], durable'[n]} \subseteq {files[n], durable[n], Torn, Corrupt}
  /\ UNCHANGED <<nextUpdate, acked, refused>>
  /\ \/ UNCHANGED <<pc, call, previous, temp, reply, view>>
     \/ \A t \in Sessions :
           /\ pc'[t] = "idle" /\ call'[t] = NoCall /\ previous'[t] = Missing /\ temp'[t] = NoTemp
           /\ reply'[t] = "none" /\ view'[t] = Missing

LEMMA EnvironmentFlow == ASSUME TypeOK, Environment PROVE WorldMoves
  <1> USE DEF directory, calls, ghosts, TypeOK, WorldMoves, Fault
  <1>1. CASE RemoveStaleLock
    BY <1>1 DEF RemoveStaleLock
  <1>2. ASSUME NEW name \in {"main", "bak"}, Damage(name) PROVE WorldMoves
    BY <1>2 DEF Damage, Names
  <1>3. CASE PowerLoss
    <2>1. \A n \in Names : files'[n] \in {files[n], durable[n], Torn} /\ durable'[n] = files'[n]
      BY <1>3 DEF PowerLoss, Survivors
    <2> QED
      BY <1>3, <2>1 DEF PowerLoss, NoView
  <1> QED
    BY <1>1, <1>2, <1>3 DEF Environment

--------------------------------------------------------------------------------
(* The contents in use. *)

LEMMA Sharing ==
  /\ \A n \in Names : files[n] \in Shared /\ durable[n] \in Shared
  /\ \A t \in Sessions : view[t] \in Shared /\ previous[t] \in Shared /\ call[t].expected \in Shared
  /\ \A t \in Sessions : call[t].data \in Held /\ temp[t].content \in Held
  /\ Shared \subseteq Held
  BY DEF Shared, Held, Carried

\* One of the contents in use after a step.
LEMMA SharedNext ==
  ASSUME NEW c \in Shared'
  PROVE  \/ \E n \in Names : c = files'[n] \/ c = durable'[n]
         \/ \E t \in Sessions : c = view'[t] \/ c = previous'[t] \/ c = call'[t].expected
  BY DEF Shared

LEMMA CarriedNext ==
  ASSUME NEW c, NEW S \in SUBSET Sessions, c \in (UNION {Carried(t) : t \in S})'
  PROVE  \E t \in S : c = call'[t].data \/ c = temp'[t].content
  BY DEF Carried

\* Contents without rewrites.
Empty == {Missing, Torn, Corrupt}

LEMMA EmptyHasNone == \A c \in Empty : UpdatesOf(c) = {}
  BY NotVaults DEF Empty, UpdatesOf

LEMMA FlowHolds == ASSUME NEW s \in Sessions, Flow(s) PROVE Held' \subseteq Held \cup Empty
  <1>1. ASSUME NEW c \in Shared' PROVE c \in Held \cup Empty
    <2>1. CASE \E n \in Names : c = files'[n] \/ c = durable'[n]
      BY <2>1, Sharing DEF Flow, Empty
    <2>2. CASE \E t \in Sessions : c = view'[t] \/ c = previous'[t] \/ c = call'[t].expected
      BY <2>2, Sharing DEF Flow, Idles, NoCall, Recovery, Empty, Names
    <2> QED
      BY <2>1, <2>2, SharedNext
  <1>2. ASSUME NEW c \in (UNION {Carried(t) : t \in Sessions})' PROVE c \in Held \cup Empty
    <2>1. PICK t \in Sessions : c = call'[t].data \/ c = temp'[t].content
      BY <1>2, CarriedNext
    <2> QED
      BY <2>1, Sharing DEF Flow, Idles, NoCall, Recovery, Empty, Names
  <1> QED
    BY <1>1, <1>2 DEF Held

LEMMA WorldHolds == ASSUME WorldMoves PROVE Held' \subseteq Held \cup Empty
  <1>1. ASSUME NEW c \in Shared' PROVE c \in Held \cup Empty
    <2>1. CASE \E n \in Names : c = files'[n] \/ c = durable'[n]
      BY <2>1, Sharing DEF WorldMoves, Empty
    <2>2. CASE \E t \in Sessions : c = view'[t] \/ c = previous'[t] \/ c = call'[t].expected
      BY <2>2, Sharing DEF WorldMoves, NoCall, Empty
    <2> QED
      BY <2>1, <2>2, SharedNext
  <1>2. ASSUME NEW c \in (UNION {Carried(t) : t \in Sessions})' PROVE c \in Held \cup Empty
    <2>1. PICK t \in Sessions : c = call'[t].data \/ c = temp'[t].content
      BY <1>2, CarriedNext
    <2> QED
      BY <2>1, Sharing DEF WorldMoves, NoCall, NoTemp, Empty
  <1> QED
    BY <1>1, <1>2 DEF Held

--------------------------------------------------------------------------------
(* How far a step takes its call. *)

\* The call is refused: nothing of it is left.
Refuses(s) ==
  /\ Unwritten(s) /\ pc[s] # "idle" /\ pc'[s] = "idle" /\ call'[s] = NoCall /\ temp'[s] = NoTemp
  /\ files' = files /\ view'[s] = view[s]
  /\ refused' = refused \cup ({call[s].update} \ {0})

Progress(s) ==
  /\ refused' = refused \/ Refuses(s)
  /\ damaged \subseteq damaged'
  /\ pc[s] \notin Critical => files' = files
  /\ IsSave(s)' /\ pc'[s] # "idle" => pc[s] # "idle" /\ call'[s] = call[s]
  /\ IsSave(s)' /\ Unwritten(s)' =>
        /\ Unwritten(s) /\ view'[s] = view[s]
        /\ \A n \in Names : files'[n] \in {files[n], previous[s], Torn}
  /\ ~IsSave(s)' /\ pc'[s] \in {"mainTemp", "mainRename"} =>
        /\ files'["main"] = files["main"]
        /\ files["main"] \in damaged' \cup {Missing} \/ (~IsSave(s) /\ pc[s] = "mainTemp")

\* What a step of s leaves of LegacyIsDone.
LegacyProgress(s) ==
  /\ pc'[s] = "legacyWrite" => files'["legacy"] = Torn
  /\ Migrates(s)' /\ pc'[s] \in Checked \ {"legacy", "legacyWrite"} => files'["legacy"] = previous'[s]

LEMMA CallStepProgress == ASSUME IndInv, NEW s \in Sessions, CallStep(s) PROVE Progress(s)
  <1>1. TypeOK /\ CallInv(s)
    BY DEF IndInv
  <1> USE DEF directory, calls, ghosts, TypeOK, Progress, Goto, IsSave, Unwritten, NoCall, Checked, Critical,
              SaveSteps, RecoverSteps, MainSteps
  <1>2. CASE MakeLock(s) \/ WriteOwner(s)
    BY <1>1, <1>2 DEF MakeLock, WriteOwner
  <1>3. CASE LockBusy(s)
    <2>1. pc[s] = "lock" /\ pc'[s] = "idle" /\ call'[s] = NoCall /\ temp'[s] = NoTemp /\ reply'[s] = "none"
          /\ refused' = refused \cup ({call[s].update} \ {0}) /\ UNCHANGED <<files, damaged, view>>
      BY <1>1, <1>3 DEF LockBusy, Settle
    <2> QED
      BY <2>1 DEF Refuses
  <1>4. CASE Release(s)
    <2>1. pc[s] = "release" /\ pc'[s] = "idle" /\ call'[s] = NoCall /\ temp'[s] = NoTemp /\ reply'[s] = "none"
          /\ UNCHANGED directory
      BY <1>1, <1>4 DEF Release, Settle
    <2>2. CASE reply[s] \in Refusals
      <3>1. view'[s] = view[s]
        BY <1>1, <1>4, <2>2 DEF Release, Adopted, Refusals
      <3>2. refused' = refused \cup ({call[s].update} \ {0})
        BY <1>4, <2>2 DEF Release
      <3> QED
        BY <2>1, <2>2, <3>1, <3>2 DEF Refuses
    <2>3. CASE reply[s] \notin Refusals
      <3>1. refused' = refused
        BY <1>4, <2>3 DEF Release
      <3> QED
        BY <2>1, <3>1
    <2> QED
      BY <2>2, <2>3
  <1>5. CASE ReadPrevious(s)
    <2>1. IsSave(s)
      BY <1>1, <1>5 DEF ReadPrevious, CallInv, CallWellFormed
    <2>2. /\ pc[s] = "read" /\ UNCHANGED <<files, damaged, refused, call, view>>
          /\ \/ pc'[s] \in {"mainTemp", "legacy", "bakTemp"} /\ reply' = reply
             \/ pc'[s] = "release" /\ reply'[s] = "storage_conflict"
      BY <1>1, <1>5 DEF ReadPrevious, Finish
    <2> QED
      BY <2>1, <2>2
  <1>6. CASE OpenLegacy(s)
    <2>1. IsSave(s)
      BY <1>1, <1>6 DEF OpenLegacy, CallInv, CallWellFormed
    <2>2. /\ pc[s] = "legacy" /\ UNCHANGED <<damaged, refused, call, view>>
          /\ \A n \in Names : files'[n] \in {files[n], Torn}
          /\ \/ pc'[s] \in {"legacyWrite", "bakTemp"} /\ reply' = reply
             \/ pc'[s] = "release" /\ reply'[s] = "legacy_backup_conflict"
      BY <1>1, <1>6 DEF OpenLegacy, Finish, Names
    <2> QED
      BY <2>1, <2>2
  <1>7. CASE WriteLegacy(s)
    BY <1>1, <1>7 DEF WriteLegacy, Names
  <1>8. CASE BakTemp(s) \/ MainTemp(s)
    BY <1>1, <1>8 DEF BakTemp, MainTemp, WriteTemp, CallInv, CallWellFormed
  <1>9. CASE BakRename(s)
    <2>1. temp[s].content = previous[s] /\ IsSave(s)
      BY <1>1, <1>9 DEF BakRename, CallInv, WritesReachDisk, CallWellFormed
    <2> QED
      BY <1>1, <1>9, <2>1 DEF BakRename, Rename, Names
  <1>10. CASE MainRename(s)
    BY <1>1, <1>10 DEF MainRename, Rename, Names
  <1>11. CASE BakSync(s) \/ MainSync(s)
    BY <1>1, <1>11 DEF BakSync, MainSync, SyncDirectory, Finish, Refusals, CallInv, CallWellFormed
  <1>12. CASE VerifyBackup(s)
    BY <1>1, <1>12 DEF VerifyBackup, Finish, Recovery, Refusals, CallInv, CallWellFormed
  <1>13. CASE RetainDamaged(s)
    <2>1. ~IsSave(s)
      BY <1>1, <1>13 DEF RetainDamaged, CallInv, CallWellFormed
    <2>2. /\ pc[s] = "retain" /\ pc'[s] = "mainTemp" /\ UNCHANGED <<files, refused, call>>
          /\ damaged' = damaged \cup ({files["main"]} \ {Missing})
      BY <1>1, <1>13 DEF RetainDamaged
    <2> QED
      BY <2>1, <2>2
  <1> QED
    BY <1>2, <1>3, <1>4, <1>5, <1>6, <1>7, <1>8, <1>9, <1>10, <1>11, <1>12, <1>13 DEF CallStep, SaveStep, RecoverStep

LEMMA FaultProgress == ASSUME IndInv, NEW s \in Sessions, SessionFault(s) PROVE Progress(s)
  <1>1. TypeOK
    BY DEF IndInv
  <1> USE DEF directory, calls, ghosts, TypeOK, Progress, Goto, Fault, IsSave, Unwritten, NoCall, Checked, Critical,
              SaveSteps, RecoverSteps, MainSteps
  <1>2. CASE Crash(s) \/ LockError(s) \/ ReleaseError(s)
    BY <1>1, <1>2 DEF Crash, LockError, ReleaseError, Settle
  <1>3. CASE StepError(s)
    BY <1>1, <1>3 DEF StepError, Finish, Refusals
  <1>4. CASE LegacyError(s)
    BY <1>1, <1>4 DEF LegacyError, Finish, Refusals, Names
  <1>5. CASE LegacyCrash(s)
    BY <1>1, <1>5 DEF LegacyCrash, Settle, Names
  <1> QED
    BY <1>2, <1>3, <1>4, <1>5 DEF SessionFault

LEMMA RequestProgress ==
  ASSUME IndInv, NEW s \in Sessions, Unlock(s) \/ BeginRecover(s)
  PROVE  Progress(s)
  <1>1. TypeOK
    BY DEF IndInv
  <1> USE DEF directory, calls, ghosts, TypeOK, Progress, IsSave, Unwritten, Checked
  <1>2. CASE Unlock(s)
    BY <1>1, <1>2 DEF Unlock
  <1>3. CASE BeginRecover(s)
    BY <1>1, <1>3 DEF BeginRecover, Begin, Recovery
  <1> QED
    BY <1>2, <1>3

LEMMA CallStepLegacy == ASSUME IndInv, LegacyIsDone, NEW s \in Sessions, CallStep(s) PROVE LegacyProgress(s)
  <1>1. TypeOK /\ CallInv(s)
    BY DEF IndInv
  <1>2. ASSUME pc'[s] \notin Checked PROVE LegacyProgress(s)
    BY <1>2 DEF LegacyProgress, Checked
  \* A step after the .v1-backup leaves it as it is.
  <1>3. ASSUME pc[s] \in Checked \ {"legacy", "legacyWrite"}, pc'[s] # "legacyWrite", files'["legacy"] = files["legacy"],
               call'[s] = call[s], previous'[s] = previous[s]
        PROVE  LegacyProgress(s)
    BY <1>3 DEF LegacyProgress, LegacyIsDone, Migrates, IsSave
  <1>4. CASE MakeLock(s) \/ WriteOwner(s) \/ LockBusy(s) \/ Release(s) \/ VerifyBackup(s) \/ MainRename(s) \/ MainSync(s)
    BY <1>1, <1>2, <1>4 DEF TypeOK, MakeLock, WriteOwner, LockBusy, Release, VerifyBackup, MainRename, MainSync,
                            Settle, Finish, Goto, Checked
  <1>5. CASE ReadPrevious(s)
    <2>1. /\ pc'[s] \in {"release", "mainTemp", "legacy", "bakTemp"} /\ previous'[s] = files["main"] /\ call' = call
          /\ pc'[s] = "mainTemp" => files["main"] = Missing
          /\ pc'[s] = "bakTemp" => ~(files["main"].version = 1 /\ call[s].data.version = 2)
      BY <1>1, <1>5 DEF TypeOK, ReadPrevious, Finish, Goto
    <2> QED
      BY <2>1, NotVaults DEF LegacyProgress, Migrates, Checked
  <1>6. CASE OpenLegacy(s)
    <2>1. /\ previous' = previous /\ pc'[s] \in {"release", "legacyWrite", "bakTemp"}
          /\ pc'[s] = "legacyWrite" => files'["legacy"] = Torn
          /\ pc'[s] = "bakTemp" => files'["legacy"] = previous[s]
      BY <1>1, <1>6 DEF TypeOK, OpenLegacy, Finish, Goto, Names
    <2> QED
      BY <2>1 DEF LegacyProgress, Checked
  <1>7. CASE WriteLegacy(s)
    <2>1. previous' = previous /\ pc'[s] = "bakTemp" /\ files'["legacy"] = previous[s]
      BY <1>1, <1>7 DEF TypeOK, WriteLegacy, Goto, Names, calls
    <2> QED
      BY <2>1 DEF LegacyProgress
  <1>8. CASE BakTemp(s) \/ MainTemp(s)
    BY <1>1, <1>3, <1>8 DEF TypeOK, BakTemp, MainTemp, WriteTemp, Goto, Checked, directory
  <1>9. CASE BakRename(s)
    BY <1>1, <1>3, <1>9 DEF TypeOK, BakRename, Rename, Goto, Checked, Names
  <1>10. CASE BakSync(s)
    BY <1>1, <1>3, <1>10 DEF TypeOK, BakSync, SyncDirectory, Goto, Checked
  <1>11. CASE RetainDamaged(s)
    <2>1. ~IsSave(s) /\ pc'[s] = "mainTemp" /\ call' = call
      BY <1>1, <1>11 DEF TypeOK, RetainDamaged, Goto, CallInv, CallWellFormed, RecoverSteps
    <2> QED
      BY <2>1 DEF LegacyProgress, Migrates, IsSave
  <1> QED
    BY <1>4, <1>5, <1>6, <1>7, <1>8, <1>9, <1>10, <1>11 DEF CallStep, SaveStep, RecoverStep

LEMMA OtherLegacy ==
  ASSUME IndInv, LegacyIsDone, NEW s \in Sessions, SessionFault(s) \/ Unlock(s) \/ BeginRecover(s)
  PROVE  LegacyProgress(s)
  <1>1. TypeOK
    BY DEF IndInv
  <1>2. pc'[s] \in {"idle", "release", "lock"}
    BY <1>1 DEF TypeOK, SessionFault, Crash, LockError, StepError, LegacyError, LegacyCrash, ReleaseError, Settle, Finish,
                Goto, Unlock, BeginRecover, Begin
  <1> QED
    BY <1>2 DEF LegacyProgress, Checked

--------------------------------------------------------------------------------
(* The invariants. *)

\* All contents in use but those that the call of t carries.
Elsewhere(t) == Shared \cup UNION {Carried(r) : r \in Sessions \ {t}}

LEMMA ElsewhereHeld ==
  ASSUME NEW t \in Sessions
  PROVE  /\ Elsewhere(t) \subseteq Held /\ Shared \subseteq Elsewhere(t)
         /\ \A r \in Sessions \ {t} : call[r].data \in Elsewhere(t) /\ temp[r].content \in Elsewhere(t)
  BY DEF Elsewhere, Held, Carried

\* A content elsewhere after a step.
LEMMA ElsewhereNext ==
  ASSUME NEW t \in Sessions, NEW c \in Elsewhere(t)'
  PROVE  \/ \E n \in Names : c = files'[n] \/ c = durable'[n]
         \/ \E r \in Sessions : c = view'[r] \/ c = previous'[r] \/ c = call'[r].expected
         \/ \E r \in Sessions \ {t} : c = call'[r].data \/ c = temp'[r].content
  <1>1. CASE c \in Shared'
    BY <1>1, SharedNext
  <1>2. CASE c \in (UNION {Carried(r) : r \in Sessions \ {t}})'
    <2>1. PICK r \in Sessions \ {t} : c \in Carried(r)'
      BY <1>2
    <2> QED
      BY <2>1 DEF Carried
  <1> QED
    BY <1>1, <1>2 DEF Elsewhere

\* The step of another call brings nothing of the call of t into use, ...
LEMMA OtherElsewhere ==
  ASSUME NEW s \in Sessions, NEW t \in Sessions \ {s}, Flow(s)
  PROVE  Elsewhere(t)' \subseteq Elsewhere(t) \cup Empty
  <1> SUFFICES ASSUME NEW c \in Elsewhere(t)' PROVE c \in Elsewhere(t) \cup Empty
    OBVIOUS
  <1>1. CASE \E n \in Names : c = files'[n] \/ c = durable'[n]
    BY <1>1, Sharing, ElsewhereHeld DEF Flow, Empty
  <1>2. CASE \E r \in Sessions : c = view'[r] \/ c = previous'[r] \/ c = call'[r].expected
    BY <1>2, Sharing, ElsewhereHeld DEF Flow, Idles, NoCall, Recovery, Empty, Names
  <1>3. CASE \E r \in Sessions \ {t} : c = call'[r].data \/ c = temp'[r].content
    BY <1>3, Sharing, ElsewhereHeld DEF Flow, Idles, NoCall, Recovery, Empty, Names
  <1> QED
    BY <1>1, <1>2, <1>3, ElsewhereNext

\* ... nor does a step of t itself that has written nothing, or that is refused.
LEMMA OwnElsewhere ==
  ASSUME NEW s \in Sessions, Flow(s), view'[s] = view[s], call'[s].expected \in {call[s].expected, Missing},
         \A n \in Names : files'[n] \in {files[n], previous[s], Torn}
  PROVE  Elsewhere(s)' \subseteq Elsewhere(s) \cup Empty
  <1> SUFFICES ASSUME NEW c \in Elsewhere(s)' PROVE c \in Elsewhere(s) \cup Empty
    OBVIOUS
  <1>1. CASE \E n \in Names : c = files'[n] \/ c = durable'[n]
    BY <1>1, Sharing, ElsewhereHeld DEF Flow, Empty
  <1>2. CASE \E r \in Sessions : c = view'[r] \/ c = previous'[r] \/ c = call'[r].expected
    BY <1>2, Sharing, ElsewhereHeld DEF Flow, Idles, Empty, Names
  <1>3. CASE \E r \in Sessions \ {s} : c = call'[r].data \/ c = temp'[r].content
    BY <1>3, Sharing, ElsewhereHeld DEF Flow, Idles
  <1> QED
    BY <1>1, <1>2, <1>3, ElsewhereNext

LEMMA WorldElsewhere ==
  ASSUME NEW t \in Sessions, WorldMoves
  PROVE  Elsewhere(t)' \subseteq Elsewhere(t) \cup Empty
  <1> SUFFICES ASSUME NEW c \in Elsewhere(t)' PROVE c \in Elsewhere(t) \cup Empty
    OBVIOUS
  <1>1. CASE \E n \in Names : c = files'[n] \/ c = durable'[n]
    BY <1>1, Sharing, ElsewhereHeld DEF WorldMoves, Empty
  <1>2. CASE \E r \in Sessions : c = view'[r] \/ c = previous'[r] \/ c = call'[r].expected
    BY <1>2, Sharing, ElsewhereHeld DEF WorldMoves, NoCall, Empty
  <1>3. CASE \E r \in Sessions \ {t} : c = call'[r].data \/ c = temp'[r].content
    BY <1>3, Sharing, ElsewhereHeld DEF WorldMoves, NoCall, NoTemp, Empty
  <1> QED
    BY <1>1, <1>2, <1>3, ElsewhereNext

\* The rewrite of a save is one, and the content it carries has it.
LEMMA SaveCarries ==
  ASSUME IndInv, Numbered, NEW s \in Sessions, IsSave(s), pc[s] # "idle"
  PROVE  /\ call[s].update \in Writes /\ call[s].update \in UpdatesOf(call[s].data)
         /\ call[s].data \in Held /\ call[s].update < nextUpdate
  <1>1. call[s].update \in Writes /\ call[s].data \in Vaults /\ call[s].update \in call[s].data.updates
    BY DEF IndInv, CallInv, CallWellFormed
  <1>2. call[s].update \in UpdatesOf(call[s].data) /\ call[s].data \in Held
    BY <1>1, Sharing DEF UpdatesOf
  <1> QED
    BY <1>1, <1>2 DEF Numbered

LEMMA HistoryInit == Init => HistoryInv
  <1> SUFFICES ASSUME Init PROVE HistoryInv
    OBVIOUS
  <1>1. \A n \in Names : UpdatesOf(files[n]) = {} /\ UpdatesOf(durable[n]) = {}
    BY NotVaults DEF Init, UpdatesOf, Original
  <1>2. \A t \in Sessions : /\ UpdatesOf(view[t]) = {} /\ UpdatesOf(previous[t]) = {} /\ UpdatesOf(call[t].expected) = {}
                            /\ UpdatesOf(call[t].data) = {} /\ UpdatesOf(temp[t].content) = {}
    BY NotVaults DEF Init, UpdatesOf, NoCall, NoTemp, NoView
  <1>3. \A c \in Held : UpdatesOf(c) = {}
    BY <1>1, <1>2 DEF Held, Shared, Carried
  <1>4. refused = {} /\ \A s \in Sessions : pc[s] = "idle" /\ reply[s] = "none" /\ IsSave(s)
    BY DEF Init, IsSave, NoCall
  <1>5. Numbered /\ ReplacedIsKept
    BY <1>3, <1>4 DEF Numbered, ReplacedIsKept
  <1>6. RewritesArePrivate
    BY <1>3, <1>4 DEF RewritesArePrivate, Unwritten, Checked
  <1>7. LegacyIsDone
    BY <1>4 DEF LegacyIsDone, Checked
  <1> QED
    BY <1>5, <1>6, <1>7 DEF HistoryInv

\* The step of one session.
LEMMA FlowKeeps ==
  ASSUME IndInv, HistoryInv, NEW s \in Sessions, Flow(s), Progress(s), LegacyProgress(s)
  PROVE  HistoryInv'
  <1>1. Numbered /\ RewritesArePrivate /\ ReplacedIsKept /\ LegacyIsDone
    BY DEF HistoryInv
  <1>2. /\ Refuses(s) /\ IsSave(s) => call[s].update \in Writes /\ call[s].update < nextUpdate
        /\ Refuses(s) /\ ~IsSave(s) => refused' = refused
    BY <1>1, SaveCarries DEF Refuses, IndInv, CallInv, CallWellFormed
  <1>3. Numbered'
    <2>1. \A c \in Held' : \A u \in UpdatesOf(c) : u < nextUpdate'
      BY <1>1, FlowHolds, EmptyHasNone DEF Numbered, Flow
    <2>2. \A u \in refused' : u < nextUpdate'
      BY <1>1, <1>2 DEF Numbered, Flow, Progress, Refuses
    <2>3. ASSUME NEW t \in Sessions, IsSave(t)', pc'[t] # "idle" PROVE call'[t] = call[t] /\ IsSave(t) /\ pc[t] # "idle"
      BY <2>3 DEF Flow, Progress, Idles, IsSave
    <2> QED
      BY <1>1, <2>1, <2>2, <2>3 DEF Numbered
  <1>4. RewritesArePrivate'
    <2>1. ASSUME NEW t \in Sessions, IsSave(t)', Unwritten(t)', NEW c \in Elsewhere(t)'
          PROVE  call'[t].update \notin UpdatesOf(c)
      <3>1. pc'[t] # "idle"
        BY <2>1 DEF Unwritten, Checked
      <3>2. IsSave(t) /\ Unwritten(t) /\ call'[t] = call[t]
        BY <2>1, <3>1 DEF Flow, Progress, Idles, IsSave, Unwritten
      <3>3. c \in Elsewhere(t) \cup Empty
        <4>1. CASE t = s
          <5>1. Elsewhere(s)' \subseteq Elsewhere(s) \cup Empty
            BY <2>1, <3>2, <4>1, OwnElsewhere DEF Progress
          <5> QED
            BY <2>1, <4>1, <5>1
        <4>2. CASE t # s
          BY <2>1, <4>2, OtherElsewhere
        <4> QED
          BY <4>1, <4>2
      <3> QED
        BY <1>1, <3>2, <3>3, EmptyHasNone DEF RewritesArePrivate, Elsewhere
    <2>2. ASSUME NEW c \in Held' PROVE refused' \cap UpdatesOf(c) = {}
      <3>1. CASE refused' = refused
        BY <1>1, <2>2, <3>1, FlowHolds, EmptyHasNone DEF RewritesArePrivate
      <3>2. CASE Refuses(s) /\ IsSave(s)
        <4>1. Elsewhere(s)' \subseteq Elsewhere(s) \cup Empty
          BY <3>2, OwnElsewhere DEF Refuses, NoCall
        <4>2. c \in Elsewhere(s)' \cup Empty
          <5>1. CASE c \in Shared'
            BY <5>1 DEF Elsewhere
          <5>2. CASE c \in (UNION {Carried(t) : t \in Sessions})'
            <6>1. PICK t \in Sessions : c \in Carried(t)'
              BY <5>2
            <6>2. t = s => c = Missing
              BY <3>2, <6>1 DEF Carried, Refuses, NoCall, NoTemp
            <6> QED
              BY <6>1, <6>2 DEF Elsewhere, Empty
          <5> QED
            BY <2>2, <5>1, <5>2 DEF Held
        <4>3. call[s].update \notin UpdatesOf(c)
          BY <1>1, <3>2, <4>1, <4>2, EmptyHasNone DEF RewritesArePrivate, Elsewhere, Refuses
        <4>4. refused \cap UpdatesOf(c) = {}
          BY <1>1, <2>2, FlowHolds, EmptyHasNone DEF RewritesArePrivate
        <4> QED
          BY <3>2, <4>3, <4>4 DEF Refuses
      <3> QED
        BY <1>2, <3>1, <3>2 DEF Progress
    <2> QED
      BY <2>1, <2>2 DEF RewritesArePrivate, Elsewhere
  <1>5. ReplacedIsKept'
    <2>1. ASSUME NEW t \in Sessions, ~IsSave(t)', pc'[t] \in {"mainTemp", "mainRename"}
          PROVE  files'["main"] \in damaged' \cup {Missing}
      <3>1. CASE t = s
        BY <1>1, <2>1, <3>1 DEF Progress, ReplacedIsKept
      <3>2. CASE t # s
        <4>1. ~IsSave(t) /\ pc[t] = pc'[t] /\ pc[t] \in Critical
          BY <2>1, <3>2 DEF Flow, Idles, IsSave, Critical, MainSteps
        <4>2. files' = files
          BY <3>2, <4>1, Exclusion DEF Progress
        <4> QED
          BY <1>1, <2>1, <4>1, <4>2 DEF Progress, ReplacedIsKept
      <3> QED
        BY <3>1, <3>2
    <2> QED
      BY <2>1 DEF ReplacedIsKept
  <1>6. LegacyIsDone'
    <2>1. ASSUME NEW t \in Sessions, t # s, pc'[t] \in Checked
          PROVE  pc'[t] = pc[t] /\ call'[t] = call[t] /\ previous'[t] = previous[t] /\ files' = files
      <3>1. pc[t] = pc'[t] /\ pc[t] \in Critical
        BY <2>1 DEF Flow, Idles, Critical, Checked, SaveSteps, MainSteps
      <3> QED
        BY <2>1, <3>1, Exclusion DEF Flow, Idles, Progress
    <2> QED
      BY <1>1, <2>1 DEF LegacyIsDone, LegacyProgress, Migrates, IsSave, Checked
  <1> QED
    BY <1>3, <1>4, <1>5, <1>6 DEF HistoryInv

\* A save begins with a number that no content has.
LEMMA BeginKeeps ==
  ASSUME IndInv, HistoryInv, NEW s \in Sessions, SaveBegins(s)
  PROVE  HistoryInv'
  <1>1. Numbered /\ RewritesArePrivate /\ ReplacedIsKept /\ LegacyIsDone
    BY DEF HistoryInv
  <1>2. UNCHANGED <<files, durable, damaged, previous, temp, refused>>
    BY DEF SaveBegins, directory, ghosts
  <1>3. nextUpdate \in Writes /\ nextUpdate \in Nat /\ nextUpdate' = nextUpdate + 1
    BY MaxWritesAssumption DEF SaveBegins, Writes
  <1> DEFINE d == call'[s].data
             x == call'[s].expected
  <1>4. x \in Shared \cup Empty /\ view'[s] \in Shared \cup Empty
    BY Sharing DEF SaveBegins, Empty
  <1>5. UpdatesOf(d) = UpdatesOf(x) \cup {nextUpdate}
    <2>1. CASE d = Seal(x, nextUpdate)
      BY <1>3, <2>1, SealType
    <2>2. CASE x = Missing /\ d = [version |-> 1, updates |-> {nextUpdate}]
      BY <1>3, <2>2, NotVaults DEF UpdatesOf, Vaults, Versions
    <2> QED
      BY <2>1, <2>2 DEF SaveBegins
  \* Everything in use is as before, or the new content.
  <1>6. ASSUME NEW t \in Sessions PROVE Elsewhere(t)' \subseteq Elsewhere(t) \cup Empty \cup (IF t = s THEN {} ELSE {d})
    <2> SUFFICES ASSUME NEW c \in Elsewhere(t)'
                 PROVE  c \in Elsewhere(t) \cup Empty \cup (IF t = s THEN {} ELSE {d})
      OBVIOUS
    <2>1. CASE \E n \in Names : c = files'[n] \/ c = durable'[n]
      BY <1>2, <2>1, Sharing, ElsewhereHeld
    <2>2. CASE \E r \in Sessions : c = view'[r] \/ c = previous'[r] \/ c = call'[r].expected
      BY <1>2, <1>4, <2>2, Sharing, ElsewhereHeld DEF SaveBegins, Idles
    <2>3. CASE \E r \in Sessions \ {t} : c = call'[r].data \/ c = temp'[r].content
      BY <1>2, <2>3, Sharing, ElsewhereHeld DEF SaveBegins, Idles
    <2> QED
      BY <2>1, <2>2, <2>3, ElsewhereNext
  <1>7. Held' \subseteq Held \cup Empty \cup {d}
    <2>1. Held' \subseteq Elsewhere(s)' \cup Carried(s)'
      BY DEF Held, Elsewhere
    <2>2. Carried(s)' \subseteq Held \cup {d}
      BY <1>2, Sharing DEF Carried
    <2> QED
      BY <1>6, <2>1, <2>2, ElsewhereHeld
  <1>8. \A c \in Held \cup Empty : \A u \in UpdatesOf(c) : u \in Nat /\ u < nextUpdate
    BY <1>1, UpdatesType, EmptyHasNone DEF Numbered, Writes
  <1>9. Numbered'
    <2>1. \A u \in UpdatesOf(d) : u \in Nat /\ u < nextUpdate'
      BY <1>3, <1>4, <1>5, <1>8, Sharing
    <2>2. \A c \in Held' : \A u \in UpdatesOf(c) : u < nextUpdate'
      BY <1>3, <1>7, <1>8, <2>1
    <2>3. \A u \in refused' : u < nextUpdate'
      <3>1. \A u \in refused : u \in Nat /\ u < nextUpdate
        BY <1>1 DEF Numbered, IndInv, TypeOK, Writes
      <3> QED
        BY <1>2, <1>3, <3>1
    <2>4. ASSUME NEW t \in Sessions, t # s, IsSave(t)', pc'[t] # "idle"
          PROVE  call'[t] = call[t] /\ IsSave(t) /\ pc[t] # "idle"
      BY <2>4 DEF SaveBegins, Idles, IsSave
    <2>5. call'[s].update = nextUpdate /\ call'[s].update \notin UpdatesOf(x)
      BY <1>3, <1>4, <1>8, Sharing DEF SaveBegins
    <2> QED
      BY <1>1, <2>2, <2>3, <2>4, <2>5 DEF Numbered, SaveBegins
  <1>10. RewritesArePrivate'
    <2>1. ASSUME NEW t \in Sessions, IsSave(t)', Unwritten(t)', NEW c \in Elsewhere(t)'
          PROVE  call'[t].update \notin UpdatesOf(c)
      <3>1. CASE t = s
        <4>1. c \in Held \cup Empty
          BY <1>6, <2>1, <3>1, ElsewhereHeld
        <4> QED
          BY <1>3, <1>8, <3>1, <4>1 DEF SaveBegins
      <3>2. CASE t # s
        <4>1. IsSave(t) /\ Unwritten(t) /\ call'[t] = call[t] /\ pc[t] # "idle"
          BY <2>1, <3>2 DEF SaveBegins, Idles, IsSave, Unwritten, Checked
        <4>2. call[t].update \in Nat /\ call[t].update < nextUpdate
          BY <1>1, <4>1, SaveCarries DEF Writes
        <4>3. \A e \in Elsewhere(t) \cup Empty : call[t].update \notin UpdatesOf(e)
          BY <1>1, <4>1, EmptyHasNone DEF RewritesArePrivate, Elsewhere
        <4>4. call[t].update \notin UpdatesOf(d)
          BY <1>3, <1>4, <1>5, <4>2, <4>3, ElsewhereHeld
        <4> QED
          BY <1>6, <2>1, <3>2, <4>1, <4>3, <4>4
      <3> QED
        BY <3>1, <3>2
    <2>2. ASSUME NEW c \in Held' PROVE refused' \cap UpdatesOf(c) = {}
      <3>1. \A e \in Held \cup Empty : refused \cap UpdatesOf(e) = {}
        BY <1>1, EmptyHasNone DEF RewritesArePrivate
      <3>2. nextUpdate \notin refused
        BY <1>1, <1>3 DEF Numbered
      <3>3. refused \cap UpdatesOf(d) = {}
        BY <1>4, <1>5, <3>1, <3>2, Sharing
      <3> QED
        BY <1>2, <1>7, <2>2, <3>1, <3>3
    <2> QED
      BY <2>1, <2>2 DEF RewritesArePrivate, Elsewhere
  <1>11. ReplacedIsKept'
    BY <1>1, <1>2 DEF ReplacedIsKept, SaveBegins, Idles, IsSave
  <1>12. LegacyIsDone'
    BY <1>1, <1>2 DEF LegacyIsDone, SaveBegins, Idles, IsSave, Migrates, Checked
  <1> QED
    BY <1>9, <1>10, <1>11, <1>12 DEF HistoryInv

\* The operator and the faults of the whole system.
LEMMA WorldKeeps ==
  ASSUME IndInv, HistoryInv, WorldMoves,
         (\A t \in Sessions : pc'[t] \notin Critical) \/ (files' = files /\ damaged' = damaged /\ previous' = previous)
  PROVE  HistoryInv'
  <1>1. Numbered /\ RewritesArePrivate /\ ReplacedIsKept /\ LegacyIsDone
    BY DEF HistoryInv
  <1>2. ASSUME NEW t \in Sessions, pc'[t] # "idle"
        PROVE  call'[t] = call[t] /\ pc'[t] = pc[t] /\ reply'[t] = reply[t]
    BY <1>2 DEF WorldMoves
  <1>3. Numbered'
    <2>1. \A c \in Held' : \A u \in UpdatesOf(c) : u < nextUpdate'
      BY <1>1, WorldHolds, EmptyHasNone DEF Numbered, WorldMoves
    <2>2. \A u \in refused' : u < nextUpdate'
      BY <1>1 DEF Numbered, WorldMoves
    <2> QED
      BY <1>1, <1>2, <2>1, <2>2 DEF Numbered, IsSave
  <1>4. RewritesArePrivate'
    <2>1. ASSUME NEW t \in Sessions, IsSave(t)', Unwritten(t)', NEW c \in Elsewhere(t)'
          PROVE  call'[t].update \notin UpdatesOf(c)
      <3>1. IsSave(t) /\ Unwritten(t) /\ call'[t] = call[t]
        BY <1>2, <2>1 DEF IsSave, Unwritten, Checked
      <3> QED
        BY <1>1, <2>1, <3>1, WorldElsewhere, EmptyHasNone DEF RewritesArePrivate, Elsewhere
    <2>2. \A c \in Held' : refused' \cap UpdatesOf(c) = {}
      BY <1>1, WorldHolds, EmptyHasNone DEF RewritesArePrivate, WorldMoves
    <2> QED
      BY <2>1, <2>2 DEF RewritesArePrivate, Elsewhere
  <1>5. ReplacedIsKept'
    BY <1>1, <1>2 DEF ReplacedIsKept, IsSave, Critical, MainSteps
  <1>6. LegacyIsDone'
    BY <1>1, <1>2 DEF LegacyIsDone, IsSave, Migrates, Checked, Critical, SaveSteps, MainSteps
  <1> QED
    BY <1>3, <1>4, <1>5, <1>6 DEF HistoryInv

LEMMA HistoryNext == IndInv /\ HistoryInv /\ [Next]_vars => HistoryInv'
  <1> SUFFICES ASSUME IndInv, HistoryInv, [Next]_vars PROVE HistoryInv'
    OBVIOUS
  <1>1. TypeOK
    BY DEF IndInv
  <1>2. ASSUME NEW s \in Sessions, Request(s) PROVE HistoryInv'
    BY <1>1, <1>2, RequestFlow, RequestProgress, OtherLegacy, FlowKeeps, BeginFlow, BeginKeeps DEF Request, HistoryInv
  <1>3. ASSUME NEW s \in Sessions, CallStep(s) PROVE HistoryInv'
    BY <1>1, <1>3, CallStepFlow, CallStepProgress, CallStepLegacy, FlowKeeps DEF HistoryInv
  <1>4. ASSUME NEW s \in Sessions, SessionFault(s) PROVE HistoryInv'
    BY <1>1, <1>4, FaultFlow, FaultProgress, OtherLegacy, FlowKeeps DEF HistoryInv
  <1>5. CASE Environment
    <2>1. "idle" \notin Critical
      BY DEF Critical, SaveSteps, RecoverSteps, MainSteps
    <2>2. (\A t \in Sessions : pc'[t] \notin Critical) \/ (files' = files /\ damaged' = damaged /\ previous' = previous)
      BY <1>5, <2>1 DEF Environment, RemoveStaleLock, PowerLoss, Damage, directory, calls, IndInv, OneWriter
    <2> QED
      BY <1>1, <1>5, <2>2, EnvironmentFlow, WorldKeeps
  <1>6. CASE UNCHANGED vars
    <2>1. WorldMoves /\ files' = files /\ damaged' = damaged /\ previous' = previous
      BY <1>6 DEF vars, directory, calls, ghosts, WorldMoves
    <2> QED
      BY <2>1, WorldKeeps
  <1> QED
    BY <1>2, <1>3, <1>4, <1>5, <1>6 DEF Next

LEMMA HistoryHolds == Spec => [](IndInv /\ HistoryInv)
  BY IndInvInit, IndInvNext, HistoryInit, HistoryNext, PTL DEF Spec

--------------------------------------------------------------------------------
(* What it gives. *)

\* A save that storage refused is in no file, now or later.
THEOREM RefusalsWriteNothing == Spec => []RefusedNotWritten
  <1>1. IndInv /\ HistoryInv => RefusedNotWritten
    BY Sharing DEF HistoryInv, RewritesArePrivate, RefusedNotWritten
  <1> QED
    BY <1>1, HistoryHolds, PTL

\* Only the rename of a call that holds the lock replaces the vault file under the lock.
LEMMA OnlyRenames ==
  ASSUME IndInv, [Next]_vars, lock' = lock, lock \in Sessions, files'["main"] # files["main"]
  PROVE  \E s \in Sessions : MainRename(s)
  <1> USE DEF directory, calls, ghosts
  <1>1. TypeOK /\ Free \notin Sessions /\ Stale \notin Sessions
    BY StorageAssumption DEF IndInv
  <1>2. ~Environment
    BY <1>1 DEF Environment, RemoveStaleLock, PowerLoss, Damage
  <1>3. ~UNCHANGED vars
    BY DEF vars
  <1>4. ASSUME NEW s \in Sessions, Request(s) PROVE FALSE
    BY <1>4 DEF Request, Unlock, BeginCreate, BeginUpdate, BeginExport, BeginRecover, BeginSave, Begin
  <1>5. ASSUME NEW s \in Sessions, SessionFault(s) PROVE FALSE
    BY <1>1, <1>5 DEF TypeOK, Names, SessionFault, Crash, LockError, StepError, LegacyError, LegacyCrash, ReleaseError
  <1>6. ASSUME NEW s \in Sessions, CallStep(s), ~MainRename(s) PROVE FALSE
    <2>1. ~SaveStep(s)
      BY <1>1 DEF TypeOK, Names, SaveStep, ReadPrevious, OpenLegacy, WriteLegacy, BakTemp, BakRename, BakSync, WriteTemp,
                  Rename, SyncDirectory
    <2> QED
      BY <1>6, <2>1 DEF CallStep, MakeLock, LockBusy, WriteOwner, Release, RecoverStep, VerifyBackup, RetainDamaged,
                        MainTemp, MainSync, WriteTemp, SyncDirectory
  <1> QED
    BY <1>2, <1>3, <1>4, <1>5, <1>6 DEF Next

\* The bytes that a save or a recovery replaces are in .bak or in a .damaged-* file.
THEOREM ReplacedBytesKept == Spec => ReplacedBytesSurvive
  <1>1. ASSUME IndInv, HistoryInv, [Next]_vars, lock' = lock, lock \in Sessions, files'["main"] # files["main"]
        PROVE  files["main"] \in {Missing, files'["bak"]} \cup damaged'
    <2>1. PICK s \in Sessions : MainRename(s)
      BY <1>1, OnlyRenames
    <2>2. pc[s] = "mainRename" /\ files'["bak"] = files["bak"] /\ damaged' = damaged
      BY <1>1, <2>1 DEF MainRename, Rename, IndInv, TypeOK, Names
    <2>3. CASE IsSave(s)
      BY <1>1, <2>2, <2>3 DEF IndInv, CallInv, SaveIsIsolated, Checked, MainSteps
    <2>4. CASE ~IsSave(s)
      BY <1>1, <2>2, <2>4 DEF HistoryInv, ReplacedIsKept
    <2> QED
      BY <2>3, <2>4
  <1>2. IndInv /\ HistoryInv /\ [Next]_vars =>
          [lock' = lock /\ lock \in Sessions /\ files["main"]' # files["main"]
           => files["main"] \in {Missing, files["bak"]'} \cup damaged']_vars
    BY <1>1
  <1> QED
    BY <1>2, HistoryHolds, PTL DEF Spec, ReplacedBytesSurvive

\* Only a migration writes .v1-backup, and a power loss.
LEMMA LegacyChanges ==
  ASSUME IndInv, HistoryInv, [Next]_vars
  PROVE  /\ files["legacy"] \in Vaults => files'["legacy"] = files["legacy"] \/ PowerLoss
         /\ \A c \in migrated' \ migrated : files'["legacy"] = c
  <1> USE DEF directory, calls, ghosts
  <1>1. TypeOK
    BY DEF IndInv
  <1>2. CASE Environment
    BY <1>1, <1>2 DEF TypeOK, Names, Environment, RemoveStaleLock, PowerLoss, Damage
  <1>3. CASE UNCHANGED vars
    BY <1>3 DEF vars
  <1>4. ASSUME NEW s \in Sessions, Request(s) PROVE files' = files /\ migrated' = migrated
    BY <1>4 DEF Request, Unlock, BeginCreate, BeginUpdate, BeginExport, BeginRecover, BeginSave, Begin
  <1>5. ASSUME NEW s \in Sessions, pc[s] = "legacyWrite" PROVE files["legacy"] \notin Vaults
    BY <1>5, NotVaults DEF HistoryInv, LegacyIsDone
  <1>6. ASSUME NEW s \in Sessions, SessionFault(s)
        PROVE  migrated' = migrated /\ (files["legacy"] \in Vaults => files'["legacy"] = files["legacy"])
    BY <1>5, <1>6 DEF SessionFault, Crash, LockError, StepError, LegacyError, LegacyCrash, ReleaseError
  <1>7. ASSUME NEW s \in Sessions, MainRename(s)
        PROVE  /\ files'["legacy"] = files["legacy"]
               /\ \A c \in migrated' \ migrated : files'["legacy"] = c
    <2>1. files'["legacy"] = files["legacy"] /\ pc[s] = "mainRename"
      BY <1>1, <1>7 DEF TypeOK, Names, MainRename, Rename
    <2>2. migrated' = (IF Migrates(s) THEN migrated \cup {previous[s]} ELSE migrated)
      BY <1>7 DEF MainRename, Migrates, IsSave
    <2>3. Migrates(s) => files["legacy"] = previous[s]
      BY <2>1 DEF HistoryInv, LegacyIsDone, Checked
    <2> QED
      BY <2>1, <2>2, <2>3
  <1>8. ASSUME NEW s \in Sessions, CallStep(s), ~MainRename(s)
        PROVE  migrated' = migrated /\ (files["legacy"] \in Vaults => files'["legacy"] = files["legacy"])
    <2>1. CASE SaveStep(s)
      BY <1>1, <1>5, <2>1, NotVaults DEF TypeOK, Names, SaveStep, ReadPrevious, OpenLegacy, WriteLegacy, BakTemp, BakRename,
                  BakSync, WriteTemp, Rename, SyncDirectory
    <2>2. CASE ~SaveStep(s)
      BY <1>8, <2>2 DEF CallStep, MakeLock, LockBusy, WriteOwner, Release, RecoverStep, VerifyBackup, RetainDamaged,
                        MainTemp, MainSync, WriteTemp, SyncDirectory
    <2> QED
      BY <2>1, <2>2
  <1> QED
    BY <1>2, <1>3, <1>4, <1>6, <1>7, <1>8 DEF Next

\* The version 1 file that a migration replaces is in .v1-backup, and stays there.
THEOREM OriginalsKept == Spec => LegacyKept
  <1>1. ASSUME IndInv, HistoryInv, [Next]_vars
        PROVE  /\ \A c \in migrated' \ migrated : files'["legacy"] = c
               /\ files["legacy"] \in migrated => files'["legacy"] = files["legacy"] \/ PowerLoss
    <2>1. migrated \subseteq Vaults
      BY <1>1 DEF IndInv, TypeOK
    <2> QED
      BY <1>1, <2>1, LegacyChanges
  <1>2. IndInv /\ HistoryInv /\ [Next]_vars =>
          [ /\ \A c \in migrated' \ migrated : files'["legacy"] = c
            /\ files["legacy"] \in migrated => files'["legacy"] = files["legacy"] \/ PowerLoss ]_vars
    BY <1>1
  <1> QED
    BY <1>2, HistoryHolds, PTL DEF Spec, LegacyKept

--------------------------------------------------------------------------------
(* Storage implements the register. *)

\* The register has the same contents.
LEMMA SameContents ==
  /\ Register!Writes = Writes /\ Register!Vaults = Vaults /\ Register!Contents = Contents
  /\ \A d : Register!UpdatesOf(d) = UpdatesOf(d)
  /\ \A d, u : Register!Seal(d, u) = Seal(d, u)
  BY DEF Register!Writes, Writes, Register!Vaults, Vaults, Register!Versions, Versions,
         Register!NonVaults, NonVaults, Register!Contents, Contents, Register!UpdatesOf, UpdatesOf,
         Register!Seal, Seal

\* The rename of a save is the write of the register, that of a recovery its restoration.
LEMMA RenameImplements ==
  ASSUME IndInv, HistoryInv, NEW s \in Sessions, MainRename(s)
  PROVE  Register!Next
  <1> DEFINE d == call[s].data
  <1>1. /\ pc[s] = "mainRename" /\ temp[s].content = d /\ files'["main"] = d
        /\ acked' = IF IsSave(s) THEN acked ELSE acked \cap UpdatesOf(d)
    BY DEF MainRename, Rename, IndInv, TypeOK, Names, CallInv, WritesReachDisk, IsSave
  <1>2. CASE IsSave(s)
    <2>1. /\ files["main"] = call[s].expected /\ call[s].expected \in Vaults \cup {Missing}
          /\ call[s].update \in Writes \ UpdatesOf(call[s].expected)
          /\ \/ d = Seal(call[s].expected, call[s].update)
             \/ call[s].expected = Missing /\ d = [version |-> 1, updates |-> {call[s].update}]
      BY <1>1, <1>2 DEF IndInv, TypeOK, Calls, CallInv, CallWellFormed, SaveIsIsolated, Checked, HistoryInv, Numbered
    <2>2. Register!Commit
      BY <1>1, <1>2, <2>1, SameContents DEF Register!Commit
    <2> QED
      BY <2>2 DEF Register!Next
  <1>3. CASE ~IsSave(s)
    <2>1. d \in Vaults /\ files["bak"] = d
      BY <1>1, <1>3 DEF IndInv, CallInv, RecoveryIsVerified
    <2>2. \E u \in 0 .. MaxWrites : acked \subseteq UpdatesOf(d) \cup {u}
      BY <2>1 DEF IndInv, DirectoryHolds
    <2>3. \E u \in Writes \cup {0} : acked \subseteq UpdatesOf(d) \cup {u}
      BY <2>2, MaxWritesAssumption DEF Writes
    <2>4. Register!Restore
      BY <1>1, <1>3, <2>1, <2>3, SameContents DEF Register!Restore
    <2> QED
      BY <2>4 DEF Register!Next
  <1> QED
    BY <1>2, <1>3

\* A call that resolves acknowledges its rewrite.
LEMMA ReleaseImplements ==
  ASSUME IndInv, NEW s \in Sessions, Release(s)
  PROVE  Register!Next \/ UNCHANGED <<files, acked>>
  <1>1. files' = files /\ acked' = acked \cup {u \in {call[s].update} \ {0} : reply[s] = "ok"}
    BY DEF Release, directory
  <1>2. CASE reply[s] = "ok" /\ IsSave(s)
    <2>1. call[s].update \in UpdatesOf(files["main"]) /\ call[s].update # 0
      <3>1. /\ call[s].update \in Writes /\ call[s].data \in Vaults /\ files["main"] = call[s].data
            /\ call[s].update \in call[s].data.updates
        BY <1>2 DEF Release, IndInv, CallInv, CallWellFormed, WritesReachDisk
      <3> QED
        BY <3>1, MaxWritesAssumption DEF UpdatesOf, Writes
    <2>2. acked' = acked \cup {call[s].update}
      BY <1>1, <1>2, <2>1
    <2>3. Register!Acknowledge
      BY <1>1, <2>1, <2>2, SameContents DEF Register!Acknowledge
    <2> QED
      BY <2>3 DEF Register!Next
  <1>3. CASE reply[s] # "ok"
    BY <1>1, <1>3
  <1>4. CASE ~IsSave(s)
    <2>1. call[s].update = 0
      BY <1>4 DEF IndInv, CallInv, CallWellFormed
    <2> QED
      BY <1>1, <2>1
  <1> QED
    BY <1>2, <1>3, <1>4

\* The other steps of a session leave the register alone.
LEMMA OthersStutter ==
  ASSUME IndInv, NEW s \in Sessions,
         \/ Request(s)
         \/ SessionFault(s)
         \/ CallStep(s) /\ ~MainRename(s) /\ ~Release(s)
  PROVE  files'["main"] = files["main"] /\ acked' = acked
  <1> USE DEF directory, calls, ghosts
  <1>1. TypeOK
    BY DEF IndInv
  <1>2. CASE Request(s)
    BY <1>2 DEF Request, Unlock, BeginCreate, BeginUpdate, BeginExport, BeginRecover, BeginSave, Begin
  <1>3. CASE SessionFault(s)
    BY <1>1, <1>3 DEF TypeOK, Names, SessionFault, Crash, LockError, StepError, LegacyError, LegacyCrash, ReleaseError
  <1>4. CASE SaveStep(s)
    BY <1>1, <1>4 DEF TypeOK, Names, SaveStep, ReadPrevious, OpenLegacy, WriteLegacy, BakTemp, BakRename, BakSync,
                      WriteTemp, Rename, SyncDirectory
  <1>5. CASE CallStep(s) /\ ~MainRename(s) /\ ~Release(s) /\ ~SaveStep(s)
    BY <1>5 DEF CallStep, MakeLock, LockBusy, WriteOwner, RecoverStep, VerifyBackup, RetainDamaged, MainTemp, MainSync,
                WriteTemp, SyncDirectory
  <1> QED
    BY <1>2, <1>3, <1>4, <1>5

LEMMA EnvironmentImplements ==
  ASSUME IndInv, Environment
  PROVE  \/ Register!Next
         \/ files'["main"] = files["main"] /\ acked' = acked
  <1> USE DEF directory, calls, ghosts
  <1>1. TypeOK /\ DirectoryHolds(files) /\ (DirSync => DirectoryHolds(durable)) /\ "main" \notin dirty
    BY DEF IndInv
  <1>2. CASE RemoveStaleLock
    BY <1>2 DEF RemoveStaleLock
  <1>3. CASE Damage("bak")
    BY <1>1, <1>3 DEF Damage, TypeOK, Names
  <1>4. CASE Damage("main")
    <2>1. Register!Damage
      BY <1>1, <1>4 DEF Damage, TypeOK, Names, Register!Damage
    <2> QED
      BY <2>1 DEF Register!Next
  <1>5. CASE PowerLoss
    <2>1. files'["main"] \in {durable["main"], files["main"]} /\ DirSync /\ acked' = acked
      BY <1>1, <1>5, StorageAssumption DEF PowerLoss, Survivors, Names, Fault
    <2>2. Register!PowerLoss
      BY <1>1, <2>1, SameContents DEF DirectoryHolds, Register!PowerLoss
    <2> QED
      BY <2>2 DEF Register!Next
  <1> QED
    BY <1>2, <1>3, <1>4, <1>5 DEF Environment

\* Whatever interleaving, crash, I/O error or power loss happens inside, storage is one
\* atomic register to the sessions that share it.
THEOREM StorageImplements == Spec => RegisterSpec
  <1>1. Init => Register!Init
    BY DEF Init, Register!Init, Original
  <1>2. ASSUME IndInv, HistoryInv, [Next]_vars
        PROVE  [Register!Next]_(Register!registerVars)
    <2>1. Register!Next \/ (files'["main"] = files["main"] /\ acked' = acked)
      <3>1. CASE UNCHANGED vars
        BY <3>1 DEF vars, directory, ghosts
      <3>2. CASE Environment
        BY <1>2, <3>2, EnvironmentImplements
      <3>3. ASSUME NEW s \in Sessions, Request(s) \/ CallStep(s) \/ SessionFault(s)
            PROVE  Register!Next \/ (files'["main"] = files["main"] /\ acked' = acked)
        BY <1>2, <3>3, RenameImplements, ReleaseImplements, OthersStutter
      <3> QED
        BY <1>2, <3>1, <3>2, <3>3 DEF Next
    <2> QED
      BY <2>1 DEF Register!registerVars
  <1> QED
    BY <1>1, <1>2, HistoryHolds, PTL DEF Spec, RegisterSpec, Register!Spec

================================================================================
