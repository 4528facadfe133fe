--------------------------- MODULE VaultSession_proofs --------------------------
(***************************************************************************)
(* Proofs about VaultSession, for every number of calls on the session, of *)
(* lock() between their steps, and of changes from outside.                *)
(***************************************************************************)
EXTENDS VaultSession, SequenceTheorems, TLAPS

CallStates == [op : Openings \cup Mutations, at : Steps, epoch : Nat,
               data : Vaults \cup {Missing}, expected : Vaults \cup {Missing},
               update : 0 .. MaxWrites]

--------------------------------------------------------------------------------
(* The contents of files. *)

\* The abstract register has the same contents.
LEMMA SameContents ==
  /\ Storage!Writes = Writes /\ Storage!Vaults = Vaults /\ Storage!Contents = Contents
  /\ \A d : Storage!UpdatesOf(d) = UpdatesOf(d)
  /\ \A d, u : Storage!Seal(d, u) = Seal(d, u)
  BY DEF Storage!Writes, Writes, Storage!Vaults, Vaults, Storage!Versions, Versions,
         Storage!NonVaults, NonVaults, Storage!Contents, Contents, Storage!UpdatesOf, UpdatesOf,
         Storage!Seal, Seal

\* What a content carries are rewrites.
LEMMA UpdatesType == \A d : UpdatesOf(d) \in SUBSET Writes
  BY DEF UpdatesOf, Vaults

\* An envelope that is sealed is a version 2 vault with one more rewrite.
LEMMA SealType ==
  ASSUME NEW d, NEW u \in Writes
  PROVE  /\ Seal(d, u) \in Vaults
         /\ UpdatesOf(Seal(d, u)) = UpdatesOf(d) \cup {u}
  BY UpdatesType DEF Seal, UpdatesOf, Vaults, Versions

LEMMA MissingIsNoVault == Missing \notin Vaults /\ UpdatesOf(Missing) = {}
  BY ContentsAssumption DEF NonVaults, UpdatesOf

\* A rewrite has a number above zero.
LEMMA NumberType == 0 \notin Writes /\ \A u \in Writes : u \in Nat /\ u \in 0 .. MaxWrites
  BY MaxWritesAssumption DEF Writes

--------------------------------------------------------------------------------
(* What a step does to the record of a call. *)

\* The record of c has the given fields, those of the other calls are as they were.
Becomes(c, op, at, ep, data, expected, update) ==
  /\ call' \in [Calls -> CallStates]
  /\ \A d \in Calls : d # c => call'[d] = call[d]
  /\ call'[c].op = op /\ call'[c].at = at /\ call'[c].epoch = ep
  /\ call'[c].data = data /\ call'[c].expected = expected /\ call'[c].update = update

\* Several fields are set one after another.
LEMMA SetAt ==
  ASSUME NEW f \in [Calls -> CallStates], NEW c \in Calls, NEW x \in Steps
  PROVE  LET g == [f EXCEPT ![c].at = x]
         IN  /\ g \in [Calls -> CallStates]
             /\ \A d \in Calls : d # c => g[d] = f[d]
             /\ g[c].at = x /\ g[c].op = f[c].op /\ g[c].epoch = f[c].epoch /\ g[c].data = f[c].data
             /\ g[c].expected = f[c].expected /\ g[c].update = f[c].update
  BY DEF CallStates

LEMMA SetData ==
  ASSUME NEW f \in [Calls -> CallStates], NEW c \in Calls, NEW x \in Vaults \cup {Missing}
  PROVE  LET g == [f EXCEPT ![c].data = x]
         IN  /\ g \in [Calls -> CallStates]
             /\ \A d \in Calls : d # c => g[d] = f[d]
             /\ g[c].data = x /\ g[c].op = f[c].op /\ g[c].at = f[c].at /\ g[c].epoch = f[c].epoch
             /\ g[c].expected = f[c].expected /\ g[c].update = f[c].update
  BY DEF CallStates

LEMMA SetExpected ==
  ASSUME NEW f \in [Calls -> CallStates], NEW c \in Calls, NEW x \in Vaults \cup {Missing}
  PROVE  LET g == [f EXCEPT ![c].expected = x]
         IN  /\ g \in [Calls -> CallStates]
             /\ \A d \in Calls : d # c => g[d] = f[d]
             /\ g[c].expected = x /\ g[c].op = f[c].op /\ g[c].at = f[c].at /\ g[c].epoch = f[c].epoch
             /\ g[c].data = f[c].data /\ g[c].update = f[c].update
  BY DEF CallStates

LEMMA SetUpdate ==
  ASSUME NEW f \in [Calls -> CallStates], NEW c \in Calls, NEW x \in Writes
  PROVE  LET g == [f EXCEPT ![c].update = x]
         IN  /\ g \in [Calls -> CallStates]
             /\ \A d \in Calls : d # c => g[d] = f[d]
             /\ g[c].update = x /\ g[c].op = f[c].op /\ g[c].at = f[c].at /\ g[c].epoch = f[c].epoch
             /\ g[c].data = f[c].data /\ g[c].expected = f[c].expected
  BY NumberType DEF CallStates

LEMMA SetEpoch ==
  ASSUME NEW f \in [Calls -> CallStates], NEW c \in Calls, NEW x \in Nat
  PROVE  LET g == [f EXCEPT ![c].epoch = x]
         IN  /\ g \in [Calls -> CallStates]
             /\ \A d \in Calls : d # c => g[d] = f[d]
             /\ g[c].epoch = x /\ g[c].op = f[c].op /\ g[c].at = f[c].at /\ g[c].data = f[c].data
             /\ g[c].expected = f[c].expected /\ g[c].update = f[c].update
  BY DEF CallStates

LEMMA Moved ==
  ASSUME TypeOK, NEW c \in Calls, NEW step \in Steps, Move(c, step)
  PROVE  Becomes(c, call[c].op, step, call[c].epoch, call[c].data, call[c].expected, call[c].update)
  <1>1. call \in [Calls -> CallStates]
    BY DEF TypeOK, CallStates
  <1> QED
    BY <1>1, SetAt DEF Move, Becomes

LEMMA Ended ==
  ASSUME TypeOK, NEW c \in Calls, NEW step \in {"resolved", "rejected"}, End(c, step)
  PROVE  Becomes(c, call[c].op, step, 0, Missing, Missing, call[c].update)
  <1> DEFINE s == call[c]
             r == [Unused EXCEPT !.op = s.op, !.at = step, !.update = s.update]
  <1>1. call \in [Calls -> CallStates] /\ s \in CallStates
    BY DEF TypeOK, CallStates
  <1>2. Unused \in CallStates
    BY MaxWritesAssumption DEF Unused, CallStates, Mutations, Steps
  <1>3. /\ r.op = s.op /\ r.at = step /\ r.epoch = 0 /\ r.data = Missing
        /\ r.expected = Missing /\ r.update = s.update
    BY DEF Unused
  <1>4. r \in CallStates
    BY <1>1, <1>2 DEF CallStates, Steps
  <1> HIDE DEF r
  <1>5. call' = [call EXCEPT ![c] = r]
    BY DEF End, r
  <1> QED
    BY <1>1, <1>3, <1>4, <1>5 DEF Becomes

\* Start.
Works(c, u, d) == call' = [call EXCEPT ![c].at = "encoding", ![c].update = u, ![c].data = d]

LEMMA Worked ==
  ASSUME TypeOK, NEW c \in Calls, NEW u \in Writes, NEW d \in Vaults, Works(c, u, d)
  PROVE  Becomes(c, call[c].op, "encoding", call[c].epoch, d, call[c].expected, u)
  <1> DEFINE f1 == [call EXCEPT ![c].at = "encoding"]
             f2 == [f1 EXCEPT ![c].update = u]
  <1>1. call \in [Calls -> CallStates] /\ "encoding" \in Steps
    BY DEF TypeOK, CallStates, Steps, Awaits
  <1>2. call' = [f2 EXCEPT ![c].data = d]
    BY DEF Works
  <1>3. /\ f1 \in [Calls -> CallStates] /\ \A e \in Calls : e # c => f1[e] = call[e]
        /\ f1[c].at = "encoding" /\ f1[c].op = call[c].op /\ f1[c].epoch = call[c].epoch
        /\ f1[c].expected = call[c].expected
    BY <1>1, SetAt
  <1> HIDE DEF f1
  <1>4. /\ f2 \in [Calls -> CallStates] /\ \A e \in Calls : e # c => f2[e] = call[e]
        /\ f2[c].at = "encoding" /\ f2[c].op = call[c].op /\ f2[c].epoch = call[c].epoch
        /\ f2[c].expected = call[c].expected /\ f2[c].update = u
    BY <1>3, SetUpdate
  <1> HIDE DEF f2
  <1> QED
    BY <1>2, <1>4, SetData DEF Becomes

\* Create.
Creates(c, u, d) ==
  call' = [call EXCEPT ![c].at = "saving", ![c].update = u, ![c].data = d, ![c].expected = Missing]

LEMMA Created ==
  ASSUME TypeOK, NEW c \in Calls, NEW u \in Writes, NEW d \in Vaults, Creates(c, u, d)
  PROVE  Becomes(c, call[c].op, "saving", call[c].epoch, d, Missing, u)
  <1> DEFINE f1 == [call EXCEPT ![c].at = "saving"]
             f2 == [f1 EXCEPT ![c].update = u]
             f3 == [f2 EXCEPT ![c].data = d]
  <1>1. call \in [Calls -> CallStates] /\ "saving" \in Steps
    BY DEF TypeOK, CallStates, Steps, Awaits
  <1>2. call' = [f3 EXCEPT ![c].expected = Missing]
    BY DEF Creates
  <1>3. /\ f1 \in [Calls -> CallStates] /\ \A e \in Calls : e # c => f1[e] = call[e]
        /\ f1[c].at = "saving" /\ f1[c].op = call[c].op /\ f1[c].epoch = call[c].epoch
    BY <1>1, SetAt
  <1> HIDE DEF f1
  <1>4. /\ f2 \in [Calls -> CallStates] /\ \A e \in Calls : e # c => f2[e] = call[e]
        /\ f2[c].at = "saving" /\ f2[c].op = call[c].op /\ f2[c].epoch = call[c].epoch
        /\ f2[c].update = u
    BY <1>3, SetUpdate
  <1> HIDE DEF f2
  <1>5. /\ f3 \in [Calls -> CallStates] /\ \A e \in Calls : e # c => f3[e] = call[e]
        /\ f3[c].at = "saving" /\ f3[c].op = call[c].op /\ f3[c].epoch = call[c].epoch
        /\ f3[c].update = u /\ f3[c].data = d
    BY <1>4, SetData
  <1> HIDE DEF f3
  <1> QED
    BY <1>2, <1>5, SetExpected DEF Becomes

\* Load of a vault.
Loads(c, d) == call' = [call EXCEPT ![c].at = "decoding", ![c].data = d]

LEMMA Loaded ==
  ASSUME TypeOK, NEW c \in Calls, NEW d \in Vaults, Loads(c, d)
  PROVE  Becomes(c, call[c].op, "decoding", call[c].epoch, d, call[c].expected, call[c].update)
  <1> DEFINE f1 == [call EXCEPT ![c].at = "decoding"]
  <1>1. call \in [Calls -> CallStates] /\ "decoding" \in Steps
    BY DEF TypeOK, CallStates, Steps, Awaits
  <1>2. call' = [f1 EXCEPT ![c].data = d]
    BY DEF Loads
  <1>3. /\ f1 \in [Calls -> CallStates] /\ \A e \in Calls : e # c => f1[e] = call[e]
        /\ f1[c].at = "decoding" /\ f1[c].op = call[c].op /\ f1[c].epoch = call[c].epoch
        /\ f1[c].expected = call[c].expected /\ f1[c].update = call[c].update
    BY <1>1, SetAt
  <1> HIDE DEF f1
  <1> QED
    BY <1>2, <1>3, SetData DEF Becomes

\* Encoded.
Expects(c, x) == call' = [call EXCEPT ![c].at = "saving", ![c].expected = x]

LEMMA Expecting ==
  ASSUME TypeOK, NEW c \in Calls, NEW x \in Vaults \cup {Missing}, Expects(c, x)
  PROVE  Becomes(c, call[c].op, "saving", call[c].epoch, call[c].data, x, call[c].update)
  <1> DEFINE f1 == [call EXCEPT ![c].at = "saving"]
  <1>1. call \in [Calls -> CallStates] /\ "saving" \in Steps
    BY DEF TypeOK, CallStates, Steps, Awaits
  <1>2. call' = [f1 EXCEPT ![c].expected = x]
    BY DEF Expects
  <1>3. /\ f1 \in [Calls -> CallStates] /\ \A e \in Calls : e # c => f1[e] = call[e]
        /\ f1[c].at = "saving" /\ f1[c].op = call[c].op /\ f1[c].epoch = call[c].epoch
        /\ f1[c].data = call[c].data /\ f1[c].update = call[c].update
    BY <1>1, SetAt
  <1> HIDE DEF f1
  <1> QED
    BY <1>2, <1>3, SetExpected DEF Becomes

\* Restored.
LoadsAt(c, e) == call' = [call EXCEPT ![c].at = "loading", ![c].epoch = e]

LEMMA LoadingAgain ==
  ASSUME TypeOK, NEW c \in Calls, NEW e \in Nat, LoadsAt(c, e)
  PROVE  Becomes(c, call[c].op, "loading", e, call[c].data, call[c].expected, call[c].update)
  <1> DEFINE f1 == [call EXCEPT ![c].at = "loading"]
  <1>1. call \in [Calls -> CallStates] /\ "loading" \in Steps
    BY DEF TypeOK, CallStates, Steps, Awaits
  <1>2. call' = [f1 EXCEPT ![c].epoch = e]
    BY DEF LoadsAt
  <1>3. /\ f1 \in [Calls -> CallStates] /\ \A d \in Calls : d # c => f1[d] = call[d]
        /\ f1[c].at = "loading" /\ f1[c].op = call[c].op /\ f1[c].expected = call[c].expected
        /\ f1[c].data = call[c].data /\ f1[c].update = call[c].update
    BY <1>1, SetAt
  <1> HIDE DEF f1
  <1> QED
    BY <1>2, <1>3, SetEpoch DEF Becomes

\* CallOpening and CallMutation.
Called(c, op, at, e) == call' = [call EXCEPT ![c] = [Unused EXCEPT !.op = op, !.at = at, !.epoch = e]]

LEMMA Calling ==
  ASSUME TypeOK, NEW c \in Calls, NEW op \in Openings \cup Mutations, NEW at \in Steps, NEW e \in Nat,
         Called(c, op, at, e)
  PROVE  Becomes(c, op, at, e, Missing, Missing, 0)
  <1> DEFINE r == [Unused EXCEPT !.op = op, !.at = at, !.epoch = e]
  <1>1. call \in [Calls -> CallStates]
    BY DEF TypeOK, CallStates
  <1>2. Unused \in CallStates
    BY MaxWritesAssumption DEF Unused, CallStates, Mutations, Steps
  <1>3. /\ r.op = op /\ r.at = at /\ r.epoch = e /\ r.data = Missing
        /\ r.expected = Missing /\ r.update = 0
    BY DEF Unused
  <1>4. r \in CallStates
    BY <1>2 DEF CallStates
  <1> HIDE DEF r
  <1>5. call' = [call EXCEPT ![c] = r]
    BY DEF Called, r
  <1> QED
    BY <1>1, <1>3, <1>4, <1>5 DEF Becomes

--------------------------------------------------------------------------------
(* Type correctness. *)

LEMMA TypeInit == Init => TypeOK
  <1> SUFFICES ASSUME Init PROVE TypeOK
    OBVIOUS
  <1>1. register \in Contents /\ {register} \subseteq Contents
    BY DEF Init, Contents, NonVaults, Vaults, Versions
  <1>2. Storage!TypeOK
    BY <1>1, SameContents DEF Init, Storage!TypeOK
  <1>3. Unused \in CallStates
    BY MaxWritesAssumption DEF Unused, CallStates, Mutations, Steps
  <1>4. <<>> \in Seq(Calls)
    OBVIOUS
  <1>5. call \in [Calls -> CallStates]
    BY <1>3 DEF Init
  <1>6. nextUpdate \in 1 .. MaxWrites + 1 /\ others \in 0 .. MaxOthers
    BY MaxWritesAssumption, BoundsAssumption DEF Init
  <1> QED
    BY <1>1, <1>2, <1>4, <1>5, <1>6 DEF Init, TypeOK, CallStates

\* What a session forgets.
LEMMA LockedType ==
  ASSUME TypeOK, Locked
  PROVE  /\ open' \in BOOLEAN /\ envelope' \in Vaults \cup {Missing} /\ entries' \in SUBSET Writes
         /\ revision' \in Vaults \cup {Missing} /\ epoch' \in Nat
  <1>1. epoch \in Nat
    BY DEF TypeOK
  <1>2. epoch' \in Nat
    BY <1>1 DEF Locked
  <1>3. open' \in BOOLEAN /\ entries' \in SUBSET Writes
    BY Zenon DEF Locked
  <1>4. envelope' \in Vaults \cup {Missing} /\ revision' \in Vaults \cup {Missing}
    BY DEF Locked
  <1> QED
    BY <1>2, <1>3, <1>4

LEMMA AdoptType ==
  ASSUME TypeOK, NEW d \in Vaults, Adopt(d)
  PROVE  /\ open' \in BOOLEAN /\ envelope' \in Vaults \cup {Missing} /\ entries' \in SUBSET Writes
         /\ revision' \in Vaults \cup {Missing} /\ epoch' \in Nat
  BY UpdatesType DEF TypeOK, Adopt

--------------------------------------------------------------------------------
(* The steps, one by one. *)

LEMMA LockKeeps == ASSUME IndInv, Lock PROVE IndInv'
  <1>1. TypeOK'
    BY LockedType DEF IndInv, TypeOK, Lock, storage, Storage!TypeOK
  <1>2. DiskInv'
    BY DEF IndInv, DiskInv, Lock, storage
  <1>3. ASSUME NEW c \in Calls PROVE CallInv(c)'
    <2>1. StepsOfOperations(c)' /\ DataIsOnDisk(c)' /\ OneMutates(c)' /\ Numbered(c)'
      BY DEF IndInv, CallInv, StepsOfOperations, DataIsOnDisk, OneMutates, Numbered, Lock, storage, At
    <2>2. EpochsCount(c)'
      BY DEF IndInv, TypeOK, CallInv, EpochsCount, Lock, Locked
    <2>3. WorksOnSession(c)' /\ OpeningsCount(c)'
      BY DEF WorksOnSession, OpeningsCount, Lock
    <2> QED
      BY <2>1, <2>2, <2>3 DEF CallInv
  <1>4. SessionIsOnDisk' /\ OutcomesAreVisible' /\ LastOpeningWins'
    BY DEF SessionIsOnDisk, OutcomesAreVisible, LastOpeningWins, Lock, Locked
  <1> QED
    BY <1>1, <1>2, <1>3, <1>4 DEF IndInv

LEMMA CallOpeningKeeps ==
  ASSUME IndInv, NEW c \in Calls, NEW op \in Openings, CallOpening(c, op)
  PROVE  IndInv'
  <1> DEFINE at == IF op = "recover" THEN "verifying" ELSE "loading"
  <1>1. Becomes(c, op, at, epoch + 1, Missing, Missing, 0)
    <2>1. at \in Steps /\ op \in Openings \cup Mutations /\ epoch + 1 \in Nat
      BY DEF Steps, Awaits, IndInv, TypeOK
    <2> QED
      BY <2>1, Calling DEF CallOpening, Called, IndInv
  <1>2. TypeOK'
    BY <1>1, LockedType DEF IndInv, TypeOK, CallOpening, storage, Storage!TypeOK, Becomes, CallStates
  <1>3. DiskInv'
    BY DEF IndInv, DiskInv, CallOpening, storage
  <1>4. call[c].update = 0 /\ c \notin recent
    BY DEF IndInv, CallInv, StepsOfOperations, CallOpening
  <1>5. ASSUME NEW d \in Calls PROVE CallInv(d)'
    <2>1. StepsOfOperations(d)' /\ DataIsOnDisk(d)'
      BY <1>1, <1>4 DEF IndInv, CallInv, StepsOfOperations, DataIsOnDisk, CallOpening, storage, At, Becomes, Mutations
    <2>2. OneMutates(d)'
      BY <1>1, <1>4 DEF IndInv, CallInv, OneMutates, CallOpening, At, Becomes, Mutating
    <2>3. Numbered(d)'
      BY <1>1, <1>4, MissingIsNoVault DEF IndInv, TypeOK, CallInv, Numbered, CallOpening, Becomes
    <2>4. EpochsCount(d)'
      BY <1>1 DEF IndInv, TypeOK, CallInv, EpochsCount, CallOpening, Locked, Becomes
    <2>5. WorksOnSession(d)' /\ OpeningsCount(d)'
      BY <1>1 DEF WorksOnSession, OpeningsCount, CallOpening, Locked, Becomes, Openings, Mutations
    <2> QED
      BY <2>1, <2>2, <2>3, <2>4, <2>5 DEF CallInv
  <1>6. SessionIsOnDisk' /\ OutcomesAreVisible' /\ LastOpeningWins'
    BY DEF SessionIsOnDisk, OutcomesAreVisible, LastOpeningWins, CallOpening, Locked
  <1> QED
    BY <1>2, <1>3, <1>5, <1>6 DEF IndInv

LEMMA CallMutationKeeps ==
  ASSUME IndInv, NEW c \in Calls, NEW op \in Mutations, CallMutation(c, op)
  PROVE  IndInv'
  <1>1. Becomes(c, op, "queued", epoch, Missing, Missing, 0)
    <2>1. "queued" \in Steps /\ op \in Openings \cup Mutations /\ epoch \in Nat
      BY DEF Steps, Awaits, IndInv, TypeOK
    <2> QED
      BY <2>1, Calling DEF CallMutation, Called, IndInv
  <1>2. tail \in Seq(Calls) /\ tail' = Append(tail, c)
    BY DEF IndInv, TypeOK, CallMutation
  <1>3. /\ Len(tail) \in Nat /\ tail' \in Seq(Calls) /\ Len(tail') = Len(tail) + 1
        /\ tail'[Len(tail')] = c
        /\ \A i \in 1 .. Len(tail) : tail'[i] = tail[i]
    BY <1>2
  <1>4. tail # <<>> => tail' # <<>> /\ Head(tail') = Head(tail)
    BY <1>2
  <1>5. TypeOK'
    BY <1>1, <1>3 DEF IndInv, TypeOK, CallMutation, storage, memory, Storage!TypeOK, Becomes, CallStates
  <1>6. DiskInv'
    BY DEF IndInv, DiskInv, CallMutation, storage
  <1>7. call[c].update = 0 /\ c \notin recent
    BY DEF IndInv, CallInv, StepsOfOperations, CallMutation
  <1>8. ASSUME NEW d \in Calls PROVE CallInv(d)'
    <2>1. StepsOfOperations(d)' /\ DataIsOnDisk(d)'
      BY <1>1, <1>7 DEF IndInv, CallInv, StepsOfOperations, DataIsOnDisk, CallMutation, storage, At, Becomes
    <2>2. OneMutates(d)'
      BY <1>1, <1>3, <1>4 DEF IndInv, CallInv, OneMutates, At, Becomes, Mutating
    <2>3. Numbered(d)'
      BY <1>1, <1>7, MissingIsNoVault DEF IndInv, TypeOK, CallInv, Numbered, CallMutation, Becomes
    <2>4. EpochsCount(d)'
      BY <1>1 DEF IndInv, TypeOK, CallInv, EpochsCount, CallMutation, memory, Becomes
    <2>5. WorksOnSession(d)' /\ OpeningsCount(d)'
      <3>1. recent' = recent \cup {c} /\ open' = open /\ entries' = entries
        BY DEF CallMutation, memory
      <3>2. CASE d = c
        <4>1. call'[c].at = "queued" /\ call'[c].op \notin Openings /\ call'[c].update = 0
          BY <1>1, <1>7 DEF Becomes, Openings, Mutations
        <4> QED
          BY <3>2, <4>1 DEF WorksOnSession, OpeningsCount, Mutating
      <3>3. CASE d # c
        <4>1. call'[d] = call[d] /\ (d \in recent' <=> d \in recent)
          BY <1>1, <3>1, <3>3 DEF Becomes
        <4>2. WorksOnSession(d)'
          BY <3>1, <4>1 DEF IndInv, CallInv, WorksOnSession
        <4>3. \A e \in recent' : call'[e].op \in Openings => e \in recent /\ call'[e] = call[e]
          <5>1. call'[c].op \notin Openings
            BY <1>1 DEF Becomes, Openings, Mutations
          <5>2. \A e \in recent : e # c => call'[e] = call[e]
            BY <1>1 DEF Becomes, IndInv, TypeOK
          <5>3. c \notin recent
            BY <1>7
          <5> QED
            BY <3>1, <5>1, <5>2, <5>3
        <4>4. OpeningsCount(d)'
          BY <3>1, <4>1, <4>3 DEF IndInv, CallInv, OpeningsCount, At
        <4> QED
          BY <4>2, <4>4
      <3> QED
        BY <3>2, <3>3
    <2> QED
      BY <2>1, <2>2, <2>3, <2>4, <2>5 DEF CallInv
  <1>9. SessionIsOnDisk' /\ OutcomesAreVisible' /\ LastOpeningWins'
    BY <1>1, <1>7 DEF IndInv, SessionIsOnDisk, OutcomesAreVisible, LastOpeningWins, CallMutation, memory, storage, Becomes, At,
                      CallInv, StepsOfOperations
  <1> QED
    BY <1>5, <1>6, <1>8, <1>9 DEF IndInv

\* Settle takes the first call off the queue, or nobody.
Popped(c) == tail' = IF tail # <<>> /\ Head(tail) = c THEN Tail(tail) ELSE tail

LEMMA PoppedKeeps ==
  ASSUME IndInv, NEW c \in Calls, tail' = tail \/ Popped(c)
  PROVE  /\ tail' \in Seq(Calls)
         /\ \A d \in Calls \ {c} : tail # <<>> /\ Head(tail) = d => tail' # <<>> /\ Head(tail') = d
         /\ \A d \in Calls \ {c} : (\E i \in 1 .. Len(tail) : tail[i] = d)
                                   => \E i \in 1 .. Len(tail') : tail'[i] = d
  <1>1. tail \in Seq(Calls)
    BY DEF IndInv, TypeOK
  <1>2. CASE tail' = tail
    BY <1>1, <1>2
  <1>3. CASE tail # <<>> /\ Head(tail) = c /\ tail' = Tail(tail)
    <2>1. tail' \in Seq(Calls) /\ Len(tail') = Len(tail) - 1 /\ Len(tail) \in Nat
      BY <1>1, <1>3
    <2>2. ASSUME NEW d \in Calls \ {c}, NEW i \in 1 .. Len(tail), tail[i] = d
          PROVE  \E j \in 1 .. Len(tail') : tail'[j] = d
      <3>1. i # 1
        BY <1>1, <1>3, <2>2
      <3>2. i - 1 \in 1 .. Len(tail') /\ (i - 1) + 1 = i
        BY <2>1, <3>1
      <3>3. tail'[i - 1] = tail[i]
        BY <1>1, <1>3, <3>2, HeadTailProperties
      <3> QED
        BY <2>2, <3>2, <3>3
    <2> QED
      BY <1>3, <2>1, <2>2
  <1> QED
    BY <1>2, <1>3 DEF Popped

\* A call is rejected, wherever it was.
LEMMA RejectedKeeps ==
  ASSUME IndInv, NEW c \in Calls, call[c].at \in Awaits, End(c, "rejected"), tail' = tail \/ Popped(c),
         open /\ c \in recent /\ call[c].op \in Mutations => call[c].update \notin entries,
         UNCHANGED <<storage, memory, nextUpdate, others, recent>>
  PROVE  IndInv'
  <1>1. Becomes(c, call[c].op, "rejected", 0, Missing, Missing, call[c].update)
    BY Ended DEF IndInv
  <1>2. UNCHANGED <<register, acked, stored, open, envelope, entries, revision, epoch, nextUpdate, others, recent>>
    BY DEF storage, memory
  <1> recent \subseteq Calls
    BY DEF IndInv, TypeOK
  <1>3. TypeOK'
    BY <1>1, <1>2, PoppedKeeps DEF IndInv, TypeOK, Storage!TypeOK, Becomes, CallStates
  <1>4. DiskInv'
    BY <1>2 DEF IndInv, DiskInv
  <1>5. ASSUME NEW d \in Calls PROVE CallInv(d)'
    <2>1. StepsOfOperations(d)' /\ DataIsOnDisk(d)'
      BY <1>1, <1>2 DEF IndInv, CallInv, StepsOfOperations, DataIsOnDisk, At, Becomes
    <2>2. OneMutates(d)'
      BY <1>1, PoppedKeeps DEF IndInv, CallInv, OneMutates, At, Becomes, Mutating
    <2>3. Numbered(d)'
      BY <1>1, <1>2, MissingIsNoVault DEF IndInv, CallInv, Numbered, Becomes
    <2>4. EpochsCount(d)'
      BY <1>1, <1>2 DEF IndInv, CallInv, EpochsCount, Becomes, Awaits
    <2>5. WorksOnSession(d)' /\ OpeningsCount(d)'
      BY <1>1, <1>2 DEF IndInv, CallInv, WorksOnSession, OpeningsCount, Becomes, Mutating, At, Awaits
    <2> QED
      BY <2>1, <2>2, <2>3, <2>4, <2>5 DEF CallInv
  <1>6. SessionIsOnDisk' /\ OutcomesAreVisible' /\ LastOpeningWins'
    BY <1>1, <1>2 DEF IndInv, SessionIsOnDisk, OutcomesAreVisible, LastOpeningWins, Becomes, At, Awaits
  <1> QED
    BY <1>3, <1>4, <1>5, <1>6 DEF IndInv

\* A current call is resolved and the session shows what it has.
LEMMA AdoptedKeeps ==
  ASSUME IndInv, NEW c \in Calls, c \in recent, tail' = tail \/ Popped(c),
         At(c, "decoding") \/ At(c, "saved"),
         Adopt(call[c].data), End(c, "resolved"),
         UNCHANGED <<storage, nextUpdate, others, recent>>
  PROVE  IndInv'
  <1> DEFINE d == call[c].data
  <1> recent \subseteq Calls /\ entries \subseteq Writes
    BY DEF IndInv, TypeOK
  <1>1. Becomes(c, call[c].op, "resolved", 0, Missing, Missing, call[c].update)
    BY Ended DEF IndInv
  <1>2. UNCHANGED <<register, acked, stored, epoch, nextUpdate, others, recent>>
    BY DEF storage, Adopt
  <1>3. d \in stored \cap Vaults /\ open' /\ envelope' = d /\ entries' = UpdatesOf(d) /\ revision' = d
    BY DEF IndInv, CallInv, DataIsOnDisk, Adopt, At
  <1>4. \/ call[c].op \in Openings /\ call[c].op \notin Mutations
        \/ call[c].op \in Mutations /\ call[c].op \notin Openings /\ At(c, "saved")
    BY DEF IndInv, CallInv, StepsOfOperations, At, Openings, Mutations
  <1>5. ASSUME call[c].op \in Openings
        PROVE  (\A e \in Calls : WorksOnSession(e)' /\ OpeningsCount(e)') /\ OutcomesAreVisible' /\ LastOpeningWins'
    <2>1. ~open
      BY <1>5 DEF IndInv, CallInv, OpeningsCount, At
    <2>2. \A e \in recent : call[e].op \in Mutations =>
             call[e].at \in {"queued", "rejected"} /\ call[e].update = 0 /\ call[e].update \notin UpdatesOf(d)
      BY <2>1, UpdatesType, NumberType DEF IndInv, CallInv, WorksOnSession
    <2>3. ASSUME NEW e \in Calls PROVE WorksOnSession(e)' /\ OpeningsCount(e)'
      <3>1. recent' = recent /\ open' /\ call'[e].op = call[e].op
        BY <1>1, <1>2, <1>3 DEF Becomes
      <3>2. CASE call[e].op \in Mutations
        <4>1. e # c /\ call'[e] = call[e]
          BY <1>1, <1>4, <1>5, <3>2 DEF Becomes
        <4>2. WorksOnSession(e)'
          BY <2>2, <3>1, <4>1 DEF WorksOnSession, Mutating
        <4>3. OpeningsCount(e)'
          BY <3>1, <3>2 DEF OpeningsCount, Openings, Mutations
        <4> QED
          BY <4>2, <4>3
      <3>3. CASE call[e].op \notin Mutations
        <4>1. WorksOnSession(e)'
          BY <3>1, <3>3 DEF WorksOnSession
        <4>2. \A f \in recent : call[f].op \in Openings => c = f
          BY <1>5 DEF IndInv, CallInv, OpeningsCount
        <4>3. \A f \in recent : call'[f].op = call[f].op
          BY <1>1 DEF Becomes
        <4>4. OpeningsCount(e)'
          BY <1>1, <3>1, <4>2, <4>3 DEF OpeningsCount, Becomes, At
        <4> QED
          BY <4>1, <4>4
      <3> QED
        BY <3>2, <3>3
    <2>4. OutcomesAreVisible'
      <3>1. ASSUME NEW e \in recent, call'[e].op \in Mutations
            PROVE  call'[e].at \in {"queued", "rejected"} /\ call'[e].update \notin entries'
        BY <1>1, <1>3, <1>4, <1>5, <2>2, <3>1 DEF Becomes
      <3> QED
        BY <1>2, <3>1 DEF OutcomesAreVisible, At
    <2>5. LastOpeningWins'
      BY <1>1, <1>2, <1>5 DEF LastOpeningWins, Becomes, At
    <2> QED
      BY <2>3, <2>4, <2>5
  <1>6. ASSUME call[c].op \in Mutations
        PROVE  (\A e \in Calls : WorksOnSession(e)' /\ OpeningsCount(e)') /\ OutcomesAreVisible' /\ LastOpeningWins'
    <2>1. /\ open /\ call[c].update \in Writes \ entries
          /\ d = [version |-> 2, updates |-> entries \cup {call[c].update}]
      BY <1>4, <1>6 DEF IndInv, CallInv, WorksOnSession, Mutating, At, Openings, Mutations
    <2>2. UpdatesOf(d) = entries \cup {call[c].update} /\ call[c].update # 0
      BY <1>3, <2>1, NumberType DEF UpdatesOf
    <2>3. \A e \in recent : e # c /\ call[e].op \in Mutations =>
             call[e].at \notin Mutating /\ call[e].update # call[c].update
      <3>1. tail # <<>> /\ Head(tail) = c
        BY <1>4, <1>6 DEF IndInv, CallInv, OneMutates, Mutating, At, Openings, Mutations
      <3> QED
        BY <2>2, <3>1 DEF IndInv, CallInv, OneMutates, Numbered
    <2>4. ASSUME NEW e \in Calls PROVE WorksOnSession(e)' /\ OpeningsCount(e)'
      BY <1>1, <1>2, <1>3, <1>4, <1>6, <2>1, <2>3
         DEF IndInv, CallInv, WorksOnSession, OpeningsCount, Becomes, Mutating, At
    <2>5. OutcomesAreVisible'
      <3>1. entries' = entries \cup {call[c].update}
        BY <1>3, <2>2
      <3>2. ASSUME NEW e \in recent, call'[e].op \in Mutations
            PROVE  /\ call'[e].at = "resolved" => call'[e].update \in entries'
                   /\ call'[e].at = "rejected" => call'[e].update \notin entries'
        <4>1. CASE e = c
          BY <1>1, <3>1, <4>1 DEF Becomes
        <4>2. CASE e # c
          <5>1. call'[e] = call[e] /\ call[e].update # call[c].update
            BY <1>1, <2>3, <3>2, <4>2 DEF Becomes
          <5> QED
            BY <2>1, <3>1, <3>2, <5>1 DEF IndInv, OutcomesAreVisible, At
        <4> QED
          BY <4>1, <4>2
      <3> QED
        BY <1>2, <3>2 DEF OutcomesAreVisible, At
    <2>6. LastOpeningWins'
      <3>1. PICK e \in recent : call[e].op \in Openings /\ At(e, "resolved")
        BY <2>1 DEF IndInv, LastOpeningWins
      <3> QED
        BY <1>1, <1>2, <1>4, <1>6, <3>1 DEF LastOpeningWins, Becomes, At
    <2> QED
      BY <2>4, <2>5, <2>6
  <1>7. TypeOK'
    BY <1>1, <1>2, <1>3, AdoptType, PoppedKeeps DEF IndInv, TypeOK, Storage!TypeOK, Becomes, CallStates
  <1>8. DiskInv' /\ SessionIsOnDisk'
    BY <1>2, <1>3 DEF IndInv, DiskInv, SessionIsOnDisk
  <1>9. ASSUME NEW e \in Calls
        PROVE  StepsOfOperations(e)' /\ DataIsOnDisk(e)' /\ OneMutates(e)' /\ Numbered(e)' /\ EpochsCount(e)'
    <2>1. StepsOfOperations(e)' /\ DataIsOnDisk(e)'
      BY <1>1, <1>2 DEF IndInv, CallInv, StepsOfOperations, DataIsOnDisk, At, Becomes
    <2>2. OneMutates(e)'
      BY <1>1, PoppedKeeps DEF IndInv, CallInv, OneMutates, At, Becomes, Mutating
    <2>3. Numbered(e)'
      BY <1>1, <1>2, MissingIsNoVault DEF IndInv, CallInv, Numbered, Becomes
    <2>4. EpochsCount(e)'
      BY <1>1, <1>2 DEF IndInv, CallInv, EpochsCount, Becomes, Awaits
    <2> QED
      BY <2>1, <2>2, <2>3, <2>4
  <1> QED
    BY <1>4, <1>5, <1>6, <1>7, <1>8, <1>9 DEF IndInv, CallInv

\* A rewrite begins.
LEMMA DiskKeeps ==
  ASSUME DiskInv, nextUpdate \in Nat, UNCHANGED <<register, stored>>, nextUpdate' = nextUpdate + 1
  PROVE  DiskInv'
  <1>1. ASSUME NEW d \in stored, NEW u \in UpdatesOf(d) PROVE u < nextUpdate + 1
    <2>1. u \in Nat /\ u < nextUpdate
      BY UpdatesType, NumberType DEF DiskInv
    <2> QED
      BY <2>1
  <1> QED
    BY <1>1 DEF DiskInv

\* An opening call is rejected.
LEMMA OpeningRejectedKeeps ==
  ASSUME IndInv, NEW c \in Calls, End(c, "rejected"),
         call[c].at \in {"loading", "creating", "decoding", "verifying", "restoring", "restored"},
         UNCHANGED <<storage, memory, tail, nextUpdate, others, recent>>
  PROVE  IndInv'
  <1>1. call[c].at \in Awaits /\ call[c].op \notin Mutations
    BY DEF IndInv, CallInv, StepsOfOperations, Awaits, Openings, Mutations
  <1> QED
    BY <1>1, RejectedKeeps

\* An opening call goes on, with nothing or with the vault on disk in its hands.
LEMMA OpeningGoesOn ==
  ASSUME IndInv, NEW c \in Calls, NEW step \in {"creating", "decoding", "restoring"}, NEW d \in Vaults \cup {Missing},
         call[c].at \in {"loading", "verifying"},
         step = "creating" => call[c].op = "create",
         step = "decoding" => d \in stored \cap Vaults,
         d = call[c].data \/ d = register,
         Becomes(c, call[c].op, step, call[c].epoch, d, call[c].expected, call[c].update),
         UNCHANGED <<storage, memory, tail, nextUpdate, others, recent>>
  PROVE  IndInv'
  <1>1. UNCHANGED <<register, acked, stored, open, envelope, entries, revision, epoch, tail, nextUpdate, others, recent>>
    BY DEF storage, memory
  <1> recent \subseteq Calls
    BY DEF IndInv, TypeOK
  <1>2. call[c].op \in Openings /\ call[c].op \notin Mutations
    BY DEF IndInv, CallInv, StepsOfOperations, Openings, Mutations
  <1>3. TypeOK' /\ DiskInv'
    BY <1>1 DEF IndInv, TypeOK, DiskInv, Storage!TypeOK, Becomes, CallStates
  <1>4. ASSUME NEW e \in Calls PROVE CallInv(e)'
    <2>1. StepsOfOperations(e)' /\ DataIsOnDisk(e)'
      BY <1>1, <1>2 DEF IndInv, CallInv, StepsOfOperations, DataIsOnDisk, At, Becomes
    <2>2. OneMutates(e)'
      BY <1>1, <1>2 DEF IndInv, CallInv, OneMutates, At, Becomes
    <2>3. Numbered(e)'
      BY <1>1 DEF IndInv, DiskInv, CallInv, Numbered, Becomes
    <2>4. EpochsCount(e)'
      BY <1>1 DEF IndInv, CallInv, EpochsCount, Becomes, Awaits
    <2>5. WorksOnSession(e)' /\ OpeningsCount(e)'
      BY <1>1, <1>2 DEF IndInv, CallInv, WorksOnSession, OpeningsCount, Becomes, At
    <2> QED
      BY <2>1, <2>2, <2>3, <2>4, <2>5 DEF CallInv
  <1>5. SessionIsOnDisk' /\ OutcomesAreVisible' /\ LastOpeningWins'
    BY <1>1, <1>2 DEF IndInv, SessionIsOnDisk, OutcomesAreVisible, LastOpeningWins, Becomes, At
  <1> QED
    BY <1>3, <1>4, <1>5 DEF IndInv

LEMMA LoadKeeps == ASSUME IndInv, NEW c \in Calls, Load(c) PROVE IndInv'
  <1>1. call[c] \in CallStates
    BY DEF IndInv, TypeOK, CallStates
  <1>2. CASE call[c].op = "create" /\ register = Missing /\ Move(c, "creating")
    <2>1. Becomes(c, call[c].op, "creating", call[c].epoch, call[c].data, call[c].expected, call[c].update)
      BY <1>2, Moved DEF IndInv, Steps, Awaits
    <2> QED
      BY <1>1, <1>2, <2>1, OpeningGoesOn DEF Load, At, CallStates
  <1>3. CASE call[c].op # "create" /\ register \in Vaults /\ Loads(c, register)
    <2>1. Becomes(c, call[c].op, "decoding", call[c].epoch, register, call[c].expected, call[c].update)
      BY <1>3, Loaded DEF IndInv
    <2> QED
      BY <1>1, <1>3, <2>1, OpeningGoesOn DEF Load, At, IndInv, DiskInv
  <1>4. CASE End(c, "rejected")
    BY <1>4, OpeningRejectedKeeps DEF Load, At
  <1> QED
    BY <1>2, <1>3, <1>4 DEF Load, Loads

LEMMA VerifyKeeps == ASSUME IndInv, NEW c \in Calls, Verify(c) PROVE IndInv'
  <1>1. call[c] \in CallStates
    BY DEF IndInv, TypeOK, CallStates
  <1>2. CASE Move(c, "restoring")
    <2>1. Becomes(c, call[c].op, "restoring", call[c].epoch, call[c].data, call[c].expected, call[c].update)
      BY <1>2, Moved DEF IndInv, Steps, Awaits
    <2> QED
      BY <1>1, <2>1, OpeningGoesOn DEF Verify, At, CallStates
  <1>3. CASE End(c, "rejected")
    BY <1>3, OpeningRejectedKeeps DEF Verify, At
  <1> QED
    BY <1>2, <1>3 DEF Verify

LEMMA DecodeKeeps == ASSUME IndInv, NEW c \in Calls, Decode(c) PROVE IndInv'
  <1>1. CASE epoch = call[c].epoch /\ Adopt(call[c].data) /\ End(c, "resolved")
    <2>1. c \in recent
      BY <1>1 DEF IndInv, CallInv, EpochsCount, Decode, At, Awaits
    <2> QED
      BY <1>1, <2>1, AdoptedKeeps DEF Decode
  <1>2. CASE End(c, "rejected") /\ UNCHANGED memory
    BY <1>2, OpeningRejectedKeeps DEF Decode, At
  <1> QED
    BY <1>1, <1>2 DEF Decode

LEMMA CreateKeeps == ASSUME IndInv, NEW c \in Calls, Create(c) PROVE IndInv'
  <1>1. CASE End(c, "rejected") /\ UNCHANGED nextUpdate
    BY <1>1, OpeningRejectedKeeps DEF Create, At
  <1>2. ASSUME NewUpdate, Creates(c, nextUpdate, Seal(Missing, nextUpdate)) PROVE IndInv'
    <2> DEFINE d == Seal(Missing, nextUpdate)
    <2> recent \subseteq Calls
      BY DEF IndInv, TypeOK
    <2>1. UNCHANGED <<register, acked, stored, open, envelope, entries, revision, epoch, tail, others, recent>>
      BY DEF Create, storage, memory
    <2>2. nextUpdate \in Writes /\ nextUpdate \in Nat /\ nextUpdate' = nextUpdate + 1 /\ nextUpdate' \in 1 .. MaxWrites + 1
          /\ nextUpdate # 0
      BY <1>2, MaxWritesAssumption DEF NewUpdate, Writes
    <2>3. d \in Vaults /\ UpdatesOf(d) = {nextUpdate}
      BY <2>2, SealType, MissingIsNoVault
    <2> HIDE DEF d
    <2>4. Becomes(c, call[c].op, "saving", call[c].epoch, d, Missing, nextUpdate)
      BY <1>2, <2>2, <2>3, Created DEF IndInv, d
    <2>5. call[c].op = "create" /\ call[c].op \in Openings /\ call[c].op \notin Mutations /\ At(c, "creating")
      BY DEF IndInv, CallInv, StepsOfOperations, Create, At, Openings, Mutations
    <2>6. TypeOK'
      BY <2>1, <2>2, <2>4 DEF IndInv, TypeOK, Storage!TypeOK, Becomes, CallStates
    <2>7. DiskInv'
      BY <2>1, <2>2, DiskKeeps DEF IndInv
    <2>8. ASSUME NEW e \in Calls PROVE CallInv(e)'
      <3>1. StepsOfOperations(e)'
        BY <2>1, <2>4, <2>5 DEF IndInv, CallInv, StepsOfOperations, At, Becomes
      <3>2. DataIsOnDisk(e)'
        BY <2>1, <2>2, <2>4, MissingIsNoVault DEF IndInv, CallInv, DataIsOnDisk, At, Becomes, d
      <3>3. OneMutates(e)'
        BY <2>1, <2>4, <2>5 DEF IndInv, CallInv, OneMutates, At, Becomes
      <3>4. Numbered(e)'
        <4>1. \A f \in Calls : call[f].update \in Nat /\ call[f].update < nextUpdate /\ \A u \in UpdatesOf(call[f].data) : u \in Nat /\ u < nextUpdate
          BY UpdatesType, NumberType DEF IndInv, TypeOK, CallInv, Numbered
        <4> QED
          BY <2>2, <2>3, <2>4, <4>1 DEF IndInv, CallInv, Numbered, Becomes
      <3>5. EpochsCount(e)'
        BY <2>1, <2>4, <2>5 DEF IndInv, CallInv, EpochsCount, Becomes, Awaits, At
      <3>6. WorksOnSession(e)' /\ OpeningsCount(e)'
        BY <2>1, <2>4, <2>5 DEF IndInv, CallInv, WorksOnSession, OpeningsCount, Becomes, At
      <3> QED
        BY <3>1, <3>2, <3>3, <3>4, <3>5, <3>6 DEF CallInv
    <2>9. SessionIsOnDisk' /\ OutcomesAreVisible' /\ LastOpeningWins'
      BY <2>1, <2>4, <2>5 DEF IndInv, SessionIsOnDisk, OutcomesAreVisible, LastOpeningWins, Becomes, At
    <2> QED
      BY <2>6, <2>7, <2>8, <2>9 DEF IndInv
  <1> QED
    BY <1>1, <1>2 DEF Create, Creates

\* Nobody else is past the start of a mutation when the first on the queue is not.
LEMMA NobodyElse ==
  ASSUME IndInv, NEW c \in Calls, tail # <<>>, Head(tail) = c
  PROVE  \A e \in Calls : e # c /\ call[e].op \in Mutations => call[e].at \notin Mutating
  BY DEF IndInv, CallInv, OneMutates

LEMMA StartKeeps == ASSUME IndInv, NEW c \in Calls, Start(c) PROVE IndInv'
  <1>1. call[c].op \in Mutations /\ call[c].op \notin Openings /\ call[c].update = 0 /\ At(c, "queued")
    BY DEF IndInv, CallInv, StepsOfOperations, Start, At, Openings, Mutations
  <1>2. CASE Settle(c, "rejected") /\ UNCHANGED nextUpdate
    <2>1. call[c].update \notin entries
      BY <1>1, NumberType DEF IndInv, TypeOK
    <2> QED
      BY <1>1, <1>2, <2>1, RejectedKeeps DEF Start, Settle, Popped, At, Awaits
  <1>3. ASSUME Current(c), NewUpdate, UNCHANGED tail,
               Works(c, nextUpdate, [version |-> 2, updates |-> entries \cup {nextUpdate}])
        PROVE  IndInv'
    <2> DEFINE d == [version |-> 2, updates |-> entries \cup {nextUpdate}]
    <2> recent \subseteq Calls /\ entries \subseteq Writes
      BY DEF IndInv, TypeOK
    <2>1. UNCHANGED <<register, acked, stored, open, envelope, entries, revision, epoch, tail, others, recent>>
      BY <1>3 DEF Start, storage, memory
    <2>2. nextUpdate \in Writes /\ nextUpdate \in Nat /\ nextUpdate' = nextUpdate + 1 /\ nextUpdate' \in 1 .. MaxWrites + 1
          /\ nextUpdate # 0
      BY <1>3, MaxWritesAssumption DEF NewUpdate, Writes
    <2>3. d \in Vaults /\ UpdatesOf(d) = entries \cup {nextUpdate}
      BY <2>2 DEF Vaults, Versions, UpdatesOf
    <2>4. Becomes(c, call[c].op, "encoding", call[c].epoch, d, call[c].expected, nextUpdate)
      <3> HIDE DEF d
      <3> QED
        BY <1>3, <2>2, <2>3, Worked DEF IndInv, d
    <2>5. open /\ epoch = call[c].epoch /\ c \in recent
      BY <1>1, <1>3 DEF IndInv, CallInv, EpochsCount, Current, At, Awaits
    <2>6. \A e \in Calls : call[e].update \in Nat /\ call[e].update < nextUpdate
      BY DEF IndInv, TypeOK, CallInv, Numbered
    <2>7. \A u \in entries : u \in Nat /\ u < nextUpdate
      BY <2>5, UpdatesType, NumberType DEF IndInv, SessionIsOnDisk, DiskInv
    <2>8. tail # <<>> /\ Head(tail) = c
      <3>1. PICK i \in 1 .. Len(tail) : tail[i] = c
        BY <1>1 DEF IndInv, CallInv, OneMutates
      <3> QED
        BY <3>1 DEF Start, IndInv, TypeOK
    <2>9. nextUpdate \notin entries
      BY <2>2, <2>7
    <2>10. TypeOK'
      BY <2>1, <2>2, <2>4 DEF IndInv, TypeOK, Storage!TypeOK, Becomes, CallStates
    <2>11. DiskInv'
      BY <2>1, <2>2, DiskKeeps DEF IndInv
    <2>12. ASSUME NEW e \in Calls PROVE CallInv(e)'
      <3>1. StepsOfOperations(e)' /\ DataIsOnDisk(e)'
        BY <1>1, <2>1, <2>4, <2>5 DEF IndInv, CallInv, StepsOfOperations, DataIsOnDisk, At, Becomes
      <3>2. OneMutates(e)'
        BY <1>1, <2>1, <2>4, <2>8 DEF IndInv, CallInv, OneMutates, At, Becomes
      <3>3. Numbered(e)'
        <4>1. \A f \in Calls : \A u \in UpdatesOf(call[f].data) : u \in Nat /\ u < nextUpdate
          BY UpdatesType, NumberType DEF IndInv, CallInv, Numbered
        <4> HIDE DEF d
        <4> QED
          BY <2>2, <2>3, <2>4, <2>6, <2>7, <4>1 DEF IndInv, CallInv, Numbered, Becomes
      <3>4. EpochsCount(e)'
        BY <1>1, <2>1, <2>4, <2>5 DEF IndInv, CallInv, EpochsCount, Becomes, Awaits, At
      <3>5. WorksOnSession(e)' /\ OpeningsCount(e)'
        BY <1>1, <2>1, <2>2, <2>4, <2>5, <2>9 DEF IndInv, CallInv, WorksOnSession, OpeningsCount, Becomes, At
      <3> QED
        BY <3>1, <3>2, <3>3, <3>4, <3>5 DEF CallInv
    <2>13. SessionIsOnDisk' /\ OutcomesAreVisible' /\ LastOpeningWins'
      BY <1>1, <2>1, <2>4, <2>5 DEF IndInv, SessionIsOnDisk, OutcomesAreVisible, LastOpeningWins, Becomes, At
    <2> QED
      BY <2>10, <2>11, <2>12, <2>13 DEF IndInv
  <1> QED
    BY <1>2, <1>3 DEF Start, Works

LEMMA EncodedKeeps == ASSUME IndInv, NEW c \in Calls, Encoded(c) PROVE IndInv'
  <1>1. call[c].op \in Mutations /\ call[c].op \notin Openings /\ At(c, "encoding")
    BY DEF IndInv, CallInv, StepsOfOperations, Encoded, At, Openings, Mutations
  <1>2. CASE Settle(c, "rejected") /\ ~Current(c)
    <2>1. open => c \notin recent
      BY <1>1, <1>2 DEF IndInv, CallInv, EpochsCount, Current, At, Awaits
    <2> QED
      BY <1>1, <1>2, <2>1, RejectedKeeps DEF Encoded, Settle, Popped, At, Awaits
  <1>3. ASSUME Current(c), Expects(c, revision), UNCHANGED tail PROVE IndInv'
    <2> recent \subseteq Calls /\ entries \subseteq Writes
      BY DEF IndInv, TypeOK
    <2>1. UNCHANGED <<register, acked, stored, open, envelope, entries, revision, epoch, tail, nextUpdate, others, recent>>
      BY <1>3 DEF Encoded, storage, memory
    <2>2. Becomes(c, call[c].op, "saving", call[c].epoch, call[c].data, revision, call[c].update)
      BY <1>3, Expecting DEF IndInv, TypeOK
    <2>3. open /\ epoch = call[c].epoch /\ c \in recent
      BY <1>1, <1>3 DEF IndInv, CallInv, EpochsCount, Current, At, Awaits
    <2>4. entries = UpdatesOf(revision)
      BY <2>3 DEF IndInv, SessionIsOnDisk
    <2>5. call[c].update \in Writes \ UpdatesOf(revision) /\ call[c].data = Seal(revision, call[c].update)
      BY <1>1, <2>3, <2>4 DEF IndInv, CallInv, WorksOnSession, Mutating, At, Seal
    <2>6. TypeOK' /\ DiskInv'
      BY <2>1, <2>2 DEF IndInv, TypeOK, DiskInv, Storage!TypeOK, Becomes, CallStates
    <2>7. ASSUME NEW e \in Calls PROVE CallInv(e)'
      <3>1. StepsOfOperations(e)' /\ DataIsOnDisk(e)'
        BY <1>1, <2>1, <2>2, <2>5 DEF IndInv, CallInv, StepsOfOperations, DataIsOnDisk, At, Becomes
      <3>2. OneMutates(e)' /\ Numbered(e)'
        BY <1>1, <2>1, <2>2 DEF IndInv, CallInv, OneMutates, Numbered, At, Becomes, Mutating
      <3>3. EpochsCount(e)'
        BY <1>1, <2>1, <2>2, <2>3 DEF IndInv, CallInv, EpochsCount, Becomes, Awaits, At
      <3>4. WorksOnSession(e)' /\ OpeningsCount(e)'
        BY <1>1, <2>1, <2>2, <2>3 DEF IndInv, CallInv, WorksOnSession, OpeningsCount, Becomes, At, Mutating
      <3> QED
        BY <3>1, <3>2, <3>3, <3>4 DEF CallInv
    <2>8. SessionIsOnDisk' /\ OutcomesAreVisible' /\ LastOpeningWins'
      BY <1>1, <2>1, <2>2, <2>3 DEF IndInv, SessionIsOnDisk, OutcomesAreVisible, LastOpeningWins, Becomes, At
    <2> QED
      BY <2>6, <2>7, <2>8 DEF IndInv
  <1> QED
    BY <1>2, <1>3 DEF Encoded, Expects

\* The file gets a content whose rewrites have numbers.
LEMMA Replaced ==
  ASSUME DiskInv, nextUpdate \in Nat, nextUpdate' \in {nextUpdate, nextUpdate + 1},
         \A u \in UpdatesOf(register') : u < nextUpdate',
         stored' \in {stored, stored \cup {register'}}, register' \in stored'
  PROVE  DiskInv'
  <1>1. ASSUME NEW d \in stored', NEW u \in UpdatesOf(d) PROVE u < nextUpdate'
    <2>1. CASE d = register'
      BY <1>1, <2>1
    <2>2. CASE d \in stored
      <3>1. u \in Nat /\ u < nextUpdate
        BY <1>1, <2>2, UpdatesType, NumberType DEF DiskInv
      <3> QED
        BY <3>1
    <2> QED
      BY <2>1, <2>2
  <1> QED
    BY <1>1 DEF DiskInv

LEMMA CommitKeeps == ASSUME IndInv, NEW c \in Calls, Commit(c) PROVE IndInv'
  <1> recent \subseteq Calls
    BY DEF IndInv, TypeOK
  <1> DEFINE d == call[c].data
  <1>1. UNCHANGED <<acked, open, envelope, entries, revision, epoch, tail, nextUpdate, others, recent>>
    BY DEF Commit, memory
  <1>2. /\ call[c].op \in Mutations \cup {"create"} /\ At(c, "saving")
        /\ call[c].update \in Writes \ UpdatesOf(register) /\ d = Seal(register, call[c].update)
    BY DEF IndInv, CallInv, StepsOfOperations, DataIsOnDisk, Commit, At
  <1>3. d \in Vaults /\ UpdatesOf(d) = UpdatesOf(register) \cup {call[c].update}
    BY <1>2, SealType
  <1>4. register' = d /\ stored' = stored \cup {d} /\ \A e \in Calls : call[e].at # "committed"
    BY DEF Commit, NoWriter, At
  <1>5. Becomes(c, call[c].op, "committed", call[c].epoch, d, call[c].expected, call[c].update)
    BY Moved DEF Commit, IndInv, Steps, Awaits
  <1>6. TypeOK'
    <2>1. d \in Contents
      BY <1>3 DEF Contents
    <2>2. stored' \in SUBSET Contents /\ Storage!TypeOK'
      BY <1>1, <1>4, <2>1, SameContents DEF IndInv, TypeOK, Storage!TypeOK
    <2> QED
      BY <1>1, <1>5, <2>2 DEF IndInv, TypeOK, Becomes, CallStates
  <1>7. DiskInv'
    BY <1>1, <1>4, Replaced DEF IndInv, TypeOK, CallInv, Numbered
  <1>8. ASSUME NEW e \in Calls PROVE CallInv(e)'
    <2>1. StepsOfOperations(e)'
      BY <1>1, <1>2, <1>5 DEF IndInv, CallInv, StepsOfOperations, At, Becomes, Openings
    <2>2. DataIsOnDisk(e)'
      <3> HIDE DEF d
      <3> QED
        BY <1>1, <1>3, <1>4, <1>5 DEF IndInv, CallInv, DataIsOnDisk, At, Becomes
    <2>3. OneMutates(e)' /\ Numbered(e)'
      BY <1>1, <1>2, <1>5 DEF IndInv, CallInv, OneMutates, Numbered, At, Becomes, Mutating
    <2>4. EpochsCount(e)'
      BY <1>1, <1>2, <1>5 DEF IndInv, CallInv, EpochsCount, Becomes, Awaits, At
    <2>5. WorksOnSession(e)' /\ OpeningsCount(e)'
      BY <1>1, <1>2, <1>5 DEF IndInv, CallInv, WorksOnSession, OpeningsCount, Becomes, At, Mutating
    <2> QED
      BY <2>1, <2>2, <2>3, <2>4, <2>5 DEF CallInv
  <1>9. SessionIsOnDisk' /\ OutcomesAreVisible' /\ LastOpeningWins'
    BY <1>1, <1>2, <1>4, <1>5 DEF IndInv, SessionIsOnDisk, OutcomesAreVisible, LastOpeningWins, Becomes, At
  <1> QED
    BY <1>6, <1>7, <1>8, <1>9 DEF IndInv

LEMMA AcknowledgeKeeps == ASSUME IndInv, NEW c \in Calls, Acknowledge(c) PROVE IndInv'
  <1> recent \subseteq Calls
    BY DEF IndInv, TypeOK
  <1>1. UNCHANGED <<register, stored, open, envelope, entries, revision, epoch, tail, nextUpdate, others, recent>>
    BY DEF Acknowledge, memory
  <1>2. At(c, "committed") /\ call[c].update \in Writes
    BY UpdatesType DEF IndInv, CallInv, DataIsOnDisk, Acknowledge, At
  <1>3. Becomes(c, call[c].op, "saved", call[c].epoch, call[c].data, call[c].expected, call[c].update)
    BY Moved DEF Acknowledge, IndInv, Steps, Awaits
  <1>4. TypeOK'
    <2>1. Storage!TypeOK'
      BY <1>1, <1>2, SameContents DEF IndInv, TypeOK, Storage!TypeOK, Acknowledge
    <2> QED
      BY <1>1, <1>3, <2>1 DEF IndInv, TypeOK, Becomes, CallStates
  <1>5. DiskInv'
    BY <1>1 DEF IndInv, DiskInv
  <1>6. ASSUME NEW e \in Calls PROVE CallInv(e)'
    <2>1. StepsOfOperations(e)' /\ DataIsOnDisk(e)'
      BY <1>1, <1>2, <1>3 DEF IndInv, CallInv, StepsOfOperations, DataIsOnDisk, At, Becomes
    <2>2. OneMutates(e)' /\ Numbered(e)'
      BY <1>1, <1>2, <1>3 DEF IndInv, CallInv, OneMutates, Numbered, At, Becomes, Mutating
    <2>3. EpochsCount(e)'
      BY <1>1, <1>2, <1>3 DEF IndInv, CallInv, EpochsCount, Becomes, Awaits, At
    <2>4. WorksOnSession(e)' /\ OpeningsCount(e)'
      BY <1>1, <1>2, <1>3 DEF IndInv, CallInv, WorksOnSession, OpeningsCount, Becomes, At, Mutating
    <2> QED
      BY <2>1, <2>2, <2>3, <2>4 DEF CallInv
  <1>7. SessionIsOnDisk' /\ OutcomesAreVisible' /\ LastOpeningWins'
    BY <1>1, <1>2, <1>3 DEF IndInv, SessionIsOnDisk, OutcomesAreVisible, LastOpeningWins, Becomes, At
  <1> QED
    BY <1>4, <1>5, <1>6, <1>7 DEF IndInv

LEMMA SaveFailsKeeps == ASSUME IndInv, NEW c \in Calls, SaveFails(c) PROVE IndInv'
  <1>1. open /\ c \in recent /\ call[c].op \in Mutations => call[c].update \notin entries
    BY DEF IndInv, CallInv, WorksOnSession, SaveFails, At, Mutating
  <1> QED
    BY <1>1, RejectedKeeps DEF SaveFails, Settle, Popped, At, Awaits

LEMMA SavedKeeps == ASSUME IndInv, NEW c \in Calls, Saved(c) PROVE IndInv'
  <1>1. At(c, "saved") /\ call[c].op \in Mutations \cup {"create"}
    BY DEF IndInv, CallInv, StepsOfOperations, Saved, At
  <1>2. CASE /\ IF call[c].op = "create" THEN epoch = call[c].epoch ELSE Current(c)
             /\ Adopt(call[c].data)
             /\ Settle(c, "resolved")
    <2>1. c \in recent
      BY <1>1, <1>2 DEF IndInv, CallInv, EpochsCount, Current, At, Awaits
    <2> QED
      BY <1>1, <1>2, <2>1, AdoptedKeeps DEF Saved, Settle, Popped
  <1>3. CASE /\ IF call[c].op = "create" THEN epoch # call[c].epoch ELSE ~Current(c)
             /\ Settle(c, "rejected")
             /\ UNCHANGED memory
    <2>1. open /\ call[c].op \in Mutations => c \notin recent
      BY <1>1, <1>3 DEF IndInv, CallInv, EpochsCount, Current, At, Awaits, Mutations
    <2> QED
      BY <1>1, <1>3, <2>1, RejectedKeeps DEF Saved, Settle, Popped, At, Awaits
  <1> QED
    BY <1>2, <1>3 DEF Saved

\* The file is replaced while no storage call of the session has written it.
LEMMA FileReplaced ==
  ASSUME IndInv, NoWriter, register' \in Contents, acked' \in SUBSET Writes, nextUpdate' \in {nextUpdate, nextUpdate + 1},
         nextUpdate' \in 1 .. MaxWrites + 1, others' \in 0 .. MaxOthers,
         \A u \in UpdatesOf(register') : u < nextUpdate',
         stored' \in {stored, stored \cup {register'}}, register' \in stored',
         UNCHANGED <<memory, tail, call, recent>>
  PROVE  IndInv'
  <1>1. UNCHANGED <<open, envelope, entries, revision, epoch, tail, call, recent>>
    BY DEF memory
  <1>2. nextUpdate \in Nat /\ nextUpdate' \in Nat /\ nextUpdate <= nextUpdate'
    BY MaxWritesAssumption DEF IndInv, TypeOK
  <1>3. TypeOK'
    <2>1. Storage!TypeOK' /\ stored' \in SUBSET Contents
      BY <1>1, SameContents DEF IndInv, TypeOK, Storage!TypeOK
    <2> QED
      BY <1>1, <2>1 DEF IndInv, TypeOK
  <1>4. DiskInv'
    BY <1>2, Replaced DEF IndInv
  <1>5. ASSUME NEW e \in Calls PROVE CallInv(e)'
    <2>1. StepsOfOperations(e)' /\ EpochsCount(e)' /\ OneMutates(e)' /\ OpeningsCount(e)'
      BY <1>1 DEF IndInv, CallInv, StepsOfOperations, EpochsCount, OneMutates, OpeningsCount, At
    <2>2. DataIsOnDisk(e)'
      BY <1>1 DEF IndInv, CallInv, DataIsOnDisk, At, NoWriter
    <2>3. Numbered(e)'
      <3>1. call[e].update \in Nat /\ call[e].update < nextUpdate
            /\ \A u \in UpdatesOf(call[e].data) : u \in Nat /\ u < nextUpdate
        BY UpdatesType, NumberType DEF IndInv, TypeOK, CallInv, Numbered
      <3> QED
        BY <1>1, <1>2, <3>1 DEF IndInv, CallInv, Numbered
    <2>4. WorksOnSession(e)'
      BY <1>1 DEF IndInv, CallInv, WorksOnSession, At
    <2> QED
      BY <2>1, <2>2, <2>3, <2>4 DEF CallInv
  <1>6. SessionIsOnDisk' /\ OutcomesAreVisible' /\ LastOpeningWins'
    BY <1>1 DEF IndInv, SessionIsOnDisk, OutcomesAreVisible, LastOpeningWins, At
  <1> QED
    BY <1>3, <1>4, <1>5, <1>6 DEF IndInv

LEMMA OthersKeeps == ASSUME IndInv, Others PROVE IndInv'
  <1>1. nextUpdate \in 1 .. MaxWrites + 1 /\ nextUpdate \in Nat /\ register \in Contents /\ acked \in SUBSET Writes
    BY MaxWritesAssumption, SameContents DEF IndInv, TypeOK, Storage!TypeOK
  <1>2. others' \in 0 .. MaxOthers
    BY BoundsAssumption DEF IndInv, TypeOK, Others
  <1>3. CASE Storage!Commit /\ NewUpdate /\ nextUpdate \in UpdatesOf(register')
    <2>1. nextUpdate \in Writes /\ nextUpdate' = nextUpdate + 1 /\ nextUpdate' \in 1 .. MaxWrites + 1
      BY <1>1, <1>3, MaxWritesAssumption DEF NewUpdate, Writes
    <2>2. PICK u \in Writes \ UpdatesOf(register) :
             \/ register' = Seal(register, u)
             \/ register = Missing /\ register' = [version |-> 1, updates |-> {u}]
      BY <1>3, SameContents DEF Storage!Commit
    <2>3. register' \in Vaults /\ UpdatesOf(register') = UpdatesOf(register) \cup {u}
      <3>1. CASE register' = Seal(register, u)
        BY <2>2, <3>1, SealType
      <3>2. CASE register = Missing /\ register' = [version |-> 1, updates |-> {u}]
        BY <2>2, <3>2, MissingIsNoVault DEF Vaults, Versions, UpdatesOf
      <3> QED
        BY <2>2, <3>1, <3>2
    <2>4. \A v \in UpdatesOf(register) : v \in Nat /\ v < nextUpdate
      BY UpdatesType, NumberType DEF IndInv, DiskInv
    <2>5. u = nextUpdate
      BY <1>1, <1>3, <2>3, <2>4
    <2>6. \A v \in UpdatesOf(register') : v < nextUpdate'
      BY <1>1, <2>1, <2>3, <2>4, <2>5
    <2>7. acked' \in SUBSET Writes /\ register' \in Contents
      BY <1>1, <1>3, <2>3 DEF Storage!Commit, Contents
    <2> QED
      BY <1>2, <2>1, <2>6, <2>7, FileReplaced DEF Others
  <1>4. CASE (\E d \in stored \cap Vaults : register' = d) /\ Storage!Restore /\ UNCHANGED nextUpdate
    <2>1. register' \in stored /\ register' \in Contents
      BY <1>4 DEF IndInv, TypeOK
    <2>2. \A u \in UpdatesOf(register') : u < nextUpdate
      BY <2>1 DEF IndInv, DiskInv
    <2>3. acked' \in SUBSET Writes
      BY <1>1, <1>4 DEF Storage!Restore
    <2> QED
      BY <1>1, <1>2, <1>4, <2>1, <2>2, <2>3, FileReplaced DEF Others
  <1>5. CASE Storage!Damage /\ UNCHANGED nextUpdate
    <2>1. register' = Corrupt /\ acked' \in SUBSET Writes
      BY <1>1, <1>5 DEF Storage!Damage
    <2>2. register' \in Contents /\ UpdatesOf(register') = {}
      BY <2>1, ContentsAssumption DEF Contents, NonVaults, UpdatesOf
    <2> QED
      BY <1>1, <1>2, <1>5, <2>1, <2>2, FileReplaced DEF Others
  <1> QED
    BY <1>3, <1>4, <1>5 DEF Others

LEMMA RestoreKeeps == ASSUME IndInv, NEW c \in Calls, Restore(c) PROVE IndInv'
  <1>1. CASE End(c, "rejected") /\ UNCHANGED <<register, acked>>
    BY <1>1, OpeningRejectedKeeps DEF Restore, At, storage
  <1>2. ASSUME NoWriter, NEW d \in stored \cap Vaults, register' = d, Storage!Restore, Move(c, "restored")
        PROVE  IndInv'
    <2> recent \subseteq Calls
      BY DEF IndInv, TypeOK
    <2>1. UNCHANGED <<stored, open, envelope, entries, revision, epoch, tail, nextUpdate, others, recent>>
      BY DEF Restore, memory
    <2>2. Becomes(c, call[c].op, "restored", call[c].epoch, call[c].data, call[c].expected, call[c].update)
      BY <1>2, Moved DEF IndInv, Steps, Awaits
    <2>3. call[c].op \in Openings /\ call[c].op \notin Mutations /\ At(c, "restoring")
      BY DEF IndInv, CallInv, StepsOfOperations, Restore, At, Openings, Mutations
    <2>4. TypeOK'
      <3>1. Storage!TypeOK'
        BY <1>2, SameContents DEF IndInv, TypeOK, Storage!TypeOK, Storage!Restore
      <3> QED
        BY <2>1, <2>2, <3>1 DEF IndInv, TypeOK, Becomes, CallStates
    <2>5. DiskInv'
      BY <1>2, <2>1 DEF IndInv, DiskInv
    <2>6. ASSUME NEW e \in Calls PROVE CallInv(e)'
      <3>1. StepsOfOperations(e)' /\ DataIsOnDisk(e)'
        BY <1>2, <2>1, <2>2, <2>3 DEF IndInv, CallInv, StepsOfOperations, DataIsOnDisk, At, Becomes, NoWriter
      <3>2. OneMutates(e)' /\ Numbered(e)'
        BY <2>1, <2>2, <2>3 DEF IndInv, CallInv, OneMutates, Numbered, At, Becomes
      <3>3. EpochsCount(e)'
        BY <2>1, <2>2, <2>3 DEF IndInv, CallInv, EpochsCount, Becomes, Awaits, At
      <3>4. WorksOnSession(e)' /\ OpeningsCount(e)'
        BY <2>1, <2>2, <2>3 DEF IndInv, CallInv, WorksOnSession, OpeningsCount, Becomes, At
      <3> QED
        BY <3>1, <3>2, <3>3, <3>4 DEF CallInv
    <2>7. SessionIsOnDisk' /\ OutcomesAreVisible' /\ LastOpeningWins'
      BY <2>1, <2>2, <2>3 DEF IndInv, SessionIsOnDisk, OutcomesAreVisible, LastOpeningWins, Becomes, At
    <2> QED
      BY <2>4, <2>5, <2>6, <2>7 DEF IndInv
  <1> QED
    BY <1>1, <1>2 DEF Restore

LEMMA RestoredKeeps == ASSUME IndInv, NEW c \in Calls, Restored(c) PROVE IndInv'
  <1>1. CASE End(c, "rejected") /\ UNCHANGED <<memory, recent>>
    BY <1>1, OpeningRejectedKeeps DEF Restored, At
  <1>2. ASSUME Locked, LoadsAt(c, epoch + 1), recent' = {c} PROVE IndInv'
    <2>1. UNCHANGED <<register, acked, stored, tail, nextUpdate, others>>
      BY DEF Restored, storage
    <2>2. Becomes(c, call[c].op, "loading", epoch + 1, call[c].data, call[c].expected, call[c].update)
      BY <1>2, LoadingAgain DEF IndInv, TypeOK
    <2>3. call[c].op \in Openings /\ call[c].op \notin Mutations /\ At(c, "restored")
      BY DEF IndInv, CallInv, StepsOfOperations, Restored, At, Openings, Mutations
    <2>4. TypeOK'
      BY <1>2, <2>1, <2>2, LockedType DEF IndInv, TypeOK, Storage!TypeOK, Becomes, CallStates
    <2>5. DiskInv'
      BY <2>1 DEF IndInv, DiskInv
    <2>6. ASSUME NEW e \in Calls PROVE CallInv(e)'
      <3>1. StepsOfOperations(e)' /\ DataIsOnDisk(e)'
        BY <1>2, <2>1, <2>2, <2>3 DEF IndInv, CallInv, StepsOfOperations, DataIsOnDisk, At, Becomes
      <3>2. OneMutates(e)' /\ Numbered(e)'
        BY <2>1, <2>2, <2>3 DEF IndInv, CallInv, OneMutates, Numbered, At, Becomes
      <3>3. EpochsCount(e)'
        BY <1>2, <2>2 DEF IndInv, TypeOK, CallInv, EpochsCount, Locked, Becomes
      <3>4. WorksOnSession(e)' /\ OpeningsCount(e)'
        BY <1>2, <2>2, <2>3 DEF WorksOnSession, OpeningsCount, Locked, Becomes
      <3> QED
        BY <3>1, <3>2, <3>3, <3>4 DEF CallInv
    <2>7. SessionIsOnDisk' /\ OutcomesAreVisible' /\ LastOpeningWins'
      BY <1>2 DEF SessionIsOnDisk, OutcomesAreVisible, LastOpeningWins, Locked
    <2> QED
      BY <2>4, <2>5, <2>6, <2>7 DEF IndInv
  <1> QED
    BY <1>1, <1>2 DEF Restored, LoadsAt

--------------------------------------------------------------------------------
(* The inductive invariant. *)

LEMMA IndInit == Init => IndInv
  <1> SUFFICES ASSUME Init PROVE IndInv
    OBVIOUS
  <1>1. TypeOK
    BY TypeInit
  <1>2. register \in Vaults => UpdatesOf(register) = {}
    BY MissingIsNoVault DEF Init, UpdatesOf
  <1>3. DiskInv
    BY <1>2 DEF Init, DiskInv, UpdatesOf
  <1>4. ASSUME NEW c \in Calls PROVE CallInv(c)
    BY <1>4, MissingIsNoVault
       DEF Init, Unused, CallInv, StepsOfOperations, EpochsCount, DataIsOnDisk, OneMutates, Numbered, WorksOnSession,
           OpeningsCount, At, Mutating, Awaits
  <1>5. SessionIsOnDisk /\ OutcomesAreVisible /\ LastOpeningWins
    BY DEF Init, SessionIsOnDisk, OutcomesAreVisible, LastOpeningWins
  <1> QED
    BY <1>1, <1>3, <1>4, <1>5 DEF IndInv

LEMMA StutterKeeps == ASSUME IndInv, UNCHANGED vars PROVE IndInv'
  BY DEF vars, storage, memory, IndInv, TypeOK, Storage!TypeOK, DiskInv, CallInv, StepsOfOperations, EpochsCount,
         DataIsOnDisk, OneMutates, Numbered, WorksOnSession, OpeningsCount, SessionIsOnDisk, OutcomesAreVisible,
         LastOpeningWins, At

LEMMA IndNext == IndInv /\ [Next]_vars => IndInv'
  <1> SUFFICES ASSUME IndInv, [Next]_vars PROVE IndInv'
    OBVIOUS
  <1>1. CASE Lock
    BY <1>1, LockKeeps
  <1>2. CASE Others
    BY <1>2, OthersKeeps
  <1>3. ASSUME NEW c \in Calls, Request(c) PROVE IndInv'
    BY <1>3, CallOpeningKeeps, CallMutationKeeps DEF Request
  <1>4. ASSUME NEW c \in Calls, CallStep(c) PROVE IndInv'
    BY <1>4, LoadKeeps, CreateKeeps, DecodeKeeps, StartKeeps, EncodedKeeps, CommitKeeps, AcknowledgeKeeps,
       SaveFailsKeeps, SavedKeeps, VerifyKeeps, RestoreKeeps, RestoredKeeps DEF CallStep
  <1>5. CASE UNCHANGED vars
    BY <1>5, StutterKeeps
  <1> QED
    BY <1>1, <1>2, <1>3, <1>4, <1>5 DEF Next

LEMMA Invariance == Spec => []IndInv
  BY IndInit, IndNext, PTL DEF Spec

--------------------------------------------------------------------------------
(* The theorems. *)

\* Every variable of the session keeps its type.
THEOREM TypeCorrect == Spec => []TypeOK
  BY Invariance, PTL DEF IndInv

\* What an open session shows is a vault that was on disk, whole, with its revision
\* (VaultManager's "committed state").
THEOREM ShowsTheDisk == Spec => []SessionIsOnDisk
  BY Invariance, PTL DEF IndInv

\* However calls, lock() and other sessions interleave, a change that succeeded in this
\* session is visible in it and one that failed is not (#mutate).
THEOREM OutcomesShown == Spec => []OutcomesAreVisible
  BY Invariance, PTL DEF IndInv

\* Only the last of lock, create, unlock and recoverBackup decides whether the session
\* is open (the epoch of VaultManager).
THEOREM LastOpeningDecides == Spec => []LastOpeningWins
  BY Invariance, PTL DEF IndInv

\* A call reaches storage only if no lock() came after it was made.
LEMMA SavingIsCurrent ==
  ASSUME IndInv, [Next]_vars, NEW c \in Calls, (call[c].at)' = "saving", call[c].at # "saving"
  PROVE  c \in recent
  <1>1. ASSUME NEW d \in Calls, NEW step \in Steps \ {"saving"}, Move(d, step) PROVE FALSE
    BY <1>1, Moved DEF IndInv, Becomes
  <1>2. ASSUME NEW d \in Calls, NEW step \in {"resolved", "rejected"}, End(d, step) PROVE FALSE
    BY <1>2, Ended DEF IndInv, Becomes
  <1>3. ASSUME NEW d \in Calls, NEW op \in Openings \cup Mutations, NEW at \in Steps \ {"saving"}, NEW e \in Nat,
               Called(d, op, at, e)
        PROVE  FALSE
    BY <1>3, Calling DEF IndInv, Becomes
  <1>4. call' # call
    OBVIOUS
  <1>5. PICK d \in Calls : Request(d) \/ CallStep(d)
    BY <1>4 DEF Next, Lock, Others, vars
  <1>6. ~Request(d)
    <2>1. ASSUME NEW op \in Openings PROVE ~CallOpening(d, op)
      <3> DEFINE at == IF op = "recover" THEN "verifying" ELSE "loading"
      <3>1. at \in Steps \ {"saving"} /\ op \in Openings \cup Mutations /\ epoch + 1 \in Nat
        BY DEF Steps, Awaits, IndInv, TypeOK
      <3> QED
        BY <1>3, <3>1 DEF CallOpening, Called
    <2>2. ASSUME NEW op \in Mutations PROVE ~CallMutation(d, op)
      <3>1. "queued" \in Steps \ {"saving"} /\ op \in Openings \cup Mutations /\ epoch \in Nat
        BY DEF Steps, Awaits, IndInv, TypeOK
      <3>2. CallMutation(d, op) => Called(d, op, "queued", epoch)
        BY DEF CallMutation, Called
      <3> QED
        BY <1>3, <3>1, <3>2
    <2> QED
      BY <2>1, <2>2 DEF Request
  <1>7. ~Load(d)
    <2>1. ASSUME register \in Vaults, Loads(d, register) PROVE FALSE
      BY <2>1, Loaded DEF IndInv, Becomes
    <2> QED
      BY <1>1, <1>2, <2>1 DEF Load, Loads, Steps, Awaits
  <1>8. ~Restored(d)
    <2>1. ASSUME LoadsAt(d, epoch + 1) PROVE FALSE
      <3>1. TypeOK /\ epoch + 1 \in Nat
        BY DEF IndInv, TypeOK
      <3> QED
        BY <2>1, <3>1, LoadingAgain DEF Becomes
    <2> QED
      BY <1>2, <2>1 DEF Restored, LoadsAt
  <1>9. ~Decode(d) /\ ~Commit(d) /\ ~Acknowledge(d) /\ ~SaveFails(d) /\ ~Saved(d) /\ ~Verify(d) /\ ~Restore(d)
    BY <1>1, <1>2 DEF Decode, Commit, Acknowledge, SaveFails, Saved, Verify, Restore, Settle, Steps, Awaits
  <1>10. CASE Start(d)
    <2> DEFINE content == [version |-> 2, updates |-> entries \cup {nextUpdate}]
    <2>1. ~Settle(d, "rejected")
      BY <1>2 DEF Settle
    <2>2. nextUpdate \in Writes /\ Works(d, nextUpdate, content)
      BY <1>10, <2>1 DEF Start, NewUpdate, Works
    <2>3. content \in Vaults
      BY <2>2 DEF Vaults, Versions, IndInv, TypeOK
    <2> HIDE DEF content
    <2>4. Becomes(d, call[d].op, "encoding", call[d].epoch, content, call[d].expected, nextUpdate)
      BY <2>2, <2>3, Worked DEF IndInv
    <2> QED
      BY <2>4 DEF Becomes
  <1>11. CASE Create(d)
    <2> DEFINE content == Seal(Missing, nextUpdate)
    <2>1. /\ nextUpdate \in Writes /\ Creates(d, nextUpdate, content)
          /\ epoch = call[d].epoch /\ At(d, "creating")
      BY <1>2, <1>11 DEF Create, NewUpdate, Creates
    <2>2. content \in Vaults
      BY <2>1, SealType
    <2> HIDE DEF content
    <2>3. Becomes(d, call[d].op, "saving", call[d].epoch, content, Missing, nextUpdate)
      BY <2>1, <2>2, Created DEF IndInv
    <2>4. d = c
      BY <2>3 DEF Becomes
    <2> QED
      BY <2>1, <2>4 DEF IndInv, CallInv, EpochsCount, At, Awaits
  <1>12. CASE Encoded(d)
    <2>1. Current(d) /\ Expects(d, revision) /\ At(d, "encoding")
      BY <1>2, <1>12 DEF Encoded, Settle, Expects
    <2>2. Becomes(d, call[d].op, "saving", call[d].epoch, call[d].data, revision, call[d].update)
      BY <2>1, Expecting DEF IndInv, TypeOK
    <2>3. d = c
      BY <2>2 DEF Becomes
    <2> QED
      BY <2>1, <2>3 DEF IndInv, CallInv, EpochsCount, Current, At, Awaits
  <1> QED
    BY <1>5, <1>6, <1>7, <1>8, <1>9, <1>10, <1>11, <1>12 DEF CallStep

\* A call that lock() or unlock() overtook never reaches storage (#mutate, create).
THEOREM SupersededStop == Spec => SupersededNeverSaved
  <1>1. IndInv /\ [Next]_vars =>
          [\A c \in Calls : call[c].at' = "saving" /\ call[c].at # "saving" => c \in recent]_vars
    BY SavingIsCurrent
  <1> QED
    BY <1>1, Invariance, PTL DEF Spec, SupersededNeverSaved

\* Every step of the session is a step of the register or leaves it alone.
LEMMA StepImplements ==
  ASSUME IndInv, [Next]_vars
  PROVE  [Storage!Next]_(Storage!registerVars)
  <1> USE DEF Storage!registerVars
  <1>1. CASE UNCHANGED <<register, acked>>
    BY <1>1
  <1>2. ASSUME NEW c \in Calls, Commit(c) PROVE Storage!Next
    <2>1. /\ register = call[c].expected /\ call[c].expected \in Vaults \cup {Missing}
          /\ call[c].update \in Writes \ UpdatesOf(register) /\ register' = Seal(register, call[c].update)
      BY <1>2 DEF IndInv, TypeOK, CallInv, DataIsOnDisk, Commit, At
    <2>2. Storage!Commit
      BY <1>2, <2>1, SameContents DEF Storage!Commit, Commit
    <2> QED
      BY <2>2 DEF Storage!Next
  <1>3. ASSUME NEW c \in Calls, Acknowledge(c) PROVE Storage!Next
    <2>1. call[c].update \in UpdatesOf(register)
      BY <1>3 DEF IndInv, CallInv, DataIsOnDisk, Acknowledge, At
    <2>2. Storage!Acknowledge
      BY <1>3, <2>1, SameContents DEF Storage!Acknowledge, Acknowledge
    <2> QED
      BY <2>2 DEF Storage!Next
  <1>4. ASSUME NEW c \in Calls, Restore(c), ~UNCHANGED <<register, acked>> PROVE Storage!Next
    BY <1>4 DEF Restore, Storage!Next
  <1>5. CASE Others
    BY <1>5 DEF Others, Storage!Next
  <1>6. CASE Lock
    BY <1>6 DEF Lock, storage
  <1>7. ASSUME NEW c \in Calls, Request(c) PROVE UNCHANGED <<register, acked>>
    BY <1>7 DEF Request, CallOpening, CallMutation, storage
  <1>8. ASSUME NEW c \in Calls,
               \/ Load(c) \/ Create(c) \/ Decode(c) \/ Start(c) \/ Encoded(c) \/ SaveFails(c) \/ Saved(c)
               \/ Verify(c) \/ Restored(c)
        PROVE  UNCHANGED <<register, acked>>
    BY <1>8 DEF Load, Create, Decode, Start, Encoded, SaveFails, Saved, Verify, Restored, storage
  <1>9. CASE UNCHANGED vars
    BY <1>9 DEF vars, storage
  <1> QED
    BY <1>1, <1>2, <1>3, <1>4, <1>5, <1>6, <1>7, <1>8, <1>9 DEF Next, CallStep

\* The session implements the register: every save it makes extends what the file holds
\* at that moment, and acknowledges only what the file has.
THEOREM SessionImplements == Spec => StorageSpec
  <1>1. Init => Storage!Init
    BY DEF Init, Storage!Init
  <1> QED
    BY <1>1, StepImplements, Invariance, PTL DEF Spec, StorageSpec, Storage!Spec

================================================================================
