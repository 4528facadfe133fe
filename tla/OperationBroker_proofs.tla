------------------------- MODULE OperationBroker_proofs ------------------------
(***************************************************************************)
(* Proofs about OperationBroker, for every number of calls and places,     *)
(* every timeout and either policy.                                        *)
(***************************************************************************)
EXTENDS OperationBroker, FiniteSetTheorems, TLAPS

--------------------------------------------------------------------------------
(* The places. *)

LEMMA RunningFinite ==
  /\ IsFiniteSet(Running)
  /\ Cardinality(Running) \in Nat
  BY CallsAssumption, FS_Subset, FS_CardinalityType DEF Running

\* A call takes a place when it starts, gives it back when it ends, and keeps it
\* in between.
LEMMA PlaceTaken ==
  ASSUME TypeOK, NEW c \in Calls, pc[c] \notin InProgress,
         NEW x \in InProgress, pc' = [pc EXCEPT ![c] = x]
  PROVE  Cardinality(Running') = Cardinality(Running) + 1
  <1>1. Running' = Running \cup {c} /\ c \notin Running
    BY DEF Running, TypeOK
  <1> QED
    BY <1>1, RunningFinite, FS_AddElement

LEMMA PlaceGivenBack ==
  ASSUME TypeOK, NEW c \in Calls, pc[c] \in InProgress,
         NEW x, x \notin InProgress, pc' = [pc EXCEPT ![c] = x]
  PROVE  Cardinality(Running') = Cardinality(Running) - 1 /\ Cardinality(Running) > 0
  <1>1. Running' = Running \ {c} /\ c \in Running
    BY DEF Running, TypeOK
  <1>2. Cardinality(Running \ {c}) = Cardinality(Running) - 1
    BY <1>1, RunningFinite, FS_RemoveElement
  <1>3. Cardinality(Running \ {c}) \in Nat
    BY RunningFinite, FS_RemoveElement, FS_CardinalityType
  <1> QED
    BY <1>1, <1>2, <1>3, RunningFinite

LEMMA PlaceKept ==
  ASSUME TypeOK, NEW c \in Calls, NEW x,
         pc[c] \in InProgress <=> x \in InProgress, pc' = [pc EXCEPT ![c] = x]
  PROVE  Cardinality(Running') = Cardinality(Running)
  <1>1. Running' = Running
    BY DEF Running, TypeOK
  <1> QED
    BY <1>1

--------------------------------------------------------------------------------
(* What one call does to the invariant. *)

\* A call that settles without a place.
LEMMA RefusalKeepsIndInv ==
  ASSUME IndInv, NEW c \in Calls, Refuse(c)
  PROVE  IndInv'
  <1>1. PICK o \in Operations \cup {Unknown} : Denial(o) # "none" /\ Settle(c, Denial(o))
    BY DEF Refuse
  <1>2. Denial(o) \in Results
    BY DEF Denial, Results
  <1>3. /\ pc[c] = "idle" /\ pc' = [pc EXCEPT ![c] = "done"]
        /\ result' = [result EXCEPT ![c] = Denial(o)]
        /\ UNCHANGED <<vault, active, call, lookups, exchange, sent, now>>
    BY <1>1 DEF Refuse, Settle
  <1>4. TypeOK'
    BY <1>2, <1>3 DEF IndInv, TypeOK, InProgress
  <1>5. Cardinality(Running') = Cardinality(Running)
    BY <1>3, PlaceKept DEF IndInv, InProgress
  <1> QED
    BY <1>3, <1>4, <1>5 DEF IndInv, TypeOK, PlacesAreHeld, CallInv, DestinationChecked, MigratedOnly, InProgress

\* A call in progress that settles and gives its place back.
LEMMA EndKeepsIndInv ==
  ASSUME IndInv, NEW c \in Calls, pc[c] \in InProgress,
         NEW code \in Results, End(c, code),
         lookups' \subseteq lookups,
         exchange' \in [Calls -> {"none", "open", "destroyed"}],
         UNCHANGED <<vault, sent, now>>
  PROVE  IndInv'
  <1>1. /\ pc' = [pc EXCEPT ![c] = "done"]
        /\ result' = [result EXCEPT ![c] = code]
        /\ active' = active - 1
        /\ call' = [call EXCEPT ![c] = NotCalled]
    BY DEF End, Settle
  <1>2. Cardinality(Running') = Cardinality(Running) - 1 /\ Cardinality(Running) > 0
    BY <1>1, PlaceGivenBack DEF IndInv, InProgress
  <1>3. active' = Cardinality(Running') /\ active' \in 0 .. MaxActive
    BY <1>1, <1>2, LimitsAssumption, RunningFinite DEF IndInv, PlacesAreHeld, TypeOK
  <1>4. NotCalled \in [op : Operations \cup {Unknown}, started : 0 .. MaxTime, due : 0 .. MaxTime]
    BY LimitsAssumption DEF NotCalled
  <1>5. TypeOK'
    BY <1>1, <1>3, <1>4 DEF IndInv, TypeOK, InProgress
  <1>6. \A d \in Calls : CallInv(d)'
    BY <1>1 DEF IndInv, TypeOK, CallInv, InProgress
  <1> QED
    BY <1>3, <1>5, <1>6 DEF IndInv, TypeOK, PlacesAreHeld, DestinationChecked, MigratedOnly

\* A call that goes on to send its credential to a checked address.
LEMMA SendKeepsIndInv ==
  ASSUME IndInv, NEW c \in Calls, NEW o \in Operations, NEW started \in 0 .. now,
         NEW address \in Addresses, Reachable(o, address),
         o.scheme = "http" => address = "loopback",
         started + Timeout <= MaxTime, now - started < Timeout,
         "v1" \in Reopens \/ vault # "v1", vault # "locked",
         pc' = [pc EXCEPT ![c] = "sent"],
         call' = [call EXCEPT ![c] = [op |-> o, started |-> started,
                    due |-> now + (Timeout - (now - started))]],
         exchange' = [exchange EXCEPT ![c] = "open"],
         sent' = sent \cup {[call |-> c, op |-> o, address |-> address, session |-> vault]},
         active' = Cardinality(Running'), active' \in 0 .. MaxActive,
         lookups' \subseteq lookups,
         UNCHANGED <<vault, result, now>>
  PROVE  IndInv'
  <1> DEFINE send == [call |-> c, op |-> o, address |-> address, session |-> vault]
  <1>1. now \in Nat /\ started \in Nat /\ now <= MaxTime
    BY LimitsAssumption DEF IndInv, TypeOK
  <1>2. now + (Timeout - (now - started)) = started + Timeout
    BY <1>1, LimitsAssumption
  <1>3. started + Timeout \in 0 .. MaxTime /\ started \in 0 .. MaxTime /\ now <= started + Timeout
    BY <1>1, LimitsAssumption
  <1>4. call' = [call EXCEPT ![c] = [op |-> o, started |-> started, due |-> started + Timeout]]
    BY <1>2
  <1>5. send \in [call : Calls, op : Operations, address : Addresses, session : Sessions]
    BY DEF IndInv, TypeOK
  <1>6. TypeOK'
    BY <1>3, <1>4, <1>5 DEF IndInv, TypeOK, InProgress
  <1>7. \A d \in Calls : CallInv(d)'
    BY <1>1, <1>3, <1>4 DEF IndInv, TypeOK, CallInv, InProgress
  <1>8. DestinationChecked'
    <2>1. /\ address # "denied"
          /\ address = "loopback" => AllowLoopback /\ o.host = "loopback"
      BY DEF Reachable
    <2> QED
      BY <2>1 DEF IndInv, DestinationChecked
  <1>9. "v1" \in Reopens \/ MigratedOnly'
    BY DEF IndInv, TypeOK, Sessions, MigratedOnly
  <1> QED
    BY <1>6, <1>7, <1>8, <1>9 DEF IndInv, TypeOK, PlacesAreHeld

--------------------------------------------------------------------------------
(* The actions. *)

\* What a configured operation can be.
LEMMA OperationKinds ==
  ASSUME NEW o \in Operations
  PROVE  /\ o \in Configs
         /\ o.host = "name" => o.scheme = "https"
         /\ o.host # "name" => /\ o.host \in Addresses
                               /\ Reachable(o, o.host)
                               /\ o.scheme = "http" => o.host = "loopback"
  BY DEF Operations, Accepted, Configs, Addresses, Reachable

LEMMA ResolutionResults == Resolution \subseteq Results \cup {"value"}
  BY DEF Resolution, Results

LEMMA StartKeepsIndInv ==
  ASSUME IndInv, NEW c \in Calls, Start(c)
  PROVE  IndInv'
  <1>1. PICK o \in Operations :
            /\ Denial(o) = "none"
            /\ \/ /\ o.host = "name"
                  /\ pc' = [pc EXCEPT ![c] = "lookup"]
                  /\ call' = [call EXCEPT ![c] = [op |-> o, started |-> now, due |-> now + Timeout]]
                  /\ lookups' = lookups \cup {c}
                  /\ active' = active + 1
                  /\ UNCHANGED <<result, exchange, sent>>
               \/ /\ o.host # "name"
                  /\ Attach(c, o, now, o.host, active + 1)
                  /\ UNCHANGED lookups
    BY DEF Start
  <1>2. pc[c] = "idle" /\ now + Timeout <= MaxTime /\ UNCHANGED <<vault, now>>
    BY DEF Start
  <1>3. vault = "v2" /\ active < MaxActive
    BY <1>1, LimitsAssumption DEF Denial, IndInv, TypeOK, Operations, Configs, Unknown
  <1>4. now \in Nat /\ now + Timeout \in 0 .. MaxTime /\ now \in 0 .. now /\ now - now = 0
    BY <1>2, LimitsAssumption DEF IndInv, TypeOK
  <1>5. active \in Nat /\ active + 1 \in 0 .. MaxActive /\ (active + 1) - 1 = active
    BY <1>3, LimitsAssumption DEF IndInv, TypeOK
  <1>6. CASE o.host = "name"
    <2>1. /\ pc' = [pc EXCEPT ![c] = "lookup"]
          /\ call' = [call EXCEPT ![c] = [op |-> o, started |-> now, due |-> now + Timeout]]
          /\ lookups' = lookups \cup {c}
          /\ active' = active + 1
          /\ UNCHANGED <<result, exchange, sent>>
      BY <1>1, <1>6
    <2>2. Cardinality(Running') = Cardinality(Running) + 1
      BY <1>2, <2>1, PlaceTaken DEF IndInv, InProgress
    <2>3. TypeOK'
      BY <1>2, <1>4, <1>5, <2>1 DEF IndInv, TypeOK, InProgress
    <2>4. \A d \in Calls : CallInv(d)'
      BY <1>2, <1>3, <1>4, <1>6, <2>1, LimitsAssumption DEF IndInv, TypeOK, CallInv, InProgress
    <2> QED
      BY <1>2, <1>5, <2>1, <2>2, <2>3, <2>4 DEF IndInv, TypeOK, PlacesAreHeld, DestinationChecked, MigratedOnly
  <1>7. CASE o.host # "name"
    <2>1. Attach(c, o, now, o.host, active + 1) /\ UNCHANGED lookups
      BY <1>1, <1>7
    <2>2. PICK answer \in Resolution :
              IF answer = "value" /\ now - now < Timeout
              THEN /\ pc' = [pc EXCEPT ![c] = "sent"]
                   /\ call' = [call EXCEPT ![c] = [op |-> o, started |-> now,
                                  due |-> now + (Timeout - (now - now))]]
                   /\ exchange' = [exchange EXCEPT ![c] = "open"]
                   /\ sent' = sent \cup {[call |-> c, op |-> o, address |-> o.host, session |-> vault]}
                   /\ active' = active + 1
                   /\ UNCHANGED result
              ELSE /\ Settle(c, IF answer = "value" THEN "operation_timeout" ELSE answer)
                   /\ call' = [call EXCEPT ![c] = NotCalled]
                   /\ active' = (active + 1) - 1
                   /\ UNCHANGED <<exchange, sent>>
      BY <2>1 DEF Attach
    <2>3. CASE answer = "value" /\ now - now < Timeout
      <3>1. Cardinality(Running') = Cardinality(Running) + 1
        BY <1>2, <2>2, <2>3, PlaceTaken DEF IndInv, InProgress
      <3>2. active' = Cardinality(Running')
        BY <2>2, <2>3, <3>1 DEF IndInv, PlacesAreHeld
      <3> QED
        BY <1>2, <1>3, <1>4, <1>5, <1>7, <2>1, <2>2, <2>3, <3>2, OperationKinds, SendKeepsIndInv
    <2>4. CASE ~(answer = "value" /\ now - now < Timeout)
      <3> DEFINE code == IF answer = "value" THEN "operation_timeout" ELSE answer
      <3>1. /\ pc' = [pc EXCEPT ![c] = "done"]
            /\ result' = [result EXCEPT ![c] = code]
            /\ call' = [call EXCEPT ![c] = NotCalled]
            /\ active' = active
            /\ UNCHANGED <<exchange, sent>>
        BY <1>5, <2>2, <2>4 DEF Settle
      <3>2. code \in Results
        BY ResolutionResults DEF Results
      <3>3. Cardinality(Running') = Cardinality(Running)
        BY <1>2, <3>1, PlaceKept DEF IndInv, InProgress
      <3>4. NotCalled \in [op : Operations \cup {Unknown}, started : 0 .. MaxTime, due : 0 .. MaxTime]
        BY LimitsAssumption DEF NotCalled
      <3>5. TypeOK'
        BY <1>2, <2>1, <3>1, <3>2, <3>4 DEF IndInv, TypeOK, InProgress
      <3>6. \A d \in Calls : CallInv(d)'
        BY <1>2, <3>1 DEF IndInv, TypeOK, CallInv, InProgress
      <3> QED
        BY <1>2, <3>1, <3>3, <3>5, <3>6 DEF IndInv, PlacesAreHeld, DestinationChecked, MigratedOnly
    <2> QED
      BY <2>3, <2>4
  <1> QED
    BY <1>6, <1>7

LEMMA AnswerKeepsIndInv ==
  ASSUME IndInv, NEW c \in Calls, Answer(c)
  PROVE  IndInv'
  <1>1. lookups' \subseteq lookups /\ UNCHANGED <<vault, now>>
    BY DEF Answer
  <1>2. CASE pc[c] # "lookup"
    <2>1. UNCHANGED <<pc, call, result, active, exchange, sent, vault, now>>
      BY <1>1, <1>2 DEF Answer
    <2>2. TypeOK' /\ Running' = Running
      BY <1>1, <2>1 DEF IndInv, TypeOK, Running
    <2> QED
      BY <2>1, <2>2 DEF IndInv, PlacesAreHeld, CallInv, DestinationChecked, MigratedOnly
  <1>3. CASE pc[c] = "lookup"
    <2> DEFINE o == call[c].op
               started == call[c].started
    <2>1. /\ o \in Operations /\ o.host = "name" /\ ("v1" \in Reopens \/ vault # "v1")
          /\ started \in 0 .. now /\ started + Timeout <= MaxTime
      BY <1>3 DEF IndInv, CallInv, TypeOK, InProgress
    <2>2. exchange \in [Calls -> {"none", "open", "destroyed"}]
      BY DEF IndInv, TypeOK
    <2>3. ASSUME NEW code \in Results, End(c, code), UNCHANGED <<exchange, sent>> PROVE IndInv'
      BY <1>1, <1>3, <2>2, <2>3, EndKeepsIndInv DEF InProgress
    <2>4. ASSUME NEW records \in Records, Acceptable(o, records),
                 Attach(c, o, started, records[1], active)
          PROVE  IndInv'
      <3>1. records[1] \in Addresses /\ Reachable(o, records[1])
        <4>1. PICK n \in 0 .. 2 : records \in [1 .. n -> Addresses]
          BY <2>4 DEF Records
        <4>2. DOMAIN records = 1 .. n
          BY <4>1
        <4>3. n # 0
          <5>1. records # << >>
            BY <2>4 DEF Acceptable
          <5>2. n = 0 => records \in [1 .. 0 -> Addresses]
            BY <4>1
          <5>3. 1 .. 0 = {}
            OBVIOUS
          <5>4. n = 0 => records = << >>
            BY <5>2, <5>3
          <5> QED
            BY <5>1, <5>4
        <4>4. 1 \in 1 .. n
          BY <4>3
        <4> QED
          BY <2>4, <4>1, <4>2, <4>4 DEF Acceptable
      <3>2. PICK answer \in Resolution :
                IF answer = "value" /\ now - started < Timeout
                THEN /\ pc' = [pc EXCEPT ![c] = "sent"]
                     /\ call' = [call EXCEPT ![c] = [op |-> o, started |-> started,
                                    due |-> now + (Timeout - (now - started))]]
                     /\ exchange' = [exchange EXCEPT ![c] = "open"]
                     /\ sent' = sent \cup {[call |-> c, op |-> o, address |-> records[1], session |-> vault]}
                     /\ active' = active
                     /\ UNCHANGED result
                ELSE /\ Settle(c, IF answer = "value" THEN "operation_timeout" ELSE answer)
                     /\ call' = [call EXCEPT ![c] = NotCalled]
                     /\ active' = active - 1
                     /\ UNCHANGED <<exchange, sent>>
        BY <2>4 DEF Attach
      <3>3. CASE answer = "value" /\ now - started < Timeout
        <4>1. Cardinality(Running') = Cardinality(Running)
          BY <1>3, <3>2, <3>3, PlaceKept DEF IndInv, InProgress
        <4>2. active' = Cardinality(Running') /\ active' \in 0 .. MaxActive
          BY <3>2, <3>3, <4>1 DEF IndInv, PlacesAreHeld, TypeOK
        <4>3. vault # "locked"
          BY <3>3 DEF Resolution
        <4>4. o.scheme = "https"
          BY <2>1, OperationKinds
        <4> HIDE DEF o, started
        <4> QED
          BY <1>1, <2>1, <3>1, <3>2, <3>3, <4>2, <4>3, <4>4, SendKeepsIndInv
      <3>4. CASE ~(answer = "value" /\ now - started < Timeout)
        <4> DEFINE code == IF answer = "value" THEN "operation_timeout" ELSE answer
        <4>1. code \in Results
          BY ResolutionResults DEF Results
        <4>2. End(c, code) /\ UNCHANGED <<exchange, sent>>
          BY <3>2, <3>4 DEF End
        <4> QED
          BY <2>3, <4>1, <4>2
      <3> QED
        BY <3>3, <3>4
    <2>5. "operation_failed" \in Results /\ "destination_not_allowed" \in Results
      BY DEF Results, Endings
    <2> QED
      BY <1>3, <2>3, <2>4, <2>5 DEF Answer
  <1> QED
    BY <1>2, <1>3

\* The deadlines and the destination: finish() ends the call or does nothing.
LEMMA FinishKeepsIndInv ==
  ASSUME IndInv, NEW c \in Calls, NEW code \in Results, Finish(c, code),
         exchange' \in [Calls -> {"none", "open", "destroyed"}],
         UNCHANGED <<vault, lookups, sent, now>>
  PROVE  IndInv'
  <1>1. CASE pc[c] = "sent"
    BY <1>1, EndKeepsIndInv DEF Finish, InProgress
  <1>2. CASE pc[c] # "sent"
    <2>1. UNCHANGED <<pc, call, result, active>>
      BY <1>2 DEF Finish
    <2>2. TypeOK' /\ Running' = Running
      BY <2>1 DEF IndInv, TypeOK, Running
    <2> QED
      BY <2>1, <2>2 DEF IndInv, PlacesAreHeld, CallInv, DestinationChecked, MigratedOnly
  <1> QED
    BY <1>1, <1>2

LEMMA EventKeepsIndInv ==
  ASSUME IndInv, NEW c \in Calls, LookupDeadline(c) \/ Receive(c) \/ SendDeadline(c)
  PROVE  IndInv'
  <1>1. exchange \in [Calls -> {"none", "open", "destroyed"}]
    BY DEF IndInv, TypeOK
  <1>2. Endings \subseteq Results /\ "operation_timeout" \in Results /\ "operation_failed" \in Results
    BY DEF Results, Endings
  <1>3. CASE LookupDeadline(c)
    BY <1>1, <1>2, <1>3, EndKeepsIndInv DEF LookupDeadline, InProgress
  <1>4. CASE Receive(c)
    <2>1. PICK code \in Results :
              /\ Finish(c, code)
              /\ \E e \in {"none", "destroyed"} : exchange' = [exchange EXCEPT ![c] = e]
      BY <1>2, <1>4 DEF Receive
    <2>2. exchange' \in [Calls -> {"none", "open", "destroyed"}] /\ UNCHANGED <<vault, lookups, sent, now>>
      BY <1>1, <1>4, <2>1 DEF Receive
    <2> QED
      BY <2>1, <2>2, FinishKeepsIndInv
  <1>5. CASE SendDeadline(c)
    <2>1. /\ Finish(c, "operation_timeout")
          /\ exchange' \in [Calls -> {"none", "open", "destroyed"}]
          /\ UNCHANGED <<vault, lookups, sent, now>>
      BY <1>1, <1>5 DEF SendDeadline
    <2> QED
      BY <1>2, <2>1, FinishKeepsIndInv
  <1> QED
    BY <1>3, <1>4, <1>5

\* The session and the clock.
LEMMA EnvironmentKeepsIndInv ==
  ASSUME IndInv, Lock \/ Reopen \/ Tick
  PROVE  IndInv'
  <1>1. UNCHANGED <<active, pc, call, result, lookups, exchange, sent>>
    BY DEF Lock, Reopen, Tick
  <1>2. vault' \in Sessions /\ now' \in 0 .. MaxTime /\ now <= now'
    <2>1. vault' \in Sessions
      BY PolicyAssumption DEF Lock, Reopen, Tick, Sessions, IndInv, TypeOK
    <2>2. now' \in 0 .. MaxTime /\ now <= now'
      BY LimitsAssumption DEF Lock, Reopen, Tick, IndInv, TypeOK
    <2> QED
      BY <2>1, <2>2
  <1>3. ("v1" \in Reopens \/ vault # "v1") => ("v1" \in Reopens \/ vault' # "v1")
    BY PolicyAssumption DEF Lock, Reopen, Tick
  <1>4. \A c \in Running : now' <= call[c].due
    BY LimitsAssumption DEF Lock, Reopen, Tick, IndInv, TypeOK, CallInv, Running
  <1>5. TypeOK' /\ Running' = Running
    BY <1>1, <1>2 DEF IndInv, TypeOK, Running
  <1>6. \A c \in Calls : CallInv(c)'
    BY <1>1, <1>2, <1>3, <1>4 DEF IndInv, TypeOK, CallInv, Running
  <1> QED
    BY <1>1, <1>5, <1>6 DEF IndInv, PlacesAreHeld, DestinationChecked, MigratedOnly

--------------------------------------------------------------------------------

LEMMA IndInvInit == Init => IndInv
  <1> SUFFICES ASSUME Init PROVE IndInv
    OBVIOUS
  <1>1. NotCalled \in [op : Operations \cup {Unknown}, started : 0 .. MaxTime, due : 0 .. MaxTime]
    BY LimitsAssumption DEF NotCalled
  <1>2. Running = {} /\ Cardinality(Running) = 0
    BY FS_EmptySet DEF Init, Running, InProgress
  <1> QED
    BY <1>1, <1>2, LimitsAssumption
    DEF Init, IndInv, TypeOK, PlacesAreHeld, CallInv, DestinationChecked, MigratedOnly, InProgress, Results

LEMMA IndInvNext == IndInv /\ [Next]_vars => IndInv'
  <1> SUFFICES ASSUME IndInv, [Next]_vars PROVE IndInv'
    OBVIOUS
  <1>1. CASE \E c \in Calls : CallStep(c)
    BY <1>1, RefusalKeepsIndInv, StartKeepsIndInv, AnswerKeepsIndInv, EventKeepsIndInv DEF CallStep
  <1>2. CASE Lock \/ Reopen \/ Tick
    BY <1>2, EnvironmentKeepsIndInv
  <1>3. CASE UNCHANGED vars
    BY <1>3 DEF vars, IndInv, TypeOK, PlacesAreHeld, Running, CallInv, DestinationChecked, MigratedOnly
  <1> QED
    BY <1>1, <1>2, <1>3 DEF Next

LEMMA IndInvHolds == Spec => []IndInv
  BY IndInvInit, IndInvNext, PTL DEF Spec

--------------------------------------------------------------------------------
(* The results. *)

\* #active is the number of calls in progress, and never more than the limit,
\* however calls end: every path through execute() gives its place back once.
THEOREM PlacesBounded == Spec => []PlacesAreHeld
  <1>1. IndInv => PlacesAreHeld
    BY DEF IndInv
  <1> QED
    BY <1>1, IndInvHolds, PTL

\* Whatever DNS answers, a credential goes only to a public address, or to 127.0.0.1
\* for an operation that the operator allowed to go there.
THEOREM OnlyCheckedDestinations == Spec => []DestinationChecked
  <1>1. IndInv => DestinationChecked
    BY DEF IndInv
  <1> QED
    BY <1>1, IndInvHolds, PTL

\* In a process that never opens its session on a legacy vault after locking it
\* (index.js opens it once), no credential of a legacy vault is sent. Without the
\* assumption one is: a vault opened while DNS is asked is not looked at again.
THEOREM OnlyMigratedVaults == ASSUME "v1" \notin Reopens PROVE Spec => []MigratedOnly
  <1>1. IndInv => MigratedOnly
    BY DEF IndInv
  <1> QED
    BY <1>1, IndInvHolds, PTL

\* Lookup and request together stay within timeoutMs of the start.
THEOREM WithinDeadline == Spec => []DeadlineKept
  <1>1. IndInv => DeadlineKept
    BY LimitsAssumption DEF IndInv, TypeOK, CallInv, DeadlineKept, Running
  <1> QED
    BY <1>1, IndInvHolds, PTL

\* A call that settled neither settles again nor sends its credential later.
THEOREM Settled == Spec => SettledIsFinal
  <1> DEFINE Final(c) == pc[c] = "done" =>
                 /\ pc'[c] = "done" /\ result'[c] = result[c]
                 /\ \A s \in sent' \ sent : s.call # c
  <1>1. ASSUME IndInv, [Next]_vars, NEW c \in Calls PROVE Final(c)
    <2> SUFFICES ASSUME pc[c] = "done"
                 PROVE  /\ pc'[c] = "done" /\ result'[c] = result[c]
                        /\ \A s \in sent' \ sent : s.call # c
      OBVIOUS
    <2>1. pc \in [Calls -> {"idle", "done"} \cup InProgress] /\ DOMAIN result = Calls
      BY <1>1 DEF IndInv, TypeOK
    <2>2. ASSUME NEW d \in Calls, CallStep(d) PROVE Final(c)
      <3>1. CASE Refuse(d)
        BY <2>1, <3>1 DEF Refuse, Settle
      <3>2. CASE Start(d)
        BY <2>1, <3>2 DEF Start, Attach, Settle
      <3>3. CASE Answer(d)
        BY <2>1, <3>3 DEF Answer, Attach, End, Settle
      <3>4. CASE LookupDeadline(d)
        BY <2>1, <3>4 DEF LookupDeadline, End, Settle
      <3>5. CASE Receive(d)
        BY <2>1, <3>5 DEF Receive, Finish, End, Settle
      <3>6. CASE SendDeadline(d)
        BY <2>1, <3>6 DEF SendDeadline, Finish, End, Settle
      <3> QED
        BY <2>2, <3>1, <3>2, <3>3, <3>4, <3>5, <3>6 DEF CallStep
    <2>3. CASE Lock \/ Reopen \/ Tick \/ UNCHANGED vars
      BY <2>3 DEF Lock, Reopen, Tick, vars
    <2> QED
      BY <1>1, <2>2, <2>3 DEF Next
  <1>2. IndInv /\ [Next]_vars => [\A c \in Calls : Final(c)]_vars
    BY <1>1
  <1> QED
    BY <1>2, IndInvHolds, PTL DEF Spec, SettledIsFinal

================================================================================
