---------------------------- MODULE OperationBroker ----------------------------
(***************************************************************************)
(* class OperationBroker of operation-broker.js: calls that each send one  *)
(* operator-configured request with a credential of the vault attached.    *)
(* A call waits for DNS and for the destination; other calls, the timers   *)
(* and the session it reads from go on meanwhile.                          *)
(***************************************************************************)
EXTENDS Integers, FiniteSets

CONSTANTS
    Calls,          \* The calls of execute(), each made at most once.
    MaxActive,      \* How many may run at once (4 in the code).
    Timeout,        \* timeoutMs
    AllowLoopback,  \* allowLoopback
    Reopens,        \* The formats of the vaults that it may be opened on after lock().
    MaxTime         \* Bound: the clock stops here.

ASSUME CallsAssumption == IsFiniteSet(Calls)
ASSUME LimitsAssumption == MaxActive \in Nat \ {0} /\ Timeout \in Nat \ {0} /\ MaxTime \in Nat
ASSUME PolicyAssumption == AllowLoopback \in BOOLEAN /\ Reopens \subseteq {"v1", "v2"}

VARIABLES
    vault,          \* The session: locked, or open on a vault of format v1 or v2.
    active,         \* #active
    pc,             \* Where each call is.
    call,           \* Its operation, when it started and when its timer is due.
    result,         \* How its promise settled.
    lookups,        \* The DNS queries that the resolver has not answered.
    exchange,       \* What its HTTP request may still report.
    sent,           \* Ghost: what was sent with a credential.
    now

vars == <<vault, active, pc, call, result, lookups, exchange, sent, now>>

--------------------------------------------------------------------------------
(* The operator's configuration. *)

\* What a destination or a DNS record is: an IPv4 address of a public or of a
\* denied network, 127.0.0.1, or for a destination also a host name.
Addresses == {"public", "denied", "loopback"}
Configs   == [host : {"name"} \cup Addresses, scheme : {"https", "http"}]

Accepted(o) ==
    /\ o.scheme = "https" \/ (AllowLoopback /\ o.host = "loopback")
    /\ o.host \in {"denied", "loopback"} => AllowLoopback /\ o.host = "loopback"

Operations == {o \in Configs : Accepted(o)}

\* An operation name that the operator did not configure.
Unknown == [host |-> "none", scheme |-> "none"]

\* May a request of operation o connect to an address of this kind?
Reachable(o, address) ==
    address = "public" \/ (AllowLoopback /\ o.host = "loopback" /\ address = "loopback")

--------------------------------------------------------------------------------

Sessions == {"locked", "v1", "v2"}

\* What the vault refuses to resolve, and the header check after it.
Refusals == {"not_found", "no_domain_binding", "domain_mismatch", "invalid_credential_header"}

\* How a response can end: its last byte, a redirect, more bytes than allowed,
\* a status that is none, a broken connection.
Endings == {"status", "redirect_not_allowed", "operation_response_too_large", "operation_failed"}

Results ==
    {"none", "operation_not_allowed", "vault_locked", "migration_required", "broker_busy",
     "operation_timeout", "destination_not_allowed"} \cup Refusals \cup Endings

InProgress == {"lookup", "sent"}
Running == {c \in Calls : pc[c] \in InProgress}

\* Up to two records, in the order of the answer.
Records == UNION {[1 .. n -> Addresses] : n \in 0 .. 2}

NotCalled == [op |-> Unknown, started |-> 0, due |-> 0]

Init ==
    /\ vault \in Sessions
    /\ active = 0
    /\ pc = [c \in Calls |-> "idle"]
    /\ call = [c \in Calls |-> NotCalled]
    /\ result = [c \in Calls |-> "none"]
    /\ lookups = {}
    /\ exchange = [c \in Calls |-> "none"]
    /\ sent = {}
    /\ now = 0

--------------------------------------------------------------------------------
(* One call. *)

\* Its promise settles.
Settle(c, code) ==
    /\ pc' = [pc EXCEPT ![c] = "done"]
    /\ result' = [result EXCEPT ![c] = code]

\* ... finally { this.#active--; }
End(c, code) == Settle(c, code) /\ active' = active - 1 /\ call' = [call EXCEPT ![c] = NotCalled]

\* Why execute() refuses an operation before it starts.
Denial(o) ==
    IF o = Unknown THEN "operation_not_allowed"
    ELSE IF vault = "locked" THEN "vault_locked"
    ELSE IF vault # "v2" THEN "migration_required"
    ELSE IF active >= MaxActive THEN "broker_busy"
    ELSE "none"

Refuse(c) ==
    /\ pc[c] = "idle"
    /\ \E o \in Operations \cup {Unknown} : Denial(o) # "none" /\ Settle(c, Denial(o))
    /\ UNCHANGED <<vault, active, call, lookups, exchange, sent, now>>

\* What vault.resolve() and the header check say in the session that is open now.
Resolution == IF vault = "locked" THEN {"vault_locked"} ELSE Refusals \cup {"value"}

\* Mutant: the request gets the whole timeout again.
AttachFullTimeout(c, o, started, address, places) ==
    \E answer \in Resolution :
        IF answer = "value"
        THEN /\ pc' = [pc EXCEPT ![c] = "sent"]
             /\ call' = [call EXCEPT ![c] = [op |-> o, started |-> started, due |-> now + Timeout]]
             /\ exchange' = [exchange EXCEPT ![c] = "open"]
             /\ sent' = sent \cup {[call |-> c, op |-> o, address |-> address, session |-> vault]}
             /\ active' = places
             /\ UNCHANGED result
        ELSE /\ Settle(c, answer)
             /\ call' = [call EXCEPT ![c] = NotCalled]
             /\ active' = places - 1
             /\ UNCHANGED <<exchange, sent>>

\* The credential is resolved, and sent to the address if some of the time allowed
\* to the call is left. No other call and no lock() runs in between.
Attach(c, o, started, address, places) ==
    \E answer \in Resolution :
        IF answer = "value" /\ now - started < Timeout
        THEN /\ pc' = [pc EXCEPT ![c] = "sent"]
             /\ call' = [call EXCEPT ![c] = [op |-> o, started |-> started,
                            due |-> now + (Timeout - (now - started))]]
             /\ exchange' = [exchange EXCEPT ![c] = "open"]
             /\ sent' = sent \cup {[call |-> c, op |-> o, address |-> address, session |-> vault]}
             /\ active' = places
             /\ UNCHANGED result
        ELSE /\ Settle(c, IF answer = "value" THEN "operation_timeout" ELSE answer)
             /\ call' = [call EXCEPT ![c] = NotCalled]
             /\ active' = places - 1
             /\ UNCHANGED <<exchange, sent>>

\* A host name is looked up under a deadline; a literal address needs no await.
Start(c) ==
    /\ pc[c] = "idle"
    /\ now + Timeout <= MaxTime
    /\ \E o \in Operations :
          /\ Denial(o) = "none"
          /\ \/ /\ o.host = "name"
                /\ pc' = [pc EXCEPT ![c] = "lookup"]
                /\ call' = [call EXCEPT ![c] = [op |-> o, started |-> now, due |-> now + Timeout]]
                /\ lookups' = lookups \cup {c}
                /\ active' = active + 1
                /\ UNCHANGED <<result, exchange, sent>>
             \/ /\ o.host # "name"
                /\ Attach(c, o, now, o.host, active + 1)
                /\ UNCHANGED lookups
    /\ UNCHANGED <<vault, now>>

\* Mutant: one public record is enough, and the first record is used.
AcceptableIfAny(o, records) == \E i \in DOMAIN records : Reachable(o, records[i])

\* Every record of a DNS answer must be a permitted destination.
Acceptable(o, records) == records # <<>> /\ \A i \in DOMAIN records : Reachable(o, records[i])

\* The resolver answers or fails. What comes after the deadline is dropped.
Answer(c) ==
    /\ c \in lookups
    /\ lookups' = lookups \ {c}
    /\ \/ pc[c] # "lookup" /\ UNCHANGED <<pc, call, result, active, exchange, sent>>
       \/ pc[c] = "lookup" /\ End(c, "operation_failed") /\ UNCHANGED <<exchange, sent>>
       \/ /\ pc[c] = "lookup"
          /\ \E records \in Records :
                IF Acceptable(call[c].op, records)
                THEN Attach(c, call[c].op, call[c].started, records[1], active)
                ELSE End(c, "destination_not_allowed") /\ UNCHANGED <<exchange, sent>>
    /\ UNCHANGED <<vault, now>>

\* Mutant: the place is given back only by calls that reached the destination.
LookupDeadlineKeepsPlace(c) ==
    /\ pc[c] = "lookup"
    /\ now >= call[c].due
    /\ Settle(c, "operation_timeout")
    /\ UNCHANGED <<vault, active, call, lookups, exchange, sent, now>>

LookupDeadline(c) ==
    /\ pc[c] = "lookup"
    /\ now >= call[c].due
    /\ End(c, "operation_timeout")
    /\ UNCHANGED <<vault, lookups, exchange, sent, now>>

\* finish(): the first event settles the call, and the request is destroyed.
Finish(c, code) ==
    IF pc[c] = "sent" THEN End(c, code) ELSE UNCHANGED <<pc, call, result, active>>

\* The destination answers or the connection breaks. A request that is being
\* destroyed can still report an error.
Receive(c) ==
    /\ exchange[c] # "none"
    /\ \/ /\ exchange[c] = "open"
          /\ \E code \in Endings :
                /\ Finish(c, code)
                /\ exchange' = [exchange EXCEPT ![c] =
                       IF code \in {"status", "operation_failed"} THEN "none" ELSE "destroyed"]
       \/ /\ exchange[c] = "destroyed"
          /\ Finish(c, "operation_failed")
          /\ exchange' = [exchange EXCEPT ![c] = "none"]
    /\ UNCHANGED <<vault, lookups, sent, now>>

\* Mutant: The request has no timer of its own.
SendDeadlineMissing(c) == FALSE /\ UNCHANGED vars

SendDeadline(c) ==
    /\ pc[c] = "sent"
    /\ now >= call[c].due
    /\ Finish(c, "operation_timeout")
    /\ exchange' = [exchange EXCEPT ![c] = "destroyed"]
    /\ UNCHANGED <<vault, lookups, sent, now>>

--------------------------------------------------------------------------------
(* The session and the clock. *)

Lock ==
    /\ vault # "locked"
    /\ vault' = "locked"
    /\ UNCHANGED <<active, pc, call, result, lookups, exchange, sent, now>>

\* unlock() or recoverBackup() on the same session, when its owner calls them.
Reopen ==
    /\ vault = "locked"
    /\ vault' \in Reopens
    /\ UNCHANGED <<active, pc, call, result, lookups, exchange, sent, now>>

\* A due timer fires before time goes on.
Tick ==
    /\ now < MaxTime
    /\ \A c \in Running : now < call[c].due
    /\ now' = now + 1
    /\ UNCHANGED <<vault, active, pc, call, result, lookups, exchange, sent>>

CallStep(c) ==
    Refuse(c) \/ Start(c) \/ Answer(c) \/ LookupDeadline(c) \/ Receive(c) \/ SendDeadline(c)

Next == (\E c \in Calls : CallStep(c)) \/ Lock \/ Reopen \/ Tick

\* Timers fire; neither a resolver nor a destination has to answer.
Fairness ==
    /\ WF_vars(Tick)
    /\ \A c \in Calls : WF_vars(LookupDeadline(c)) /\ WF_vars(SendDeadline(c))

Spec == Init /\ [][Next]_vars
FairSpec == Spec /\ Fairness

--------------------------------------------------------------------------------
(* What the broker promises. *)

\* Every variable has its type; #active never leaves 0 .. MaxActive.
TypeOK ==
    /\ vault \in Sessions
    /\ active \in 0 .. MaxActive
    /\ pc \in [Calls -> {"idle", "done"} \cup InProgress]
    /\ call \in [Calls -> [op : Operations \cup {Unknown}, started : 0 .. MaxTime,
                           due : 0 .. MaxTime]]
    /\ result \in [Calls -> Results]
    /\ lookups \subseteq Calls
    /\ exchange \in [Calls -> {"none", "open", "destroyed"}]
    /\ sent \subseteq [call : Calls, op : Operations, address : Addresses, session : Sessions]
    /\ now \in 0 .. MaxTime

\* "limits concurrent operations to four": a call holds its place from its start
\* until it settles, on every path, and no place is lost or freed twice.
PlacesAreHeld == active = Cardinality(Running) /\ active <= MaxActive

\* "DNS results are checked and a selected address is pinned": a credential goes
\* only to a public address, and to 127.0.0.1 only where the operator allowed that
\* operation; without TLS it goes nowhere else.
DestinationChecked ==
    \A s \in sent : /\ s.address # "denied"
                    /\ s.address = "loopback" => AllowLoopback /\ s.op.host = "loopback"
                    /\ s.op.scheme = "http" => s.address = "loopback"

\* "legacy or locked vaults cannot execute broker operations" (broker.test.mjs):
\* no credential is sent from a legacy session, whatever happened to the session
\* while DNS was asked.
MigratedOnly == \A s \in sent : s.session = "v2"

\* "an absolute timeout": the lookup and the request together take no longer than
\* timeoutMs.
DeadlineKept == \A c \in Running : now - call[c].started <= Timeout

--------------------------------------------------------------------------------
(* The inductive invariant behind the safety properties. *)

\* A running call has a configured operation and a timer that has not passed; a
\* call that waits for DNS was admitted in a session on a v2 vault.
CallInv(c) ==
    /\ pc[c] \in InProgress =>
          /\ call[c].op \in Operations
          /\ call[c].due = call[c].started + Timeout
          /\ call[c].started <= now /\ now <= call[c].due
    /\ pc[c] = "lookup" => call[c].op.host = "name" /\ ("v1" \in Reopens \/ vault # "v1")

IndInv ==
    /\ TypeOK
    /\ PlacesAreHeld
    /\ \A c \in Calls : CallInv(c)
    /\ DestinationChecked
    /\ "v1" \in Reopens \/ MigratedOnly

--------------------------------------------------------------------------------
(* What a step may never do, and what must happen. *)

\* A settled call stays settled the same way, and sends no credential afterwards,
\* whatever its resolver and its destination still answer.
SettledIsFinal ==
    [][ \A c \in Calls : pc[c] = "done" =>
            /\ pc'[c] = "done" /\ result'[c] = result[c]
            /\ \A s \in sent' \ sent : s.call # c ]_vars

\* Every call settles, though resolver and destination may never answer.
EveryCallSettles == \A c \in Calls : pc[c] \in InProgress ~> pc[c] = "done"

================================================================================
