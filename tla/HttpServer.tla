------------------------------ MODULE HttpServer ------------------------------
(***************************************************************************)
(* The gateway's REST transport (http-server.js) and the client that the   *)
(* package has for it (client.js).  The head of a request is checked in    *)
(* one step; its body and a broker's operation are awaited, and meanwhile  *)
(* the vault may be locked, the peer may go away and the client's time may *)
(* run out.                                                                *)
(***************************************************************************)
EXTENDS RestChecks

CONSTANT Requests       \* Requests that may be made, each by a client of its own.

ASSUME RequestsAssumption ==
    \A q \in Requests : {q.local, q.browser, q.token} \subseteq BOOLEAN

VARIABLES
    vault,          \* "unlocked" or "locked", the gateway's session.
    connection,     \* connection[q]: "none", "open" or "closed".
    stage,          \* stage[q]: where the server is with q.
    reply,          \* reply[q]: the code it wrote, "ok" for a status 200, or "none".
    outcome         \* outcome[q]: how the client settled, or "none".

httpVars == <<connection, stage, reply, outcome>>

HttpInit ==
    /\ connection = [q \in Requests |-> "none"]
    /\ stage = [q \in Requests |-> "none"]
    /\ reply = [q \in Requests |-> "none"]
    /\ outcome = [q \in Requests |-> "none"]

\* The checks of the head, see RestChecks.
Checked(q, raw, broker) == HeadCheck(q, raw, broker, vault = "locked")

\* respond: nothing is written to a connection that is gone.
Respond(q, code) ==
    /\ stage' = [stage EXCEPT ![q] = "answered"]
    /\ reply' = [reply EXCEPT ![q] = IF connection[q] = "open" THEN code ELSE @]

\* A request arrives and its head is checked.
Request(q, raw, broker) ==
    /\ connection[q] = "none"
    /\ connection' = [connection EXCEPT ![q] = "open"]
    /\ IF Checked(q, raw, broker) = "body"
       THEN stage' = [stage EXCEPT ![q] = "body"] /\ UNCHANGED reply
       ELSE /\ stage' = [stage EXCEPT ![q] = "answered"]
            /\ reply' = [reply EXCEPT ![q] = Checked(q, raw, broker)]
    /\ UNCHANGED outcome

\* readJson settles without a payload, or the payload has not the right form.
BodyErrors == {"request_too_large", "invalid_json", "request_timeout", "request_error",
               "invalid_arguments"}

BodyFails(q) ==
    /\ stage[q] = "body"
    /\ \E code \in BodyErrors : Respond(q, code)
    /\ UNCHANGED <<connection, outcome>>

\* Mutant: the lock state is the one of the head.
ResolvedUnasked(q) == Resolve(Entries, q.name, q.origin)

\* vault.resolve, which looks at the session again.
Resolved(q) == IF vault = "locked" THEN "vault_locked" ELSE Resolve(Entries, q.name, q.origin)

Body(q) ==
    /\ stage[q] = "body"
    /\ IF q.route = "/execute"
       THEN stage' = [stage EXCEPT ![q] = "executing"] /\ UNCHANGED reply
       ELSE Respond(q, Resolved(q))
    /\ UNCHANGED <<connection, outcome>>

\* What broker.execute rejects with: the codes it lets through, and the one for all others.
BrokerErrors == {"vault_locked", "migration_required", "operation_not_allowed", "operation_timeout",
                 "destination_not_allowed", "not_found", "no_domain_binding", "domain_mismatch",
                 "invalid_credential_header", "redirect_not_allowed", "operation_response_too_large",
                 "broker_busy", "operation_failed"}

Executed(q) ==
    /\ stage[q] = "executing"
    /\ \E code \in {"ok"} \cup BrokerErrors : Respond(q, code)
    /\ UNCHANGED <<connection, outcome>>

--------------------------------------------------------------------------------
(* The client. *)

\* The codes client.js passes on.
ErrorCodes == {"unauthorized", "vault_locked", "not_found", "raw_resolve_disabled",
               "no_domain_binding", "domain_mismatch", "vault_error", "invalid_arguments",
               "request_too_large", "migration_required", "operation_not_allowed",
               "operation_timeout", "operation_failed", "destination_not_allowed",
               "redirect_not_allowed", "operation_response_too_large", "broker_busy"}

\* finish: the first event settles the call, the rest change nothing.
Settle(q, result) ==
    /\ outcome[q] = "none"
    /\ outcome' = [outcome EXCEPT ![q] = result]
    /\ UNCHANGED <<stage, reply>>
    /\ connection' = [connection EXCEPT ![q] = "closed"]

\* The response's end.
Receive(q) ==
    /\ connection[q] = "open"
    /\ reply[q] # "none"
    /\ Settle(q, IF reply[q] \in ErrorCodes \cup {"ok"} THEN reply[q] ELSE "unexpected_response")

\* Mutant: the timer starts with the response.
ClientTimeoutOfResponse(q) ==
    /\ reply[q] # "none"
    /\ Settle(q, "timeout")

\* The timer, which also drops the connection.
ClientTimeout(q) ==
    /\ connection[q] # "none"
    /\ Settle(q, "timeout")

\* The connection breaks before the response ended.
Broken(q) ==
    /\ connection[q] # "none"
    /\ Settle(q, "transport_error")

HttpStep(q, raw, broker) ==
    Request(q, raw, broker) \/ BodyFails(q) \/ Body(q) \/ Executed(q)

ClientStep(q) == Receive(q) \/ ClientTimeout(q)

=============================================================================
