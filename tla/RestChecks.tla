------------------------------ MODULE RestChecks ------------------------------
(***************************************************************************)
(* The checks that the REST server makes of a request before it reads its  *)
(* body (http-server.js, gateway-policy.js).                               *)
(***************************************************************************)
EXTENDS VaultEntries

CONSTANT Entries        \* The entries that the vault of the gateway holds.

\* A request has the fields local (a loopback Host), browser (an Origin), token,
\* route, post, json, long (its declared length), name and origin.
Posted == {"/resolve", "/execute"}

Routes == Posted \cup {"/status", "/list", "/operations"}

\* Mutant: the vault is asked before the token is.
HeadCheckLockFirst(q, raw, broker, locked) ==
    CASE ~q.local                                    -> "invalid_host"
      [] q.browser                                   -> "browser_origin_not_allowed"
      [] q.route # "/status" /\ locked              -> "vault_locked"
      [] ~q.token                                    -> "unauthorized"
      [] OTHER                                       -> "ok"

\* The checks before the body is read, in their order; "body" when it is needed.
HeadCheck(q, raw, broker, locked) ==
    IF ~q.local THEN "invalid_host"
    ELSE IF q.browser THEN "browser_origin_not_allowed"
    ELSE IF ~q.token THEN "unauthorized"
    ELSE IF q.route \notin Routes THEN "not_found"
    ELSE IF q.post # (q.route \in Posted) THEN "method_not_allowed"
    ELSE IF q.route = "/status" THEN "ok"
    ELSE IF locked THEN "vault_locked"
    ELSE IF q.route = "/list" THEN "ok"
    ELSE IF q.route \in {"/operations", "/execute"} /\ ~broker THEN "not_found"
    ELSE IF q.route = "/operations" THEN "ok"
    ELSE IF q.route = "/resolve" /\ ~raw THEN "raw_resolve_disabled"
    ELSE IF ~q.json THEN "unsupported_media_type"
    ELSE IF q.long THEN "request_too_large"
    ELSE "body"

=============================================================================
