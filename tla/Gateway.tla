-------------------------------- MODULE Gateway --------------------------------
(***************************************************************************)
(* The gateway process (index.js): it opens the vault, runs one transport  *)
(* over it, and locks when the input ends, something fails or a signal     *)
(* arrives.                                                                *)
(***************************************************************************)
EXTENDS HttpServer, McpServer

VARIABLES
    config,         \* The command line, and the format of the vault it names.
    process         \* "starting", "serving", "stopping" or "exited".

vars == <<config, process, vault, httpVars, mcpVars>>

\* options: raw resolution and a broker exclude each other.  The
\* format of the vault matters to a broker only.
Configs == {c \in [rest : BOOLEAN, raw : BOOLEAN, broker : BOOLEAN, version : {1, 2}] :
               ~(c.raw /\ c.broker) /\ (c.broker \/ c.version = 2)}

Init ==
    /\ config \in Configs
    /\ process = "starting"
    /\ vault = "locked"
    /\ HttpInit
    /\ McpInit(IF config.rest THEN {<<>>} ELSE Streams)

\* The vault is unlocked; a broker needs the current format.
Started ==
    /\ process = "starting"
    /\ config.broker => config.version = 2
    /\ process' = "serving"
    /\ vault' = "unlocked"
    /\ UNCHANGED <<config, httpVars, mcpVars>>

\* A failure of the startup or of the transport, or the end of the input.
Exit ==
    /\ \/ process = "starting"
       \/ process = "serving" /\ ~config.rest /\ stdio # "open"
       \/ process = "stopping"
    /\ process' = "exited"
    /\ vault' = "locked"
    /\ UNCHANGED <<config, httpVars, mcpVars>>

\* SIGINT or SIGTERM, or an error of the listening socket: the vault is locked
\* and every connection is closed; handlers that wait may still go on.
Stop ==
    /\ process = "serving"
    /\ process' = "stopping"
    /\ vault' = "locked"
    /\ connection' = [q \in Requests |-> IF connection[q] = "open" THEN "closed" ELSE connection[q]]
    /\ UNCHANGED <<config, stage, reply, outcome, mcpVars>>

\* A program that embeds the server locks its vault while the server goes on.
LockUnderServer ==
    /\ process = "serving" /\ config.rest
    /\ vault = "unlocked"
    /\ vault' = "locked"
    /\ UNCHANGED <<config, process, httpVars, mcpVars>>

Rest(q) ==
    /\ process \in {"serving", "stopping"} /\ config.rest
    /\ process = "stopping" => connection[q] # "none"
    /\ HttpStep(q, config.raw, config.broker)
    /\ UNCHANGED <<config, process, vault, mcpVars>>

Client(q) ==
    /\ ClientStep(q) \/ Broken(q)
    /\ UNCHANGED <<config, process, vault, mcpVars>>

Stdio ==
    /\ process = "serving" /\ ~config.rest
    /\ McpStep(config.raw, config.broker)
    /\ UNCHANGED <<config, process, vault, httpVars>>

Next == \/ Started \/ Exit \/ Stop \/ LockUnderServer \/ Stdio
        \/ \E q \in Requests : Rest(q) \/ Client(q)

\* The client's timer fires, and what has arrived is read.
Fairness == \A q \in Requests :
    WF_vars(ClientStep(q) /\ UNCHANGED <<config, process, vault, mcpVars>>)

Spec == Init /\ [][Next]_vars /\ Fairness

--------------------------------------------------------------------------------
(* Properties. *)

\* The replies on stdout are those of a reader of whole lines, whatever the
\* chunks in which the input arrives: no line is lost, joined with another or
\* answered twice, a line's length and encoding are judged for the line alone,
\* and the handshake counts in the order of the lines.
RepliesAsIfLineByLine ==
    LET all == Answers(input, config.raw, config.broker)
    IN  /\ IsPrefix(replies, all)
        /\ stdio # "open" => replies = all

\* Once the vault is locked, also between a request's head and its body, no
\* request is told a secret, the names of secrets or of operations.
NothingToldWhenLocked ==
    [][\A q \in Requests :
          vault = "locked" /\ reply'[q] # reply[q] /\ q.route \in {"/list", "/resolve", "/operations"}
          => reply'[q] # "ok"]_vars

\* What a caller that is not local, is a browser or has no token is answered
\* depends on nothing but that: not on the route, the vault or the policy.
StrangersLearnNothing ==
    \A q, r \in Requests :
        /\ <<q.local, q.browser, q.token>> = <<r.local, r.browser, r.token>>
        /\ ~(q.local /\ ~q.browser /\ q.token)
        /\ "none" \notin {reply[q], reply[r]}
        => reply[q] = reply[r]

\* Every call of the client settles, though the server may be stopped, wait for
\* a body or for an operation for ever, or never answer.
EveryCallSettles ==
    \A q \in Requests : connection[q] # "none" ~> outcome[q] # "none"

=============================================================================
