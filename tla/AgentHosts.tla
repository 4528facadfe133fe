------------------------------ MODULE AgentHosts ------------------------------
(***************************************************************************)
(* The integrations of agent frameworks and chat programs: for each, the   *)
(* request it sends for a name and what it makes of the replies.  told[n]  *)
(* is the reply for the name n; told[None] is the one of /status or /list. *)
(* PlaceholderHosts is the machine that runs them.                         *)
(***************************************************************************)
EXTENDS PlaceholderTexts

CONSTANT WordNames      \* The names without : - . and @.

\* What a handler returns, or how it fails.
Text(t)           == [is |-> "text", text |-> t]
Listed(names)     == [is |-> "names", names |-> names]
Status(up, open)  == [is |-> "status", running |-> up, unlocked |-> open]
Error(code)       == [is |-> "error", code |-> code]
Thrown(code)      == [is |-> "thrown", code |-> code]
NoValue           == [is |-> "undefined"]

Ok(r) == r.code = "ok"

\* The value, or an error that the caller sees as a result.
TextOr(r)   == IF Ok(r) THEN Text(r.value) ELSE Error(r.code)
ListedOr(r) == IF Ok(r) THEN Listed(r.value) ELSE Error(r.code)

Route  == [status |-> "/status", list |-> "/list", one |-> "/resolve", text |-> "/resolve"]
Secret == [status |-> "/health", list |-> "/secrets", one |-> "/secret", text |-> "/secret"]

\* A request: whether it is sent at all, ended by a deadline, ended when its
\* connection is idle, and answered from a cache.
Query(route, token, n) ==
    [local |-> TRUE, browser |-> FALSE, token |-> token, route |-> route,
     post |-> route \in Posted, json |-> TRUE, long |-> FALSE, name |-> n,
     sent |-> TRUE, timed |-> FALSE, idle |-> FALSE, cached |-> FALSE]

Timed(q)  == [q EXCEPT !.timed = TRUE]
Idling(q) == [q EXCEPT !.idle = TRUE]
Cached(q) == [q EXCEPT !.cached = TRUE]

\* Without a token of the right form nothing is sent.
Authorized(q) == [q EXCEPT !.sent = q.token]

FirstOf(text) == text[1].n

Failed(told) == {n \in DOMAIN told : ~Ok(told[n])}

--------------------------------------------------------------------------------
(* NanoClaw *)

NanoclawRequest(s, op, n) == Authorized(Query(Route[op], s.token, n))

NanoclawGate(s, op) == op \in {"one", "text"} /\ ~s.raw

NanoclawStatus(r) == IF Ok(r) THEN Status(TRUE, r.value) ELSE Status(FALSE, FALSE)
NanoclawList(r)   == ListedOr(r)
NanoclawResolve(r) == TextOr(r)
NanoclawText(text, told) == Text(InTurn(text, told))

Nanoclaw(op, text, told) ==
    CASE op = "status" -> NanoclawStatus(told[None])
      [] op = "list"   -> NanoclawList(told[None])
      [] op = "one"    -> NanoclawResolve(told[FirstOf(text)])
      [] op = "text"   -> NanoclawText(text, told)

(* ClawHub *)

ClawhubRequest(s, op, n) == Authorized(Query(Route[op], s.token, n))

ClawhubGate(s, op) == op \in {"one", "text"} /\ ~s.raw

ClawhubStatus(r) == IF Ok(r) THEN Status(TRUE, r.value) ELSE Status(FALSE, FALSE)
ClawhubList(r)   == ListedOr(r)
ClawhubResolve(r) == TextOr(r)
ClawhubText(text, told) == Text(InTurn(text, told))

Clawhub(op, text, told) ==
    CASE op = "status" -> ClawhubStatus(told[None])
      [] op = "list"   -> ClawhubList(told[None])
      [] op = "one"    -> ClawhubResolve(told[FirstOf(text)])
      [] op = "text"   -> ClawhubText(text, told)

--------------------------------------------------------------------------------
(* OpenClaw: a tool call goes on to the tool with the text, unless it is refused. *)

\* Mutant: the timer is forgotten.
OpenClawRequestUntimed(op, n) == Query(Route[op], FALSE, n)

OpenClawRequest(op, n) == Timed(Query(Route[op], FALSE, n))

\* Mutant: one value that was told is enough.
OpenClawToolCallIfAny(s, text, told) ==
    IF s.strict /\ DOMAIN told # {} /\ Failed(told) = DOMAIN told THEN Thrown("resolve_error")
    ELSE Text(OnePass(text, told))

OpenClawToolCall(s, text, told) ==
    IF s.strict /\ Failed(told) # {} THEN Thrown("resolve_error")
    ELSE Text(OnePass(text, told))

OpenClawStatus(r) ==
    IF Ok(r) THEN Status(TRUE, r.value)
    ELSE IF r.code = "unreachable" THEN Status(FALSE, FALSE)
    ELSE Thrown(r.code)

OpenClawList(r) == IF Ok(r) THEN Listed(r.value) ELSE Thrown(r.code)

\* The terminal commands enigmagent:status and enigmagent:list.
OpenClawCli(op, r) == IF op = "status" THEN OpenClawStatus(r) ELSE OpenClawList(r)

OpenClaw(s, op, text, told) ==
    IF op = "text" THEN OpenClawToolCall(s, text, told) ELSE OpenClawCli(op, told[None])

--------------------------------------------------------------------------------
(* Paperclip: a secrets provider and a plugin with a copy of the same client. *)

ProviderRequest(op, n) == Timed(Query(Route[op], FALSE, n))
PluginRequest(op, n)   == Timed(Query(Route[op], FALSE, n))

ProviderResolve(r) == IF Ok(r) THEN Text(r.value) ELSE NoValue
ProviderHealth(r)  == IF Ok(r) THEN Status(TRUE, r.value) ELSE Status(FALSE, FALSE)

Provider(op, text, told) ==
    IF op = "one" THEN ProviderResolve(told[FirstOf(text)]) ELSE ProviderHealth(told[None])

PluginStatus(r) == IF Ok(r) THEN Status(TRUE, r.value) ELSE Status(FALSE, FALSE)
PluginList(r)   == ListedOr(r)

Plugin(op, told) == IF op = "status" THEN PluginStatus(told[None]) ELSE PluginList(told[None])

--------------------------------------------------------------------------------
(* The two n8n nodes.  An item that fails is an item of the output, or fails *)
(* the whole execution.                                                      *)

ItemError(s, code) == IF s.goOn THEN Error(code) ELSE Thrown(code)

N8nRequest(op, n) == Query(Route[op], FALSE, n)

\* The requests of an item stop at the first that fails, and fail the item.
N8nItem(s, op, text, told) ==
    IF Failed(told) # {} THEN ItemError(s, told[CHOOSE n \in Failed(told) : TRUE].code)
    ELSE CASE op = "status" -> Status(TRUE, told[None].value)
           [] op = "list"   -> Listed(told[None].value)
           [] op = "one"    -> Text(told[FirstOf(text)].value)
           [] op = "text"   -> Text(InTurn(text, told))

EnigmagentNodeRequest(s, op, n) == Query(Secret[op], s.token, n)

EnigmagentNodeItem(s, op, text, told) ==
    IF op = "text" THEN Text(OnePass(text, told))
    ELSE LET r == told[IF op = "list" THEN None ELSE FirstOf(text)]
         IN  IF ~Ok(r) THEN ItemError(s, r.code)
             ELSE IF op = "list" THEN Listed(r.value) ELSE Text(r.value)

--------------------------------------------------------------------------------
(* Chat programs. *)

LmStudioRequest(s, n) == Timed(Cached(Query(Secret.text, s.token, n)))
LmStudioText(text, told) == Text(OnePass(text, told))

\* The plugin for LM Studio does not look at the status code of a reply, and has
\* Node's timeout of a socket that is idle, which is no deadline.
LmPluginRequest(s, op, n) ==
    Idling(Query(IF op = "text" THEN Secret.text ELSE Route[op], s.token, n))

Answered(r) == r.code \notin {"unreachable", "timeout"}

\* Mutant: unlocked unless the reply says otherwise.
LmPluginStatusLax(r) == Status(Answered(r), Answered(r) /\ (Ok(r) => r.value))

LmPluginStatus(r) == Status(Answered(r), Ok(r) /\ r.value)

LmPlugin(op, text, told) ==
    CASE op = "status" -> LmPluginStatus(told[None])
      [] op = "list"   -> Listed(IF Ok(told[None]) THEN told[None].value ELSE {})
      [] op = "text"   -> Text(OnePass(text, told))

SillyTavernRequest(s, op, n) ==
    LET q == Timed(Query(Secret[op], s.token, n)) IN IF op = "text" THEN Cached(q) ELSE q

SillyTavernText(text, told) == Text(OnePass(text, told))
SillyTavernStatus(r) == Status(Answered(r), FALSE)

JanRequest(n) == Timed(Cached(Query("/resolve", FALSE, n)))
JanMessage(text, told) == Text(OnePass(text, told))

FlowiseToolRequest(s, n) == Timed(Query(Secret.one, s.token, n))
FlowiseTool(r) == IF Ok(r) THEN Text(r.value) ELSE Thrown(r.code)

FlowiseResolverRequest(s, n) == Timed(Query(Secret.text, s.token, n))
FlowiseResolver(text, told) == Text(OnePass(text, told))

AnythingRequest(op, n) == Query(Route[op], FALSE, n)
Anything(op, text, told) ==
    CASE op = "text" -> Text(OnePass(text, told))
      [] op = "one"  -> TextOr(told[FirstOf(text)])
      [] op = "list" -> ListedOr(told[None])

LibreChatRequest(s, op, n) == Timed(Query(Secret[op], s.token, n))
LibreChatGetSecret(r) == IF Answered(r) THEN TextOr(r) ELSE Thrown(r.code)
LibreChatListSecrets(r) == IF Answered(r) THEN ListedOr(r) ELSE Thrown(r.code)

=============================================================================
