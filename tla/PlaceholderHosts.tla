--------------------------- MODULE PlaceholderHosts ---------------------------
(***************************************************************************)
(* One integration at work: calls with one or several messages or items,   *)
(* each with references that are asked of the gateway, replies that come   *)
(* in any order, late or never, while the gateway is locked, stopped and   *)
(* started again with other values and the integration is configured anew. *)
(***************************************************************************)
EXTENDS AgentHosts

CONSTANTS
    Integrations,   \* The integrations.
    AgentCalls,     \* The calls, numbered from 1 in the order in which they begin.
    Values,         \* Values[n] is the set of texts that the secret n may hold,
    FirstValues,    \* and FirstValues[n] the one it has to begin with.
    Messages,       \* Messages[c] is the set of lists of texts that the call c may be given.
    Origin,         \* The origin that the integration states.
    MaxChanges      \* Bound on the changes of the gateway.

\* The integrations that AgentHosts describes.
AllIntegrations ==
    {"nanoclaw", "clawhub", "openclaw", "provider", "plugin", "n8n", "node", "lmstudio", "lmplugin",
     "sillytavern", "jan", "flowisetool", "flowise", "anythingllm", "librechat"}

ASSUME IntegrationsAssumption == Integrations \subseteq AllIntegrations

ASSUME TextsAssumption ==
    /\ \A c \in AgentCalls : \A m \in Messages[c] :
          m \in Seq(ToSet(m)) /\ m # <<>> /\ \A t \in ToSet(m) : IsText(t)
    /\ \A n \in DOMAIN FirstValues : IsText(FirstValues[n])
    /\ \A n \in DOMAIN Values : \A v \in Values[n] : IsText(v)
    /\ Entries \in Seq(ToSet(Entries)) /\ \A e \in ToSet(Entries) : e.name \in DOMAIN FirstValues

VARIABLES
    host, settings, \* The integration, and what its user configured.
    loaded,         \* The extension of Jan is loaded.
    server,         \* The server whose address is configured: "gateway", or
                    \* "documented", with the API that integrations/README.md names.
    gateway,        \* "unlocked", "locked" or "down".
    stored,         \* stored[n]: the value of n that the gateway serves.
    call,           \* call[c]: the state of the call c.
    cache,          \* The values that the integration keeps.
    changes         \* Counts the changes of the gateway.

hostsVars == <<host, settings, loaded, server, gateway, stored, call, cache, changes>>

--------------------------------------------------------------------------------
(* The integration that runs. *)

Ops(h) ==
    CASE h \in {"nanoclaw", "clawhub", "n8n"} -> {"status", "list", "one", "text"}
      [] h \in {"openclaw", "lmplugin"}       -> {"status", "list", "text"}
      [] h = "provider"                       -> {"status", "one"}
      [] h = "plugin"                         -> {"status", "list"}
      [] h \in {"node", "anythingllm"}        -> {"list", "one", "text"}
      [] h = "sillytavern"                    -> {"status", "text"}
      [] h \in {"lmstudio", "jan", "flowise"} -> {"text"}
      [] h = "flowisetool"                    -> {"one"}
      [] h = "librechat"                      -> {"list", "one"}

Gate(op) == \/ host = "nanoclaw" /\ NanoclawGate(settings, op)
            \/ host = "clawhub" /\ ClawhubGate(settings, op)

RequestFor(op, n) ==
    CASE host = "nanoclaw"    -> NanoclawRequest(settings, op, n)
      [] host = "clawhub"     -> ClawhubRequest(settings, op, n)
      [] host = "openclaw"    -> OpenClawRequest(op, n)
      [] host = "provider"    -> ProviderRequest(op, n)
      [] host = "plugin"      -> PluginRequest(op, n)
      [] host = "n8n"         -> N8nRequest(op, n)
      [] host = "node"        -> EnigmagentNodeRequest(settings, op, n)
      [] host = "lmstudio"    -> LmStudioRequest(settings, n)
      [] host = "lmplugin"    -> LmPluginRequest(settings, op, n)
      [] host = "sillytavern" -> SillyTavernRequest(settings, op, n)
      [] host = "jan"         -> JanRequest(n)
      [] host = "flowisetool" -> FlowiseToolRequest(settings, n)
      [] host = "flowise"     -> FlowiseResolverRequest(settings, n)
      [] host = "anythingllm" -> AnythingRequest(op, n)
      [] host = "librechat"   -> LibreChatRequest(settings, op, n)

Result(op, text, told) ==
    CASE host = "nanoclaw"    -> Nanoclaw(op, text, told)
      [] host = "clawhub"     -> Clawhub(op, text, told)
      [] host = "openclaw"    -> OpenClaw(settings, op, text, told)
      [] host = "provider"    -> Provider(op, text, told)
      [] host = "plugin"      -> Plugin(op, told)
      [] host = "n8n"         -> N8nItem(settings, op, text, told)
      [] host = "node"        -> EnigmagentNodeItem(settings, op, text, told)
      [] host = "lmstudio"    -> LmStudioText(text, told)
      [] host = "lmplugin"    -> LmPlugin(op, text, told)
      [] host = "sillytavern" -> IF op = "text" THEN SillyTavernText(text, told)
                                 ELSE SillyTavernStatus(told[None])
      [] host = "jan"         -> JanMessage(text, told)
      [] host = "flowisetool" -> FlowiseTool(told[FirstOf(text)])
      [] host = "flowise"     -> FlowiseResolver(text, told)
      [] host = "anythingllm" -> Anything(op, text, told)
      [] host = "librechat"   -> IF op = "one" THEN LibreChatGetSecret(told[FirstOf(text)])
                                 ELSE LibreChatListSecrets(told[None])

\* Several messages or items, at once or one after the other; their references
\* at once or one after the other.
Several  == {"n8n", "node", "lmstudio", "sillytavern", "jan"}
AtOnce   == {"lmstudio"}
OneByOne == {"n8n", "node"}

\* The calls that use a cache; others share nothing, so that one call shows what
\* they do.
Sharing == IF host \in {"lmstudio", "sillytavern", "jan"} THEN {"text"} ELSE {}

\* Their requests have no deadline.
Untimed == {"nanoclaw", "clawhub", "n8n", "node", "lmplugin", "anythingllm"}

\* The names that the pattern of the integration finds in a text.
Matched == IF host \in {"nanoclaw", "clawhub", "openclaw", "n8n"} THEN Names ELSE WordNames

\* What has to be asked for a text.
Wanted(op, text) == IF op \in {"status", "list"} THEN <<None>>
                    ELSE RefsIn(text, IF op = "one" THEN Names ELSE Matched)

--------------------------------------------------------------------------------
(* The gateway. *)

\* What is found for a request that may be answered.
Looked(q, op, found) ==
    CASE op = "status"           -> [code |-> "ok", value |-> gateway = "unlocked"]
      [] op = "list"             -> [code |-> "ok", value |-> {e.name : e \in ToSet(Entries)}]
      [] OTHER                   ->
            IF found = "ok" THEN [code |-> "ok", value |-> stored[Find(Entries, q.name).name]]
            ELSE [code |-> found, value |-> None]

\* The REST server of this repository, with raw resolution enabled.
GatewayReply(q, op) ==
    LET code == HeadCheck(q, TRUE, FALSE, gateway = "locked")
    IN  IF code \in {"ok", "body"} THEN Looked(q, op, Resolve(Entries, q.name, Origin))
        ELSE [code |-> code, value |-> None]

\* The server that some integrations were written for: it needs no token, and
\* /secret/NAME is bound to no origin.
DocumentedReply(q, op) ==
    IF gateway = "locked" /\ op # "status" THEN [code |-> "vault_locked", value |-> None]
    ELSE Looked(q, op, IF q.route = "/resolve" THEN Resolve(Entries, q.name, Origin)
                       ELSE IF Find(Entries, q.name) = NoEntry THEN "not_found" ELSE "ok")

Servers == {"gateway", "documented"}

Free == "free"

Idle == [state |-> Free]

HostsInit ==
    /\ host \in Integrations
    /\ settings \in [token : IF host \in {"openclaw", "provider", "plugin", "n8n", "jan", "anythingllm", "sillytavern"}
                             THEN {FALSE} ELSE BOOLEAN,
                     raw : IF host \in {"nanoclaw", "clawhub"} THEN BOOLEAN ELSE {FALSE},
                     strict : IF host = "openclaw" THEN BOOLEAN ELSE {FALSE},
                     goOn : IF host \in OneByOne THEN BOOLEAN ELSE {FALSE}]
    /\ loaded = TRUE
    /\ server \in Servers
    /\ gateway = "unlocked"
    /\ stored = FirstValues
    /\ call = [c \in AgentCalls |-> Idle]
    /\ cache = <<>>
    /\ changes = 0

gatewayVars == <<gateway, stored, changes>>
settingsVars == <<host, settings, loaded, server>>

Begin(c) ==
    /\ call[c] = Idle
    /\ \E op \in Ops(host) :
       /\ \A d \in 1 .. c - 1 : call[d] # Idle /\ {op, call[d].op} \subseteq Sharing
       /\ \E texts \in IF op \in {"status", "list"} THEN {<< <<>> >>}
                    ELSE IF op = "one" THEN {<< <<Ref(n)>> >> : n \in Names}
                    ELSE {m \in Messages[c] : Len(m) = 1 \/ host \in Several} :
            call' = [call EXCEPT ![c] =
                       [state |-> IF Gate(op) THEN "done" ELSE "open", op |-> op, texts |-> texts,
                        at |-> 1, asked |-> <<>>, out |-> <<>>,
                        seen |-> gateway = "unlocked", calm |-> gateway = "unlocked"]]
    /\ UNCHANGED <<gatewayVars, settingsVars, cache>>

Open(c) == call[c].state = "open"

\* The items under work, the requests they need and those that can be sent now.
Items(c) == IF host \in AtOnce THEN DOMAIN call[c].texts ELSE {call[c].at}

Needed(c) == UNION {{<<i, n>> : n \in ToSet(Wanted(call[c].op, call[c].texts[i]))} : i \in Items(c)}

Arrived(c) == {k \in DOMAIN call[c].asked : call[c].asked[k].state = "arrived"}

Waiting(c) == DOMAIN call[c].asked \ Arrived(c)

\* Whether an item asks for the next name after one that failed.
GoesOn(c) == host # "n8n" \/ \A k \in Arrived(c) : k[1] = call[c].at => Ok(call[c].asked[k])

NextKeys(c) ==
    IF host \notin OneByOne THEN Needed(c) \ DOMAIN call[c].asked
    ELSE LET names == Wanted(call[c].op, call[c].texts[call[c].at])
             i == SelectInSeq(names, LAMBDA n : <<call[c].at, n>> \notin DOMAIN call[c].asked)
         IN  IF i = 0 \/ Waiting(c) # {} \/ ~GoesOn(c) THEN {} ELSE {<<call[c].at, names[i]>>}

\* A request that is made of the server that is configured, and what came of it.
ReplyOf(q, state, code, value) ==
    [query |-> q, server |-> server, state |-> state, code |-> code, value |-> value]

\* What becomes of a request as it is made.
First(q) == IF q.cached /\ q.name \in DOMAIN cache THEN ReplyOf(q, "arrived", "ok", cache[q.name])
            ELSE IF ~q.sent THEN ReplyOf(q, "arrived", "missing_or_invalid_token", None)
            ELSE ReplyOf(q, "sent", "none", None)

Ask(c) ==
    /\ Open(c)
    /\ NextKeys(c) # {}
    /\ call' = [call EXCEPT ![c].asked =
                   [k \in DOMAIN @ \cup NextKeys(c) |->
                       IF k \in DOMAIN @ THEN @[k] ELSE First(RequestFor(call[c].op, k[2]))]]
    /\ UNCHANGED <<gatewayVars, settingsVars, cache>>

\* fetchSecret of an integration with a cache makes one null of all failures.
Replied(c, k, state, code, value) ==
    call' = [call EXCEPT ![c].asked[k] =
                [@ EXCEPT !.state = state, !.value = value,
                          !.code = IF call[c].asked[k].query.cached /\ code # "ok" THEN "null" ELSE code]]

\* The gateway answers, unless it is down or the connection breaks.  Without a
\* cache the answer has no effect of its own when it arrives.
Serve(c, k) ==
    /\ Open(c) /\ k \in Waiting(c)
    /\ call[c].asked[k].state = "sent"
    /\ \/ Replied(c, k, "arrived", "unreachable", None)
       \/ /\ gateway # "down"
          /\ LET q == call[c].asked[k].query
                 r == IF call[c].asked[k].server = "gateway" THEN GatewayReply(q, call[c].op)
                      ELSE DocumentedReply(q, call[c].op)
             IN  Replied(c, k, IF q.cached THEN "served" ELSE "arrived", r.code, r.value)
    /\ UNCHANGED <<gatewayVars, settingsVars, cache>>

\* An integration with a cache reads the answer and keeps the value.
Arrive(c, k) ==
    /\ Open(c) /\ k \in Waiting(c)
    /\ call[c].asked[k].state = "served"
    /\ call' = [call EXCEPT ![c].asked[k].state = "arrived"]
    /\ LET r == call[c].asked[k]
       IN  cache' = IF Ok(r) THEN [n \in DOMAIN cache \cup {k[2]} |-> IF n = k[2] THEN r.value ELSE cache[n]]
                    ELSE cache
    /\ UNCHANGED <<gatewayVars, settingsVars>>

\* The deadline of the request.
Expire(c, k) ==
    /\ Open(c) /\ k \in Waiting(c)
    /\ call[c].asked[k].query.timed
    /\ Replied(c, k, "arrived", "timeout", None)
    /\ UNCHANGED <<gatewayVars, settingsVars, cache>>

\* A request that is given up when its connection is idle: a reply that trickles in
\* keeps it open, and a connection that breaks in the middle of the reply leaves
\* it without an end, since nothing listens to that.
Stall(c, k) ==
    /\ Open(c) /\ k \in Waiting(c)
    /\ call[c].asked[k].query.idle /\ call[c].asked[k].state = "sent"
    /\ \/ Replied(c, k, "arrived", "timeout", None)
       \/ gateway # "down" /\ Replied(c, k, "cut", "none", None)
    /\ UNCHANGED <<gatewayVars, settingsVars, cache>>

\* What was told for the item i of the call c.
ToldOf(c, i) ==
    [n \in {k[2] : k \in {l \in Arrived(c) : l[1] = i}} |-> call[c].asked[<<i, n>>]]

\* Nothing is left to be asked or awaited: the items have their results.
SettleItems(c) ==
    /\ Open(c)
    /\ Waiting(c) = {} /\ NextKeys(c) = {}
    /\ LET results == [i \in Items(c) |-> Result(call[c].op, call[c].texts[i], ToldOf(c, i))]
           last == IF host \in AtOnce THEN Len(call[c].texts) ELSE call[c].at
           out == IF host \in AtOnce THEN results ELSE Append(call[c].out, results[last])
           failed == out[last].is = "thrown"
       IN  call' = [call EXCEPT ![c].out = out,
                                ![c].at = last + 1,
                                ![c].state = IF failed \/ last = Len(call[c].texts) THEN "done" ELSE "open"]
    /\ UNCHANGED <<gatewayVars, settingsVars, cache>>

\* The gateway is locked by the program around it, stopped, or started again on a
\* vault that was edited.
GatewayChanges ==
    /\ changes < MaxChanges /\ changes' = changes + 1
    /\ \/ gateway = "unlocked" /\ gateway' = "locked" /\ UNCHANGED stored
       \/ gateway # "down" /\ gateway' = "down" /\ UNCHANGED stored
       \/ /\ gateway' = "unlocked"
          /\ \E n \in DOMAIN Values : \E v \in Values[n] : stored' = [stored EXCEPT ![n] = v]
    /\ call' = [c \in AgentCalls |-> IF call[c] = Idle \/ ~Open(c) THEN call[c]
                                ELSE [call[c] EXCEPT !.seen = @ \/ gateway' = "unlocked", !.calm = FALSE]]
    /\ UNCHANGED <<settingsVars, cache>>

\* SillyTavern: another address or token is typed in, and the cache is emptied; a
\* reply under way is kept when it arrives.
SillyTavernChange ==
    /\ host = "sillytavern"
    /\ \/ settings' = [settings EXCEPT !.token = ~@] /\ UNCHANGED server
       \/ server' \in Servers /\ UNCHANGED settings
    /\ cache' = <<>>
    /\ UNCHANGED <<host, loaded, gatewayVars, call>>

\* Jan unloads the extension.  Its handler stays, since what is taken off is
\* another function, and goes on with the messages.
JanUnload ==
    /\ host = "jan" /\ loaded
    /\ loaded' = FALSE
    /\ cache' = <<>>
    /\ UNCHANGED <<host, settings, server, gatewayVars, call>>

\* onLoad, when it has the configuration, by then of another server perhaps.
JanLoad ==
    /\ host = "jan" /\ ~loaded
    /\ loaded' = TRUE
    /\ server' \in Servers
    /\ UNCHANGED <<host, settings, gatewayVars, call, cache>>

Step(c) ==
    /\ call[c] # Idle
    /\ \/ Ask(c) \/ SettleItems(c)
       \/ \E k \in Waiting(c) : Arrive(c, k) \/ Expire(c, k)

HostsNext ==
    \/ GatewayChanges \/ SillyTavernChange \/ JanUnload \/ JanLoad
    \/ \E c \in AgentCalls : Begin(c) \/ Step(c)
    \/ \E c \in AgentCalls : call[c] # Idle /\ \E k \in Waiting(c) : Serve(c, k) \/ Stall(c, k)

\* The event loop of the integration goes on and its deadlines fire; the gateway may
\* never answer, nor need a connection become idle.
HostsSpec == HostsInit /\ [][HostsNext]_hostsVars /\ WF_hostsVars(\E c \in AgentCalls : Step(c))

--------------------------------------------------------------------------------
(* Properties. *)

\* The items of the calls that have a text for their result.
ResolvedItems(c) == {i \in DOMAIN call[c].out : call[c].op = "text" /\ call[c].out[i].is = "text"}

Begun == {c \in AgentCalls : call[c] # Idle}

PlainValues(told) == \A n \in DOMAIN told : Ok(told[n]) => \A i \in DOMAIN told[n].value : told[n].value[i].is = "plain"

\* Where the code makes one replacement after another, the text is still the
\* one-pass substitution of the values that were told, whichever of them failed,
\* as long as no value holds a reference or $&.
TextsAreOnePass ==
    \A c \in Begun : \A i \in ResolvedItems(c) :
        host \in {"nanoclaw", "clawhub", "n8n"} /\ PlainValues(ToldOf(c, i))
        => call[c].out[i].text = OnePass(call[c].texts[i], ToldOf(c, i))

\* A strict OpenClaw calls no tool, and the n8n node has no text, in which a
\* reference was left because one of several requests failed.
AllOrNothing ==
    \A c \in Begun : \A i \in ResolvedItems(c) :
        (host = "openclaw" /\ settings.strict) \/ host = "n8n"
        => \A t \in ToSet(call[c].texts[i]) : t.is = "ref" => Told(ToldOf(c, i), t)

\* A status is told as unlocked only if the vault was unlocked at some moment of
\* the call.
UnlockedWasUnlocked ==
    \A c \in Begun : \A i \in DOMAIN call[c].out :
        call[c].out[i].is = "status" /\ call[c].out[i].unlocked => call[c].seen

\* The integrations with a deadline finish every call, though the gateway may never
\* answer one.
TimedCallsSettle ==
    host \notin Untimed ~> \A c \in Begun : ~Open(c)

\* The tools of OpenClaw say that references are resolved at execution time: when
\* the vault is unlocked all the while and no request is lost or runs out
\* of time, a reference to a secret of the origin is replaced.
ReferencesResolve ==
    \A c \in Begun : \A i \in ResolvedItems(c) :
        server = "gateway" /\ call[c].calm /\ (\A k \in Arrived(c) : call[c].asked[k].code \notin {"timeout", "unreachable"})
        => \A t \in ToSet(call[c].texts[i]) :
               t.is = "ref" /\ Resolve(Entries, t.n, Origin) = "ok" => Told(ToldOf(c, i), t)

=============================================================================
