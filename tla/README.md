# EnigmAgent: models, checks and proofs

EnigmAgent keeps secrets in one encrypted vault file (or browser-storage
record) and hands them out under rules: to a local gateway, to operations that
an operator configured, to web pages whose origin a secret is bound to, and to
the agent programs that put them in the place of references such as `{{NAME}}`.
This directory holds TLA+ models of the parts that decide what happens to the
vault and to a secret on its way out, the TLC configurations that check them on
small instances, and TLAPS proofs for every value of the parameters. File names
below are relative to `src/`; `mcp` stands for `platforms/mcp-server/`.

| Module | Models | Checked by | Proved in |
|---|---|---|---|
| `VaultFormat` | what a vault file can hold | (used by the next three) | |
| `VaultRegister` | what storage promises: one atomic register | abstract specification of `FileStorage` and `VaultSession` | |
| `FileStorage` | `class FileStorage` of `mcp/vault-core.js` | `FileStorage_faults` | `FileStorage_proofs` |
| `VaultSession` | `class VaultManager` of `mcp/vault-core.js` | `VaultSession_calls` | `VaultSession_proofs` |
| `VaultEntries` | the callbacks of its mutations, `find`, `resolve`, `validateEntries` | (used by `VaultAdmin`, `RestChecks`, `PlaceholderTexts`) | |
| `VaultAdmin` | `cli/lib/vault-cli.js` and programs with the library | `VaultAdmin_admin`, `_undefined` | `VaultAdmin_proofs` |
| `OperationBroker` | `mcp/operation-broker.js` | `OperationBroker_calls` | `OperationBroker_proofs` |
| `RestChecks`, `HttpServer` | `mcp/http-server.js`, `gateway-policy.js`, `client.js` | through `Gateway` | through `Gateway` |
| `McpServer` | `mcp/mcp-server.js` | through `Gateway` | through `Gateway` |
| `Gateway` | `mcp/index.js` over the two servers | `Gateway_transports` | `Gateway_proofs` |
| `PlaceholderTexts`, `AgentHosts` | substitution in texts; the requests and results of each agent integration | through `PlaceholderHosts` | |
| `PlaceholderHosts` | an integration at work with the gateway | `PlaceholderHosts_all`, `_openclaw` | `Gateway_proofs` |
| `ExtensionVault` | `extension/vault.js`, `pwa/vault-pwa.js` | `ExtensionVault_sequential`, `_locked` | `ExtensionVault_proofs` |
| `ExtensionBridge` | `extension/background.js` and its peer in `vault.js` | `ExtensionBridge_page` | `ExtensionBridge_proofs` |
| `ContentScript` | `extension/content.js` | `ContentScript_page` | `ContentScript_proofs` |

`MC<Module>.tla` adds what TLC needs: symmetry sets, and small sets of names,
requests and texts. To repeat a check:
`tlc -workers 2 -config FileStorage_faults.cfg MCFileStorage`; to repeat the
proofs: `tlapm FileStorage_proofs.tla`.

Operators whose comment begins "Variant:" or "Mutant:" are not part of any
specification. Each is a definition with a plausible mistake in it, listed under
`mutants` in `PROJECT.json`: put in the place of the definition it varies, it
makes TLC find a violation of the property named there.

## 1. Inventory

### The gateway

**Vault file storage** (`FileStorage`, `mcp/vault-core.js` 349-441). State: the
vault file and, beside it, `.bak`, `.v1-backup`, `.damaged-*` and the `.lock`
directory. Operations: `loadSnapshot`; `save`, which replaces the file only if
it still has the revision (SHA-256) the caller computed from; `recoverBackup`,
which puts `.bak` back after it decoded. Several processes share the directory
and are kept apart by `mkdir`. Hard: every `await` is a point where another
process acts, the process dies, the power goes, or the call throws, and some
failures come *after* the effect (a directory `fsync` that fails when the rename
is done). Correct when: one writer at a time; no acknowledged change is lost;
`.bak` is one write old at most; nothing is half-written; nothing is replaced
that is not kept; a version 1 file survives its migration; nobody waits for ever.

**Vault session** (`VaultManager`, same file, 190-340). State: `#key`,
`#envelope`, `#entries`, `#revision`, the counter `#epoch` and the promise chain
`#tail`. Operations: `create`, `unlock`, `lock`, the mutations (`addSecret`,
`updateSecret`, `deleteSecret`) and `migrate` through `#mutate`, `exportTo`,
`recoverBackup`. Hard: key derivation takes long and `lock()` is synchronous, so
any number of calls are overtaken while they wait; a mutation computes its
entries, encrypts and saves in three awaits. Correct when: the session shows a
vault that was on disk; an outcome that was reported is what is visible; the
last of `lock`, `create`, `unlock`, `recoverBackup` decides whether it is open;
what was overtaken on the queue is never written.

**Vault entries and resolution** (same file, 93-131, 245-302). An entry has an id,
a name, a domain or none, and a value. `find` takes a name literally unless it is
an alias: `login:HOST` means the entry bound to HOST, `doc:X` the one called `doc_X`.
`resolve` refuses an unbound or wrongly bound secret. Hard: an alias can hide an
entry that is literally called like it; what a mutation checks in memory, what
`JSON.stringify` writes and what `decodeVault` accepts are three things. Correct
when every stored vault can be decoded again, and what is edited is what was named.

**Cryptography** (same file). Argon2id and AES-256-GCM from Node. Modelled by two
facts only: an envelope opens with its own key, and a nonce is drawn for every
encoding, so no two encodings are the same bytes.

**Operation broker** (`mcp/operation-broker.js`). State: `#active`, and per call a
deadline, a DNS query and an HTTP request. It reads the session's lock state and
format when a call starts and the credential after the lookup. Hard: the session
may be locked or reopened meanwhile; the deadline, the response, an error and an
abort race; DNS may answer with several addresses, or after its deadline. Correct
when: a place is held exactly while its call runs; a credential is sent only to
an address that was checked; no legacy vault is used; the deadline includes DNS;
a call settles once.

**REST server** (`mcp/http-server.js`, with `gateway-policy.js`). Per request: the
checks of its head, in a fixed order, then an awaited body, then the session or the
broker. Hard: the vault is locked, or the peer gone, between head and body. Correct
when a caller without the right host and token learns nothing from the checks that
come after, and a locked vault tells nothing. Its **client** (`client.js`) races the
response, an error and a timer. **MCP server** (`mcp-server.js`). State: the handshake
(`initialized`, `ready`) and the bytes of an incomplete line. Hard: chunks of any
length. Correct when the replies are those of a reader of whole lines. **Gateway
process** (`index.js`): opens the vault, runs one transport and locks at the end of
its input, on a failure and on a signal.

**Command line** (`cli/lib/vault-cli.js`). Each command opens the vault, looks an
entry up by name, calls `VaultManager` once and locks. `platforms/shared`,
`platforms/npm-library` and `platforms/cli` hold byte-identical copies of the vault
core. Hard: what a command read when it started is old when it writes, and others
edit, restore or create the file meanwhile. Correct when it edits the entry that it
named, and no vault or export is overwritten by another.

### The browser extension and its relatives

**Vault page** (`extension/vault.js`). State: `chrome.storage.local.vault`, and per
page `state.key` and `state.vault`, a whole copy that each save writes back.
Hard: the page handles events while WebCrypto works; two pages have two copies;
a write that fails is not noticed; the entries of an imported file are not looked at. **PWA** (`pwa/vault-pwa.js`): the same over
`localStorage`, with fewer checks.

**Background worker** (`extension/background.js`). State: `vaultTabId` in
`chrome.storage.session`. It opens or focuses the vault page, and relays a
request to it under a 7 s timeout. Hard: pages open, lock, and close between any
two awaits. The **Firefox** worker is a variant.

**Content script** (`extension/content.js`). State: the page's form fields and the
form's `enigmaDone` flag. It stops a submit, asks for each reference in turn,
writes the values and submits again. Hard: further submits and refusals halfway.

### Agent integrations and other clients

**Placeholder resolvers** (`platforms/nanoclaw`, `clawhub`, `openclaw`, `n8n`,
`paperclip`, and `platforms/integrations`). Each collects the references of a text
or an argument, asks the gateway for each (all at once, one by one, or from a cache)
and substitutes the values that came. They differ in the API they were written for,
in timers, in the token, and in what they do when a reference fails. Hard: replies
late, lost or out of order; the gateway locked or restarted with other values
between two requests; replies cut short; a cache and changed settings. Correct when a text is a
substitution of what was told, a strict caller passes on no reference, a status is
not told as unlocked when it never was, and a call with a deadline ends.

The Python client and its adapters, editor plugins, desktop shells, packaging and
listings make single requests, or none.

### Interactions

```
 web page --submit--> content script --message--> background worker --message--> vault page
                                                                                    | saveVault
                                                                            chrome.storage.local
 agent, integration --HTTP / stdio--> REST or MCP server --> operation broker --HTTPS--> destination
                                          |                     | resolve
                                          +-----> vault session +        command line --> vault session
                                                      | save, recoverBackup                   |
                                                      +------> file storage (one directory) <-+
```

## 2. The models

Conventions: the code between two `await`s is one step, because JavaScript runs
it without interruption; a lock, a deadline or another call can fall between any
two steps. A mistake in a password or a refused change is a nondeterministic
choice wherever the code can reject. Variables marked "Ghost" in a module are
read by properties only.

### `VaultFormat`, `VaultRegister`

A readable vault is its format version and the set of *rewrites* it contains;
each call that encodes a vault contributes a rewrite with its own number. Since
every encoding has a fresh nonce, equal contents mean equal bytes, and the
content also serves as its SHA-256 revision. That makes "no change was lost" a
statement about sets. `Missing`, `Torn`, `Corrupt` and `Foreign` are the files
that are no vault.

`VaultRegister` is the promise of storage: a write extends what is there, an
acknowledged write stays, a recovery gives up at most one acknowledged write, and
damage from outside is possible.

### `FileStorage`

| Code (`vault-core.js`) | Actions |
|---|---|
| `#locked` 383-401 | `MakeLock`, `LockBusy` (2 s deadline), `WriteOwner`, `Release` |
| `save` 402-426 | `ReadPrevious`, `OpenLegacy`, `WriteLegacy`, `BakTemp`, `BakRename`, `BakSync`, `MainTemp`, `MainRename`, `MainSync` |
| `atomicReplace`, `syncDirectory` 349-373 | `WriteTemp`, `Rename`, `SyncDirectory` in the six steps above |
| `recoverBackup` 427-439 | `VerifyBackup`, `RetainDamaged`, then the `Main*` steps |
| the callers in `VaultManager` | `Unlock`, `BeginCreate`, `BeginUpdate`, `BeginExport`, `BeginRecover` |
| failures | `Crash`, `StepError`, `LockError`, `LegacyError`, `LegacyCrash`, `ReleaseError`, `PowerLoss`, `Damage`; `RemoveStaleLock` is the operator's repair |

`files` is what the directory shows, `durable` what a power loss leaves of its
entries and `dirty` the files whose bytes are not flushed. A power loss may leave
the old or the new entry of each name separately, and a torn file where bytes were
not flushed. `faults` bounds how many faults happen. Left out: the leftovers that
no code reads (`.tmp-*`, `owner.json`), and the age of a stale lock, which the code
does not use.

### `VaultSession`

`call` holds the local variables of each asynchronous call and the await it is
at; `tail` the mutations chained on `#tail`. `Locked` is the body of `lock()`,
with which `create`, `unlock` and `recoverBackup` begin. `Encoded` and `Saved` are
the two checks of the epoch around the save. Storage is `VaultRegister`'s register;
`Commit` and `Acknowledge` are apart because a save can replace the file and still
reject (`SaveFails` from `committed`), and because `lock()` can come between.
`Others` stands for the other processes and for the operator.

### `VaultEntries`, `VaultAdmin`

An entry is a function from its fields, so that a field set to `undefined` is there
in memory and gone when it is `Serialised`. `Find` follows `find` with its two kinds
of alias; `Add`, `Update` and `Delete` are the mutations' callbacks and are None where
these throw; `Valid` is `validateEntries`, which `encodeVault` calls before it seals the entries in memory
(`Sealed` in `VaultAdmin`: what it refuses is not written) and `decodeVault` after it read them
back. The difference between the two is what `Serialised` drops. Spelling is abstracted to the
functions `Lower`, `LoginHost`, `Document` and `Covers`.

| Code (`vault-cli.js`) | Actions of `VaultAdmin` |
|---|---|
| `vault.unlock` 154; `create` 130-133 and `import` 139-149 up to their write | `Open`, `OpenNew` |
| `add`, `rename`, `domain`, `del` 156-165 | `Edit`, which looks the entry up by name in what was read |
| `migrate` 170, `recover` 135-138, `export` 169, `create`, `import` 150 | `Migrate`, `Recover`, `Export`, `Create`, `Import` |
| a program with `npm-library` | `ProgramEdit`: add, `updateSecret(id, patch)`, delete, any number of times |
| refusals, and `lock()` at the end | `Leave` |

A process reads the file in one step and writes it in a later one, by the atomic
compare-and-replace that `FileStorage` is proved to be. `Damage` is the file system.

### `OperationBroker`

`Denial` is the order of the checks at the top of `execute`; `Attach` is the
stretch from the resolution of the credential to the request, which no other code
interrupts; `Answer` is the DNS answer with one or two records, or its failure,
`LookupDeadline` the race it may lose, `Receive` and `SendDeadline` the events of
the request, and `Finish` its `done` flag. Time is a counter: a due timer fires
before `Tick`. Addresses are classes (public, denied, loopback) as
`operation-broker.js` 20-35 distinguishes them, and an operation is its kind of
host and its scheme. `Refuse` and `Start` are the two outcomes of the call.

### `RestChecks`, `HttpServer`, `McpServer`, `Gateway`

`HeadCheck` is the order of the checks before a body is read. `Request` makes them in
one step, `Body` and `BodyFails` are what the awaited body ends in, `Executed` is the
answer of the broker, whose inside is `OperationBroker`; `Receive`, `ClientTimeout`
and `Broken` are the client's events, of which `Settle` lets the first one count.

`McpServer` reads a stream of bytes in chunks of any length (`Chunk`) and cuts it
(`Segment`, one round of the loop in `serveStdio`); a byte stands for a part of a
message, so that a line of `MaxMessage` bytes, one of a byte more, a line that is not
UTF-8, a blank one and one that is cut short all occur. `Handled` is `handle`.
`Answers` is the reference definition that the replies are compared with: it is
written over whole lines and knows of no chunks.

`Gateway` is `index.js`: the set `Configs` of what its arguments allow, `Started`,
`Stop` (a signal or an error of the socket), `Exit`. `LockUnderServer` is a program
that embeds the server and locks its vault.

### `PlaceholderTexts`, `AgentHosts`, `PlaceholderHosts`

A text is a sequence of plain tokens, references and the token `$&`, because
`String.replace` reads that token in a value as the text it replaces: `InTurn` is one
replacement after another, `OnePass` is a replacer function. `AgentHosts` has, for each
integration, the request it makes (route, token, timer, cache) and what it makes of the
replies. `PlaceholderHosts` runs one of them: `Begin` is a call with its messages or
items, `Ask` sends what can be sent now, `Serve` is the gateway's answer by `HeadCheck`
and `Resolve`, `Arrive` the moment at which an integration with a cache stores it,
`Expire` the deadline, `SettleItems` the result. The LM Studio plugin has no deadline but Node's
timeout of an idle socket, and listens to nothing that a reply cut short ends with: `Stall` is
either. A request keeps the server and the token that it was made with. `GatewayChanges` locks, stops or restarts the gateway
with other values; `SillyTavernChange` changes address or token and empties the cache; in Jan,
`JanUnload` empties it and `JanLoad` sets the address later, with messages handled between, since the
handler is not really taken off. A reply that arrives after either fills the cache from the former server. A second
call is made only of the text handlers that share a cache; the others share nothing.
`server = "documented"` is the API that `integrations/README.md` 68-74 describes
(`/secret/NAME`, `/health`, no token), which several integrations were written for; it
is not in this repository, and its operators are marked external.

### `ExtensionVault`

A task is one operation that awaits: `asking` for the stored vault, `deriving` a
key, `sealing` a value. `opening` tells whether `state.vault` is still the same
object, because `updateSecret` writes to an entry object it found before.
`Overlap` names the views in which the user acts while an operation is under way,
so that the same module describes both careful and impatient use. `Platform =
"pwa"` selects the PWA's `saveVault` and its unchecked renames. `files` are the vault
files at hand: those that `Export` made, in whatever state the vault was then, and those of
`Foreign`, which come from elsewhere, from the PWA for instance, and may give several entries one name. `StartUnlock` opens
the stored vault or a file, and `Unlocked` stores the file's entries as they are. `told` is what the
user has been told is stored, and `deleted` what was deleted and not imported again.

### `ExtensionBridge`

Each request of a content script passes `tabs.query` (`Found`), the record of the
tab's id (`Recorded`), the listener in the page (`Delivered`, `Decrypted`) and the
reply, against `TimedOut`. Pages are opened by the popup (`Clicked`, `ClickAsked`,
`ClickCreated`) or by their address, and unlocked, locked and closed at any time;
`vault-locked`, `vault-unlocked` and `onRemoved` write `vaultTabId` as in the code.
`Habits` says whether the user also opens further pages by their address, or clicks
again without waiting; `bridge_page` has a user who does both. `crowded` notes which requests found several pages.

### `ContentScript`

A pass is one run of `onSubmit`. A value is the number of references in it and
whether it holds a secret. `Value` replaces every occurrence of one reference,
`Write` writes a finished field, and, after the last, sets the flag and submits,
`Refused` is an error badge. Passes overlap, as the handler is asynchronous and does
not exclude itself.

## 3. What the runs check

Every bound is a constant of its module with the comment "Bound:".

| Run | Instance | States | Shows |
|---|---|---|---|
| `storage_faults` | 2 sessions, 2 writes, 2 faults of all 5 kinds, directory flushed, fairness | 184,756 | one writer, no lost or torn write, a recent backup, refused saves leave nothing, replaced bytes and version 1 files are kept, refinement of the register, every call returns |
| `session_calls` | 3 calls, 1 `lock()`, 1 foreign change, 2 writes, fairness | 759,010 | reported outcomes are visible, the last opening wins, the session shows what was on disk, nothing superseded is saved, refinement of the register, every call settles |
| `vault_admin` | 1 run after another of the tool, 1 program, 3 writes, 3 initial files, at most 3 entries | 1,003,495 | stored vaults open again, a tool edits what it named, nothing is overwritten |
| `broker_calls` | 3 calls, 2 places, timeout 2, clock to 3, fairness | 860,504 | places, destinations, deadline, settlement |
| `gateway_transports` | 4 requests or one of 7 streams, all configurations, fairness | 106,264 | strangers learn nothing, a locked vault tells nothing, replies as if line by line, every client call settles |
| `placeholder_hosts` | 15 integrations, 2 calls, 1 change of the gateway, changes of the settings at any moment, fairness | 409,462 | texts are one substitution, all or nothing where promised, no false "unlocked", calls with a deadline end |
| `extension_sequential` | 1 page, 4 operations, a file from elsewhere with two secrets of one name, 1 export, no overlap | 437,465 | no name is given twice, entries under the vault's key, storage as told |
| `bridge_page` | 3 pages, 1 request, 2 clicks, both habits, fairness | 1,479,367 | the unlocked page is used unless several are open, always an answer |
| `content_page` | 3 fields, 2 references each, 3 overlapping passes, fairness | 11,513 | no reference is sent, an error stops the submit, a stopped submit ends |
| `extension_locked`, `admin_undefined`, `hosts_openclaw` | | | the three findings below |

Two larger instances, which also check the inductive invariants of section 5:
`FileStorage_threewrites` (3 writes, 967,127 states) and `VaultSession_fourcalls` (4 calls).

**Why the bounds are enough.** In storage, two sessions give every pair of
positions of two calls, since the lock admits one and the other only waits, is
refused, or comes after; two writes are a create or migration and an edit that makes
`.bak`, and `FileStorage_threewrites` adds one that replaces it; two faults are a
failure and a failure of its repair. In the session, three calls are an opening, a
mutation on the queue and another opening or mutation that overtakes it, with one
`lock()` besides (`MaxLocks` bounds the epoch at which it is still called; openings
raise the epoch further). The theorems of section 5 hold without these bounds.
In `VaultAdmin`, one tool stands for any number of runs, each after the other, beside
one program; three writes are an edit by each and a recovery or creation after them, and the
names have two spellings, an alias of each kind and the entries that the aliases hide.
In the broker, three calls on two places fill the limit and leave one to be refused; a
timeout of two ticks lets DNS take none, half or all of it. In the gateway, requests
affect each other only through the lock, so two with a token and two without show every
pair; the streams are chosen so that lines are joined, split, at the size limit and over
it. In `PlaceholderHosts`, two calls of two texts let one call fill a cache that another
reads, and one change of the gateway can fall between any two requests. In the vault page, four operations that
await, with renames, deletions and exports between them, are a creation, an addition, an import and what
comes after it. In the bridge,
three pages are the unlocked one, one that was there before it and cleared its record, and one that
comes while the request is under way; requests affect each other only through the record of the tab,
which pages write as well. Three fields and three passes in the content script give a first, a middle
and a last field, and a pass before and after a failure.

**Fairness.** Fairness is asked only of what the runtime drives: the continuation
of a call that was made (`FileStorage`, `VaultSession`), timers and the clock
(`OperationBroker`, `ExtensionBridge`, the client in `Gateway`), the worker's own
continuations, the event loop and the deadlines of an integration (`PlaceholderHosts`; that a
socket becomes idle is not assumed),
and, in `ContentScript`, the answer to a request, which is `ExtensionBridge`'s
`EveryRequestAnswered`. In `VaultSession` a save returns because `FileStorage`'s
`CallsReturn` says so. No user, destination, gateway, resolver, vault page or operator
is assumed ever to act, and no fault to happen or to stop. In `FileStorage` one weak
fairness covers all steps of a call: its own steps are enabled until it settles,
for `LockBusy` is enabled whenever `MakeLock` is not, so a stale lock that nobody
removes does not block it.

**Deadlock** is checked for storage. The other modules' calls, tasks, requests and
passes are each made once, so their behaviours do end.

## 4. What was found

Three runs expect a violation; TLC prints the trace.

* `extension_locked` (`extension/vault.js` 192): `updateSecret` checks the key only before it
  awaits the encryption. The vault is locked meanwhile, and the save that follows stores
  `null` over the vault.
* `admin_undefined` (`mcp/vault-core.js` 274): `updateSecret(id, { domain: undefined })`, which
  the declared type `Partial<...>` admits, succeeds and leaves the entry with a field that
  `JSON.stringify` drops; `decodeVault` demands it, so the vault, and after one more save
  its backup, cannot be opened any more. `vault_admin` checks the same property for the
  patches that do not do this.
* `hosts_openclaw` (`openclaw/.../vault-client.ts` 50): the plugin sends no token, the gateway
  demands one, so no reference is ever resolved; unless it is strict, the tool is called
  with the references as they are, while its description says that they are resolved.

Further configurations beside these give traces of behaviour that needs care, each by
one property that does not hold under it:

| Configuration | Property | The trace |
|---|---|---|
| `FileStorage_interrupted` | `InterruptedBackupFailsClosed` | a migration fails while it writes `.v1-backup` after all bytes are there; the next attempt finds the file equal and goes on, though it was never flushed (`SECURITY.md` 32 says that interrupted backup creation fails closed) |
| `OperationBroker_reopened` | `MigratedOnly` | the session is locked and unlocked on a legacy vault while DNS is asked; no caller in the gateway reopens its session |
| `ExtensionVault_tabs` | `DeletedStaysDeleted` | a secret deleted in one page comes back when another page, whose copy still holds it, saves |
| `ExtensionVault_names` | `NamesUnique` | two additions of one name, each checked before the other's push |
| `ExtensionVault_quota` | `StoredAsTold` | the extension does not see that a write failed |
| `ExtensionBridge_pages`, `_clicks` | `UnlockedPageIsUsed`, `OneVaultPage` | a second page opened by its address is asked instead of the unlocked one; two clicks open two pages |
| `ExtensionBridge_lock` | `LockedPageTellsNothing` | the page is locked while a value decrypts, and replies with it |
| `ContentScript_stays` | `NoReferenceSubmitted` | on a page that handles submits itself, the flag `enigmaDone` stays set and the next submit is let through unresolved |
| `ContentScript_partial` | `NoPartialReveal` | a refused field after a resolved one leaves the first secret in the page |

`extension_sequential` and `content_page` therefore state their properties for a user who
waits for the page and for a page that is left by its submit: that is what `Overlap` and `Stays`
say, and the runs of this section are what becomes of the same properties otherwise. In
`NamesUnique` two secrets may share a name that a file gave to both, since nobody looks at the names
in a file. `bridge_page` has no such restriction on the user; `OnlyPageIsUsed` is what is left of
`UnlockedPageIsUsed` with any number of pages open. `content_page`
also leaves out typing while a submit is being resolved (`TypesMeanwhile`).
`TextsAreOnePass` is restricted to values without references and without `$&`: with
them, one replacement after another gives a different text (`nanoclaw` 184, `clawhub`,
`n8n`). `TimedCallsSettle` leaves out the integrations whose requests have no deadline (`Untimed`), the LM Studio
plugin among them, whose call stays pending when a reply trickles in or breaks off
(`lmstudio-plugin/src/index.ts` 37-48). Nothing is stated of the caches: when the settings change
while a request is under way, its reply stores a value of the former server
(`sillytavern/index.js` 45, `jan/src/index.ts` 36-49).

Noticed on the way, and not stated as properties: the Jan extension registers one function
and unregisters another (`integrations/jan/src/index.ts` 47), so its handler stays;
a comment in Paperclip's secrets provider says that hard errors such as a locked vault
"should propagate", and the code resolves to `undefined` for them as well
(`paperclip/packages/secrets-provider-enigmagent/src/index.ts` 127-149).

## 5. What is proved

All theorems are for every number of sessions, writes, faults, calls, places, ticks,
requests, processes, pages, fields and passes, from the named assumptions of the modules.
These say that special values differ from ordinary ones (`ContentsAssumption`,
`NullAssumption`, `VaultsAssumption`), that bounds are numbers (`MaxWritesAssumption`,
`BoundsAssumption`, `LimitsAssumption`, ...), that the configuration is well formed
(`PolicyAssumption`, `RequestsAssumption`), that the initial vaults can be opened and the ids
in them are not among those drawn later (`FilesAssumption`), that a vault file from elsewhere is encrypted with one key
and gives no id twice (`ForeignAssumption`), that commands and patches have the
fields that the argument parser and the library's callers give them (`CommandsAssumption`,
`PatchesAssumption`), that a stream is a finite sequence (`StreamsAssumption`), that the integrations are those of
`AgentHosts` (`IntegrationsAssumption`), that messages and values are finite texts whose references have
names that can be looked up (`TextsAssumption`), and, in `FileStorage`, that a power loss is
considered only where the directory is flushed (`StorageAssumption`), since the code states
no promise elsewhere. TLC evaluates each of them in the runs of its module.

**`FileStorage_proofs`** proves `Spec => []P` for `TypeOK` (`TypeCorrect`),
`OneWriter` (`MutualExclusion`), `NoLostUpdate` (`AcknowledgedWritesKept`),
`BackupIsRecent` (`BackupMissesAtMostOne`) and `NeverTorn` (`ReplacementIsAtomic`).
None but `TypeOK` is inductive. That an acknowledged write is in the vault file
needs to know what a writer about to rename holds in its hands, so `IndInv` says of
each session: a save carries its caller's vault and one rewrite more
(`CallWellFormed`); from the revision check to the rename the file *is* the
caller's revision, and `.bak` is it by the time the file is replaced
(`SaveIsIsolated`); a recovery writes the backup it decoded (`RecoveryIsVerified`);
what is renamed was flushed, and what resolved is durable (`WritesReachDisk`).
`DirectoryHolds` is stated for the visible and, if directories are flushed, for the
durable entries, so that a power loss, which may mix the two, keeps it. The key
step is `MainRename`: by `OneWriter` nobody else touched the file since the check,
hence the data extends `acked`, and `.bak` misses the call's own rewrite at most,
which is where the "one" of `BackupIsRecent` comes from.

The module's second part proves that a refused save is in no file
(`RefusalsWriteNothing`), that replaced bytes are kept (`ReplacedBytesKept`), that the
version 1 file survives its migration (`OriginalsKept`), and that every step of
`FileStorage` is a step of `VaultRegister` or a stutter (`StorageImplements`). They need a
second inductive invariant, `HistoryInv`, of where contents come from: rewrites are
numbered in order and a save adds its own to what it expects (`Numbered`); a rewrite that
was not written is with its own call alone, and a refused one nowhere
(`RewritesArePrivate`); a recovery has kept the file it will replace (`ReplacedIsKept`); a
migration past its copy has the copy in full (`LegacyIsDone`). For the refinement, a save's rename over
the vault file is the register's `Commit`, a recovery's its `Restore`, and the moment at which a
call resolves is `Acknowledge`; the new content extends the old one because of `SaveIsIsolated`.

**`VaultSession_proofs`** proves `TypeOK`, `SessionIsOnDisk` (`ShowsTheDisk`),
`OutcomesAreVisible` (`OutcomesShown`), `LastOpeningWins` (`LastOpeningDecides`),
`SupersededNeverSaved` (`SupersededStop`) and that the session, too, implements the register
(`SessionImplements`). The invariant says that `tail` lists exactly the queued mutations
and only its head is past its start; that what a running mutation holds is what the session
showed then, plus its own rewrite; that a call with the present epoch is `recent`, and what
it is about to adopt was on disk. So `lock()` between any two steps leaves the running
mutation with an old epoch, and nothing it does later reaches the memory of the session.

**`VaultAdmin_proofs`** proves `NeverOverwritten` (`VaultsNotOverwritten`) for any number of
tools, programs and commands: every write of a vault file is over the bytes that were read, or
over none. The inductive invariant `Inv` behind the other theorems (itself a theorem,
`EntriesStayDistinct`) says of the vault file, its backup, the export and the entries in every
session that no id and no name occurs twice; that the id an addition draws is new, for which ids
in old files and ids drawn later are kept apart; and that a tool, whose arguments come from a
parser, never holds an entry with a field that is `undefined`. From it follow
`EditsWhatItNamed` (`ToolsEditWhatTheyNamed`): a write compares the bytes, so the file that is
replaced is the one in which the name was looked up, and one id is one entry of it; and
`StoredVaultsOpen` (`CarefulVaultsOpen`) as long as no patch of a program has `domain: undefined`
(`Careful`), which is the condition of section 4's `admin_undefined`: then `Complete` says of every
stored vault that each entry has all its keys after it was serialised. The lemmas on `Add`,
`Update` and `Delete` say what these return and which of the properties they preserve.

**`OperationBroker_proofs`** proves `PlacesAreHeld` (`PlacesBounded`),
`DestinationChecked` (`OnlyCheckedDestinations`), `DeadlineKept` (`WithinDeadline`),
and two statements that no listed run repeats: the action property `SettledIsFinal`
(`Settled`), and `MigratedOnly` (`OnlyMigratedVaults`) where the session is not reopened on a
legacy vault. The invariant adds that a running call has a configured
operation and a timer at its start plus `Timeout` which has not passed, and that a
call waits for DNS only in a session that was opened on a version 2 vault. The count of
running calls uses cardinality lemmas for adding and removing one element.

**`Gateway_proofs`** proves `StrangersLearnNothing` (`StrangersToldNothing`): a request without
the right host, origin or token never gets past its head, and its refusal is a function of
these three. `NothingToldWhenLocked` (`LockedTellsNothing`) looks at the two places where a reply
is made, the head and the end of the body, each of which asks the session.

Its second part proves `RepliesAsIfLineByLine` (`AnsweredLineByLine`), for every stream and every
way to cut it into chunks. The server takes bytes and has no notion of the whole input; the
reference definition `Answers` has no notion of a chunk: it numbers the lines, cuts each one out of
the stream, derives the state of the handshake from the lines before it and joins the replies.
`McpInv` relates the two: what was read and not handled (`parts`, then `data`) is the stream
after the last newline that was handled, and holds no newline in its first part (`Cut`); `lines`
counts the newlines up to there; the handshake is that of the first `lines` lines; and the replies
are theirs (`AnsweredLines`). The step that handles a line needs that the bytes since the last newline
are the line of the next number (`NextLine`), which is a statement about cardinalities
of sets of positions; a line that is refused as too long before it ended
is one that is too long as a whole (`LongLine`), and no line after it is answered
(`AnsweredPrefix`).

`FlattenSeq`, which joins the replies, is a fold that the community modules define by the choice
of a function, so that its value for one line more is an induction over the number of lines.
The library's induction theorems take an operator and cannot be used; the same is obtained from one
that does not: the finite subsets of a set are well-founded under strict inclusion, hence a set of
naturals has a least element (`Least`: take the smallest interval `0 .. x`), hence a set that holds 0 and
the successor of each member holds every natural (`SetInduction`).

Its third part is about the integrations that ask a gateway; it needs the same lemmas on
`FlattenSeq`, and the names of `PlaceholderHosts` are such that it can be extended together with
`Gateway`. The three invariants of `PlaceholderHosts` are proved for every one of the fifteen
integrations, any number of calls, messages, values and changes, and every order in which
replies come in, fail, break off or run out of time. The lemmas `BeginSets` to `GatewaySets` say once which
fields of which call an action changes, and the inductive invariant uses them.

- `HostInv` (`CallsGoItemByItem`): a call was given texts (`Given`); it goes on item by item, only the item
  under work asks and waits, and the result of each earlier one is that of the replies to all
  that it had to ask, unless the n8n node failed it (`Progress`, `ItemSettled`); a call that is open while the
  gateway is unlocked has seen it so, and a status that was told is no better than what was seen
  (`Heard`). `AllAsked` is the step that carries it: with nothing left to send or to await, every reference of
  the item was asked for. From it `UnlockedWasUnlocked` (`AgentsTellTheTruth`), `AllOrNothing`
  (`NoHalfResolvedText`) and `TextsAreOnePass` (`ReplacementsActAsOne`).

The last one rests on a lemma about substitution for all texts (`InTurnIsOnePass`): replacing one name after
another, in the order of first occurrence, is replacing all at once, if no value holds
a reference or `$&`. It is an induction over the names: after those in `N` were replaced, the text is the
concatenation over its tokens of the value, for a reference in `N`, and of the token itself otherwise
(`Part`), and `ReplacePart` puts in the next name token by token. `RefsInIs` says that
the names found are all those that occur. Both operators are recursive functions, of which the prover
knows the value only after it is shown that a function with that equation exists; `FindsExists` and
`AftersExists` give one by the induction above.

**`ExtensionVault_proofs`** is about a user who waits until a page is done (`Overlap = {}`), with any number
of pages and of files exported and imported: `EntriesDecrypt` (`StoredDecrypts`) through any refused writes, and `NamesUnique`
(`StoredNamesUnique`) for the extension, in which two entries of one name have it from one file of `Foreign` (`GivenTogether`). At most one operation is under way (`OneAtATime`), so
every page, every file and the stored vault are well kept (`PagesAgree`) and an operation finds its page
as it was when it began (`TasksAgree`); an entry has the id of an addition that is done
or made elsewhere, which is why a new one is new. The same invariant gives `VaultStaysStored` (`VaultNeverVanishes`),
of which the run `extension_locked` shows that it fails for a user who does not wait: every save is by a
page whose key says that a vault is open.

Two more are for pages of which no two are unlocked at one time (`OneOpen`, a hypothesis about every
state of the behaviour): they may be opened, locked and reloaded in any order. `StoredAsTold`
(`StoredInTurn`; `StoredWhatWasTold` for one page) needs that no write is refused (`Undisturbed`); its invariant
`StoredIsShown` says what a page that changes an entry shows meanwhile. `DeletedStaysDeleted`
(`DeletedForGood`) needs that a refused write is noticed, as the PWA does (`Noticed`); its invariant
`DeletedGone` says that neither the storage nor any page, unlocked or about to be, has an entry
that was deleted, and that deleted entries are those of additions that are done or were made elsewhere, so none
is still to be added. A deleted entry does come back by the import of a file that holds it; the user asked for
that, and it counts as deleted no longer. Section 4 has a trace for each of these conditions: not waiting
(`ExtensionVault_names`, `_locked`), two unlocked pages (`_tabs`) and a refused write that nobody saw (`_quota`).

**`ExtensionBridge_proofs`** is about the relay between a page, the worker and the vault page, with any
number of pages, requests and clicks. An answered request keeps its answer (`AnsweredOnce`),
because each of the three racers looks at whether it is still open. Whatever the user's habits are,
`OnlyPageIsUsed` (`OnlyPageFound`): the invariant `SteadyFound` says what each stage of a request knows of
a page that has been unlocked since it was made. If the query found no other, it found this one,
whatever other pages wrote to or cleared from the record of the tab, and its listener does not answer that it is
locked. That one page is open, and that an unlocked one is used among several, is not so; section 4 has the traces.

**`ContentScript_proofs`** proves, for overlapping passes, `AbortedAsAWhole` (`FailedNeverSubmits`), and
`NoReferenceSubmitted` (`SecretsForReferences`) for a page that is left by its submit and that
nobody types into meanwhile. The invariant is that every field with a reference
is still on the list of every running pass (`ReferencesAreListed`): a pass that started
later lists fewer, and a value once written has none. That a pass lists its fields in the
order of the page is proved from the existence of an increasing enumeration, by ranks.

**Only model-checked:** liveness (`CallsReturn`, `CallsSettle`, the two `EveryCallSettles`,
`EveryRequestAnswered`, `StoppedSubmitsEnd`, `TimedCallsSettle`), which is out of the prover's reach
like everything about `ENABLED`. Every invariant of a passing run is also the subject of a theorem. No module
declares a RECURSIVE operator.

## 6. Not modelled

Cryptography, Argon2id's memory, formatting, rendering, logging and the exact sizes of
messages. The spelling rules of `gateway-policy.js` (which hosts, tokens and domains are
well formed) are pure functions of strings; the models take their verdicts as fields of a
request. The Python client, its adapters and resolvers are blocking programs: nothing runs
between their steps. The Firefox worker has the same order of awaits as the Chromium one.
Editor plugins, the popup, desktop and mobile shells, packaging, listings and audit data
keep no state whose change over time could go wrong. In modelled parts: editing only the
binding of an entry, rendering, and the entries of a file that are not under its key in the vault page; the second handler that Jan
registers when it is loaded again, which resolves a text once more; the popup's status query;
the badge of the content script; the PWA's service-worker cache and copy button; Paperclip's
server patches and user interface; arguments of tools that are structures rather than texts;
`list` and `status` of the command line, which change nothing; the demo. Without directory
flushes (win32) the storage model takes no power loss, so nothing is said of one there.
`PROJECT.json` lists each part under its component.

The hazards in `PROJECT.json` without a property say why: the code plainly does what they
describe, as a configuration of section 4 or an action of the model shows, or they need structured arguments or
a Python program.

## 7. Plan

1. `PlaceholderHosts`: arguments that are structures, for the resolvers that walk through them, the
   Python ones included.
2. `ExtensionBridge`: the status query, and the Firefox worker as a variant.
3. `ExtensionVault`: edits of a binding only; the PWA's remaining operations.
