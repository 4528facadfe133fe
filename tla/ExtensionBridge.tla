----------------------------- MODULE ExtensionBridge ----------------------------
(***************************************************************************)
(* How a reference in a web page is resolved: content.js asks the service  *)
(* worker (extension/background.js), which looks for a vault page and asks *)
(* it (the bridge listener of extension/vault.js) under a timeout.  Vault  *)
(* pages are opened, unlocked, locked and closed meanwhile.                *)
(***************************************************************************)
EXTENDS Naturals, FiniteSets

CONSTANTS
    Pages,          \* The vault pages, each opened at most once; a page is its tab id.
    Requests,       \* The resolve-placeholder requests, each made once.
    Clicks,         \* The open-vault requests of the popup, each made once.
    Habits,         \* Of the user: "address" opens vault.html once more by its
                    \* address, "double click" does not wait for the popup to answer.
    Timeout,        \* RESOLVE_TIMEOUT_MS, in ticks.
    None

ASSUME HabitsAssumption == Habits \subseteq {"address", "double click"}
ASSUME TimeoutAssumption == Timeout \in Nat \ {0}
ASSUME NoneAssumption == None \notin Pages

VARIABLES
    page,           \* Where each page is in its life.
    vaultTabId,     \* chrome.storage.session: { vaultTabId }
    click,
    request,
    answer,         \* What handleResolve answered each request.
    lockedWhen,     \* Ghost: the answers that arrived when their page was not unlocked.
    steady,         \* Ghost: a page that is unlocked since the request was made.
    crowded         \* Ghost: the requests that found several pages open.

vars == <<page, vaultTabId, click, request, answer, lockedWhen, steady, crowded>>

\* A closed page is removed from the tabs, which onRemoved handles afterwards.
Life   == {"unopened", "locked", "unlocked", "removing", "clearing", "closed"}
Closed == {"removing", "clearing", "closed"}
Open   == {p \in Pages : page[p] \in {"locked", "unlocked"}}

Several == \E p, q \in Open : p # q

\* What findByName and originMatches say of a reference and an origin before
\* anything is decrypted; "value" stands for the plaintext of the entry.
Refusals == {"not_found", "no_domain_binding", "domain_mismatch"}
Answers  == Refusals \cup {"none", "value", "decrypt_failed", "vault_locked", "vault_not_open",
                           "vault_unreachable", "vault_timeout"}

NotMade == [at |-> "unmade", tab |-> None, left |-> 0, reply |-> "none"]

Init ==
    /\ page = [p \in Pages |-> "unopened"]
    /\ vaultTabId = None
    /\ click = [c \in Clicks |-> "unmade"]
    /\ request = [r \in Requests |-> NotMade]
    /\ answer = [r \in Requests |-> "none"]
    /\ lockedWhen = {}
    /\ steady = [r \in Requests |-> None]
    /\ crowded = {}

\* No page keeps a request that it was steady for once it locks or closes.
Unsteady(p) == steady' = [r \in Requests |-> IF steady[r] = p THEN None ELSE steady[r]]

--------------------------------------------------------------------------------
(* The vault pages. *)

\* enterVault announces the page.
Unlock(p) ==
    /\ page[p] = "locked"
    /\ page' = [page EXCEPT ![p] = "unlocked"]
    /\ vaultTabId' = p
    /\ UNCHANGED <<click, request, answer, lockedWhen, steady, crowded>>

\* doLock: vault-locked clears the id, whichever page sends it.
Lock(p) ==
    /\ page[p] = "unlocked"
    /\ page' = [page EXCEPT ![p] = "locked"]
    /\ vaultTabId' = None
    /\ Unsteady(p)
    /\ UNCHANGED <<click, request, answer, lockedWhen, crowded>>

\* beforeunload sends vault-locked too; then the tab is removed.
Close(p) ==
    /\ p \in Open
    /\ page' = [page EXCEPT ![p] = "removing"]
    /\ vaultTabId' = None
    /\ Unsteady(p)
    /\ UNCHANGED <<click, request, answer, lockedWhen, crowded>>

\* onRemoved reads the id, awaits, and clears it.
Removed(p) ==
    /\ page[p] = "removing"
    /\ page' = [page EXCEPT ![p] = IF vaultTabId = p THEN "clearing" ELSE "closed"]
    /\ UNCHANGED <<vaultTabId, click, request, answer, lockedWhen, steady, crowded>>

RemovedCleared(p) ==
    /\ page[p] = "clearing"
    /\ page' = [page EXCEPT ![p] = "closed"]
    /\ vaultTabId' = None
    /\ UNCHANGED <<click, request, answer, lockedWhen, steady, crowded>>

\* The popup's requests to open the page have been answered.
ClicksDone == \A c \in Clicks : click[c] \in {"unmade", "done"}

\* The user opens the address of the page, from a bookmark for instance.
OpenAddress(p) ==
    /\ "address" \in Habits \/ (Open = {} /\ ClicksDone)
    /\ page[p] = "unopened"
    /\ page' = [page EXCEPT ![p] = "locked"]
    /\ UNCHANGED <<vaultTabId, click, request, answer, lockedWhen, steady, crowded>>

--------------------------------------------------------------------------------
(* openOrFocusVault *)

Clicked(c) ==
    /\ click[c] = "unmade"
    /\ "double click" \in Habits \/ ClicksDone
    /\ click' = [click EXCEPT ![c] = "asking"]
    /\ UNCHANGED <<page, vaultTabId, request, answer, lockedWhen, steady, crowded>>

\* tabs.query: a page that is open gets the focus, and its id is recorded.
ClickAsked(c) ==
    /\ click[c] = "asking"
    /\ \/ /\ Open = {}
          /\ click' = [click EXCEPT ![c] = "creating"]
          /\ UNCHANGED vaultTabId
       \/ /\ click' = [click EXCEPT ![c] = "done"]
          /\ vaultTabId' \in Open
    /\ UNCHANGED <<page, request, answer, lockedWhen, steady, crowded>>

\* tabs.create
ClickCreated(c, p) ==
    /\ click[c] = "creating"
    /\ page[p] = "unopened"
    /\ page' = [page EXCEPT ![p] = "locked"]
    /\ vaultTabId' = p
    /\ click' = [click EXCEPT ![c] = "done"]
    /\ UNCHANGED <<request, answer, lockedWhen, steady, crowded>>

--------------------------------------------------------------------------------
(* handleResolve *)

\* content.js sends only references that the worker accepts as well formed.
Ask(r) ==
    /\ request[r].at = "unmade"
    /\ request' = [request EXCEPT ![r].at = "asking"]
    /\ \E p \in {q \in Pages : page[q] = "unlocked"} \cup {None} :
          /\ p = None => \A q \in Pages : page[q] # "unlocked"
          /\ steady' = [steady EXCEPT ![r] = p]
    /\ UNCHANGED <<page, vaultTabId, click, answer, lockedWhen, crowded>>

\* Mutant: the recorded id is used.
FoundRecorded(r) ==
    /\ request[r].at = "asking"
    /\ request' = [request EXCEPT ![r].at = "recording", ![r].tab = vaultTabId]
    /\ crowded' = IF Several THEN crowded \cup {r} ELSE crowded
    /\ UNCHANGED <<page, vaultTabId, click, answer, lockedWhen, steady>>

\* tabs.query in findVaultTab: the first of the pages, in whichever order they are.
Found(r) ==
    /\ request[r].at = "asking"
    /\ \E p \in IF Open = {} THEN {None} ELSE Open :
          request' = [request EXCEPT ![r].at = "recording", ![r].tab = p]
    /\ crowded' = IF Several THEN crowded \cup {r} ELSE crowded
    /\ UNCHANGED <<page, vaultTabId, click, answer, lockedWhen, steady>>

\* Its id is recorded, and the page is asked.
Recorded(r) ==
    /\ request[r].at = "recording"
    /\ vaultTabId' = request[r].tab
    /\ IF request[r].tab = None
       THEN /\ answer' = [answer EXCEPT ![r] = "vault_not_open"]
            /\ request' = [request EXCEPT ![r].at = "done"]
       ELSE /\ request' = [request EXCEPT ![r].at = "sent", ![r].left = Timeout]
            /\ UNCHANGED answer
    /\ UNCHANGED <<page, click, lockedWhen, steady, crowded>>

\* The listener of the page, up to the decryption that it awaits.
Delivered(r) ==
    LET p == request[r].tab IN
    /\ request[r].at = "sent"
    /\ \/ /\ page[p] \in Closed
          /\ request' = [request EXCEPT ![r].at = "replied", ![r].reply = "vault_unreachable"]
       \/ /\ page[p] = "locked"
          /\ request' = [request EXCEPT ![r].at = "replied", ![r].reply = "vault_locked"]
       \/ /\ page[p] = "unlocked"
          /\ \E refusal \in Refusals :
                request' = [request EXCEPT ![r].at = "replied", ![r].reply = refusal]
       \/ /\ page[p] = "unlocked"
          /\ request' = [request EXCEPT ![r].at = "decrypting"]
    /\ UNCHANGED <<page, vaultTabId, click, answer, lockedWhen, steady, crowded>>

\* The key was read before: the value is sent though the page was locked meanwhile.
Decrypted(r) ==
    LET p == request[r].tab IN
    /\ request[r].at = "decrypting"
    /\ IF page[p] \in Closed
       THEN /\ request' = [request EXCEPT ![r].at = "replied", ![r].reply = "vault_unreachable"]
            /\ UNCHANGED lockedWhen
       ELSE \E reply \in {"value", "decrypt_failed"} :
               /\ request' = [request EXCEPT ![r].at = "replied", ![r].reply = reply]
               /\ lockedWhen' = IF reply = "value" /\ page[p] = "locked"
                                THEN lockedWhen \cup {r} ELSE lockedWhen
    /\ UNCHANGED <<page, vaultTabId, click, answer, steady, crowded>>

\* A reply after the timeout is dropped: the promise is resolved already.
Replied(r) ==
    /\ request[r].at = "replied"
    /\ request' = [request EXCEPT ![r].at = "done"]
    /\ answer' = [answer EXCEPT ![r] = IF @ = "none" THEN request[r].reply ELSE @]
    /\ UNCHANGED <<page, vaultTabId, click, lockedWhen, steady, crowded>>

Waiting(r) == request[r].at \in {"sent", "decrypting", "replied"} /\ answer[r] = "none"

\* Mutant: no timer, the reply is awaited.
TimedOutNever(r) == FALSE /\ UNCHANGED vars

TimedOut(r) ==
    /\ Waiting(r)
    /\ request[r].left = 0
    /\ answer' = [answer EXCEPT ![r] = "vault_timeout"]
    /\ UNCHANGED <<page, vaultTabId, click, request, lockedWhen, steady, crowded>>

\* A due timer fires before time goes on.
Tick ==
    /\ \E r \in Requests : Waiting(r)
    /\ \A r \in Requests : Waiting(r) => request[r].left > 0
    /\ request' = [r \in Requests |->
           IF Waiting(r) THEN [request[r] EXCEPT !.left = @ - 1] ELSE request[r]]
    /\ UNCHANGED <<page, vaultTabId, click, answer, lockedWhen, steady, crowded>>

--------------------------------------------------------------------------------

PageStep(p) ==
    \/ Unlock(p) \/ Lock(p) \/ Close(p) \/ Removed(p) \/ RemovedCleared(p) \/ OpenAddress(p)
    \/ \E c \in Clicks : ClickCreated(c, p)

RequestStep(r) ==
    Ask(r) \/ Found(r) \/ Recorded(r) \/ Delivered(r) \/ Decrypted(r) \/ Replied(r) \/ TimedOut(r)

Next ==
    \/ \E p \in Pages : PageStep(p)
    \/ \E c \in Clicks : Clicked(c) \/ ClickAsked(c)
    \/ \E r \in Requests : RequestStep(r)
    \/ Tick

Spec == Init /\ [][Next]_vars

\* The worker's own steps and its timer; the vault page need not do anything.
Fairness ==
    /\ WF_vars(Tick)
    /\ \A r \in Requests : WF_vars(Found(r)) /\ WF_vars(Recorded(r)) /\ WF_vars(TimedOut(r))

FairSpec == Spec /\ Fairness

--------------------------------------------------------------------------------
(* What the bridge promises. *)

\* Every variable has its type.
TypeOK ==
    /\ page \in [Pages -> Life]
    /\ vaultTabId \in Pages \cup {None}
    /\ click \in [Clicks -> {"unmade", "asking", "creating", "done"}]
    /\ request \in [Requests -> [at : {"unmade", "asking", "recording", "sent", "decrypting",
                                       "replied", "done"},
                                 tab : Pages \cup {None}, left : 0 .. Timeout, reply : Answers]]
    /\ answer \in [Requests -> Answers]
    /\ lockedWhen \subseteq Requests
    /\ steady \in [Requests -> Pages \cup {None}]
    /\ crowded \subseteq Requests

\* "open-vault: open or focus the vault tab" (ARCHITECTURE.md): there is one page,
\* so a second copy of the vault cannot be written over the first.
OneVaultPage == Cardinality(Open) <= 1

\* vaultTabId is the "tab hosting the unlocked vault" (background.js:5), which
\* announces itself: a request is not refused for want of an unlocked page when one
\* is there from the request to the refusal.
UnlockedPageIsUsed ==
    \A r \in Requests :
        answer[r] \in {"vault_locked", "vault_not_open", "vault_unreachable"} => steady[r] = None

\* What remains of it for a user who opens as many pages as he likes: the unlocked
\* page is used unless another one was open, too, when the worker looked. Pages
\* that were there before or come later, and what their locking and closing does to
\* the record of the tab, hide it from no request.
OnlyPageIsUsed ==
    \A r \in Requests :
        answer[r] \in {"vault_locked", "vault_not_open", "vault_unreachable"} =>
            steady[r] = None \/ r \in crowded

\* "Only replies when the vault is unlocked" (vault.js:15): no value leaves a page
\* that was locked by then.
LockedPageTellsNothing == lockedWhen = {}

\* A request gets one answer: what the page replies after the timeout, with the
\* value of the secret, reaches nobody.
OneAnswer == [][ \A r \in Requests : answer[r] # "none" => answer'[r] = answer[r] ]_vars

\* Every request is answered, though the page may never reply.
EveryRequestAnswered == \A r \in Requests : request[r].at = "asking" ~> answer[r] # "none"

================================================================================
