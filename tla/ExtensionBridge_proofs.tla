------------------------- MODULE ExtensionBridge_proofs -------------------------
(***************************************************************************)
(* Proofs about ExtensionBridge, for every number of pages, requests and   *)
(* clicks and every timeout.                                               *)
(***************************************************************************)
EXTENDS ExtensionBridge, TLAPS

--------------------------------------------------------------------------------
(* Types. *)

LEMMA TypeInit == Init => TypeOK
  BY TimeoutAssumption DEF Init, TypeOK, Life, Answers, NotMade

LEMMA TypePage ==
  ASSUME TypeOK, NEW p \in Pages, PageStep(p)
  PROVE  TypeOK'
  <1> USE DEF TypeOK, Life
  <1>1. CASE Unlock(p)
    BY <1>1 DEF Unlock
  <1>2. CASE Lock(p) \/ Close(p)
    BY <1>2 DEF Lock, Close, Unsteady
  <1>3. CASE Removed(p) \/ RemovedCleared(p) \/ OpenAddress(p)
    BY <1>3 DEF Removed, RemovedCleared, OpenAddress
  <1>4. ASSUME NEW c \in Clicks, ClickCreated(c, p) PROVE TypeOK'
    BY <1>4 DEF ClickCreated
  <1> QED
    BY <1>1, <1>2, <1>3, <1>4 DEF PageStep

\* What there is to know of a request.
Records == [at : {"unmade", "asking", "recording", "sent", "decrypting", "replied", "done"},
            tab : Pages \cup {None}, left : 0 .. Timeout, reply : Answers]

\* A request becomes another record, and its answer another answer.
LEMMA TypeKept ==
  ASSUME TypeOK, NEW r \in Requests, NEW q \in Records, request' = [request EXCEPT ![r] = q],
         page' = page, click' = click, vaultTabId' \in Pages \cup {None},
         NEW a \in Answers, answer' = [answer EXCEPT ![r] = a], lockedWhen' \subseteq Requests,
         steady' \in [Requests -> Pages \cup {None}], crowded' \subseteq Requests
  PROVE  TypeOK'
  <1>1. /\ request \in [Requests -> Records] /\ answer \in [Requests -> Answers]
        /\ page' \in [Pages -> Life] /\ click' \in [Clicks -> {"unmade", "asking", "creating", "done"}]
    BY DEF TypeOK, Records
  <1>2. request' \in [Requests -> Records] /\ answer' \in [Requests -> Answers]
    BY <1>1
  <1> QED
    BY <1>1, <1>2 DEF TypeOK, Records

LEMMA TypeRequest ==
  ASSUME TypeOK, NEW r \in Requests, RequestStep(r)
  PROVE  TypeOK'
  <1> DEFINE old == request[r]
  <1>1. /\ request \in [Requests -> Records] /\ old \in Records /\ answer \in [Requests -> Answers]
        /\ answer[r] \in Answers /\ request = [request EXCEPT ![r] = old]
        /\ answer = [answer EXCEPT ![r] = answer[r]]
        /\ vaultTabId \in Pages \cup {None} /\ lockedWhen \subseteq Requests
        /\ steady \in [Requests -> Pages \cup {None}]
    BY DEF TypeOK, Records
  <1>0. crowded' \subseteq Requests
    <2>1. crowded' = crowded \/ crowded' = crowded \cup {r}
      BY DEF RequestStep, Ask, Found, Recorded, Delivered, Decrypted, Replied, TimedOut
    <2> QED
      BY <2>1 DEF TypeOK
  <1>2. /\ \A new \in Answers : [old EXCEPT !.at = "replied", !.reply = new] \in Records
        /\ \A p \in Pages \cup {None} : [old EXCEPT !.at = "recording", !.tab = p] \in Records
        /\ [old EXCEPT !.at = "sent", !.left = Timeout] \in Records
    <2> HIDE DEF old
    <2>1. Timeout \in 0 .. Timeout
      BY TimeoutAssumption
    <2>2. [old EXCEPT !.at = "sent", !.left = Timeout] \in Records
      BY <1>1, <2>1 DEF Records
    <2>3. ASSUME NEW new \in Answers PROVE [old EXCEPT !.at = "replied", !.reply = new] \in Records
      BY <1>1 DEF Records
    <2>4. ASSUME NEW p \in Pages \cup {None} PROVE [old EXCEPT !.at = "recording", !.tab = p] \in Records
      BY <1>1 DEF Records
    <2> QED
      BY <2>2, <2>3, <2>4
  <1>20. /\ [old EXCEPT !.at = "asking"] \in Records /\ [old EXCEPT !.at = "decrypting"] \in Records
         /\ [old EXCEPT !.at = "done"] \in Records
    <2> HIDE DEF old
    <2>1. [old EXCEPT !.at = "asking"] \in Records
      BY <1>1 DEF Records
    <2>2. [old EXCEPT !.at = "decrypting"] \in Records
      BY <1>1 DEF Records
    <2>3. [old EXCEPT !.at = "done"] \in Records
      BY <1>1 DEF Records
    <2> QED
      BY <2>1, <2>2, <2>3
  <1>3. CASE Ask(r)
    <2>1. /\ page' = page /\ click' = click /\ vaultTabId' = vaultTabId /\ lockedWhen' = lockedWhen
          /\ answer' = [answer EXCEPT ![r] = answer[r]]
      BY <1>1, <1>3 DEF Ask
    <2>2. request' = [request EXCEPT ![r] = [old EXCEPT !.at = "asking"]]
      BY <1>3 DEF Ask
    <2>3. PICK p \in Pages \cup {None} : steady' = [steady EXCEPT ![r] = p]
      BY <1>3 DEF Ask
    <2>4. steady' \in [Requests -> Pages \cup {None}]
      BY <1>1, <2>3
    <2> QED
      BY <1>0, <1>1, <1>20, <2>1, <2>2, <2>4, TypeKept DEF Ask
  <1>4. CASE Found(r)
    <2>1. PICK p \in Pages \cup {None} : request' = [request EXCEPT ![r].at = "recording", ![r].tab = p]
      BY <1>4 DEF Found, Open
    <2>2. request' = [request EXCEPT ![r] = [old EXCEPT !.at = "recording", !.tab = p]]
      BY <2>1
    <2>3. [old EXCEPT !.at = "recording", !.tab = p] \in Records
      BY <1>2
    <2> QED
      BY <1>0, <1>1, <1>4, <2>2, <2>3, TypeKept DEF Found
  <1>5. CASE Recorded(r)
    <2>1. vaultTabId' \in Pages \cup {None}
      BY <1>1, <1>5 DEF Recorded, Records
    <2>2. CASE request[r].tab = None
      <3>1. /\ request' = [request EXCEPT ![r] = [old EXCEPT !.at = "done"]]
            /\ answer' = [answer EXCEPT ![r] = "vault_not_open"]
        BY <1>5, <2>2 DEF Recorded
      <3>2. [old EXCEPT !.at = "done"] \in Records /\ "vault_not_open" \in Answers
        BY <1>20 DEF Answers
      <3> QED
        BY <1>0, <1>1, <1>5, <2>1, <3>1, <3>2, TypeKept DEF Recorded
    <2>3. CASE request[r].tab # None
      <3>1. /\ request' = [request EXCEPT ![r] = [old EXCEPT !.at = "sent", !.left = Timeout]]
            /\ answer' = answer
        BY <1>5, <2>3 DEF Recorded
      <3>2. [old EXCEPT !.at = "sent", !.left = Timeout] \in Records
        BY <1>2
      <3> QED
        BY <1>0, <1>1, <1>5, <2>1, <3>1, <3>2, TypeKept DEF Recorded
    <2> QED
      BY <2>2, <2>3
  <1>6. CASE Delivered(r)
    <2>1. CASE request' = [request EXCEPT ![r].at = "decrypting"]
      <3>1. request' = [request EXCEPT ![r] = [old EXCEPT !.at = "decrypting"]]
        BY <2>1
      <3>2. [old EXCEPT !.at = "decrypting"] \in Records
        BY <1>20
      <3> QED
        BY <1>0, <1>1, <1>6, <3>1, <3>2, TypeKept DEF Delivered
    <2>2. CASE request' # [request EXCEPT ![r].at = "decrypting"]
      <3>1. PICK new \in Answers : request' = [request EXCEPT ![r].at = "replied", ![r].reply = new]
        BY <1>6, <2>2 DEF Delivered, Answers
      <3>2. request' = [request EXCEPT ![r] = [old EXCEPT !.at = "replied", !.reply = new]]
        BY <3>1
      <3>3. [old EXCEPT !.at = "replied", !.reply = new] \in Records
        BY <1>2
      <3> QED
        BY <1>0, <1>1, <1>6, <3>2, <3>3, TypeKept DEF Delivered
    <2> QED
      BY <2>1, <2>2
  <1>7. CASE Decrypted(r)
    <2>1. PICK new \in Answers : request' = [request EXCEPT ![r].at = "replied", ![r].reply = new]
      BY <1>7 DEF Decrypted, Answers
    <2>2. request' = [request EXCEPT ![r] = [old EXCEPT !.at = "replied", !.reply = new]]
      BY <2>1
    <2>3. [old EXCEPT !.at = "replied", !.reply = new] \in Records
      BY <1>2
    <2>4. lockedWhen' \subseteq Requests
      BY <1>1, <1>7 DEF Decrypted
    <2> QED
      BY <1>0, <1>1, <1>7, <2>2, <2>3, <2>4, TypeKept DEF Decrypted
  <1>8. CASE Replied(r)
    <2>1. request' = [request EXCEPT ![r] = [old EXCEPT !.at = "done"]]
      BY <1>8 DEF Replied
    <2>2. [old EXCEPT !.at = "done"] \in Records
      BY <1>20
    <2>3. PICK a \in Answers : answer' = [answer EXCEPT ![r] = a]
      BY <1>1, <1>8 DEF Replied, Records
    <2> QED
      BY <1>0, <1>1, <1>8, <2>1, <2>2, <2>3, TypeKept DEF Replied
  <1>9. CASE TimedOut(r)
    <2>1. "vault_timeout" \in Answers
      BY DEF Answers
    <2> QED
      BY <1>0, <1>1, <1>9, <2>1, TypeKept DEF TimedOut
  <1> QED
    BY <1>3, <1>4, <1>5, <1>6, <1>7, <1>8, <1>9 DEF RequestStep

LEMMA TypeNext == TypeOK /\ [Next]_vars => TypeOK'
  <1> SUFFICES ASSUME TypeOK, [Next]_vars PROVE TypeOK'
    OBVIOUS
  <1>1. ASSUME NEW p \in Pages, PageStep(p) PROVE TypeOK'
    BY <1>1, TypePage
  <1>2. ASSUME NEW c \in Clicks, Clicked(c) \/ ClickAsked(c) PROVE TypeOK'
    BY <1>2 DEF Clicked, ClickAsked, TypeOK, Open
  <1>3. ASSUME NEW r \in Requests, RequestStep(r) PROVE TypeOK'
    BY <1>3, TypeRequest
  <1>4. CASE Tick
    <2>1. ASSUME NEW r \in Requests PROVE request'[r] \in Records
      <3>1. request[r] \in Records /\ request[r].left \in 0 .. Timeout
        BY DEF TypeOK, Records
      <3>2. CASE Waiting(r)
        <4>1. request'[r] = [request[r] EXCEPT !.left = @ - 1] /\ request[r].left > 0
          BY <1>4, <3>2 DEF Tick
        <4>2. request[r].left - 1 \in 0 .. Timeout
          BY <3>1, <4>1, TimeoutAssumption
        <4> QED
          BY <3>1, <4>1, <4>2 DEF Records
      <3>3. CASE ~Waiting(r)
        BY <1>4, <3>1, <3>3 DEF Tick
      <3> QED
        BY <3>2, <3>3
    <2>2. request' \in [Requests -> Records]
      BY <1>4, <2>1 DEF Tick
    <2> QED
      BY <1>4, <2>2 DEF Tick, TypeOK, Records
  <1>5. CASE UNCHANGED vars
    BY <1>5 DEF vars, TypeOK
  <1> QED
    BY <1>1, <1>2, <1>3, <1>4, <1>5 DEF Next

\* Every variable of the bridge keeps its type.
THEOREM TypeCorrect == Spec => []TypeOK
  BY TypeInit, TypeNext, PTL DEF Spec

--------------------------------------------------------------------------------
(* One answer. *)

\* Nothing is answered before the page was looked for.
Unanswered == \A r \in Requests : request[r].at \in {"unmade", "asking", "recording"} => answer[r] = "none"

\* What a step does to a request and its answer.
LEMMA RequestMoves ==
  ASSUME TypeOK, [Next]_vars, NEW r \in Requests
  PROVE  \/ UNCHANGED <<request[r], answer[r]>>
         \/ Tick /\ request'[r].at = request[r].at /\ answer'[r] = answer[r]
         \/ RequestStep(r)
  <1>1. ASSUME NEW q \in Requests, RequestStep(q), q # r PROVE UNCHANGED <<request[r], answer[r]>>
    BY <1>1 DEF RequestStep, Ask, Found, Recorded, Delivered, Decrypted, Replied, TimedOut, TypeOK
  <1>2. CASE Tick
    BY <1>2 DEF Tick, TypeOK
  <1>3. ASSUME NEW p \in Pages, PageStep(p) PROVE UNCHANGED <<request, answer>>
    BY <1>3 DEF PageStep, Unlock, Lock, Close, Removed, RemovedCleared, OpenAddress, ClickCreated
  <1>4. ASSUME NEW c \in Clicks, Clicked(c) \/ ClickAsked(c) PROVE UNCHANGED <<request, answer>>
    BY <1>4 DEF Clicked, ClickAsked
  <1> QED
    BY <1>1, <1>2, <1>3, <1>4 DEF Next, vars

LEMMA UnansweredNext == TypeOK /\ Unanswered /\ [Next]_vars => Unanswered'
  <1> SUFFICES ASSUME TypeOK, Unanswered, [Next]_vars, NEW r \in Requests,
                      request'[r].at \in {"unmade", "asking", "recording"}
               PROVE  answer'[r] = "none"
    BY DEF Unanswered
  <1>1. CASE RequestStep(r)
    BY <1>1 DEF RequestStep, Ask, Found, Recorded, Delivered, Decrypted, Replied, TimedOut, Waiting,
                TypeOK, Unanswered
  <1> QED
    BY <1>1, RequestMoves DEF Unanswered

LEMMA UnansweredHolds == Spec => []Unanswered
  <1>1. Init => Unanswered
    BY DEF Init, Unanswered
  <1> QED
    BY <1>1, UnansweredNext, TypeCorrect, PTL DEF Spec

\* A request that is answered keeps its answer: what the page replies after the
\* timeout reaches nobody.
THEOREM AnsweredOnce == Spec => OneAnswer
  <1>1. ASSUME TypeOK, Unanswered, [Next]_vars, NEW r \in Requests, answer[r] # "none"
        PROVE  answer'[r] = answer[r]
    BY <1>1, RequestMoves DEF RequestStep, Ask, Found, Recorded, Delivered, Decrypted, Replied, TimedOut,
                              Waiting, TypeOK, Unanswered
  <1>2. TypeOK /\ Unanswered /\ [Next]_vars
        => [\A r \in Requests : answer[r] # "none" => answer'[r] = answer[r]]_vars
    BY <1>1
  <1> QED
    BY <1>2, TypeCorrect, UnansweredHolds, PTL DEF Spec, OneAnswer

--------------------------------------------------------------------------------
(* The unlocked page is used. *)

Excuses == {"vault_locked", "vault_not_open", "vault_unreachable"}

\* The page that is unlocked since the request was made is the one that was found, if
\* it was the only one, and what it replies is no excuse.
SteadyFound ==
  \A r \in Requests : steady[r] # None =>
    /\ page[steady[r]] = "unlocked"
    /\ r \notin crowded =>
          /\ request[r].at \in {"recording", "sent", "decrypting", "replied"} => request[r].tab = steady[r]
          /\ request[r].at = "replied" => request[r].reply \notin Excuses
          /\ answer[r] \notin Excuses

LEMMA SteadyPage ==
  ASSUME TypeOK, SteadyFound, NEW p \in Pages, PageStep(p)
  PROVE  SteadyFound'
  <1> USE NoneAssumption DEF TypeOK, SteadyFound
  <1>1. CASE Unlock(p)
    BY <1>1 DEF Unlock
  <1>2. CASE Lock(p) \/ Close(p)
    BY <1>2 DEF Lock, Close, Unsteady, Open
  <1>3. CASE Removed(p) \/ RemovedCleared(p) \/ OpenAddress(p)
    BY <1>3 DEF Removed, RemovedCleared, OpenAddress
  <1>4. ASSUME NEW c \in Clicks, ClickCreated(c, p) PROVE SteadyFound'
    BY <1>4 DEF ClickCreated
  <1> QED
    BY <1>1, <1>2, <1>3, <1>4 DEF PageStep

LEMMA SteadyRequest ==
  ASSUME TypeOK, Unanswered, SteadyFound, NEW r \in Requests, RequestStep(r)
  PROVE  SteadyFound'
  <1> USE NoneAssumption DEF TypeOK, SteadyFound, Excuses
  <1>1. CASE Ask(r)
    BY <1>1 DEF Ask, Unanswered
  <1>2. CASE Found(r)
    <2>1. PICK p \in IF Open = {} THEN {None} ELSE Open :
             request' = [request EXCEPT ![r].at = "recording", ![r].tab = p]
      BY <1>2 DEF Found
    <2>2. /\ request'[r].tab = p /\ request'[r].at = "recording"
          /\ \A q \in Requests \ {r} : request'[q] = request[q]
      BY <2>1
    <2>3. /\ UNCHANGED <<page, answer, steady>> /\ crowded \subseteq crowded'
          /\ \A q \in Requests \ {r} : q \in crowded' => q \in crowded
      BY <1>2 DEF Found
    <2>4. steady[r] # None /\ r \notin crowded' => p = steady[r]
      BY <1>2, <2>1 DEF Found, Several, Open
    <2>5. answer[r] = "none"
      BY <1>2 DEF Found, Unanswered
    <2> QED
      BY <2>2, <2>3, <2>4, <2>5
  <1>3. CASE Recorded(r)
    BY <1>3 DEF Recorded, Unanswered
  <1>4. CASE Delivered(r)
    <2>1. /\ steady' = steady /\ page' = page /\ answer' = answer /\ crowded' = crowded
          /\ \A q \in Requests \ {r} : request'[q] = request[q]
      BY <1>4 DEF Delivered
    <2>2. steady[r] # None /\ r \notin crowded =>
             request[r].tab = steady[r] /\ page[request[r].tab] = "unlocked"
      BY <1>4 DEF Delivered
    <2>3. steady[r] # None /\ r \notin crowded =>
             /\ request'[r].tab = steady[r]
             /\ \/ request'[r].at = "decrypting"
                \/ request'[r].at = "replied" /\ request'[r].reply \in Refusals
      BY <1>4, <2>2 DEF Delivered, Closed
    <2> QED
      BY <2>1, <2>3 DEF Refusals
  <1>5. CASE Decrypted(r)
    <2>1. /\ steady' = steady /\ page' = page /\ answer' = answer /\ crowded' = crowded
          /\ \A q \in Requests \ {r} : request'[q] = request[q]
      BY <1>5 DEF Decrypted
    <2>2. steady[r] # None /\ r \notin crowded =>
             request[r].tab = steady[r] /\ page[request[r].tab] \notin Closed
      BY <1>5 DEF Decrypted, Closed
    <2>3. ASSUME steady[r] # None, r \notin crowded
          PROVE  /\ request'[r].tab = steady[r] /\ request'[r].at = "replied"
                 /\ request'[r].reply \in {"value", "decrypt_failed"}
      <3>1. PICK reply \in {"value", "decrypt_failed"} :
               request' = [request EXCEPT ![r].at = "replied", ![r].reply = reply]
        BY <1>5, <2>2, <2>3 DEF Decrypted
      <3> QED
        BY <2>2, <2>3, <3>1
    <2> QED
      BY <2>1, <2>3
  <1>6. CASE Replied(r)
    BY <1>6 DEF Replied
  <1>7. CASE TimedOut(r)
    BY <1>7 DEF TimedOut
  <1> QED
    BY <1>1, <1>2, <1>3, <1>4, <1>5, <1>6, <1>7 DEF RequestStep

LEMMA SteadyNext == TypeOK /\ Unanswered /\ SteadyFound /\ [Next]_vars => SteadyFound'
  <1> SUFFICES ASSUME TypeOK, Unanswered, SteadyFound, [Next]_vars PROVE SteadyFound'
    OBVIOUS
  <1>1. ASSUME NEW p \in Pages, PageStep(p) PROVE SteadyFound'
    BY <1>1, SteadyPage
  <1>2. ASSUME NEW r \in Requests, RequestStep(r) PROVE SteadyFound'
    BY <1>2, SteadyRequest
  <1>3. CASE Tick
    BY <1>3 DEF Tick, TypeOK, SteadyFound
  <1>4. CASE (\E c \in Clicks : Clicked(c) \/ ClickAsked(c)) \/ UNCHANGED vars
    BY <1>4 DEF Clicked, ClickAsked, vars, SteadyFound
  <1> QED
    BY <1>1, <1>2, <1>3, <1>4 DEF Next

\* However many pages the user opens, locks and closes, by the popup or their address,
\* and however requests interleave with it: a request is never refused for want of an
\* unlocked page when one was there from the request to the refusal, and no other was
\* open when the worker looked for it.
THEOREM OnlyPageFound == Spec => []OnlyPageIsUsed
  <1>1. Init => SteadyFound
    BY DEF Init, SteadyFound
  <1>2. SteadyFound => OnlyPageIsUsed
    BY DEF SteadyFound, OnlyPageIsUsed, Excuses
  <1> QED
    BY <1>1, <1>2, SteadyNext, TypeCorrect, UnansweredHolds, PTL DEF Spec

================================================================================
