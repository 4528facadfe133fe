----------------------------- MODULE Gateway_proofs -----------------------------
(***************************************************************************)
(* Proofs about Gateway, for every set of requests, every policy, every    *)
(* input stream, however it is cut into chunks, and every moment at which  *)
(* the vault is locked. First the REST side, then the stdio transport,     *)
(* whose reader of bytes answers as a reader of whole lines. Last the      *)
(* integrations that ask a gateway for values (PlaceholderHosts), for      *)
(* every number of calls, all messages and every order of the replies.     *)
(***************************************************************************)
EXTENDS Gateway, PlaceholderHosts, Integers, SequenceTheorems, FiniteSetTheorems, TLAPS

Stranger(q) == ~(q.local /\ ~q.browser /\ q.token)

\* All that a stranger is told.
Refusal(q) == IF ~q.local THEN "invalid_host"
              ELSE IF q.browser THEN "browser_origin_not_allowed"
              ELSE "unauthorized"

\* A stranger's request ends with its head, and only operations are executed.
IndInv ==
    /\ stage \in [Requests -> {"none", "body", "executing", "answered"}]
    /\ DOMAIN reply = Requests
    /\ \A q \in Requests : stage[q] = "executing" => q.route = "/execute"
    /\ \A q \in Requests : Stranger(q) =>
          /\ stage[q] \in {"none", "answered"}
          /\ reply[q] \in {"none", Refusal(q)}

\* The checks before the token see nothing but the request's own head.
LEMMA StrangersRefused ==
  ASSUME NEW q \in Requests, Stranger(q), NEW raw, NEW broker, NEW locked
  PROVE  HeadCheck(q, raw, broker, locked) = Refusal(q)
  <1>1. q.local \in BOOLEAN /\ q.browser \in BOOLEAN /\ q.token \in BOOLEAN
    BY RequestsAssumption
  <1>2. CASE ~q.local
    BY <1>2 DEF HeadCheck, Refusal
  <1>3. CASE q.local /\ q.browser
    BY <1>3 DEF HeadCheck, Refusal
  <1>4. CASE q.local /\ ~q.browser /\ ~q.token
    BY <1>4 DEF HeadCheck, Refusal
  <1> QED
    BY <1>1, <1>2, <1>3, <1>4 DEF Stranger

LEMMA IndInit == Init => IndInv
  BY DEF Init, HttpInit, IndInv

\* One step of the server.
LEMMA IndHttpStep ==
  ASSUME IndInv, NEW q \in Requests, HttpStep(q, config.raw, config.broker)
  PROVE  IndInv'
  <1>1. CASE Request(q, config.raw, config.broker)
    <2>1. CASE Stranger(q)
      <3>1. Checked(q, config.raw, config.broker) = Refusal(q) /\ Refusal(q) # "body"
        BY <2>1, StrangersRefused DEF Checked, Refusal
      <3> QED
        BY <1>1, <2>1, <3>1 DEF Request, IndInv
    <2>2. CASE ~Stranger(q)
      BY <1>1, <2>2 DEF Request, IndInv
    <2> QED
      BY <2>1, <2>2
  <1>2. ASSUME stage[q] \in {"body", "executing"}, NEW code, Respond(q, code)
        PROVE  IndInv'
    BY <1>2 DEF Respond, IndInv
  <1>3. CASE BodyFails(q)
    BY <1>2, <1>3 DEF BodyFails
  <1>4. CASE Body(q)
    <2>1. CASE q.route = "/execute"
      BY <1>4, <2>1 DEF Body, IndInv
    <2>2. CASE q.route # "/execute"
      BY <1>2, <1>4, <2>2 DEF Body
    <2> QED
      BY <2>1, <2>2
  <1>5. CASE Executed(q)
    BY <1>2, <1>5 DEF Executed
  <1> QED
    BY <1>1, <1>3, <1>4, <1>5 DEF HttpStep

LEMMA IndNext == IndInv /\ [Next]_vars => IndInv'
  <1> SUFFICES ASSUME IndInv, [Next]_vars PROVE IndInv'
    OBVIOUS
  <1>1. ASSUME UNCHANGED <<stage, reply>> PROVE IndInv'
    BY <1>1 DEF IndInv
  <1>2. CASE Started \/ Exit \/ Stop \/ LockUnderServer \/ Stdio
    BY <1>1, <1>2 DEF Started, Exit, Stop, LockUnderServer, Stdio, httpVars
  <1>3. ASSUME NEW q \in Requests, Rest(q) PROVE IndInv'
    BY <1>3, IndHttpStep DEF Rest
  <1>4. ASSUME NEW q \in Requests, Client(q) PROVE IndInv'
    BY <1>1, <1>4 DEF Client, ClientStep, Receive, ClientTimeout, Broken, Settle
  <1>5. CASE UNCHANGED vars
    BY <1>1, <1>5 DEF vars, httpVars
  <1> QED
    BY <1>2, <1>3, <1>4, <1>5 DEF Next

LEMMA IndInvHolds == Spec => []IndInv
  BY IndInit, IndNext, PTL DEF Spec

--------------------------------------------------------------------------------

\* What callers without the right host and token are told depends on nothing
\* that the vault, the policy or the route is.
THEOREM StrangersToldNothing == Spec => []StrangersLearnNothing
  <1>1. IndInv => StrangersLearnNothing
    <2> SUFFICES ASSUME IndInv, NEW q \in Requests, NEW r \in Requests,
                        <<q.local, q.browser, q.token>> = <<r.local, r.browser, r.token>>,
                        Stranger(q), "none" \notin {reply[q], reply[r]}
                 PROVE  reply[q] = reply[r]
      BY DEF StrangersLearnNothing, Stranger
    <2>1. q.local = r.local /\ q.browser = r.browser /\ q.token = r.token
      OBVIOUS
    <2>2. Stranger(r) /\ Refusal(q) = Refusal(r)
      BY <2>1 DEF Stranger, Refusal
    <2> QED
      BY <2>2 DEF IndInv
  <1> QED
    BY <1>1, IndInvHolds, PTL

\* A locked vault refuses what is asked of it, also what was admitted before.
THEOREM LockedTellsNothing == Spec => NothingToldWhenLocked
  <1>1. ASSUME IndInv, [Next]_vars, NEW q \in Requests,
               vault = "locked", reply'[q] # reply[q],
               q.route \in {"/list", "/resolve", "/operations"}
        PROVE  reply'[q] # "ok"
    <2>1. PICK p \in Requests : Rest(p)
      BY <1>1 DEF Next, vars, httpVars, Started, Exit, Stop, LockUnderServer, Stdio, Client,
                  ClientStep, Receive, ClientTimeout, Broken, Settle
    <2>2. p = q
      BY <1>1, <2>1 DEF Rest, HttpStep, Request, BodyFails, Body, Executed, Respond, IndInv
    <2>3. CASE Request(q, config.raw, config.broker)
      <3>1. Checked(q, config.raw, config.broker) # "ok"
        BY <1>1 DEF Checked, HeadCheck
      <3> QED
        BY <1>1, <2>3, <3>1 DEF Request, IndInv
    <2>4. CASE BodyFails(q)
      BY <1>1, <2>4 DEF BodyFails, BodyErrors, Respond, IndInv
    <2>5. CASE Body(q)
      BY <1>1, <2>5 DEF Body, Resolved, Respond, IndInv
    <2>6. CASE Executed(q)
      BY <1>1, <2>6 DEF Executed, IndInv
    <2> QED
      BY <2>1, <2>2, <2>3, <2>4, <2>5, <2>6 DEF Rest, HttpStep
  <1>2. IndInv /\ [Next]_vars
        => [\A q \in Requests :
               vault = "locked" /\ reply'[q] # reply[q] /\ q.route \in {"/list", "/resolve", "/operations"}
               => reply'[q] # "ok"]_vars
    BY <1>1
  <1> QED
    BY <1>2, IndInvHolds, PTL DEF Spec, NothingToldWhenLocked

--------------------------------------------------------------------------------
(* Induction over the naturals, from the library's theorem that the finite
   subsets of a set are well-founded, and with it the folds of sequences. *)

\* A set of naturals has a least element: the smallest of the intervals 0 .. x.
LEMMA Least ==
  ASSUME NEW T \in SUBSET Nat, T # {}
  PROVE  \E x \in T : \A y \in T : x <= y
  <1> DEFINE I == {U \in FiniteSubsetsOf(Nat) : \E x \in T : U = 0 .. x}
  <1>1. IsWellFoundedOn(StrictSubsetOrdering(Nat), FiniteSubsetsOf(Nat))
    BY FS_StrictSubsetOrderingWellFounded
  <1>2. \A x \in Nat : 0 .. x \in FiniteSubsetsOf(Nat)
    BY FS_Interval DEF FiniteSubsetsOf
  <1>3. I # {} /\ I \subseteq FiniteSubsetsOf(Nat)
    BY <1>2
  <1> HIDE DEF I
  <1>4. PICK U \in I : \A V \in I : <<V, U>> \notin StrictSubsetOrdering(Nat)
    BY <1>1, <1>3, WFMin
  <1>5. PICK x \in T : U = 0 .. x
    BY <1>4 DEF I
  <1>6. ASSUME NEW y \in T, ~(x <= y) PROVE FALSE
    <2>1. 0 .. y \in I
      BY <1>2 DEF I
    <2>2. 0 .. y \subseteq 0 .. x /\ 0 .. y # 0 .. x
      BY <1>6
    <2>3. <<0 .. y, 0 .. x>> \in StrictSubsetOrdering(Nat)
      BY <2>2 DEF StrictSubsetOrdering
    <2> QED
      BY <2>1, <2>3, <1>4, <1>5
  <1> QED
    BY <1>6

\* Induction, over the members of a set.
LEMMA SetInduction ==
  ASSUME NEW T, 0 \in T, \A n \in Nat : n \in T => n + 1 \in T
  PROVE  Nat \subseteq T
  <1>1. SUFFICES ASSUME Nat \ T # {} PROVE FALSE
    OBVIOUS
  <1>2. PICK x \in Nat \ T : \A y \in Nat \ T : x <= y
    BY <1>1, Least
  <1>3. x # 0 /\ x - 1 \in Nat
    BY <1>2
  <1> QED
    BY <1>2, <1>3

\* The functions that FlattenSeq chooses from: f[i] joins s[1] to s[i].
Fold(f, s, m) == f = [i \in 1 .. m |-> IF i = 1 THEN s[i] ELSE f[i - 1] \o s[i]]

Joins(f, s, i) == f[i] = IF i = 1 THEN s[i] ELSE f[i - 1] \o s[i]

LEMMA FoldAt ==
  ASSUME NEW f, NEW s, NEW m, Fold(f, s, m), NEW i \in 1 .. m
  PROVE  Joins(f, s, i)
  <1>1. f = [j \in 1 .. m |-> IF j = 1 THEN s[j] ELSE f[j - 1] \o s[j]]
    BY DEF Fold
  <1> DEFINE R(j) == IF j = 1 THEN s[j] ELSE f[j - 1] \o s[j]
  <1>2. f = [j \in 1 .. m |-> R(j)]
    BY <1>1
  <1>3. f[i] = R(i)
    <2> HIDE DEF R
    <2> QED
      BY <1>2
  <1> QED
    BY <1>3 DEF Joins

LEMMA JoinsNext ==
  ASSUME NEW f, NEW s, NEW n \in Nat \ {0}
  PROVE  Joins(f, s, n + 1) <=> f[n + 1] = f[n] \o s[n + 1]
  <1>1. PICK k : k = n + 1 /\ k # 1 /\ k - 1 = n
    OBVIOUS
  <1>2. Joins(f, s, k) <=> f[k] = f[k - 1] \o s[k]
    BY <1>1, Zenon DEF Joins
  <1> QED
    BY <1>1, <1>2, Zenon

LEMMA FoldAll ==
  ASSUME NEW f, NEW s, NEW m, DOMAIN f = 1 .. m, f = [i \in DOMAIN f |-> f[i]],
         \A i \in 1 .. m : Joins(f, s, i)
  PROVE  Fold(f, s, m)
  <1> DEFINE R(i) == IF i = 1 THEN s[i] ELSE f[i - 1] \o s[i]
  <1>1. \A i \in 1 .. m : f[i] = R(i)
    BY DEF Joins
  <1>2. f = [i \in 1 .. m |-> R(i)]
    <2> HIDE DEF R
    <2> QED
      BY <1>1
  <1> QED
    BY <1>2 DEF Fold

\* There is such a function for every sequence of sequences, and only one.
LEMMA FoldExists ==
  ASSUME NEW S, NEW n \in Nat, NEW s \in [1 .. n -> Seq(S)]
  PROVE  \A m \in 0 .. n : \E f \in [1 .. m -> Seq(S)] : Fold(f, s, m)
  <1> DEFINE T == {m \in Nat : m <= n => \E f \in [1 .. m -> Seq(S)] : Fold(f, s, m)}
  <1>1. 0 \in T
    <2> DEFINE e == [i \in 1 .. 0 |-> <<>>]
    <2>1. e \in [1 .. 0 -> Seq(S)] /\ Fold(e, s, 0)
      BY DEF Fold
    <2> QED
      BY <2>1
  <1>2. ASSUME NEW m \in Nat, m \in T PROVE m + 1 \in T
    <2> SUFFICES ASSUME m + 1 <= n PROVE \E f \in [1 .. m + 1 -> Seq(S)] : Fold(f, s, m + 1)
      OBVIOUS
    <2>1. PICK f \in [1 .. m -> Seq(S)] : Fold(f, s, m)
      BY <1>2
    <2> DEFINE last == IF m = 0 THEN s[m + 1] ELSE f[m] \o s[m + 1]
               g == [i \in 1 .. m + 1 |-> IF i = m + 1 THEN last ELSE f[i]]
    <2>2. last \in Seq(S)
      OBVIOUS
    <2>3. g \in [1 .. m + 1 -> Seq(S)]
      BY <2>2
    <2>4. \A i \in 1 .. m + 1 : g[i] = IF i = m + 1 THEN last ELSE f[i]
      OBVIOUS
    <2> HIDE DEF g
    <2>5. ASSUME NEW i \in 1 .. m + 1 PROVE Joins(g, s, i)
      <3>1. CASE i = m + 1 /\ m = 0
        BY <3>1, <2>4 DEF Joins
      <3>2. CASE i = m + 1 /\ m # 0
        <4>1. g[m + 1] = last /\ g[m] = f[m] /\ m \in Nat \ {0}
          <5> HIDE DEF last
          <5> QED
            BY <2>4, <3>2
        <4>2. last = f[m] \o s[m + 1]
          BY <3>2
        <4>3. g[m + 1] = g[m] \o s[m + 1]
          BY <4>1, <4>2
        <4> QED
          BY <3>2, <4>1, <4>3, JoinsNext
      <3>3. CASE i \in 1 .. m
        <4>1. Joins(f, s, i)
          BY <2>1, <3>3, FoldAt
        <4>2. g[i] = f[i] /\ (i # 1 => g[i - 1] = f[i - 1])
          BY <3>3, <2>4
        <4> QED
          BY <4>1, <4>2 DEF Joins
      <3> QED
        BY <3>1, <3>2, <3>3
    <2>6. Fold(g, s, m + 1)
      BY <2>3, <2>5, FoldAll
    <2> QED
      BY <2>3, <2>6
  <1> HIDE DEF T
  <1>3. Nat \subseteq T
    BY <1>1, <1>2, SetInduction
  <1> QED
    BY <1>3 DEF T

LEMMA FoldsAgree ==
  ASSUME NEW s, NEW m \in Nat, NEW n \in Nat, NEW f, NEW g, Fold(f, s, m), Fold(g, s, n)
  PROVE  \A i \in 1 .. m : i <= n => f[i] = g[i]
  <1> DEFINE T == {i \in Nat : i \in 1 .. m /\ i <= n => f[i] = g[i]}
  <1>1. 0 \in T
    OBVIOUS
  <1>2. ASSUME NEW i \in Nat, i \in T PROVE i + 1 \in T
    <2> SUFFICES ASSUME i + 1 \in 1 .. m, i + 1 <= n PROVE f[i + 1] = g[i + 1]
      OBVIOUS
    <2>1. /\ f[i + 1] = IF i + 1 = 1 THEN s[i + 1] ELSE f[i + 1 - 1] \o s[i + 1]
          /\ g[i + 1] = IF i + 1 = 1 THEN s[i + 1] ELSE g[i + 1 - 1] \o s[i + 1]
      BY FoldAt DEF Joins
    <2>2. i + 1 # 1 => f[i] = g[i]
      BY <1>2
    <2> QED
      BY <2>1, <2>2
  <1> HIDE DEF T
  <1>3. Nat \subseteq T
    BY <1>1, <1>2, SetInduction
  <1> QED
    BY <1>3 DEF T

\* What FlattenSeq is, and what one sequence more adds to it.
LEMMA FlattenDef ==
  ASSUME NEW S, NEW n \in Nat \ {0}, NEW s \in [1 .. n -> Seq(S)]
  PROVE  \E f \in [1 .. n -> Seq(S)] : Fold(f, s, n) /\ FlattenSeq(s) = f[n]
  <1>1. Len(s) = n
    OBVIOUS
  <1>2. PICK f \in [1 .. n -> Seq(S)] : Fold(f, s, n)
    BY FoldExists
  <1> DEFINE h == CHOOSE g : Fold(g, s, n)
  <1>3. Fold(h, s, n)
    BY <1>2
  <1>4. FlattenSeq(s) = h[n]
    BY <1>1 DEF FlattenSeq, Fold
  <1>5. h[n] = f[n]
    BY <1>2, <1>3, FoldsAgree
  <1> QED
    BY <1>2, <1>4, <1>5

LEMMA FlattenEmpty == FlattenSeq(<<>>) = <<>>
  BY DEF FlattenSeq

LEMMA FlattenNext ==
  ASSUME NEW S, NEW n \in Nat, NEW s \in [1 .. n + 1 -> Seq(S)]
  PROVE  /\ FlattenSeq(s) = FlattenSeq([i \in 1 .. n |-> s[i]]) \o s[n + 1]
         /\ FlattenSeq(s) \in Seq(S)
  <1> DEFINE r == [i \in 1 .. n |-> s[i]]
  <1>1. PICK f : f \in [1 .. n + 1 -> Seq(S)] /\ Fold(f, s, n + 1) /\ FlattenSeq(s) = f[n + 1]
    <2>1. n + 1 \in Nat \ {0}
      OBVIOUS
    <2>2. \E f \in [1 .. n + 1 -> Seq(S)] : Fold(f, s, n + 1) /\ FlattenSeq(s) = f[n + 1]
      BY <2>1, FlattenDef, Zenon
    <2> QED
      BY <2>2, Zenon
  <1>2. Joins(f, s, n + 1) /\ n + 1 \in 1 .. n + 1
    BY <1>1, FoldAt
  <1>3. FlattenSeq(s) \in Seq(S)
    BY <1>1, <1>2
  <1>4. CASE n = 0
    <2>1. r = <<>> /\ s[1] \in Seq(S)
      BY <1>4
    <2>2. FlattenSeq(s) = s[1]
      BY <1>1, <1>2, <1>4 DEF Joins
    <2>3. <<>> \o s[1] = s[1]
      BY <2>1
    <2> QED
      BY <1>3, <1>4, <2>1, <2>2, <2>3, FlattenEmpty
  <1>5. CASE n # 0
    <2>1. r \in [1 .. n -> Seq(S)] /\ n \in 1 .. n /\ \A i \in 1 .. n : r[i] = s[i]
      BY <1>5
    <2> HIDE DEF r
    <2>2. PICK g : g \in [1 .. n -> Seq(S)] /\ Fold(g, r, n) /\ FlattenSeq(r) = g[n]
      <3>1. n \in Nat \ {0}
        BY <1>5
      <3>2. \E g \in [1 .. n -> Seq(S)] : Fold(g, r, n) /\ FlattenSeq(r) = g[n]
        BY <2>1, <3>1, FlattenDef, Zenon
      <3> QED
        BY <3>2, Zenon
    <2>3. \A i \in 1 .. n : Joins(g, r, i)
      BY <2>2, FoldAt
    <2>4. \A i \in 1 .. n : Joins(g, s, i)
      BY <2>1, <2>3 DEF Joins
    <2>5. Fold(g, s, n)
      BY <2>2, <2>4, FoldAll
    <2>6. Fold(f, s, n + 1) /\ n + 1 \in Nat
      BY <1>1
    <2>7. g[n] = f[n]
      BY <2>1, <2>5, <2>6, FoldsAgree
    <2>8. f[n + 1] = f[n] \o s[n + 1]
      <3>1. n \in Nat \ {0}
        BY <1>5
      <3> QED
        BY <1>2, <3>1, JoinsNext, Zenon
    <2>9. FlattenSeq(s) = FlattenSeq(r) \o s[n + 1]
      BY <1>1, <2>2, <2>7, <2>8
    <2>10. FlattenSeq(s) = FlattenSeq([i \in 1 .. n |-> s[i]]) \o s[n + 1]
      BY <2>9, Zenon DEF r
    <2> QED
      BY <1>3, <2>10
  <1> QED
    BY <1>4, <1>5
--------------------------------------------------------------------------------
(* The lines of a stream. *)

\* The newlines up to a place, and the number of a line that ends there.
Upto(s, e) == {i \in Ends(s) : i <= e}

Rank(s, e) == Cardinality(Upto(s, e)) + (IF e \in Ends(s) THEN 0 ELSE 1)

Stops(s) == Ends(s) \cup {Len(s) + 1}

\* A stream has finitely many newlines.
LEMMA EndsFinite ==
  ASSUME NEW B, NEW s \in Seq(B)
  PROVE  /\ Ends(s) \subseteq 1 .. Len(s) /\ IsFiniteSet(Ends(s))
         /\ \A T \in SUBSET Ends(s) : IsFiniteSet(T) /\ Cardinality(T) \in Nat
         /\ Count(s) \in Nat \ {0}
  <1>1. Ends(s) \subseteq 1 .. Len(s) /\ Len(s) \in Nat
    BY DEF Ends
  <1>2. IsFiniteSet(Ends(s))
    <2>1. IsFiniteSet(1 .. Len(s)) /\ Ends(s) \in SUBSET (1 .. Len(s))
      BY <1>1, FS_Interval
    <2> QED
      BY <2>1, FS_Subset
  <1>3. \A T \in SUBSET Ends(s) : IsFiniteSet(T) /\ Cardinality(T) \in Nat
    BY <1>2, FS_Subset, FS_CardinalityType
  <1> QED
    BY <1>1, <1>2, <1>3 DEF Count

\* Later ends have greater numbers, so a number belongs to one line.
LEMMA RankRises ==
  ASSUME NEW B, NEW s \in Seq(B), NEW e \in Stops(s), NEW f \in Stops(s), e < f
  PROVE  Rank(s, e) \in Nat /\ Rank(s, f) \in Nat /\ Rank(s, e) < Rank(s, f)
  <1>1. Ends(s) \subseteq 1 .. Len(s) /\ Len(s) \in Nat
    BY EndsFinite
  <1>2. e \in Ends(s) /\ e \in Nat /\ f \in Nat
    BY <1>1 DEF Stops
  <1>3. Upto(s, e) \subseteq Upto(s, f) /\ Upto(s, f) \subseteq Ends(s)
    <2>1. ASSUME NEW i \in Upto(s, e) PROVE i \in Upto(s, f)
      <3>1. i \in Ends(s) /\ i <= e
        BY DEF Upto
      <3>2. i <= f
        BY <1>1, <1>2, <3>1
      <3> QED
        BY <3>1, <3>2 DEF Upto
    <2> QED
      BY <2>1 DEF Upto
  <1>4. /\ IsFiniteSet(Upto(s, e)) /\ Cardinality(Upto(s, e)) \in Nat
        /\ IsFiniteSet(Upto(s, f)) /\ Cardinality(Upto(s, f)) \in Nat
    BY <1>3, EndsFinite
  <1>5. Cardinality(Upto(s, e)) <= Cardinality(Upto(s, f))
    BY <1>3, <1>4, FS_Subset
  <1>6. CASE f \in Ends(s)
    <2>1. f \in Upto(s, f) /\ f \notin Upto(s, e)
      BY <1>2, <1>6 DEF Upto
    <2>2. Cardinality(Upto(s, e)) # Cardinality(Upto(s, f))
      BY <1>3, <1>4, <2>1, FS_Subset
    <2> QED
      BY <1>2, <1>4, <1>5, <1>6, <2>2 DEF Rank
  <1>7. CASE f \notin Ends(s)
    BY <1>2, <1>4, <1>5, <1>7 DEF Rank
  <1> QED
    BY <1>6, <1>7

\* A line is what lies between two neighbouring newlines, and its number is
\* that of the newlines before it, plus one.
LEMMA NextLine ==
  ASSUME NEW B, NEW s \in Seq(B), NEW p \in Nat, p = 0 \/ p \in Ends(s),
         NEW e \in Stops(s), p < e, \A i \in p + 1 .. e - 1 : i \notin Ends(s),
         NEW n, n = Cardinality(Upto(s, p))
  PROVE  /\ n \in Nat /\ n + 1 \in 1 .. Count(s)
         /\ Line(s, n + 1) = SubSeq(s, p + 1, e - 1)
         /\ e \in Ends(s) => n + 1 # Count(s) /\ Cardinality(Upto(s, e)) = n + 1
         /\ e \notin Ends(s) => n + 1 = Count(s)
  <1>1. Ends(s) \subseteq 1 .. Len(s) /\ Len(s) \in Nat /\ IsFiniteSet(Ends(s))
    BY EndsFinite
  <1>2. e \in Nat
    BY <1>1 DEF Stops
  <1>3. Upto(s, p) \subseteq Ends(s) /\ IsFiniteSet(Upto(s, p)) /\ n \in Nat
    BY EndsFinite DEF Upto
  <1>6. Rank(s, e) = n + 1 /\ (e \in Ends(s) => n + 1 # Count(s) /\ Cardinality(Upto(s, e)) = n + 1)
        /\ (e \notin Ends(s) => n + 1 = Count(s)) /\ n + 1 \in 1 .. Count(s)
    <2>1. CASE e \in Ends(s)
      <3>1. Upto(s, e) = Upto(s, p) \cup {e} /\ e \notin Upto(s, p) /\ Upto(s, e) \subseteq Ends(s)
        <4>1. \A i \in Ends(s) : i <= e <=> i <= p \/ i = e
          BY <1>1, <1>2
        <4>2. ~(e <= p) /\ e <= e
          BY <1>2
        <4> QED
          BY <2>1, <4>1, <4>2 DEF Upto
      <3>2. Cardinality(Upto(s, e)) = n + 1
        BY <1>3, <3>1, FS_AddElement
      <3>3. Cardinality(Upto(s, e)) <= Cardinality(Ends(s)) /\ Cardinality(Ends(s)) \in Nat
        BY <1>1, <3>1, FS_Subset, FS_CardinalityType
      <3> QED
        BY <1>3, <2>1, <3>2, <3>3 DEF Rank, Count
    <2>2. CASE e \notin Ends(s)
      <3>1. e = Len(s) + 1
        BY <2>2 DEF Stops
      <3>2. Upto(s, e) = Ends(s) /\ Upto(s, p) = Ends(s)
        <4>1. \A i \in Ends(s) : i <= e /\ i <= p
          BY <1>1, <1>2, <3>1
        <4> QED
          BY <4>1 DEF Upto
      <3> QED
        BY <1>3, <2>2, <3>2 DEF Rank, Count
    <2> QED
      BY <2>1, <2>2
  <1>7. (CHOOSE x \in Stops(s) : Rank(s, x) = n + 1) = e
    <2>1. \A x \in Stops(s) : Rank(s, x) = n + 1 => x = e
      <3> SUFFICES ASSUME NEW x \in Stops(s), Rank(s, x) = n + 1, x # e PROVE FALSE
        OBVIOUS
      <3>1. x \in Nat
        BY <1>1 DEF Stops
      <3>2. CASE x < e
        BY <1>6, <3>2, RankRises
      <3>3. CASE e < x
        BY <1>6, <3>3, RankRises
      <3> QED
        BY <1>2, <3>1, <3>2, <3>3
    <2> QED
      BY <1>6, <2>1
  <1>8. Start(s, e) = p
    <2>1. CASE p = 0
      <3>1. ~ \E i \in Ends(s) : i < e
        BY <1>1, <1>2, <2>1
      <3> QED
        BY <2>1, <3>1 DEF Start
    <2>2. CASE p \in Ends(s)
      <3>1. \A j \in Ends(s) : j < e => j <= p
        BY <1>1, <1>2
      <3>2. \A i \in Ends(s) : i < e /\ (\A j \in Ends(s) : j < e => j <= i) => i = p
        BY <1>1, <1>2, <2>2, <3>1
      <3> QED
        BY <2>2, <3>1, <3>2 DEF Start
    <2> QED
      BY <2>1, <2>2
  <1>9. Line(s, n + 1) = LET end == CHOOSE x \in Stops(s) : Rank(s, x) = n + 1
                      IN  SubSeq(s, Start(s, end) + 1, end - 1)
    BY DEF Line, Stops, Rank, Upto
  <1> QED
    BY <1>3, <1>6, <1>7, <1>8, <1>9

--------------------------------------------------------------------------------
(* The answers to the lines. *)

Codes == {"parse_error", "invalid_request", "invalid_params", "result", "not_initialized",
          "method_not_found", "too_large", "invalid_utf8", "incomplete"}

Replies == [id : Nat, code : Codes]

LEMMA Singleton ==
  ASSUME NEW S, NEW x \in S PROVE <<x>> \in Seq(S)
  OBVIOUS

LEMMA NoReplies == <<>> \in Seq(Replies)
  OBVIOUS

LEMMA OneReply ==
  ASSUME NEW id \in Nat, NEW code \in Codes
  PROVE  <<Reply(id, code)>> \in Seq(Replies)
  <1>1. Reply(id, code) \in Replies
    BY DEF Reply, Replies
  <1> QED
    BY <1>1, Singleton

LEMMA HandledType ==
  ASSUME NEW m, NEW k \in Nat, NEW s, NEW raw, NEW broker
  PROVE  Handled(m, k, s, raw, broker) \in Seq(Replies)
  <1>1. CASE m = "garbage"
    BY <1>1, OneReply DEF Handled, Codes
  <1>2. CASE m = "not_a_request"
    BY <1>2, OneReply DEF Handled, Codes
  <1>3. CASE m = "response" \/ m \in Notifications
    BY <1>3, NoReplies DEF Handled, Notifications
  <1>4. CASE m \in {"initialize", "initialize_bad", "ping"}
    BY <1>4, OneReply DEF Handled, Codes, Notifications
  <1>5. CASE m \notin {"garbage", "not_a_request", "response", "initialize", "initialize_bad", "ping"}
                      \cup Notifications
    BY <1>5, OneReply DEF Handled, Codes
  <1> QED
    BY <1>1, <1>2, <1>3, <1>4, <1>5

\* What is answered to the k-th line and to the first n lines.
Answer(s, c, k) == IF Read(s, k - 1) THEN AnswerTo(s, k, c.raw, c.broker) ELSE <<>>

AnsweredLines(s, c, n) == FlattenSeq([k \in 1 .. n |-> Answer(s, c, k)])

LEMMA AnswerType ==
  ASSUME NEW st, NEW c, NEW k \in Nat PROVE Answer(st, c, k) \in Seq(Replies)
  <1>1. \A s, raw, broker : Handled(Message(Line(st, k)), k, s, raw, broker) \in Seq(Replies)
    BY HandledType
  <1>2. /\ <<Reply(0, "too_large")>> \in Seq(Replies)
        /\ <<Reply(0, "incomplete")>> \in Seq(Replies)
        /\ <<Reply(0, "invalid_utf8")>> \in Seq(Replies)
    BY OneReply DEF Codes
  <1> QED
    BY <1>1, <1>2, NoReplies DEF Answer, AnswerTo

LEMMA AnsweredNext ==
  ASSUME NEW st, NEW c, NEW n \in Nat
  PROVE  /\ AnsweredLines(st, c, 0) = <<>>
         /\ AnsweredLines(st, c, n) \in Seq(Replies)
         /\ AnsweredLines(st, c, n + 1) = AnsweredLines(st, c, n) \o Answer(st, c, n + 1)
  <1>1. AnsweredLines(st, c, 0) = <<>>
    <2>1. [k \in 1 .. 0 |-> Answer(st, c, k)] = <<>>
      OBVIOUS
    <2> QED
      BY <2>1, FlattenEmpty DEF AnsweredLines
  <1>2. ASSUME NEW m \in Nat
        PROVE  /\ AnsweredLines(st, c, m + 1) = AnsweredLines(st, c, m) \o Answer(st, c, m + 1)
               /\ AnsweredLines(st, c, m + 1) \in Seq(Replies)
    <2> DEFINE s == [k \in 1 .. m + 1 |-> Answer(st, c, k)]
    <2>1. s \in [1 .. m + 1 -> Seq(Replies)]
      BY AnswerType
    <2>2. [i \in 1 .. m |-> s[i]] = [k \in 1 .. m |-> Answer(st, c, k)]
      OBVIOUS
    <2>3. s[m + 1] = Answer(st, c, m + 1)
      OBVIOUS
    <2>4. AnsweredLines(st, c, m + 1) = FlattenSeq(s)
      BY DEF AnsweredLines
    <2> HIDE DEF s
    <2>5. /\ FlattenSeq(s) = FlattenSeq([i \in 1 .. m |-> s[i]]) \o s[m + 1]
          /\ FlattenSeq(s) \in Seq(Replies)
      BY <2>1, FlattenNext
    <2> QED
      BY <2>2, <2>3, <2>4, <2>5, Zenon DEF AnsweredLines
  <1>3. AnsweredLines(st, c, n) \in Seq(Replies)
    <2>1. CASE n = 0
      BY <1>1, <2>1, NoReplies
    <2>2. CASE n # 0
      <3>1. PICK m \in Nat : n = m + 1
        BY <2>2
      <3> QED
        BY <1>2, <3>1
    <2> QED
      BY <2>1, <2>2
  <1> QED
    BY <1>1, <1>2, <1>3

\* The answers to fewer lines come first, and are all when no later line is answered.
LEMMA AnsweredPrefix ==
  ASSUME NEW st, NEW c, NEW m \in Nat, NEW n \in Nat, m <= n
  PROVE  /\ IsPrefix(AnsweredLines(st, c, m), AnsweredLines(st, c, n))
         /\ (\A k \in m + 1 .. n : Answer(st, c, k) = <<>>) => AnsweredLines(st, c, n) = AnsweredLines(st, c, m)
  <1> DEFINE Longer(l) == /\ \E u \in Seq(Replies) : AnsweredLines(st, c, l) = AnsweredLines(st, c, m) \o u
                          /\ (\A k \in m + 1 .. l : Answer(st, c, k) = <<>>)
                             => AnsweredLines(st, c, l) = AnsweredLines(st, c, m)
             T == {l \in Nat : m <= l => Longer(l)}
  <1>1. Longer(m)
    <2>1. AnsweredLines(st, c, m) = AnsweredLines(st, c, m) \o <<>>
      BY AnsweredNext
    <2> QED
      BY <2>1, NoReplies
  <1>2. ASSUME NEW l \in Nat, m <= l, Longer(l) PROVE Longer(l + 1)
    <2>1. AnsweredLines(st, c, m) \in Seq(Replies)
      BY AnsweredNext
    <2>2. /\ AnsweredLines(st, c, l) \in Seq(Replies)
          /\ AnsweredLines(st, c, l + 1) = AnsweredLines(st, c, l) \o Answer(st, c, l + 1)
      BY AnsweredNext
    <2>3. Answer(st, c, l + 1) \in Seq(Replies)
      BY AnswerType
    <2>4. PICK u \in Seq(Replies) : AnsweredLines(st, c, l) = AnsweredLines(st, c, m) \o u
      BY <1>2
    <2>5. /\ AnsweredLines(st, c, l + 1) = AnsweredLines(st, c, m) \o (u \o Answer(st, c, l + 1))
          /\ u \o Answer(st, c, l + 1) \in Seq(Replies)
      <3>1. \A r, v, w \in Seq(Replies) : (r \o v) \o w = r \o (v \o w) /\ v \o w \in Seq(Replies)
        BY ConcatAssociative
      <3>2. /\ (AnsweredLines(st, c, m) \o u) \o Answer(st, c, l + 1)
                 = AnsweredLines(st, c, m) \o (u \o Answer(st, c, l + 1))
            /\ u \o Answer(st, c, l + 1) \in Seq(Replies)
        BY <2>1, <2>3, <3>1, Zenon
      <3> QED
        BY <2>2, <2>4, <3>2, Zenon
    <2>6. ASSUME \A k \in m + 1 .. l + 1 : Answer(st, c, k) = <<>>
          PROVE  AnsweredLines(st, c, l + 1) = AnsweredLines(st, c, m)
      <3>1. Answer(st, c, l + 1) = <<>> /\ AnsweredLines(st, c, l) = AnsweredLines(st, c, m)
        BY <1>2, <2>6
      <3>2. AnsweredLines(st, c, m) \o <<>> = AnsweredLines(st, c, m)
        BY <2>1
      <3> QED
        BY <2>2, <3>1, <3>2, Zenon
    <2> QED
      BY <2>5, <2>6
  <1>3. n \in T
    <2>1. 0 \in T
      <3> HIDE DEF Longer
      <3>1. m <= 0 => m = 0
        OBVIOUS
      <3> QED
        BY <1>1, <3>1
    <2>2. ASSUME NEW l \in Nat, l \in T PROVE l + 1 \in T
      <3> HIDE DEF Longer
      <3>1. m <= l + 1 => m <= l \/ m = l + 1
        OBVIOUS
      <3> QED
        BY <1>1, <1>2, <2>2, <3>1
    <2> HIDE DEF T
    <2>3. Nat \subseteq T
      BY <2>1, <2>2, SetInduction
    <2> QED
      BY <2>3
  <1>4. Longer(n)
    <2> HIDE DEF Longer
    <2> QED
      BY <1>3
  <1>5. PICK u \in Seq(Replies) : AnsweredLines(st, c, n) = AnsweredLines(st, c, m) \o u
    BY <1>4
  <1>6. AnsweredLines(st, c, m) \in Seq(Replies)
    BY AnsweredNext
  <1>7. IsPrefix(AnsweredLines(st, c, m), AnsweredLines(st, c, n))
    <2>1. \A r, v \in Seq(Replies) : IsPrefix(r, r \o v)
      <3> SUFFICES ASSUME NEW r \in Seq(Replies), NEW v \in Seq(Replies) PROVE IsPrefix(r, r \o v)
        OBVIOUS
      <3>1. SubSeq(r \o v, 1, Len(r)) = SubSeq(r, 1, Len(r))
        OBVIOUS
      <3>2. Len(r) <= Len(r \o v)
        OBVIOUS
      <3> QED
        BY <3>1, <3>2 DEF IsPrefix
    <2> QED
      BY <1>5, <1>6, <2>1
  <1> QED
    BY <1>4, <1>7

\* What one line changes in the session.
LEMMA SessionNext ==
  ASSUME NEW st, NEW k \in Nat \ {0}
  PROVE  /\ SessionBefore(st, 1) = [initialized |-> FALSE, ready |-> FALSE]
         /\ SessionBefore(st, k + 1) =
              IF Understood(Line(st, k)) THEN After(Message(Line(st, k)), SessionBefore(st, k))
              ELSE SessionBefore(st, k)
  <1> DEFINE opened(j) == \E i \in 1 .. j - 1 : Says(st, i, "initialize")
             wasReady(l) == \E j \in 1 .. l - 1 : Says(st, j, "initialized") /\ opened(j)
  <1>1. \A l : SessionBefore(st, l) = [initialized |-> opened(l), ready |-> wasReady(l)]
    BY DEF SessionBefore
  <1>2. ~opened(1) /\ ~wasReady(1)
    OBVIOUS
  <1>3. \A i : i \in 1 .. (k + 1) - 1 <=> i \in 1 .. k - 1 \/ i = k
    OBVIOUS
  <1>4. opened(k + 1) <=> opened(k) \/ Says(st, k, "initialize")
    BY <1>3
  <1>5. wasReady(k + 1) <=> wasReady(k) \/ (Says(st, k, "initialized") /\ opened(k))
    BY <1>3
  <1>6. SessionBefore(st, 1) = [initialized |-> FALSE, ready |-> FALSE]
    <2>1. opened(1) = FALSE /\ wasReady(1) = FALSE
      BY <1>2
    <2> HIDE DEF opened, wasReady
    <2> QED
      BY <1>1, <2>1
  <1> DEFINE before == [initialized |-> opened(k), ready |-> wasReady(k)]
             m == Message(Line(st, k))
  <1>7. CASE Understood(Line(st, k))
    <2>1. /\ opened(k + 1) = (opened(k) \/ m = "initialize")
          /\ wasReady(k + 1) = (wasReady(k) \/ (m = "initialized" /\ opened(k)))
      BY <1>4, <1>5, <1>7 DEF Says
    <2>2. After(m, before) = [initialized |-> opened(k) \/ m = "initialize",
                              ready |-> wasReady(k) \/ (m = "initialized" /\ opened(k))]
      <3> HIDE DEF opened, wasReady, m
      <3>1. before.initialized = opened(k) /\ before.ready = wasReady(k)
        OBVIOUS
      <3> HIDE DEF before
      <3> QED
        BY <3>1, Zenon DEF After
    <2> HIDE DEF opened, wasReady, m
    <2>3. SessionBefore(st, k + 1) = After(m, before)
      <3> HIDE DEF before
      <3> QED
        BY <1>1, <2>1, <2>2, Zenon
    <2>4. SessionBefore(st, k) = before
      BY <1>1
    <2> HIDE DEF before
    <2> QED
      BY <1>6, <1>7, <2>3, <2>4 DEF m
  <1>8. CASE ~Understood(Line(st, k))
    <2>1. opened(k + 1) = opened(k) /\ wasReady(k + 1) = wasReady(k)
      BY <1>4, <1>5, <1>8 DEF Says
    <2> HIDE DEF opened, wasReady
    <2> QED
      BY <1>1, <1>6, <1>8, <2>1
  <1> QED
    BY <1>7, <1>8

\* The part of a sequence after its m-th and up to its n-th element.
LEMMA Slice ==
  ASSUME NEW B, NEW s \in Seq(B), NEW m \in Nat, NEW n \in Nat, m <= n, n <= Len(s)
  PROVE  /\ SubSeq(s, m + 1, n) \in Seq(B)
         /\ Len(SubSeq(s, m + 1, n)) = n - m
         /\ \A i \in 1 .. n - m : SubSeq(s, m + 1, n)[i] = s[m + i]
  <1>1. PICK a \in Int : a = m + 1
    OBVIOUS
  <1> DEFINE sub == SubSeq(s, a, n)
  <1>2. /\ sub \in Seq(B)
        /\ Len(sub) = IF a <= n THEN n - a + 1 ELSE 0
        /\ \A i \in 1 .. n - a + 1 : sub[i] = s[a + i - 1]
    <2>1. \A i \in a .. n : s[i] \in B
      BY <1>1
    <2> QED
      BY <2>1, SubSeqProperties
  <1> HIDE DEF sub
  <1>3. Len(sub) = n - m
    BY <1>1, <1>2
  <1>4. ASSUME NEW i \in 1 .. n - m PROVE sub[i] = s[m + i]
    <2>1. i \in 1 .. n - a + 1 /\ a + i - 1 = m + i
      BY <1>1
    <2> QED
      BY <1>2, <2>1
  <1> QED
    BY <1>1, <1>2, <1>3, <1>4 DEF sub

LEMMA SliceIs ==
  ASSUME NEW B, NEW s \in Seq(B), NEW m \in Nat, NEW t \in Seq(B), m + Len(t) <= Len(s),
         \A i \in 1 .. Len(t) : t[i] = s[m + i]
  PROVE  SubSeq(s, m + 1, m + Len(t)) = t
  <1>1. PICK n \in Nat : n = m + Len(t)
    OBVIOUS
  <1> DEFINE sub == SubSeq(s, m + 1, n)
  <1>2. sub \in Seq(B) /\ Len(sub) = Len(t) /\ \A i \in 1 .. Len(t) : sub[i] = s[m + i]
    <2>1. m <= n /\ n <= Len(s) /\ n - m = Len(t)
      BY <1>1
    <2> QED
      BY <2>1, Slice
  <1> HIDE DEF sub
  <1>3. \A i \in 1 .. Len(t) : sub[i] = t[i]
    BY <1>2
  <1>4. sub = [i \in 1 .. Len(t) |-> sub[i]] /\ t = [i \in 1 .. Len(t) |-> t[i]]
    BY <1>2
  <1>5. sub = t
    BY <1>3, <1>4
  <1> QED
    BY <1>1, <1>5 DEF sub

--------------------------------------------------------------------------------
(* The stdio transport. *)

Bytes == UNION {ToSet(s) : s \in Streams}

\* How many bytes belong to the lines that are complete.
Done == taken - Len(data) - Len(parts)

\* What has been read and not yet handled is the part of the input after the
\* last newline that was handled.
Cut ==
    /\ input \in Seq(Bytes) /\ taken \in 0 .. Len(input)
    /\ data \in Seq(Bytes) /\ parts \in Seq(Bytes) /\ Done \in Nat
    /\ \A i \in 1 .. Len(parts) : parts[i] = input[Done + i] /\ parts[i] # Newline
    /\ \A i \in 1 .. Len(data) : data[i] = input[Done + Len(parts) + i]
    /\ Done = 0 \/ Done \in Ends(input)
    /\ lines = Cardinality(Upto(input, Done))

\* Every line so far was answered as the reader of whole lines answers it.
McpInv ==
    /\ Cut
    /\ Read(input, lines)
    /\ Len(parts) <= MaxMessage
    /\ Session = SessionBefore(input, lines + 1)
    /\ replies = AnsweredLines(input, config, IF stdio = "open" THEN lines ELSE Count(input))

LEMMA McpInvInit ==
  ASSUME Init PROVE McpInv
  <1>1. input \in Streams \cup {<<>>} /\ taken = 0 /\ data = <<>> /\ parts = <<>> /\ lines = 0
        /\ initialized = FALSE /\ ready = FALSE /\ replies = <<>> /\ stdio = "open"
    BY DEF Init, McpInit
  <1>2. input \in Seq(Bytes)
    <2>1. CASE input \in Streams
      <3>1. input \in Seq(ToSet(input)) /\ ToSet(input) \subseteq Bytes
        BY <2>1, StreamsAssumption DEF Bytes
      <3>2. \A S, T : S \subseteq T => Seq(S) \subseteq Seq(T)
        OBVIOUS
      <3> QED
        BY <3>1, <3>2
    <2>2. CASE input = <<>>
      BY <2>2
    <2> QED
      BY <1>1, <2>1, <2>2
  <1>3. Done = 0 /\ Len(input) \in Nat
    <2>1. Len(data) = 0 /\ Len(parts) = 0 /\ taken = 0
      BY <1>1
    <2>2. Done = 0
      BY <2>1 DEF Done
    <2> QED
      BY <1>2, <2>2
  <1>4. Upto(input, 0) = {} /\ Cardinality({}) = 0
    <2>1. Ends(input) \subseteq 1 .. Len(input)
      BY <1>2, EndsFinite
    <2>2. \A i \in Ends(input) : ~(i <= 0)
      BY <2>1
    <2> QED
      BY <2>2, FS_EmptySet DEF Upto
  <1>5. Cut
    BY <1>1, <1>2, <1>3, <1>4 DEF Cut
  <1>6. Read(input, 0)
    BY DEF Read
  <1>7. Session = SessionBefore(input, 0 + 1)
    <2>1. SessionBefore(input, 1) = [initialized |-> FALSE, ready |-> FALSE] /\ 0 + 1 = 1
      BY SessionNext
    <2> QED
      BY <1>1, <2>1 DEF Session
  <1> QED
    BY <1>1, <1>5, <1>6, <1>7, AnsweredNext, MaxMessageAssumption DEF McpInv

LEMMA FirstNewlineIs ==
  ASSUME data \in Seq(Bytes)
  PROVE  /\ FirstNewline \in 0 .. Len(data)
         /\ FirstNewline = 0 => \A i \in 1 .. Len(data) : data[i] # Newline
         /\ FirstNewline > 0 => /\ data[FirstNewline] = Newline
                                /\ \A i \in 1 .. FirstNewline - 1 : data[i] # Newline
  <1> DEFINE I == {i \in 1 .. Len(data) : data[i] = Newline}
  <1>1. FirstNewline = IF I = {} THEN 0 ELSE Min(I)
    BY DEF FirstNewline, SelectInSeq
  <1>2. ASSUME I # {} PROVE Min(I) \in I /\ \A i \in I : Min(I) <= i
    <2>1. \E x \in I : \A y \in I : x <= y
      <3>1. I \in SUBSET Nat
        OBVIOUS
      <3> HIDE DEF I
      <3> QED
        BY <1>2, <3>1, Least
    <2> HIDE DEF I
    <2> QED
      BY <2>1 DEF Min
  <1>3. CASE I = {}
    <2>1. FirstNewline = 0
      BY <1>1, <1>3
    <2> QED
      BY <1>3, <2>1
  <1>4. CASE I # {}
    <2>1. FirstNewline \in I /\ \A i \in I : FirstNewline <= i
      BY <1>1, <1>2, <1>4
    <2>2. \A i \in 1 .. FirstNewline - 1 : i \in 1 .. Len(data) /\ ~(FirstNewline <= i)
      BY <2>1
    <2> QED
      BY <2>1, <2>2
  <1> QED
    BY <1>3, <1>4

\* The bytes of the current line that have been seen.
LEMMA SeenBytes ==
  ASSUME Cut, NEW line, line = parts \o NewSegment
  PROVE  /\ line \in Seq(Bytes) /\ Len(line) \in Nat
         /\ Done + Len(line) <= taken
         /\ \A i \in 1 .. Len(line) : line[i] = input[Done + i] /\ line[i] # Newline
         /\ Len(line) = Len(parts) + IF FirstNewline = 0 THEN Len(data) ELSE FirstNewline - 1
  <1>1. /\ FirstNewline \in 0 .. Len(data)
        /\ FirstNewline = 0 => \A i \in 1 .. Len(data) : data[i] # Newline
        /\ FirstNewline > 0 => \A i \in 1 .. FirstNewline - 1 : data[i] # Newline
    BY FirstNewlineIs DEF Cut
  <1>2. /\ data \in Seq(Bytes) /\ parts \in Seq(Bytes)
        /\ Len(data) \in Nat /\ Len(parts) \in Nat /\ taken \in Nat
    BY DEF Cut
  <1> DEFINE n == IF FirstNewline = 0 THEN Len(data) ELSE FirstNewline - 1
  <1>3. /\ n \in 0 .. Len(data) /\ \A i \in 1 .. n : data[i] # Newline
        /\ NewSegment \in Seq(Bytes) /\ Len(NewSegment) = n
        /\ \A i \in 1 .. n : NewSegment[i] = data[i]
    <2>1. CASE FirstNewline = 0
      BY <1>1, <1>2, <2>1 DEF NewSegment
    <2>2. CASE FirstNewline # 0
      <3>1. NewSegment = SubSeq(data, 1, FirstNewline - 1)
        BY <2>2 DEF NewSegment
      <3>2. n = FirstNewline - 1 /\ n \in 0 .. Len(data)
        BY <1>1, <1>2, <2>2
      <3> HIDE DEF n
      <3>3. SubSeq(data, 1, n) \in Seq(Bytes) /\ Len(SubSeq(data, 1, n)) = n
            /\ \A i \in 1 .. n : SubSeq(data, 1, n)[i] = data[i]
        BY <1>2, <3>2, SubSeqProperties
      <3> QED
        BY <1>1, <2>2, <3>1, <3>2, <3>3
    <2> QED
      BY <2>1, <2>2
  <1> HIDE DEF n
  <1>4. /\ line \in Seq(Bytes) /\ Len(line) = Len(parts) + n
        /\ \A i \in 1 .. Len(parts) + n :
              line[i] = IF i <= Len(parts) THEN parts[i] ELSE NewSegment[i - Len(parts)]
    BY <1>2, <1>3, ConcatProperties
  <1>5. ASSUME NEW i \in 1 .. Len(line)
        PROVE  line[i] = input[Done + i] /\ line[i] # Newline
    <2>1. CASE i <= Len(parts)
      BY <1>2, <1>3, <1>4, <2>1 DEF Cut
    <2>2. CASE i > Len(parts)
      <3>1. line[i] = NewSegment[i - Len(parts)] /\ i - Len(parts) \in 1 .. n
        BY <1>2, <1>3, <1>4, <2>2
      <3>2. i - Len(parts) \in 1 .. Len(data) /\ Done + Len(parts) + (i - Len(parts)) = Done + i
        <4>1. i \in Nat /\ Done \in Nat
          BY <1>2, <1>3, <1>4 DEF Cut
        <4>2. n \in Nat /\ n <= Len(data)
          BY <1>2, <1>3
        <4>3. \A d, p, j \in Nat : d + p + (j - p) = d + j
          OBVIOUS
        <4>4. i - Len(parts) \in 1 .. Len(data)
          BY <1>2, <3>1, <4>1, <4>2
        <4>5. Done + Len(parts) + (i - Len(parts)) = Done + i
          BY <1>2, <4>1, <4>3
        <4> QED
          BY <4>4, <4>5
      <3> QED
        BY <1>3, <3>1, <3>2 DEF Cut
    <2> QED
      BY <1>2, <1>4, <2>1, <2>2
  <1>6. Done + Len(line) <= taken
    BY <1>2, <1>3, <1>4 DEF Cut, Done
  <1>7. Len(line) = Len(parts) + IF FirstNewline = 0 THEN Len(data) ELSE FirstNewline - 1
    BY <1>4 DEF n
  <1>8. line \in Seq(Bytes) /\ Len(line) \in Nat
    BY <1>2, <1>3, <1>4
  <1> QED
    BY <1>5, <1>6, <1>7, <1>8

\* Those bytes are a line when a newline or the end of the input follows.
LEMMA WholeLine ==
  ASSUME Cut, NEW line \in Seq(Bytes), Done + Len(line) <= Len(input),
         \A i \in 1 .. Len(line) : line[i] = input[Done + i] /\ line[i] # Newline,
         NEW e \in Stops(input), e = Done + Len(line) + 1
  PROVE  /\ lines \in Nat /\ lines + 1 \in 1 .. Count(input)
         /\ Line(input, lines + 1) = line
         /\ e \in Ends(input) => lines + 1 # Count(input) /\ Cardinality(Upto(input, e)) = lines + 1
         /\ e \notin Ends(input) => lines + 1 = Count(input)
  <1>1. input \in Seq(Bytes) /\ Done \in Nat /\ Len(line) \in Nat /\ Len(input) \in Nat
    BY DEF Cut
  <1>2. ASSUME NEW i \in Done + 1 .. e - 1 PROVE i \notin Ends(input)
    <2>1. i - Done \in 1 .. Len(line) /\ Done + (i - Done) = i
      BY <1>1
    <2> QED
      BY <2>1 DEF Ends
  <1>3. SubSeq(input, Done + 1, e - 1) = line
    <2>1. e - 1 = Done + Len(line)
      BY <1>1
    <2>2. SubSeq(input, Done + 1, Done + Len(line)) = line
      BY <1>1, SliceIs
    <2> QED
      BY <2>1, <2>2
  <1>4. PICK p \in Nat : /\ p = Done /\ p < e /\ (p = 0 \/ p \in Ends(input))
                         /\ lines = Cardinality(Upto(input, p))
    BY <1>1 DEF Cut
  <1>5. \A i \in p + 1 .. e - 1 : i \notin Ends(input)
    BY <1>2, <1>4
  <1>6. /\ lines \in Nat /\ lines + 1 \in 1 .. Count(input)
        /\ Line(input, lines + 1) = SubSeq(input, p + 1, e - 1)
        /\ e \in Ends(input) => lines + 1 # Count(input) /\ Cardinality(Upto(input, e)) = lines + 1
        /\ e \notin Ends(input) => lines + 1 = Count(input)
    BY <1>1, <1>4, <1>5, NextLine
  <1> QED
    BY <1>3, <1>4, <1>6

LEMMA LinesCounted ==
  ASSUME Cut PROVE lines \in Nat /\ lines + 1 \in 1 .. Count(input) /\ Count(input) \in Nat
  <1>1. /\ input \in Seq(Bytes) /\ Upto(input, Done) \subseteq Ends(input)
        /\ lines = Cardinality(Upto(input, Done))
    BY DEF Cut, Upto
  <1>2. IsFiniteSet(Ends(input)) /\ Cardinality(Ends(input)) \in Nat /\ lines \in Nat
    BY <1>1, EndsFinite
  <1>3. lines <= Cardinality(Ends(input))
    BY <1>1, <1>2, FS_Subset
  <1> QED
    BY <1>2, <1>3 DEF Count

\* Bytes move between the input, the chunk and the line, and nothing else happens.
LEMMA McpMoves ==
  ASSUME McpInv, Cut', Len(parts') <= MaxMessage,
         UNCHANGED <<config, input, lines, initialized, ready, replies, stdio>>
  PROVE  McpInv'
  BY DEF McpInv, Session

LEMMA McpChunk ==
  ASSUME McpInv, Chunk, config' = config
  PROVE  McpInv'
  <1>1. PICK end \in taken + 1 .. Len(input) : data' = SubSeq(input, taken + 1, end) /\ taken' = end
    BY DEF Chunk
  <1>2. /\ data = <<>> /\ UNCHANGED <<input, parts, lines, initialized, ready, replies, stdio>>
    BY DEF Chunk
  <1>3. /\ input \in Seq(Bytes) /\ taken \in Nat /\ Len(input) \in Nat /\ Len(parts) \in Nat /\ Len(data) = 0
        /\ Done \in Nat /\ Done = taken - Len(parts)
    BY <1>2 DEF McpInv, Cut, Done
  <1>4. /\ data' \in Seq(Bytes) /\ Len(data') = end - taken
        /\ \A i \in 1 .. end - taken : data'[i] = input[taken + i]
    BY <1>1, <1>3, Slice
  <1>5. Done' = Done
    BY <1>1, <1>2, <1>3, <1>4 DEF Done
  <1>6. Cut'
    BY <1>1, <1>2, <1>3, <1>4, <1>5 DEF McpInv, Cut
  <1> QED
    BY <1>2, <1>6, McpMoves DEF McpInv

\* The reply to one more line, and the end when no line after it is answered.
LEMMA OneAnswerMore ==
  ASSUME McpInv, stdio = "open", NEW new, new = replies \o Answer(input, config, lines + 1)
  PROVE  /\ new = AnsweredLines(input, config, lines + 1)
         /\ lines + 1 = Count(input) \/ ~(Len(Line(input, lines + 1)) <= MaxMessage)
            => new = AnsweredLines(input, config, Count(input))
  <1>1. lines \in Nat /\ lines + 1 \in 1 .. Count(input) /\ Count(input) \in Nat
    BY LinesCounted DEF McpInv
  <1>2. new = AnsweredLines(input, config, lines + 1)
    BY <1>1, AnsweredNext DEF McpInv
  <1>3. ASSUME ~(Len(Line(input, lines + 1)) <= MaxMessage)
        PROVE  AnsweredLines(input, config, Count(input)) = AnsweredLines(input, config, lines + 1)
    <2>1. ASSUME NEW k \in (lines + 1) + 1 .. Count(input) PROVE Answer(input, config, k) = <<>>
      <3>1. lines + 1 \in 1 .. k - 1 /\ ~(Len(Line(input, lines + 1)) <= MaxMessage)
        BY <1>1, <1>3
      <3>2. ~Read(input, k - 1)
        BY <3>1 DEF Read
      <3> QED
        BY <3>2 DEF Answer
    <2>2. lines + 1 \in Nat /\ lines + 1 <= Count(input)
      BY <1>1
    <2> QED
      BY <1>1, <2>1, <2>2, AnsweredPrefix
  <1> QED
    BY <1>2, <1>3

LEMMA AnswerIs ==
  ASSUME McpInv
  PROVE  Answer(input, config, lines + 1) = AnswerTo(input, lines + 1, config.raw, config.broker)
  <1>1. lines \in Nat /\ (lines + 1) - 1 = lines
    BY LinesCounted DEF McpInv
  <1> QED
    BY <1>1 DEF McpInv, Answer

\* A line that is too long as far as it was seen is too long as a whole.
LEMMA LongLine ==
  ASSUME Cut, NEW line, line = parts \o NewSegment, Len(line) > MaxMessage
  PROVE  Len(Line(input, lines + 1)) \in Nat /\ Len(Line(input, lines + 1)) > MaxMessage
  <1>1. /\ input \in Seq(Bytes) /\ Len(input) \in Nat /\ taken \in Nat /\ taken <= Len(input)
        /\ MaxMessage \in Nat
    BY MaxMessageAssumption DEF Cut
  <1>2. PICK p \in Nat : p = Done /\ (p = 0 \/ p \in Ends(input)) /\ lines = Cardinality(Upto(input, p))
    BY DEF Cut
  <1>3. /\ Len(line) \in Nat /\ p + Len(line) <= taken
        /\ \A i \in 1 .. Len(line) : line[i] = input[p + i] /\ line[i] # Newline
    BY <1>2, SeenBytes
  <1> DEFINE T == {x \in Stops(input) : p < x}
  <1>4. Ends(input) \subseteq 1 .. Len(input)
    BY <1>1, EndsFinite
  <1>5. T \in SUBSET Nat /\ Len(input) + 1 \in T
    BY <1>1, <1>3, <1>4 DEF Stops
  <1>6. PICK e \in T : \A x \in T : e <= x
    <2> HIDE DEF T
    <2> QED
      BY <1>5, Least
  <1>7. e \in Nat /\ e \in Stops(input) /\ p < e
    BY <1>5
  <1>8. ASSUME NEW i \in p + 1 .. e - 1 PROVE i \notin Ends(input)
    BY <1>6, <1>7 DEF Stops
  <1>9. ~(e <= p + Len(line))
    <2> SUFFICES ASSUME e <= p + Len(line) PROVE FALSE
      OBVIOUS
    <2>1. e \in Ends(input)
      BY <1>1, <1>3, <1>7 DEF Stops
    <2>2. e - p \in 1 .. Len(line) /\ p + (e - p) = e
      BY <1>3, <1>7
    <2> QED
      BY <1>3, <2>1, <2>2 DEF Ends
  <1>10. Line(input, lines + 1) = SubSeq(input, p + 1, e - 1)
    BY <1>1, <1>2, <1>7, <1>8, NextLine
  <1>11. Len(SubSeq(input, p + 1, e - 1)) = e - 1 - p
    <2>1. e - 1 \in Nat /\ p <= e - 1 /\ e - 1 <= Len(input)
      BY <1>1, <1>4, <1>7 DEF Stops
    <2> QED
      BY <1>1, <2>1, Slice
  <1> QED
    BY <1>1, <1>3, <1>7, <1>9, <1>10, <1>11

LEMMA McpTooLong ==
  ASSUME McpInv, stdio = "open", TooLong(parts \o NewSegment),
         replies' = Append(replies, Reply(0, "too_large")), stdio' = "failed",
         UNCHANGED <<config, input, taken, data, parts, lines, initialized, ready>>
  PROVE  McpInv'
  <1>1. Len(Line(input, lines + 1)) \in Nat /\ Len(Line(input, lines + 1)) > MaxMessage /\ MaxMessage \in Nat
    BY LongLine, MaxMessageAssumption DEF McpInv, TooLong
  <1>2. Answer(input, config, lines + 1) = <<Reply(0, "too_large")>>
    BY <1>1, AnswerIs DEF AnswerTo
  <1>3. replies \in Seq(Replies) /\ Reply(0, "too_large") \in Replies
    <2>1. lines \in Nat
      BY LinesCounted DEF McpInv
    <2>2. Reply(0, "too_large") \in Replies
      BY DEF Reply, Replies, Codes
    <2> QED
      BY <2>1, <2>2, AnsweredNext DEF McpInv
  <1>4. replies' = replies \o <<Reply(0, "too_large")>>
    BY <1>3, AppendIsConcat
  <1>5. replies' = AnsweredLines(input, config, Count(input))
    <2>1. ~(Len(Line(input, lines + 1)) <= MaxMessage)
      BY <1>1
    <2>2. replies' = replies \o Answer(input, config, lines + 1)
      BY <1>2, <1>4
    <2> QED
      BY <2>1, <2>2, OneAnswerMore
  <1>6. Cut'
    BY DEF McpInv, Cut, Done
  <1> QED
    BY <1>5, <1>6 DEF McpInv, Session

\* The chunk ends before the line does.
LEMMA McpPart ==
  ASSUME McpInv, ~TooLong(parts \o NewSegment), FirstNewline = 0,
         parts' = parts \o NewSegment, data' = <<>>,
         UNCHANGED <<config, input, taken, lines, initialized, ready, replies, stdio>>
  PROVE  McpInv'
  <1> DEFINE line == parts \o NewSegment
  <1>1. /\ line \in Seq(Bytes) /\ Len(line) \in Nat
        /\ \A i \in 1 .. Len(line) : line[i] = input[Done + i] /\ line[i] # Newline
        /\ Len(line) = Len(parts) + Len(data)
    BY SeenBytes DEF McpInv
  <1>2. taken \in Nat /\ Len(parts) \in Nat /\ Len(data) \in Nat /\ Done \in Nat /\ Len(<<>>) = 0
    BY DEF McpInv, Cut
  <1>3. parts' = line
    OBVIOUS
  <1>4. Len(line) <= MaxMessage
    BY <1>1, MaxMessageAssumption DEF TooLong
  <1> HIDE DEF line
  <1>5. Done' = Done
    <2>1. Len(data') = 0 /\ Len(parts') = Len(parts) + Len(data) /\ taken' = taken
      BY <1>1, <1>2, <1>3
    <2> QED
      BY <1>2, <2>1 DEF Done
  <1>6. data' \in Seq(Bytes) /\ Len(data') = 0
    OBVIOUS
  <1>7. Cut'
    BY <1>1, <1>3, <1>5, <1>6 DEF McpInv, Cut
  <1> QED
    BY <1>3, <1>4, <1>7, McpMoves

\* A newline completes the line, which is handled before the next byte is looked at.
LEMMA McpLine ==
  ASSUME McpInv, stdio = "open", ~TooLong(parts \o NewSegment), FirstNewline > 0,
         parts' = <<>>, data' = SubSeq(data, FirstNewline + 1, Len(data)), lines' = lines + 1,
         UNCHANGED <<config, input, taken, stdio>>,
         LET line == parts \o NewSegment
         IN  IF Bad \in ToSet(line)
             THEN /\ replies' = Append(replies, Reply(0, "invalid_utf8"))
                  /\ UNCHANGED <<initialized, ready>>
             ELSE IF IsBlank(line) THEN UNCHANGED <<initialized, ready, replies>>
             ELSE /\ replies' = replies \o Handled(Message(line), lines', Session, config.raw, config.broker)
                  /\ initialized' = After(Message(line), Session).initialized
                  /\ ready' = After(Message(line), Session).ready
  PROVE  McpInv'
  <1> DEFINE line == parts \o NewSegment
             e == Done + Len(line) + 1
  <1>1. /\ data \in Seq(Bytes) /\ input \in Seq(Bytes)
        /\ taken \in Nat /\ taken <= Len(input) /\ Len(input) \in Nat
        /\ Len(parts) \in Nat /\ Len(data) \in Nat /\ Done \in Nat /\ lines \in Nat
        /\ Done + Len(parts) + Len(data) = taken
        /\ FirstNewline \in 1 .. Len(data) /\ data[FirstNewline] = Newline
    <2>1. /\ data \in Seq(Bytes) /\ input \in Seq(Bytes)
          /\ taken \in Nat /\ taken <= Len(input) /\ Len(input) \in Nat
          /\ Len(parts) \in Nat /\ Len(data) \in Nat /\ Done \in Nat /\ lines \in Nat
      BY LinesCounted DEF McpInv, Cut
    <2>2. Done + Len(parts) + Len(data) = taken
      BY <2>1 DEF Done
    <2> QED
      BY <2>1, <2>2, FirstNewlineIs
  <1>2. /\ line \in Seq(Bytes) /\ Len(line) \in Nat /\ Done + Len(line) <= taken
        /\ \A i \in 1 .. Len(line) : line[i] = input[Done + i] /\ line[i] # Newline
        /\ Len(line) = Len(parts) + (FirstNewline - 1)
    <2>1. Cut /\ FirstNewline # 0
      BY <1>1 DEF McpInv
    <2>2. Len(line) = Len(parts) + IF FirstNewline = 0 THEN Len(data) ELSE FirstNewline - 1
      BY <2>1, SeenBytes
    <2>3. /\ line \in Seq(Bytes) /\ Len(line) \in Nat /\ Done + Len(line) <= taken
          /\ \A i \in 1 .. Len(line) : line[i] = input[Done + i] /\ line[i] # Newline
      BY <2>1, SeenBytes
    <2> HIDE DEF line
    <2> QED
      BY <2>1, <2>2, <2>3
  <1>0. e = Done + Len(parts) + FirstNewline /\ e \in Nat
    BY <1>1, <1>2
  <1>3. Len(line) <= MaxMessage
    BY <1>2, MaxMessageAssumption DEF TooLong
  <1>4. e \in Ends(input) /\ e \in Stops(input)
    <2>1. e = Done + Len(parts) + FirstNewline /\ e \in 1 .. Len(input)
      BY <1>2, <1>1
    <2>2. input[e] = Newline
      BY <1>1, <2>1 DEF McpInv, Cut
    <2> QED
      BY <1>1, <2>1, <2>2 DEF Ends, Stops
  <1> HIDE DEF line
  <1>5. /\ lines + 1 \in 1 .. Count(input) /\ lines + 1 # Count(input)
        /\ Line(input, lines + 1) = line
        /\ Cardinality(Upto(input, e)) = lines + 1
    <2>1. Cut /\ Done + Len(line) <= Len(input)
      BY <1>2, <1>1 DEF McpInv
    <2>2. e = Done + Len(line) + 1
      OBVIOUS
    <2> HIDE DEF e
    <2>3. /\ lines + 1 \in 1 .. Count(input) /\ Line(input, lines + 1) = line
          /\ e \in Ends(input) => lines + 1 # Count(input) /\ Cardinality(Upto(input, e)) = lines + 1
      BY <1>2, <1>4, <2>1, <2>2, WholeLine
    <2> QED
      BY <1>4, <2>3
  <1>6. Cut'
    <2>1. /\ data' \in Seq(Bytes) /\ Len(data') = Len(data) - FirstNewline
          /\ \A i \in 1 .. Len(data) - FirstNewline : data'[i] = data[FirstNewline + i]
      <3>1. FirstNewline \in Nat /\ FirstNewline <= Len(data) /\ Len(data) <= Len(data)
        BY <1>1
      <3>2. PICK s \in Seq(Bytes), m \in Nat, k \in Nat : s = data /\ m = FirstNewline /\ k = Len(data)
        BY <1>1, <3>1
      <3>3. m <= k /\ k <= Len(s)
        BY <3>1, <3>2
      <3>4. /\ SubSeq(s, m + 1, k) \in Seq(Bytes) /\ Len(SubSeq(s, m + 1, k)) = k - m
            /\ \A i \in 1 .. k - m : SubSeq(s, m + 1, k)[i] = s[m + i]
        BY <3>3, Slice
      <3>5. data' = SubSeq(s, m + 1, k)
        BY <3>2, Zenon
      <3> QED
        BY <3>2, <3>4, <3>5, Zenon
    <2>2. parts' = <<>> /\ parts' \in Seq(Bytes) /\ Len(parts') = 0
      OBVIOUS
    <2> HIDE DEF e
    <2>3. Done' = e
      <3>1. Done' = taken - (Len(data) - FirstNewline) - 0
        BY <2>1, <2>2 DEF Done
      <3>2. taken - (Len(data) - FirstNewline) - 0 = Done + Len(parts) + FirstNewline
        <4>1. \A d, p, n, t, f \in Nat : d + p + n = t => t - (n - f) - 0 = d + p + f
          OBVIOUS
        <4>2. FirstNewline \in Nat
          BY <1>1
        <4>3. /\ Done \in Nat /\ Len(parts) \in Nat /\ Len(data) \in Nat /\ taken \in Nat
              /\ Done + Len(parts) + Len(data) = taken
          BY <1>1
        <4> QED
          BY <4>1, <4>2, <4>3
      <3> QED
        BY <1>0, <3>1, <3>2
    <2>4. ASSUME NEW i \in 1 .. Len(data') PROVE data'[i] = input[e + 0 + i]
      <3>1. /\ FirstNewline + i \in 1 .. Len(data) /\ i \in 1 .. Len(data) - FirstNewline
            /\ Done + Len(parts) + (FirstNewline + i) = e + 0 + i
        <4>1. i \in 1 .. Len(data) - FirstNewline
          BY <2>1
        <4> QED
          BY <1>0, <1>1, <4>1
      <3> QED
        BY <2>1, <3>1 DEF McpInv, Cut
    <2>5. taken' = taken /\ input' = input /\ lines' = lines + 1
      OBVIOUS
    <2>6. input' \in Seq(Bytes) /\ taken' \in 0 .. Len(input') /\ Done' \in Nat
      BY <1>0, <1>1, <2>3, <2>5
    <2>7. \A i \in 1 .. Len(parts') : parts'[i] = input'[Done' + i] /\ parts'[i] # Newline
      BY <2>2
    <2>8. \A i \in 1 .. Len(data') : data'[i] = input'[Done' + Len(parts') + i]
      BY <2>2, <2>3, <2>4, <2>5
    <2>9. Done' \in Ends(input') /\ lines' = Cardinality(Upto(input', Done'))
      BY <1>4, <1>5, <2>3, <2>5
    <2> QED
      BY <2>1, <2>2, <2>6, <2>7, <2>8, <2>9 DEF Cut
  <1> HIDE DEF e
  <1>7. Read(input, lines + 1)
    <2>1. \A j \in 1 .. lines : Len(Line(input, j)) <= MaxMessage
      BY DEF McpInv, Read
    <2>2. Len(Line(input, lines + 1)) <= MaxMessage
      BY <1>3, <1>5
    <2>3. \A j \in 1 .. lines + 1 : j \in 1 .. lines \/ j = lines + 1
      BY <1>1
    <2> QED
      BY <2>1, <2>2, <2>3 DEF Read
  <1>8. replies \in Seq(Replies) /\ replies \o <<>> = replies
        /\ Append(replies, Reply(0, "invalid_utf8")) = replies \o <<Reply(0, "invalid_utf8")>>
    <2>1. Reply(0, "invalid_utf8") \in Replies
      BY DEF Reply, Replies, Codes
    <2>2. replies \in Seq(Replies)
      BY <1>1, AnsweredNext DEF McpInv
    <2> QED
      BY <2>1, <2>2, AppendIsConcat, ConcatEmptySeq
  <1>9. Answer(input, config, lines + 1) =
          IF Bad \in ToSet(line) THEN <<Reply(0, "invalid_utf8")>>
          ELSE IF IsBlank(line) THEN <<>>
          ELSE Handled(Message(line), lines + 1, Session, config.raw, config.broker)
    <2>1. ~(Len(line) > MaxMessage)
      BY <1>2, <1>3, MaxMessageAssumption
    <2> QED
      BY <1>5, <2>1, AnswerIs DEF AnswerTo, McpInv
  <1>10. replies' = replies \o Answer(input, config, lines + 1)
    BY <1>8, <1>9 DEF line
  <1>11. replies' = AnsweredLines(input, config, lines + 1)
    BY <1>10, OneAnswerMore
  <1>12. Session' = SessionBefore(input, (lines + 1) + 1)
    <2>1. /\ lines + 1 \in Nat \ {0} /\ Line(input, lines + 1) = line
          /\ Session = SessionBefore(input, lines + 1)
      BY <1>1, <1>5 DEF McpInv
    <2>2. SessionBefore(input, (lines + 1) + 1) =
            IF Understood(line) THEN After(Message(line), Session) ELSE Session
      BY <2>1, SessionNext
    <2>3. CASE Understood(line)
      <3>1. /\ initialized' = After(Message(line), Session).initialized
            /\ ready' = After(Message(line), Session).ready
        BY <2>3 DEF Understood, line
      <3>2. After(Message(line), Session) =
              [initialized |-> After(Message(line), Session).initialized,
               ready |-> After(Message(line), Session).ready]
        BY DEF After
      <3> QED
        BY <2>2, <2>3, <3>1, <3>2, Zenon DEF Session
    <2>4. CASE ~Understood(line)
      <3>1. initialized' = initialized /\ ready' = ready
        BY <2>4 DEF Understood, line
      <3> QED
        BY <2>2, <2>4, <3>1 DEF Session
    <2> QED
      BY <2>3, <2>4
  <1>13. Len(parts') <= MaxMessage
    BY MaxMessageAssumption
  <1>14. /\ Read(input', lines') /\ Session' = SessionBefore(input', lines' + 1)
         /\ stdio' = "open" /\ replies' = AnsweredLines(input', config', lines')
    BY <1>7, <1>11, <1>12
  <1> QED
    BY <1>6, <1>13, <1>14 DEF McpInv

\* The rest of the input is the last line.
LEMMA McpEnd ==
  ASSUME McpInv, EndOfInput, config' = config
  PROVE  McpInv'
  <1>1. /\ stdio = "open" /\ data = <<>> /\ taken = Len(input)
        /\ UNCHANGED <<input, taken, data, parts, lines, initialized, ready>>
        /\ stdio' \in {"ended", "failed"}
    BY DEF EndOfInput
  <1>2. /\ input \in Seq(Bytes) /\ parts \in Seq(Bytes) /\ Len(parts) \in Nat /\ Len(data) = 0 /\ Done \in Nat
        /\ Len(input) \in Nat /\ Done = Len(input) - Len(parts)
        /\ \A i \in 1 .. Len(parts) : parts[i] = input[Done + i] /\ parts[i] # Newline
    BY <1>1 DEF McpInv, Cut, Done
  <1>3. /\ Line(input, lines + 1) = parts /\ lines + 1 = Count(input)
    <2>1. PICK e \in Stops(input) : /\ e = Len(input) + 1 /\ e = Done + Len(parts) + 1
                                    /\ Done + Len(parts) <= Len(input)
      BY <1>2 DEF Stops
    <2>2. e \notin Ends(input)
      BY <1>2, <2>1 DEF Ends
    <2> QED
      BY <1>2, <2>1, <2>2, WholeLine DEF McpInv
  <1>4. Answer(input, config, lines + 1) = IF parts = <<>> THEN <<>> ELSE <<Reply(0, "incomplete")>>
    <2>1. ~(Len(parts) > MaxMessage)
      BY <1>2, MaxMessageAssumption DEF McpInv
    <2> QED
      BY <1>3, <2>1, AnswerIs DEF AnswerTo
  <1>5. replies \o <<>> = replies
        /\ Append(replies, Reply(0, "incomplete")) = replies \o <<Reply(0, "incomplete")>>
    <2>1. Reply(0, "incomplete") \in Replies
      BY DEF Reply, Replies, Codes
    <2>2. replies \in Seq(Replies)
      BY <1>1, LinesCounted, AnsweredNext DEF McpInv
    <2> QED
      BY <2>1, <2>2, AppendIsConcat, ConcatEmptySeq
  <1>6. replies' = replies \o Answer(input, config, lines + 1)
    BY <1>4, <1>5 DEF EndOfInput
  <1>7. replies' = AnsweredLines(input, config, Count(input))
    BY <1>1, <1>3, <1>6, OneAnswerMore
  <1>8. Cut'
    BY <1>1 DEF McpInv, Cut, Done
  <1> QED
    BY <1>1, <1>7, <1>8 DEF McpInv, Session

LEMMA McpInvStep ==
  ASSUME McpInv, McpStep(config.raw, config.broker), config' = config
  PROVE  McpInv'
  <1>1. CASE Segment(config.raw, config.broker)
    BY <1>1, McpTooLong, McpPart, McpLine DEF Segment
  <1> QED
    BY <1>1, McpChunk, McpEnd DEF McpStep

LEMMA McpInvNext == McpInv /\ [Next]_vars => McpInv'
  <1> SUFFICES ASSUME McpInv, [Next]_vars PROVE McpInv'
    OBVIOUS
  <1>1. CASE Stdio
    BY <1>1, McpInvStep DEF Stdio
  <1>2. CASE UNCHANGED <<config, mcpVars>>
    BY <1>2 DEF McpInv, Cut, Done, Session, mcpVars
  <1> QED
    BY <1>1, <1>2 DEF Next, vars, Started, Exit, Stop, LockUnderServer, Rest, Client

\* Into whatever chunks the input is cut, and whatever lines it has, what was
\* written is what a reader of whole lines writes, up to the lines handled.
THEOREM AnsweredLineByLine == Spec => []RepliesAsIfLineByLine
  <1>1. Init => McpInv
    BY McpInvInit
  <1>2. McpInv => RepliesAsIfLineByLine
    <2> SUFFICES ASSUME McpInv PROVE RepliesAsIfLineByLine
      OBVIOUS
    <2>1. Answers(input, config.raw, config.broker) = AnsweredLines(input, config, Count(input))
      BY DEF Answers, AnsweredLines, Answer
    <2>2. lines \in Nat /\ lines <= Count(input) /\ Count(input) \in Nat
      BY LinesCounted DEF McpInv
    <2>3. IsPrefix(replies, AnsweredLines(input, config, Count(input)))
      BY <2>2, AnsweredPrefix DEF McpInv
    <2> QED
      BY <2>1, <2>3 DEF McpInv, RepliesAsIfLineByLine
  <1> QED
    BY <1>1, <1>2, McpInvNext, PTL DEF Spec

--------------------------------------------------------------------------------
(* Sequences of texts. *)

LEMMA FlattenIs ==
  ASSUME NEW S, NEW n \in Nat, NEW s \in [1 .. n -> Seq(S)]
  PROVE  FlattenSeq(s) \in Seq(S)
  <1>1. CASE n = 0
    <2>1. s = <<>>
      BY <1>1
    <2>2. FlattenSeq(s) = <<>>
      BY <2>1, FlattenEmpty, Zenon
    <2> QED
      BY <2>2
  <1>2. CASE n # 0
    <2>1. n - 1 \in Nat /\ s \in [1 .. (n - 1) + 1 -> Seq(S)]
      BY <1>2
    <2> QED
      BY <2>1, FlattenNext
  <1> QED
    BY <1>1, <1>2

LEMMA FlattenOne ==
  ASSUME NEW S, NEW x \in Seq(S)
  PROVE  FlattenSeq(<<x>>) = x
  <1> DEFINE s == [i \in 1 .. 0 + 1 |-> x]
  <1>1. s = <<x>> /\ s \in [1 .. 0 + 1 -> Seq(S)] /\ s[0 + 1] = x
    OBVIOUS
  <1>2. [i \in 1 .. 0 |-> s[i]] = <<>>
    OBVIOUS
  <1> HIDE DEF s
  <1>3. FlattenSeq(s) = FlattenSeq([i \in 1 .. 0 |-> s[i]]) \o s[0 + 1]
    BY <1>1, FlattenNext
  <1>4. FlattenSeq(s) = <<>> \o x
    BY <1>1, <1>2, <1>3, FlattenEmpty, Zenon
  <1>5. <<>> \o x = x
    OBVIOUS
  <1> QED
    BY <1>1, <1>4, <1>5, Zenon

\* r is t without its last member, and u is s \o t, of the length k + 1.
LastOff(Q, s, m, t, k, r, u) ==
    /\ r \in [1 .. m -> Q] /\ \A i \in 1 .. m : r[i] = t[i]
    /\ u \in [1 .. k + 1 -> Q] /\ u = s \o t /\ u[k + 1] = t[m + 1]
    /\ s \o r \in [1 .. k -> Q] /\ \A i \in 1 .. k : u[i] = (s \o r)[i]

LEMMA ConcatAt ==
  ASSUME NEW Q, NEW n \in Nat, NEW s \in [1 .. n -> Q], NEW m \in Nat, NEW t \in [1 .. m + 1 -> Q]
  PROVE  \E k \in Nat : \E r, u : LastOff(Q, s, m, t, k, r, u)
  <1> DEFINE r == [i \in 1 .. m |-> t[i]]
  <1>1. s \in Seq(Q) /\ r \in Seq(Q) /\ t \in Seq(Q) /\ Len(s) = n /\ Len(r) = m /\ Len(t) = m + 1
    OBVIOUS
  <1>9. r \in [1 .. m -> Q]
    OBVIOUS
  <1>0. PICK k \in Nat : k = n + m
    OBVIOUS
  <1>2. /\ s \o t \in Seq(Q) /\ Len(s \o t) = k + 1
        /\ \A i \in 1 .. k + 1 : (s \o t)[i] = IF i <= n THEN s[i] ELSE t[i - n]
    <2>1. Len(s \o t) = n + (m + 1) /\ n + (m + 1) = k + 1
      BY <1>0, <1>1
    <2> HIDE DEF r
    <2>4. s \in Seq(Q) /\ t \in Seq(Q)
      BY <1>1
    <2>5. \A i \in 1 .. Len(s) + Len(t) : (s \o t)[i] = IF i <= Len(s) THEN s[i] ELSE t[i - Len(s)]
      BY <2>4, ConcatProperties, Zenon
    <2>2. \A i \in 1 .. n + (m + 1) : (s \o t)[i] = IF i <= n THEN s[i] ELSE t[i - n]
      BY <1>1, <2>5
    <2>3. s \o t \in Seq(Q)
      BY <2>4, ConcatProperties, Zenon
    <2> QED
      BY <2>1, <2>2, <2>3
  <1>3. /\ s \o r \in Seq(Q) /\ Len(s \o r) = k
        /\ \A i \in 1 .. k : (s \o r)[i] = IF i <= n THEN s[i] ELSE r[i - n]
    <2> HIDE DEF r
    <2> QED
      BY <1>0, <1>1, ConcatProperties
  <1> DEFINE u == s \o t
  <1>4. \A i \in 1 .. k : u[i] = (s \o r)[i]
    BY <1>0, <1>2, <1>3
  <1>5. s \o r \in [1 .. k -> Q]
    <2> DEFINE x == s \o r
    <2>1. x \in Seq(Q) /\ Len(x) = k
      BY <1>3
    <2> HIDE DEF x
    <2>2. x \in [1 .. k -> Q]
      BY <2>1
    <2> QED
      BY <2>2 DEF x
  <1>6. u[k + 1] = t[m + 1]
    BY <1>0, <1>2
  <1>7. u \in [1 .. k + 1 -> Q]
    <2>1. u \in Seq(Q) /\ Len(u) = k + 1
      BY <1>2
    <2> HIDE DEF u
    <2> QED
      BY <2>1
  <1>8. \A i \in 1 .. m : r[i] = t[i]
    OBVIOUS
  <1>10. LastOff(Q, s, m, t, k, r, u)
    BY <1>4, <1>5, <1>6, <1>7, <1>8, <1>9 DEF LastOff
  <1> HIDE DEF u, r
  <1> QED
    BY <1>10

Associates(S) == \A a, b, d \in Seq(S) : (a \o b) \o d = a \o (b \o d)

LEMMA SequencesAssociate ==
  ASSUME NEW S PROVE Associates(S)
  BY ConcatAssociative, SMT DEF Associates

LEMMA FlattenConcat ==
  ASSUME NEW S, NEW n \in Nat, NEW s \in [1 .. n -> Seq(S)]
  PROVE  \A m \in Nat : \A t \in [1 .. m -> Seq(S)] : FlattenSeq(s \o t) = FlattenSeq(s) \o FlattenSeq(t)
  <1> DEFINE T == {m \in Nat : \A t \in [1 .. m -> Seq(S)] :
                      FlattenSeq(s \o t) = FlattenSeq(s) \o FlattenSeq(t)}
  <1>0. FlattenSeq(s) \in Seq(S)
    BY FlattenIs
  <1>1. 0 \in T
    <2> SUFFICES ASSUME NEW t \in [1 .. 0 -> Seq(S)]
                 PROVE  FlattenSeq(s \o t) = FlattenSeq(s) \o FlattenSeq(t)
      OBVIOUS
    <2>1. t = <<>> /\ s \o t = s
      OBVIOUS
    <2>2. FlattenSeq(s) \o <<>> = FlattenSeq(s)
      BY <1>0
    <2> QED
      BY <2>1, <2>2, FlattenEmpty, Zenon
  <1>2. ASSUME NEW m \in Nat, m \in T PROVE m + 1 \in T
    <2> SUFFICES ASSUME NEW t \in [1 .. m + 1 -> Seq(S)]
                 PROVE  FlattenSeq(s \o t) = FlattenSeq(s) \o FlattenSeq(t)
      OBVIOUS
    <2> DEFINE Q == Seq(S)
    <2>1. s \in [1 .. n -> Q] /\ t \in [1 .. m + 1 -> Q]
      OBVIOUS
    <2> HIDE DEF Q
    <2>9. PICK k \in Nat : \E r, u : LastOff(Q, s, m, t, k, r, u)
      BY <2>1, ConcatAt
    <2>2. PICK r, u : LastOff(Q, s, m, t, k, r, u)
      BY <2>9
    <2>8. /\ r = [i \in 1 .. m |-> t[i]] /\ s \o r = [i \in 1 .. k |-> u[i]]
          /\ r \in [1 .. m -> Seq(S)] /\ u \in [1 .. k + 1 -> Seq(S)]
      <3>1. r = [i \in 1 .. m |-> t[i]]
        BY <2>2 DEF LastOff
      <3>2. s \o r = [i \in 1 .. k |-> u[i]]
        <4> DEFINE x == s \o r
        <4>1. x \in [1 .. k -> Q] /\ \A i \in 1 .. k : u[i] = x[i]
          BY <2>2 DEF LastOff
        <4> HIDE DEF x
        <4>2. x = [i \in 1 .. k |-> u[i]]
          BY <4>1
        <4> QED
          BY <4>2 DEF x
      <3> QED
        BY <2>2, <3>1, <3>2 DEF Q, LastOff
    <2>3. FlattenSeq(u) = FlattenSeq(s \o r) \o t[m + 1]
      <3>1. FlattenSeq(u) = FlattenSeq([i \in 1 .. k |-> u[i]]) \o u[k + 1]
        BY <2>8, FlattenNext
      <3> QED
        BY <2>2, <2>8, <3>1, Zenon DEF LastOff
    <2>4. FlattenSeq(s \o r) = FlattenSeq(s) \o FlattenSeq(r)
      BY <1>2, <2>8
    <2>5. FlattenSeq(t) = FlattenSeq(r) \o t[m + 1]
      <3>1. FlattenSeq(t) = FlattenSeq([i \in 1 .. m |-> t[i]]) \o t[m + 1]
        BY FlattenNext
      <3> QED
        BY <2>8, <3>1, Zenon
    <2>6. FlattenSeq(r) \in Seq(S) /\ t[m + 1] \in Seq(S)
      BY <2>8, FlattenIs
    <2>7. (FlattenSeq(s) \o FlattenSeq(r)) \o t[m + 1] = FlattenSeq(s) \o (FlattenSeq(r) \o t[m + 1])
      <3> DEFINE a == FlattenSeq(s)
                 b == FlattenSeq(r)
                 d == t[m + 1]
      <3>1. a \in Seq(S) /\ b \in Seq(S) /\ d \in Seq(S)
        BY <1>0, <2>6
      <3> HIDE DEF a, b, d
      <3>2. Associates(S)
        BY SequencesAssociate, Zenon
      <3>3. (a \o b) \o d = a \o (b \o d)
        BY <3>1, <3>2, Zenon DEF Associates
      <3> QED
        BY <3>3 DEF a, b, d
    <2> QED
      BY <2>2, <2>3, <2>4, <2>5, <2>7, Zenon DEF LastOff
  <1> HIDE DEF T
  <1>3. Nat \subseteq T
    BY <1>1, <1>2, SetInduction
  <1> QED
    BY <1>3 DEF T

\* A sequence is what its one-element pieces join to.
LEMMA FlattenSingles ==
  ASSUME NEW S
  PROVE  \A m \in Nat : \A w \in [1 .. m -> S] : FlattenSeq([i \in 1 .. m |-> <<w[i]>>]) = w
  <1> DEFINE T == {m \in Nat : \A w \in [1 .. m -> S] : FlattenSeq([i \in 1 .. m |-> <<w[i]>>]) = w}
  <1>1. 0 \in T
    BY FlattenEmpty
  <1>2. ASSUME NEW m \in Nat, m \in T PROVE m + 1 \in T
    <2> SUFFICES ASSUME NEW w \in [1 .. m + 1 -> S]
                 PROVE  FlattenSeq([i \in 1 .. m + 1 |-> <<w[i]>>]) = w
      OBVIOUS
    <2> DEFINE s == [i \in 1 .. m + 1 |-> <<w[i]>>]
               v == [i \in 1 .. m |-> w[i]]
    <2>1. s \in [1 .. m + 1 -> Seq(S)] /\ s[m + 1] = <<w[m + 1]>>
      OBVIOUS
    <2>2. v \in [1 .. m -> S] /\ [i \in 1 .. m |-> s[i]] = [i \in 1 .. m |-> <<v[i]>>]
      OBVIOUS
    <2>3. v \o <<w[m + 1]>> = w
      OBVIOUS
    <2> HIDE DEF s, v
    <2>4. FlattenSeq(s) = FlattenSeq([i \in 1 .. m |-> s[i]]) \o s[m + 1]
      BY <2>1, FlattenNext
    <2>5. FlattenSeq([i \in 1 .. m |-> <<v[i]>>]) = v
      BY <1>2, <2>2
    <2> QED
      BY <2>1, <2>2, <2>3, <2>4, <2>5 DEF s
  <1> HIDE DEF T
  <1>3. Nat \subseteq T
    BY <1>1, <1>2, SetInduction
  <1> QED
    BY <1>3 DEF T

\* A function may be defined by recursion over the naturals up to n.
Iterated(f, S, n, a, step) ==
    /\ f \in [0 .. n -> S]
    /\ f[0] = a
    /\ \A i \in 1 .. n : f[i] = step[<<i, f[i - 1]>>]

LEMMA Iterates ==
  ASSUME NEW S, NEW n \in Nat, NEW a \in S, NEW step \in [(1 .. n) \X S -> S]
  PROVE  \E f : Iterated(f, S, n, a, step)
  <1> DEFINE P(m, f) == f[0] = a /\ \A i \in 1 .. m : f[i] = step[<<i, f[i - 1]>>]
             T == {m \in Nat : m <= n => \E f \in [0 .. m -> S] : P(m, f)}
  <1>1. 0 \in T
    <2> DEFINE f == [i \in 0 .. 0 |-> a]
    <2>1. f \in [0 .. 0 -> S] /\ P(0, f)
      OBVIOUS
    <2> QED
      BY <2>1
  <1>2. ASSUME NEW m \in Nat, m \in T PROVE m + 1 \in T
    <2> SUFFICES ASSUME m + 1 <= n PROVE \E f \in [0 .. m + 1 -> S] : P(m + 1, f)
      OBVIOUS
    <2>1. PICK f \in [0 .. m -> S] : P(m, f)
      BY <1>2
    <2> DEFINE x == step[<<m + 1, f[m]>>]
               g == [i \in 0 .. m + 1 |-> IF i = m + 1 THEN x ELSE f[i]]
    <2>2. x \in S
      OBVIOUS
    <2>3. /\ g \in [0 .. m + 1 -> S] /\ g[m + 1] = step[<<m + 1, f[m]>>]
          /\ \A i \in 0 .. m : g[i] = f[i]
      BY <2>2
    <2> HIDE DEF g, x
    <2>4. ASSUME NEW i \in 1 .. m + 1 PROVE g[i] = step[<<i, g[i - 1]>>]
      <3>1. CASE i = m + 1
        BY <3>1, <2>3
      <3>2. CASE i \in 1 .. m
        BY <3>2, <2>1, <2>3
      <3> QED
        BY <3>1, <3>2
    <2> QED
      BY <2>1, <2>3, <2>4
  <1> HIDE DEF T
  <1>3. Nat \subseteq T
    BY <1>1, <1>2, SetInduction
  <1>4. PICK f : f \in [0 .. n -> S] /\ P(n, f)
    BY <1>3 DEF T
  <1>5. Iterated(f, S, n, a, step)
    BY <1>4 DEF Iterated
  <1> QED
    BY <1>5

--------------------------------------------------------------------------------
(* Substitution in a text. *)

\* The references that a text has among its first m tokens, of the names given.
RefsUpTo(text, names, m) == {text[i].n : i \in {j \in 1 .. m : text[j].is = "ref" /\ text[j].n \in names}}

\* The functions that RefsIn chooses from.
Finds(f, text, names) ==
    f = [i \in 0 .. Len(text) |->
            IF i = 0 THEN <<>>
            ELSE IF text[i].is = "ref" /\ text[i].n \in names \ ToSet(f[i - 1])
                 THEN Append(f[i - 1], text[i].n) ELSE f[i - 1]]

LEMMA AppendSet ==
  ASSUME NEW S, NEW s \in Seq(S), NEW e \in S
  PROVE  ToSet(Append(s, e)) = ToSet(s) \cup {e}
  <1>1. /\ Append(s, e) \in Seq(S) /\ Len(Append(s, e)) = Len(s) + 1
        /\ \A i \in 1 .. Len(s) : Append(s, e)[i] = s[i]
        /\ Append(s, e)[Len(s) + 1] = e
    OBVIOUS
  <1> DEFINE a == Append(s, e)
  <1>2. DOMAIN a = 1 .. Len(s) + 1 /\ DOMAIN s = 1 .. Len(s) /\ Len(s) \in Nat
    BY <1>1
  <1> HIDE DEF a
  <1>3. (\A i \in 1 .. Len(s) : a[i] = s[i]) /\ a[Len(s) + 1] = e
    BY <1>1 DEF a
  <1>4. {a[i] : i \in DOMAIN a} = {s[i] : i \in DOMAIN s} \cup {e}
    BY <1>2, <1>3
  <1> QED
    BY <1>4 DEF ToSet, a

LEMMA FindsExists ==
  ASSUME NEW X, NEW text \in Seq(X), NEW names
  PROVE  \E f : Finds(f, text, names)
  <1> DEFINE N == {text[i].n : i \in 1 .. Len(text)}
             S == Seq(N)
             step == [p \in (1 .. Len(text)) \X S |->
                        IF text[p[1]].is = "ref" /\ text[p[1]].n \in names \ ToSet(p[2])
                        THEN Append(p[2], text[p[1]].n) ELSE p[2]]
  <1>1. ASSUME NEW i \in 1 .. Len(text), NEW x \in S
        PROVE  (IF text[i].is = "ref" /\ text[i].n \in names \ ToSet(x)
                THEN Append(x, text[i].n) ELSE x) \in S
    OBVIOUS
  <1>2. <<>> \in S /\ Len(text) \in Nat
    OBVIOUS
  <1>3. step \in [(1 .. Len(text)) \X S -> S]
    BY <1>1
  <1>4. \A i \in 1 .. Len(text) : \A x \in S :
           step[<<i, x>>] = IF text[i].is = "ref" /\ text[i].n \in names \ ToSet(x)
                            THEN Append(x, text[i].n) ELSE x
    OBVIOUS
  <1> HIDE DEF S, step
  <1>5. PICK f \in [0 .. Len(text) -> S] :
           f[0] = <<>> /\ \A i \in 1 .. Len(text) : f[i] = step[<<i, f[i - 1]>>]
    <2> DEFINE n == Len(text)
    <2>1. n \in Nat /\ <<>> \in S /\ step \in [(1 .. n) \X S -> S]
      BY <1>2, <1>3
    <2> HIDE DEF n
    <2>2. PICK f : Iterated(f, S, n, <<>>, step)
      BY <2>1, Iterates
    <2> QED
      BY <2>2 DEF n, Iterated
  <1> DEFINE R(i) == IF i = 0 THEN <<>>
                     ELSE IF text[i].is = "ref" /\ text[i].n \in names \ ToSet(f[i - 1])
                          THEN Append(f[i - 1], text[i].n) ELSE f[i - 1]
  <1>6. ASSUME NEW i \in 0 .. Len(text) PROVE f[i] = R(i)
    <2>1. CASE i = 0
      BY <1>5, <2>1
    <2>2. CASE i # 0
      <3>1. i \in 1 .. Len(text) /\ f[i - 1] \in S
        BY <1>2, <2>2
      <3> QED
        BY <1>4, <1>5, <2>2, <3>1
    <2> QED
      BY <2>1, <2>2
  <1>7. f = [i \in 0 .. Len(text) |-> R(i)]
    <2> HIDE DEF R
    <2> QED
      BY <1>5, <1>6
  <1>8. Finds(f, text, names)
    BY <1>7 DEF Finds
  <1> QED
    BY <1>8

\* RefsIn has all names that are to be found, and no others.
LEMMA RefsInIs ==
  ASSUME NEW X, NEW text \in Seq(X), NEW names
  PROVE  /\ RefsIn(text, names) \in Seq(RefsUpTo(text, names, Len(text)))
         /\ ToSet(RefsIn(text, names)) = RefsUpTo(text, names, Len(text))
  <1> DEFINE f == CHOOSE g : Finds(g, text, names)
             R(i) == IF i = 0 THEN <<>>
                     ELSE IF text[i].is = "ref" /\ text[i].n \in names \ ToSet(f[i - 1])
                          THEN Append(f[i - 1], text[i].n) ELSE f[i - 1]
  <1>1. Finds(f, text, names)
    BY FindsExists
  <1>2. RefsIn(text, names) = f[Len(text)]
    BY DEF RefsIn, Finds
  <1>3. Len(text) \in Nat
    OBVIOUS
  <1> HIDE DEF f
  <1>4. f = [i \in 0 .. Len(text) |-> R(i)]
    BY <1>1 DEF Finds
  <1>5. \A i \in 0 .. Len(text) : f[i] = R(i)
    <2> HIDE DEF R
    <2> QED
      BY <1>4
  <1> DEFINE U(m) == RefsUpTo(text, names, m)
             T == {m \in Nat : m <= Len(text) => f[m] \in Seq(U(m)) /\ ToSet(f[m]) = U(m)}
  <1>6. 0 \in T
    <2>1. f[0] = <<>>
      BY <1>3, <1>5
    <2>2. U(0) = {} /\ ToSet(<<>>) = {}
      BY DEF RefsUpTo, ToSet
    <2> HIDE DEF U
    <2>3. f[0] \in Seq(U(0))
      BY <2>1
    <2>4. ToSet(f[0]) = U(0)
      BY <2>1, <2>2, Zenon
    <2> QED
      BY <2>3, <2>4
  <1>7. ASSUME NEW m \in Nat, m \in T PROVE m + 1 \in T
    <2> SUFFICES ASSUME m + 1 <= Len(text)
                 PROVE  f[m + 1] \in Seq(U(m + 1)) /\ ToSet(f[m + 1]) = U(m + 1)
      OBVIOUS
    <2>1. f[m] \in Seq(U(m)) /\ ToSet(f[m]) = U(m)
      BY <1>7
    <2>2. f[m + 1] = IF text[m + 1].is = "ref" /\ text[m + 1].n \in names \ ToSet(f[m])
                     THEN Append(f[m], text[m + 1].n) ELSE f[m]
      BY <1>3, <1>5
    <2>3. U(m + 1) = U(m) \cup (IF text[m + 1].is = "ref" /\ text[m + 1].n \in names
                                THEN {text[m + 1].n} ELSE {})
      BY DEF RefsUpTo
    <2> HIDE DEF U
    <2>4. f[m] \in Seq(U(m + 1))
      BY <2>1, <2>3
    <2>5. CASE text[m + 1].is = "ref" /\ text[m + 1].n \in names \ ToSet(f[m])
      <3>1. text[m + 1].n \in U(m + 1) /\ f[m + 1] = Append(f[m], text[m + 1].n)
        BY <2>2, <2>3, <2>5
      <3>2. ToSet(f[m + 1]) = ToSet(f[m]) \cup {text[m + 1].n}
        BY <2>4, <3>1, AppendSet
      <3> QED
        BY <2>1, <2>3, <2>4, <2>5, <3>1, <3>2
    <2>6. CASE ~(text[m + 1].is = "ref" /\ text[m + 1].n \in names \ ToSet(f[m]))
      <3>1. f[m + 1] = f[m]
        BY <2>2, <2>6
      <3>2. U(m + 1) = U(m)
        BY <2>1, <2>3, <2>6
      <3> QED
        BY <2>1, <3>1, <3>2
    <2> QED
      BY <2>5, <2>6
  <1> HIDE DEF T, U
  <1>8. Nat \subseteq T
    BY <1>6, <1>7, SetInduction
  <1> QED
    BY <1>2, <1>3, <1>8 DEF T, U

\* A text without references and patterns is put in as it is.
PlainText(v) == \A i \in DOMAIN v : v[i].is = "plain"

Pieces(text, n, v) == [i \in 1 .. Len(text) |-> IF text[i] = Ref(n) THEN v ELSE <<text[i]>>]

LEMMA ReplaceIs ==
  ASSUME NEW X, NEW text \in Seq(X), NEW n, NEW v \in Seq(X), PlainText(v)
  PROVE  /\ ReplaceRefs(text, n, v) = FlattenSeq(Pieces(text, n, v))
         /\ Pieces(text, n, v) \in [1 .. Len(text) -> Seq(X)]
         /\ ReplaceRefs(text, n, v) \in Seq(X)
  <1>1. Expanded(v, n) = v
    <2>1. \A i \in DOMAIN v : v[i] # Pattern
      BY DEF PlainText, Pattern
    <2> QED
      BY <2>1 DEF Expanded
  <1>2. Pieces(text, n, v) \in [1 .. Len(text) -> Seq(X)]
    <2>1. ASSUME NEW i \in 1 .. Len(text)
          PROVE  (IF text[i] = Ref(n) THEN v ELSE <<text[i]>>) \in Seq(X)
      OBVIOUS
    <2> QED
      BY <2>1 DEF Pieces
  <1>3. ReplaceRefs(text, n, v) = FlattenSeq(Pieces(text, n, v))
    <2>1. DOMAIN text = 1 .. Len(text)
      OBVIOUS
    <2> QED
      BY <1>1, <2>1 DEF ReplaceRefs, Pieces
  <1>4. Len(text) \in Nat
    OBVIOUS
  <1> QED
    BY <1>2, <1>3, <1>4, FlattenIs

LEMMA ReplaceConcat ==
  ASSUME NEW X, NEW a \in Seq(X), NEW b \in Seq(X), NEW n, NEW v \in Seq(X), PlainText(v)
  PROVE  ReplaceRefs(a \o b, n, v) = ReplaceRefs(a, n, v) \o ReplaceRefs(b, n, v)
  <1> DEFINE P(x) == Pieces(x, n, v)
  <1>1. a \o b \in Seq(X) /\ Len(a \o b) = Len(a) + Len(b) /\ Len(a) \in Nat /\ Len(b) \in Nat
    OBVIOUS
  <1>2. /\ P(a) \in [1 .. Len(a) -> Seq(X)] /\ P(b) \in [1 .. Len(b) -> Seq(X)]
        /\ P(a \o b) \in [1 .. Len(a) + Len(b) -> Seq(X)]
    BY <1>1, ReplaceIs
  <1>3. P(a \o b) = P(a) \o P(b)
    <2> DEFINE Q == Seq(X)
               p == P(a)
               q == P(b)
               r == P(a \o b)
    <2>1. /\ \A i \in 1 .. Len(a) + Len(b) :
                r[i] = IF (a \o b)[i] = Ref(n) THEN v ELSE <<(a \o b)[i]>>
          /\ \A i \in 1 .. Len(a) : p[i] = IF a[i] = Ref(n) THEN v ELSE <<a[i]>>
          /\ \A i \in 1 .. Len(b) : q[i] = IF b[i] = Ref(n) THEN v ELSE <<b[i]>>
      BY <1>1 DEF Pieces
    <2>2. p \in [1 .. Len(a) -> Q] /\ q \in [1 .. Len(b) -> Q] /\ r \in [1 .. Len(a) + Len(b) -> Q]
      BY <1>2
    <2> HIDE DEF Q, p, q, r
    <2>3. p \in Seq(Q) /\ q \in Seq(Q) /\ Len(p) = Len(a) /\ Len(q) = Len(b)
      <3>1. PICK k \in Nat, l \in Nat : k = Len(a) /\ l = Len(b)
        BY <1>1
      <3>2. p \in [1 .. k -> Q] /\ q \in [1 .. l -> Q]
        BY <2>2, <3>1
      <3>3. p \in Seq(Q) /\ q \in Seq(Q) /\ Len(p) = k /\ Len(q) = l
        BY <3>2
      <3> QED
        BY <3>1, <3>3
    <2>4. /\ p \o q \in Seq(Q) /\ Len(p \o q) = Len(p) + Len(q)
          /\ \A i \in 1 .. Len(p) + Len(q) : (p \o q)[i] = IF i <= Len(p) THEN p[i] ELSE q[i - Len(p)]
      BY <2>3, ConcatProperties
    <2>5. \A i \in 1 .. Len(a) + Len(b) : (a \o b)[i] = IF i <= Len(a) THEN a[i] ELSE b[i - Len(a)]
      BY ConcatProperties
    <2>6. ASSUME NEW i \in 1 .. Len(a) + Len(b) PROVE r[i] = (p \o q)[i]
      <3>1. CASE i <= Len(a)
        <4>1. (p \o q)[i] = p[i] /\ (a \o b)[i] = a[i] /\ i \in 1 .. Len(a)
          BY <1>1, <2>3, <2>4, <2>5, <3>1
        <4> QED
          BY <2>1, <4>1
      <3>2. CASE ~(i <= Len(a))
        <4>1. (p \o q)[i] = q[i - Len(a)] /\ (a \o b)[i] = b[i - Len(a)] /\ i - Len(a) \in 1 .. Len(b)
          BY <1>1, <2>3, <2>4, <2>5, <3>2
        <4> QED
          BY <2>1, <4>1
      <3> QED
        BY <3>1, <3>2
    <2>7. r = p \o q
      <3> DEFINE x == p \o q
      <3>1. x \in Seq(Q) /\ Len(x) = Len(a) + Len(b)
        BY <2>3, <2>4
      <3>2. \A i \in 1 .. Len(a) + Len(b) : r[i] = x[i]
        BY <2>6
      <3> HIDE DEF x
      <3>3. r = x
        BY <2>2, <3>1, <3>2
      <3> QED
        BY <3>3 DEF x
    <2> QED
      BY <2>7 DEF p, q, r
  <1>4. /\ ReplaceRefs(a \o b, n, v) = FlattenSeq(P(a \o b))
        /\ ReplaceRefs(a, n, v) = FlattenSeq(P(a))
        /\ ReplaceRefs(b, n, v) = FlattenSeq(P(b))
    <2> DEFINE ab == a \o b
    <2>1. ab \in Seq(X)
      BY <1>1
    <2> HIDE DEF ab
    <2>2. ReplaceRefs(ab, n, v) = FlattenSeq(P(ab))
      BY <2>1, ReplaceIs
    <2>3. /\ ReplaceRefs(a, n, v) = FlattenSeq(P(a))
          /\ ReplaceRefs(b, n, v) = FlattenSeq(P(b))
      BY ReplaceIs
    <2> QED
      BY <2>2, <2>3 DEF ab
  <1> HIDE DEF P
  <1>5. FlattenSeq(P(a) \o P(b)) = FlattenSeq(P(a)) \o FlattenSeq(P(b))
    <2> DEFINE p == P(a)
               q == P(b)
    <2>1. PICK k \in Nat, l \in Nat : k = Len(a) /\ l = Len(b)
      BY <1>1
    <2>2. p \in [1 .. k -> Seq(X)] /\ q \in [1 .. l -> Seq(X)]
      BY <1>2, <2>1
    <2> HIDE DEF p, q
    <2>3. \A m \in Nat : \A t \in [1 .. m -> Seq(X)] : FlattenSeq(p \o t) = FlattenSeq(p) \o FlattenSeq(t)
      BY <2>2, FlattenConcat, Zenon
    <2>4. FlattenSeq(p \o q) = FlattenSeq(p) \o FlattenSeq(q)
      BY <2>2, <2>3, Zenon
    <2> QED
      BY <2>4 DEF p, q
  <1> QED
    BY <1>3, <1>4, <1>5

\* A reference is replaced in two texts as in the text that they make together.
Distributes(X, n, v) ==
    \A a, b \in Seq(X) : ReplaceRefs(a \o b, n, v) = ReplaceRefs(a, n, v) \o ReplaceRefs(b, n, v)

LEMMA ReplaceDistributes ==
  ASSUME NEW X, NEW n, NEW v \in Seq(X), PlainText(v)
  PROVE  Distributes(X, n, v)
  BY ReplaceConcat, SMT DEF Distributes

\* Without the reference, a text stays as it is.
LEMMA ReplaceNone ==
  ASSUME NEW X, NEW text \in Seq(X), NEW n, NEW v \in Seq(X), PlainText(v),
         \A i \in DOMAIN text : text[i] # Ref(n)
  PROVE  ReplaceRefs(text, n, v) = text
  <1>1. Len(text) \in Nat /\ text \in [1 .. Len(text) -> X]
    OBVIOUS
  <1>2. Pieces(text, n, v) = [i \in 1 .. Len(text) |-> <<text[i]>>]
    BY <1>1 DEF Pieces
  <1>3. FlattenSeq([i \in 1 .. Len(text) |-> <<text[i]>>]) = text
    BY <1>1, FlattenSingles
  <1>4. ReplaceRefs(text, n, v) = FlattenSeq(Pieces(text, n, v))
    BY ReplaceIs
  <1> QED
    BY <1>2, <1>3, <1>4

\* The reference alone becomes the value.
LEMMA ReplaceRef ==
  ASSUME NEW X, NEW n, NEW v \in Seq(X), PlainText(v), Ref(n) \in X
  PROVE  ReplaceRefs(<<Ref(n)>>, n, v) = v
  <1> DEFINE t == <<Ref(n)>>
  <1>1. t \in Seq(X) /\ Len(t) = 1 /\ t[1] = Ref(n)
    OBVIOUS
  <1> HIDE DEF t
  <1>2. ReplaceRefs(t, n, v) = FlattenSeq(Pieces(t, n, v))
    BY <1>1, ReplaceIs
  <1>3. Pieces(t, n, v) = <<v>>
    BY <1>1 DEF Pieces
  <1>4. FlattenSeq(<<v>>) = v
    BY FlattenOne
  <1> QED
    BY <1>2, <1>3, <1>4 DEF t

\* The text with the values of the names in N, as far as they were told, put into
\* its first m tokens.
Piece(text, told, N, i) ==
    IF Told(told, text[i]) /\ text[i].n \in N THEN told[text[i].n].value ELSE <<text[i]>>

Part(text, told, N, m) == FlattenSeq([i \in 1 .. m |-> Piece(text, told, N, i)])

PlainTold(told, X) ==
    \A n \in DOMAIN told : told[n].code = "ok" => told[n].value \in Seq(X) /\ PlainText(told[n].value)

Tokens(text) == \A i \in DOMAIN text : text[i] = [is |-> text[i].is, n |-> text[i].n]

LEMMA PieceIs ==
  ASSUME NEW X, NEW text \in Seq(X), NEW told, PlainTold(told, X), NEW N, NEW i \in 1 .. Len(text)
  PROVE  Piece(text, told, N, i) \in Seq(X)
  BY DEF Piece, Told, PlainTold

LEMMA PartNext ==
  ASSUME NEW X, NEW text \in Seq(X), NEW told, PlainTold(told, X), NEW N
  PROVE  /\ Part(text, told, N, 0) = <<>>
         /\ \A m \in 0 .. Len(text) : Part(text, told, N, m) \in Seq(X)
         /\ \A m \in Nat : m + 1 <= Len(text) =>
               Part(text, told, N, m + 1) = Part(text, told, N, m) \o Piece(text, told, N, m + 1)
  <1>0. Len(text) \in Nat
    OBVIOUS
  <1>1. Part(text, told, N, 0) = <<>>
    <2>1. [i \in 1 .. 0 |-> Piece(text, told, N, i)] = <<>>
      OBVIOUS
    <2> QED
      BY <2>1, FlattenEmpty DEF Part
  <1>2. ASSUME NEW m \in 0 .. Len(text)
        PROVE  /\ [i \in 1 .. m |-> Piece(text, told, N, i)] \in [1 .. m -> Seq(X)]
               /\ Part(text, told, N, m) \in Seq(X)
    <2>1. [i \in 1 .. m |-> Piece(text, told, N, i)] \in [1 .. m -> Seq(X)]
      BY <1>0, PieceIs
    <2> QED
      BY <1>0, <2>1, FlattenIs DEF Part
  <1>3. ASSUME NEW m \in Nat, m + 1 <= Len(text)
        PROVE  Part(text, told, N, m + 1) = Part(text, told, N, m) \o Piece(text, told, N, m + 1)
    <2> DEFINE s == [i \in 1 .. m + 1 |-> Piece(text, told, N, i)]
    <2>1. s \in [1 .. m + 1 -> Seq(X)]
      BY <1>0, <1>2, <1>3
    <2>2. s[m + 1] = Piece(text, told, N, m + 1) /\ \A i \in 1 .. m : s[i] = Piece(text, told, N, i)
      OBVIOUS
    <2> HIDE DEF s
    <2>3. FlattenSeq(s) = FlattenSeq([i \in 1 .. m |-> s[i]]) \o s[m + 1]
      BY <2>1, FlattenNext
    <2>4. [i \in 1 .. m |-> s[i]] = [i \in 1 .. m |-> Piece(text, told, N, i)]
      BY <2>2
    <2>5. FlattenSeq(s) = Part(text, told, N, m + 1)
      BY DEF s, Part
    <2> QED
      BY <2>2, <2>3, <2>4, <2>5, Zenon DEF Part
  <1> QED
    BY <1>1, <1>2, <1>3

\* One replacement more.
LEMMA ReplacePiece ==
  ASSUME NEW X, NEW text \in Seq(X), Tokens(text), NEW told, PlainTold(told, X), NEW N,
         NEW n \in DOMAIN told, told[n].code = "ok", NEW i \in 1 .. Len(text)
  PROVE  ReplaceRefs(Piece(text, told, N, i), n, told[n].value) = Piece(text, told, N \cup {n}, i)
  <1> DEFINE v == told[n].value
             t == text[i]
  <1>0. v \in Seq(X) /\ PlainText(v) /\ t \in X /\ t = [is |-> t.is, n |-> t.n]
    BY DEF PlainTold, Tokens
  <1>1. CASE Told(told, t) /\ t.n \in N
    <2> DEFINE w == told[t.n].value
    <2>1. Piece(text, told, N, i) = w /\ Piece(text, told, N \cup {n}, i) = w
      BY <1>1 DEF Piece
    <2>2. w \in Seq(X) /\ PlainText(w)
      BY <1>1 DEF Told, PlainTold
    <2>3. \A j \in DOMAIN w : w[j] # Ref(n)
      BY <2>2 DEF PlainText, Ref
    <2> HIDE DEF w, v
    <2>4. ReplaceRefs(w, n, v) = w
      BY <1>0, <2>2, <2>3, ReplaceNone
    <2> QED
      BY <2>1, <2>4 DEF v
  <1>2. CASE ~(Told(told, t) /\ t.n \in N) /\ t = Ref(n)
    <2>1. Told(told, t) /\ t.n = n
      BY <1>2 DEF Told, Ref
    <2>2. Piece(text, told, N, i) = <<Ref(n)>> /\ Piece(text, told, N \cup {n}, i) = v
      BY <1>2, <2>1 DEF Piece
    <2>3. Ref(n) \in X
      BY <1>0, <1>2
    <2> HIDE DEF v
    <2>4. ReplaceRefs(<<Ref(n)>>, n, v) = v
      BY <1>0, <2>3, ReplaceRef
    <2> QED
      BY <2>2, <2>4 DEF v
  <1>3. CASE ~(Told(told, t) /\ t.n \in N) /\ t # Ref(n)
    <2>1. ~(Told(told, t) /\ t.n \in N \cup {n})
      BY <1>0, <1>3 DEF Told, Ref
    <2>2. Piece(text, told, N, i) = <<t>> /\ Piece(text, told, N \cup {n}, i) = <<t>>
      BY <1>3, <2>1 DEF Piece
    <2> DEFINE x == <<t>>
    <2>3. x \in Seq(X) /\ \A j \in DOMAIN x : x[j] # Ref(n)
      BY <1>0, <1>3
    <2> HIDE DEF v, x
    <2>4. ReplaceRefs(x, n, v) = x
      BY <1>0, <2>3, ReplaceNone
    <2> QED
      BY <2>2, <2>4 DEF v, x
  <1> QED
    BY <1>1, <1>2, <1>3

LEMMA ReplacePart ==
  ASSUME NEW X, NEW text \in Seq(X), Tokens(text), NEW told, PlainTold(told, X), NEW N,
         NEW n \in DOMAIN told, told[n].code = "ok"
  PROVE  ReplaceRefs(Part(text, told, N, Len(text)), n, told[n].value)
            = Part(text, told, N \cup {n}, Len(text))
  <1> DEFINE v == told[n].value
             A(m) == Part(text, told, N, m)
             B(m) == Part(text, told, N \cup {n}, m)
             T == {m \in Nat : m <= Len(text) => ReplaceRefs(A(m), n, v) = B(m)}
  <1>0. v \in Seq(X) /\ PlainText(v) /\ Len(text) \in Nat
    BY DEF PlainTold
  <1>1. 0 \in T
    <2>1. A(0) = <<>> /\ B(0) = <<>>
      BY PartNext
    <2> DEFINE e == <<>>
    <2>2. e \in Seq(X) /\ \A i \in DOMAIN e : e[i] # Ref(n)
      OBVIOUS
    <2> HIDE DEF A, B, v, e
    <2>3. ReplaceRefs(e, n, v) = e
      BY <1>0, <2>2, ReplaceNone
    <2> QED
      BY <2>1, <2>3 DEF e
  <1>2. ASSUME NEW m \in Nat, m \in T PROVE m + 1 \in T
    <2> SUFFICES ASSUME m + 1 <= Len(text) PROVE ReplaceRefs(A(m + 1), n, v) = B(m + 1)
      OBVIOUS
    <2> DEFINE a == Piece(text, told, N, m + 1)
               b == Piece(text, told, N \cup {n}, m + 1)
    <2>1. m + 1 \in 1 .. Len(text) /\ m \in 0 .. Len(text)
      BY <1>0
    <2>2. A(m + 1) = A(m) \o a /\ B(m + 1) = B(m) \o b /\ A(m) \in Seq(X)
      BY <2>1, PartNext
    <2>3. a \in Seq(X) /\ ReplaceRefs(a, n, v) = b
      BY <2>1, PieceIs, ReplacePiece
    <2>4. ReplaceRefs(A(m), n, v) = B(m)
      BY <1>2, <2>1
    <2> HIDE DEF A, B, v, a, b
    <2>5. ReplaceRefs(A(m) \o a, n, v) = ReplaceRefs(A(m), n, v) \o ReplaceRefs(a, n, v)
      <3>1. Distributes(X, n, v)
        BY <1>0, ReplaceDistributes, Zenon
      <3>2. A(m) \in Seq(X) /\ a \in Seq(X)
        BY <2>2, <2>3
      <3> QED
        BY <3>1, <3>2, Zenon DEF Distributes
    <2> QED
      BY <2>2, <2>3, <2>4, <2>5
  <1> HIDE DEF T
  <1>3. Nat \subseteq T
    BY <1>1, <1>2, SetInduction
  <1> HIDE DEF A, B, v
  <1>4. ReplaceRefs(A(Len(text)), n, v) = B(Len(text))
    BY <1>0, <1>3 DEF T
  <1> QED
    BY <1>4 DEF A, B, v

\* The texts after each of the replacements that InTurn makes.
Afters(f, text, told, refs) ==
    f = [i \in 0 .. Len(refs) |->
            IF i = 0 THEN text
            ELSE IF told[refs[i]].code = "ok" THEN ReplaceRefs(f[i - 1], refs[i], told[refs[i]].value)
                 ELSE f[i - 1]]

LEMMA AftersExists ==
  ASSUME NEW X, NEW text \in Seq(X), NEW told, PlainTold(told, X), NEW refs \in Seq(DOMAIN told)
  PROVE  \E f : Afters(f, text, told, refs)
  <1> DEFINE S == Seq(X)
             n == Len(refs)
             next(i, x) == IF told[refs[i]].code = "ok" THEN ReplaceRefs(x, refs[i], told[refs[i]].value)
                           ELSE x
             step == [p \in (1 .. n) \X S |-> next(p[1], p[2])]
  <1>1. n \in Nat /\ text \in S
    OBVIOUS
  <1>2. ASSUME NEW i \in 1 .. n, NEW x \in S PROVE next(i, x) \in S
    <2>1. refs[i] \in DOMAIN told
      OBVIOUS
    <2>2. CASE told[refs[i]].code = "ok"
      <3>1. told[refs[i]].value \in Seq(X) /\ PlainText(told[refs[i]].value)
        BY <2>1, <2>2 DEF PlainTold
      <3>2. ReplaceRefs(x, refs[i], told[refs[i]].value) \in Seq(X)
        BY <3>1, ReplaceIs
      <3> QED
        BY <2>2, <3>2
    <2> QED
      BY <2>2
  <1>3. step \in [(1 .. n) \X S -> S] /\ \A i \in 1 .. n : \A x \in S : step[<<i, x>>] = next(i, x)
    <2> HIDE DEF S, n, next
    <2> QED
      BY <1>2
  <1> HIDE DEF step, n, S
  <1>4. PICK f : Iterated(f, S, n, text, step)
    BY <1>1, <1>3, Iterates
  <1> DEFINE R(i) == IF i = 0 THEN text ELSE next(i, f[i - 1])
  <1>5. ASSUME NEW i \in 0 .. n PROVE f[i] = R(i)
    <2> HIDE DEF next
    <2>1. CASE i = 0
      BY <1>4, <2>1 DEF Iterated
    <2>2. CASE i # 0
      <3>1. i \in 1 .. n /\ f[i - 1] \in S /\ f[i] = step[<<i, f[i - 1]>>]
        BY <1>1, <1>4, <2>2 DEF Iterated
      <3> QED
        BY <1>3, <2>2, <3>1
    <2> QED
      BY <2>1, <2>2
  <1>6. f = [i \in 0 .. n |-> R(i)]
    <2> HIDE DEF R
    <2> QED
      BY <1>4, <1>5 DEF Iterated
  <1>7. Afters(f, text, told, refs)
    BY <1>6 DEF Afters, n
  <1> QED
    BY <1>7

\* With plain values, one replacement after another is one pass.
LEMMA InTurnIsOnePass ==
  ASSUME NEW X, NEW text \in Seq(X), Tokens(text), NEW told, PlainTold(told, X)
  PROVE  InTurn(text, told) = OnePass(text, told)
  <1> DEFINE refs == RefsIn(text, DOMAIN told)
             f == CHOOSE g : Afters(g, text, told, refs)
             N(m) == {refs[j] : j \in 1 .. m}
             P(m) == Part(text, told, N(m), Len(text))
             R(i) == IF i = 0 THEN text
                     ELSE IF told[refs[i]].code = "ok"
                          THEN ReplaceRefs(f[i - 1], refs[i], told[refs[i]].value)
                          ELSE f[i - 1]
  <1>1. /\ refs \in Seq(DOMAIN told) /\ Len(refs) \in Nat
        /\ ToSet(refs) = RefsUpTo(text, DOMAIN told, Len(text))
    <2>1. RefsUpTo(text, DOMAIN told, Len(text)) \subseteq DOMAIN told
      BY DEF RefsUpTo
    <2>2. /\ refs \in Seq(RefsUpTo(text, DOMAIN told, Len(text)))
          /\ ToSet(refs) = RefsUpTo(text, DOMAIN told, Len(text))
      BY RefsInIs
    <2> HIDE DEF refs
    <2> QED
      BY <2>1, <2>2
  <1>2. InTurn(text, told) = f[Len(refs)]
    BY DEF InTurn, Afters
  <1> HIDE DEF refs
  <1>3. Afters(f, text, told, refs)
    BY <1>1, AftersExists
  <1> HIDE DEF f
  <1>4. f = [i \in 0 .. Len(refs) |-> R(i)]
    BY <1>3 DEF Afters
  <1>5. \A i \in 0 .. Len(refs) : f[i] = R(i)
    <2> HIDE DEF R
    <2> QED
      BY <1>4
  <1>6. P(0) = text
    <2>1. N(0) = {}
      OBVIOUS
    <2>2. [i \in 1 .. Len(text) |-> Piece(text, told, N(0), i)] = [i \in 1 .. Len(text) |-> <<text[i]>>]
      BY <2>1 DEF Piece
    <2>3. Len(text) \in Nat /\ text \in [1 .. Len(text) -> X]
      OBVIOUS
    <2>4. FlattenSeq([i \in 1 .. Len(text) |-> <<text[i]>>]) = text
      BY <2>3, FlattenSingles
    <2> QED
      BY <2>2, <2>4, Zenon DEF Part
  <1> DEFINE T == {m \in Nat : m <= Len(refs) => f[m] = P(m)}
  <1>7. 0 \in T
    <2> HIDE DEF P
    <2> QED
      BY <1>1, <1>5, <1>6
  <1>8. ASSUME NEW m \in Nat, m \in T PROVE m + 1 \in T
    <2> SUFFICES ASSUME m + 1 <= Len(refs) PROVE f[m + 1] = P(m + 1)
      OBVIOUS
    <2> DEFINE n == refs[m + 1]
    <2>1. n \in DOMAIN told /\ N(m + 1) = N(m) \cup {n}
      BY <1>1
    <2>2. f[m] = P(m) /\ f[m + 1] = IF told[n].code = "ok" THEN ReplaceRefs(f[m], n, told[n].value) ELSE f[m]
      <3>1. m \in 0 .. Len(refs) /\ m + 1 \in 0 .. Len(refs) /\ (m + 1) - 1 = m /\ m + 1 # 0
        BY <1>1
      <3>2. f[m] = P(m)
        BY <1>8, <3>1
      <3>3. f[m + 1] = R(m + 1)
        BY <1>5, <3>1
      <3> HIDE DEF P
      <3> QED
        BY <3>1, <3>2, <3>3
    <2> HIDE DEF n, N
    <2>3. CASE told[n].code = "ok"
      <3>1. ReplaceRefs(Part(text, told, N(m), Len(text)), n, told[n].value)
               = Part(text, told, N(m) \cup {n}, Len(text))
        BY <2>1, <2>3, ReplacePart
      <3> QED
        BY <2>1, <2>2, <2>3, <3>1
    <2>4. CASE told[n].code # "ok"
      <3>1. \A i \in 1 .. Len(text) : Piece(text, told, N(m) \cup {n}, i) = Piece(text, told, N(m), i)
        BY <2>4 DEF Piece, Told
      <3>2. P(m + 1) = P(m)
        BY <2>1, <3>1 DEF Part
      <3> QED
        BY <2>2, <2>4, <3>2
    <2> QED
      BY <2>3, <2>4
  <1> HIDE DEF T
  <1>9. Nat \subseteq T
    BY <1>7, <1>8, SetInduction
  <1>10. f[Len(refs)] = P(Len(refs))
    BY <1>1, <1>9 DEF T
  <1>11. P(Len(refs)) = OnePass(text, told)
    <2>1. N(Len(refs)) = RefsUpTo(text, DOMAIN told, Len(text))
      BY <1>1 DEF ToSet
    <2>2. \A i \in 1 .. Len(text) :
             Told(told, text[i]) => text[i].n \in RefsUpTo(text, DOMAIN told, Len(text))
      BY DEF RefsUpTo, Told
    <2>3. DOMAIN text = 1 .. Len(text)
      OBVIOUS
    <2>4. [i \in 1 .. Len(text) |-> Piece(text, told, N(Len(refs)), i)]
             = [i \in DOMAIN text |->
                  IF Told(told, text[i]) THEN told[text[i].n].value ELSE <<text[i]>>]
      BY <2>1, <2>2, <2>3 DEF Piece
    <2>5. OnePass(text, told) = FlattenSeq([i \in DOMAIN text |->
                  IF Told(told, text[i]) THEN told[text[i].n].value ELSE <<text[i]>>])
      BY DEF OnePass
    <2> HIDE DEF N
    <2> QED
      BY <2>4, <2>5 DEF Part
  <1> QED
    BY <1>2, <1>10, <1>11

--------------------------------------------------------------------------------
(* The fields that each action changes. *)

\* The fields of a call and of a reply.
CallFields == {"state", "op", "texts", "at", "asked", "out", "seen", "calm"}
ReplyFields == {"query", "server", "state", "code", "value"}

Shape ==
    /\ DOMAIN call = AgentCalls
    /\ \A c \in AgentCalls : call[c] # Idle =>
          /\ DOMAIN call[c] = CallFields
          /\ \A k \in DOMAIN call[c].asked : DOMAIN call[c].asked[k] = ReplyFields

Others(c) == \A d \in AgentCalls \ {c} : call'[d] = call[d]

\* Nothing of the call c changes but what it asked, or but its result.
Keeps(c, fields) == \A f \in CallFields \ fields : call'[c][f] = call[c][f]

LEMMA ShapeKept ==
  ASSUME Shape, NEW c \in AgentCalls, DOMAIN call' = AgentCalls, Others(c),
         DOMAIN call'[c] = CallFields,
         \A k \in DOMAIN call'[c].asked : DOMAIN call'[c].asked[k] = ReplyFields
  PROVE  Shape' /\ call'[c] # Idle
  <1>1. ASSUME NEW d \in AgentCalls, call'[d] # Idle'
        PROVE  /\ DOMAIN call'[d] = CallFields
               /\ \A k \in DOMAIN call'[d].asked : DOMAIN call'[d].asked[k] = ReplyFields
    <2>1. CASE d = c
      BY <2>1
    <2>2. CASE d # c
      <3>1. call'[d] = call[d] /\ call[d] # Idle
        BY <1>1, <2>2 DEF Others, Idle
      <3> QED
        BY <3>1 DEF Shape
    <2> QED
      BY <2>1, <2>2
  <1> QED
    BY <1>1 DEF Shape, CallFields, Idle

LEMMA BeginSets ==
  ASSUME Shape, NEW c \in AgentCalls, Begin(c)
  PROVE  /\ Others(c) /\ Shape' /\ call[c] = Idle /\ call'[c] # Idle
         /\ call'[c].asked = <<>>
         /\ UNCHANGED <<cache, host, settings, loaded, server, gateway, stored, changes>>
         /\ \E op \in Ops(host) :
               \E texts \in IF op \in {"status", "list"} THEN {<< <<>> >>}
                    ELSE IF op = "one" THEN {<< <<Ref(n)>> >> : n \in Names}
                    ELSE {m \in Messages[c] : Len(m) = 1 \/ host \in Several} :
                 call'[c] = [state |-> IF Gate(op) THEN "done" ELSE "open", op |-> op, texts |-> texts,
                        at |-> 1, asked |-> <<>>, out |-> <<>>,
                        seen |-> gateway = "unlocked", calm |-> gateway = "unlocked"]
  <1>1. PICK op \in Ops(host) :
               \E texts \in IF op \in {"status", "list"} THEN {<< <<>> >>}
                    ELSE IF op = "one" THEN {<< <<Ref(n)>> >> : n \in Names}
                    ELSE {m \in Messages[c] : Len(m) = 1 \/ host \in Several} :
                 call' = [call EXCEPT ![c] = [state |-> IF Gate(op) THEN "done" ELSE "open", op |-> op, texts |-> texts,
                        at |-> 1, asked |-> <<>>, out |-> <<>>,
                        seen |-> gateway = "unlocked", calm |-> gateway = "unlocked"]]
    BY DEF Begin
  <1>2. PICK texts \in IF op \in {"status", "list"} THEN {<< <<>> >>}
                    ELSE IF op = "one" THEN {<< <<Ref(n)>> >> : n \in Names}
                    ELSE {m \in Messages[c] : Len(m) = 1 \/ host \in Several} :
                 call' = [call EXCEPT ![c] = [state |-> IF Gate(op) THEN "done" ELSE "open", op |-> op, texts |-> texts,
                        at |-> 1, asked |-> <<>>, out |-> <<>>,
                        seen |-> gateway = "unlocked", calm |-> gateway = "unlocked"]]
    BY <1>1
  <1> DEFINE r == [state |-> IF Gate(op) THEN "done" ELSE "open", op |-> op, texts |-> texts,
                        at |-> 1, asked |-> <<>>, out |-> <<>>,
                        seen |-> gateway = "unlocked", calm |-> gateway = "unlocked"]
  <1>3. DOMAIN r = CallFields /\ r # Idle /\ r.asked = <<>>
    BY DEF CallFields, Idle
  <1>4. DOMAIN call' = AgentCalls /\ call'[c] = r /\ \A d \in AgentCalls \ {c} : call'[d] = call[d]
    <2> HIDE DEF r
    <2>1. call' = [call EXCEPT ![c] = r]
      BY <1>2 DEF r
    <2> QED BY <2>1 DEF Shape
  <1> HIDE DEF r
  <1>5. Shape'
    BY <1>3, <1>4, ShapeKept DEF Others
  <1> QED
    BY <1>1, <1>2, <1>3, <1>4, <1>5 DEF r, Others, Begin, gatewayVars, settingsVars

LEMMA AskSets ==
  ASSUME Shape, NEW c \in AgentCalls, call[c] # Idle, Ask(c)
  PROVE  /\ Others(c) /\ Keeps(c, {"asked"}) /\ Shape' /\ call'[c] # Idle
         /\ call[c].state = "open"
         /\ call'[c].asked = [k \in DOMAIN call[c].asked \cup NextKeys(c) |->
                IF k \in DOMAIN call[c].asked THEN call[c].asked[k]
                ELSE First(RequestFor(call[c].op, k[2]))]
         /\ UNCHANGED <<cache, host, settings, loaded, server, gateway, stored, changes>>
  <1> DEFINE a == [k \in DOMAIN call[c].asked \cup NextKeys(c) |->
                IF k \in DOMAIN call[c].asked THEN call[c].asked[k]
                ELSE First(RequestFor(call[c].op, k[2]))]
  <1>1. call' = [call EXCEPT ![c].asked = a]
    BY DEF Ask
  <1>2. DOMAIN call[c] = CallFields
    BY DEF Shape
  <1> HIDE DEF a
  <1>3. /\ DOMAIN call' = AgentCalls /\ \A d \in AgentCalls \ {c} : call'[d] = call[d]
        /\ call'[c] = [call[c] EXCEPT !.asked = a]
    BY <1>1 DEF Shape
  <1>4. /\ DOMAIN call'[c] = CallFields /\ call'[c].asked = a
        /\ \A f \in CallFields \ {"asked"} : call'[c][f] = call[c][f]
    BY <1>2, <1>3 DEF CallFields
  <1>5. call'[c] # Idle
    BY <1>4 DEF Idle, CallFields
  <1>6. Shape'
    <2>1. ASSUME NEW k \in DOMAIN a PROVE DOMAIN a[k] = ReplyFields
      BY DEF a, Shape, First, ReplyOf, ReplyFields
    <2> QED
      BY <1>3, <1>4, <2>1, ShapeKept DEF Others
  <1> QED
    BY <1>3, <1>4, <1>5, <1>6 DEF a, Others, Keeps, Ask, Open, gatewayVars, settingsVars

\* One reply of the call c comes in.
Answer1(c, k, state, code, value) ==
    /\ Others(c) /\ Keeps(c, {"asked"}) /\ call'[c] # Idle
    /\ DOMAIN call'[c].asked = DOMAIN call[c].asked
    /\ \A l \in DOMAIN call[c].asked \ {k} : call'[c].asked[l] = call[c].asked[l]
    /\ call'[c].asked[k].state = state
    /\ call'[c].asked[k].value = value
    /\ call'[c].asked[k].code \in {code} \cup (IF code # "ok" THEN {"null"} ELSE {})

LEMMA RepliedSets ==
  ASSUME Shape, NEW c \in AgentCalls, call[c] # Idle, NEW k \in Waiting(c),
         NEW state, NEW code, NEW value, Replied(c, k, state, code, value)
  PROVE  Shape' /\ Answer1(c, k, state, code, value)
  <1> DEFINE told == IF call[c].asked[k].query.cached /\ code # "ok" THEN "null" ELSE code
             r == [call[c].asked[k] EXCEPT !.state = state, !.value = value, !.code = told]
  <1>1. call' = [call EXCEPT ![c].asked[k] = r]
    BY DEF Replied
  <1>2. DOMAIN call[c] = CallFields
    BY DEF Shape
  <1>3. k \in DOMAIN call[c].asked
    BY DEF Waiting
  <1>10. told \in {code} \cup (IF code # "ok" THEN {"null"} ELSE {})
    OBVIOUS
  <1>11. DOMAIN call[c].asked[k] = ReplyFields
    BY <1>3 DEF Shape
  <1> HIDE DEF told
  <1>4. /\ r.state = state /\ r.value = value /\ r.code = told
        /\ DOMAIN r = ReplyFields
    BY <1>11 DEF ReplyFields
  <1> HIDE DEF r
  <1> DEFINE a == [call[c].asked EXCEPT ![k] = r]
  <1>5. /\ DOMAIN call' = AgentCalls /\ \A d \in AgentCalls \ {c} : call'[d] = call[d]
        /\ call'[c] = [call[c] EXCEPT !.asked = a]
    BY <1>1 DEF Shape
  <1>6. /\ DOMAIN a = DOMAIN call[c].asked /\ a[k] = r
        /\ \A l \in DOMAIN call[c].asked \ {k} : a[l] = call[c].asked[l]
    BY <1>3
  <1> HIDE DEF a
  <1>7. /\ DOMAIN call'[c] = CallFields /\ call'[c].asked = a
        /\ \A f \in CallFields \ {"asked"} : call'[c][f] = call[c][f]
    BY <1>2, <1>5 DEF CallFields
  <1>8. call'[c] # Idle
    BY <1>7 DEF Idle, CallFields
  <1>9. Shape'
    <2>1. \A l \in DOMAIN a : DOMAIN a[l] = ReplyFields
      BY <1>4, <1>6 DEF Shape
    <2> QED
      BY <1>5, <1>7, <2>1, ShapeKept DEF Others
  <1> QED
    BY <1>4, <1>5, <1>6, <1>7, <1>8, <1>9, <1>10 DEF Others, Keeps, Answer1

LEMMA ArriveSets ==
  ASSUME Shape, NEW c \in AgentCalls, call[c] # Idle, NEW k \in Waiting(c),
         Arrive(c, k)
  PROVE  /\ Shape' /\ Others(c) /\ Keeps(c, {"asked"}) /\ call'[c] # Idle
         /\ call[c].state = "open"
         /\ DOMAIN call'[c].asked = DOMAIN call[c].asked
         /\ \A l \in DOMAIN call[c].asked \ {k} : call'[c].asked[l] = call[c].asked[l]
         /\ call'[c].asked[k].state = "arrived"
         /\ call'[c].asked[k].code = call[c].asked[k].code
         /\ call'[c].asked[k].value = call[c].asked[k].value
  <1> DEFINE r == [call[c].asked[k] EXCEPT !.state = "arrived"]
  <1>1. call' = [call EXCEPT ![c].asked[k] = r]
    BY DEF Arrive
  <1>2. DOMAIN call[c] = CallFields
    BY DEF Shape
  <1>3. k \in DOMAIN call[c].asked
    BY DEF Waiting
  <1>4. /\ DOMAIN r = ReplyFields /\ r.state = "arrived"
        /\ r.code = call[c].asked[k].code /\ r.value = call[c].asked[k].value
    BY <1>3 DEF Shape, ReplyFields
  <1> HIDE DEF r
  <1> DEFINE a == [call[c].asked EXCEPT ![k] = r]
  <1>5. /\ DOMAIN call' = AgentCalls /\ \A d \in AgentCalls \ {c} : call'[d] = call[d]
        /\ call'[c] = [call[c] EXCEPT !.asked = a]
    BY <1>1 DEF Shape
  <1>6. /\ DOMAIN a = DOMAIN call[c].asked /\ a[k] = r
        /\ \A l \in DOMAIN call[c].asked \ {k} : a[l] = call[c].asked[l]
    BY <1>3
  <1> HIDE DEF a
  <1>7. /\ DOMAIN call'[c] = CallFields /\ call'[c].asked = a
        /\ \A f \in CallFields \ {"asked"} : call'[c][f] = call[c][f]
    BY <1>2, <1>5 DEF CallFields
  <1>8. call'[c] # Idle
    BY <1>7 DEF Idle, CallFields
  <1>9. Shape'
    <2>1. \A l \in DOMAIN a : DOMAIN a[l] = ReplyFields
      BY <1>4, <1>6 DEF Shape
    <2> QED
      BY <1>5, <1>7, <2>1, ShapeKept DEF Others
  <1> QED
    BY <1>4, <1>5, <1>6, <1>7, <1>8, <1>9 DEF Others, Keeps, Arrive, Open

\* The results of the items that are settled, the last of them and all results.
Results(c) == [i \in Items(c) |-> Result(call[c].op, call[c].texts[i], ToldOf(c, i))]

LastItem(c) == IF host \in AtOnce THEN Len(call[c].texts) ELSE call[c].at

Out(c) == IF host \in AtOnce THEN Results(c) ELSE Append(call[c].out, Results(c)[LastItem(c)])

LEMMA SettleSets ==
  ASSUME Shape, NEW c \in AgentCalls, call[c] # Idle, SettleItems(c)
  PROVE  /\ Shape' /\ Others(c) /\ Keeps(c, {"out", "at", "state"}) /\ call'[c] # Idle
         /\ call[c].state = "open" /\ Waiting(c) = {} /\ NextKeys(c) = {}
         /\ call'[c].out = Out(c) /\ call'[c].at = LastItem(c) + 1
         /\ call'[c].state = "open" => LastItem(c) # Len(call[c].texts)
         /\ UNCHANGED <<cache, host, settings, loaded, server, gateway, stored, changes>>
  <1> DEFINE state == IF Out(c)[LastItem(c)].is = "thrown" \/ LastItem(c) = Len(call[c].texts) THEN "done" ELSE "open"
  <1>1. call' = [call EXCEPT ![c].out = Out(c), ![c].at = LastItem(c) + 1, ![c].state = state]
    BY DEF SettleItems, Results, LastItem, Out
  <1>2. DOMAIN call[c] = CallFields
    BY DEF Shape
  <1>3. state = "open" => LastItem(c) # Len(call[c].texts)
    OBVIOUS
  <1> HIDE DEF state
  <1>4. /\ DOMAIN call' = AgentCalls /\ \A d \in AgentCalls \ {c} : call'[d] = call[d]
        /\ call'[c] = [call[c] EXCEPT !.out = Out(c), !.at = LastItem(c) + 1, !.state = state]
    BY <1>1 DEF Shape
  <1>5. /\ DOMAIN call'[c] = CallFields
        /\ call'[c].out = Out(c) /\ call'[c].at = LastItem(c) + 1 /\ call'[c].state = state
        /\ \A f \in CallFields \ {"out", "at", "state"} : call'[c][f] = call[c][f]
    BY <1>2, <1>4 DEF CallFields
  <1>6. call'[c] # Idle
    BY <1>5 DEF Idle, CallFields
  <1>7. Shape'
    <2>1. call'[c].asked = call[c].asked
      BY <1>5 DEF CallFields
    <2>2. \A k \in DOMAIN call[c].asked : DOMAIN call[c].asked[k] = ReplyFields
      BY DEF Shape
    <2> QED
      BY <1>4, <1>5, <2>1, <2>2, ShapeKept DEF Others
  <1> QED
    BY <1>3, <1>4, <1>5, <1>6, <1>7 DEF Others, Keeps, SettleItems, Open, gatewayVars,
       settingsVars

LEMMA GatewaySets ==
  ASSUME Shape, GatewayChanges
  PROVE  /\ Shape'
         /\ \A c \in AgentCalls :
              /\ call[c] = Idle => call'[c] = Idle
              /\ call[c] # Idle =>
                    /\ call'[c] # Idle
                    /\ Keeps(c, {"seen", "calm"})
                    /\ (call'[c].seen <=> call[c].seen \/ (call[c].state = "open" /\ gateway' = "unlocked"))
         /\ UNCHANGED <<host, settings, loaded, cache, server>>
  <1>1. call' = [c \in AgentCalls |-> IF call[c] = Idle \/ ~Open(c) THEN call[c]
                   ELSE [call[c] EXCEPT !.seen = @ \/ gateway' = "unlocked", !.calm = FALSE]]
    BY DEF GatewayChanges
  <1>2. ASSUME NEW c \in AgentCalls, call[c] # Idle
        PROVE  /\ DOMAIN call'[c] = CallFields
               /\ Keeps(c, {"seen", "calm"})
               /\ (call'[c].seen <=> call[c].seen \/ (call[c].state = "open" /\ gateway' = "unlocked"))
    <2>1. DOMAIN call[c] = CallFields
      BY <1>2 DEF Shape
    <2>2. CASE Open(c)
      <3>1. call'[c] = [call[c] EXCEPT !.seen = call[c].seen \/ gateway' = "unlocked", !.calm = FALSE]
        BY <1>1, <1>2, <2>2
      <3> QED
        BY <2>1, <2>2, <3>1 DEF CallFields, Keeps, Open
    <2>3. CASE ~Open(c)
      <3>1. call'[c] = call[c]
        BY <1>1, <2>3
      <3> QED
        BY <2>1, <2>3, <3>1 DEF CallFields, Keeps, Open
    <2> QED
      BY <2>2, <2>3
  <1>3. \A c \in AgentCalls : call[c] # Idle => call'[c] # Idle
    BY <1>2 DEF Idle, CallFields
  <1>4. \A c \in AgentCalls : call[c] = Idle => call'[c] = Idle
    BY <1>1
  <1>5. Shape'
    <2>1. DOMAIN call' = AgentCalls
      BY <1>1
    <2> QED
      BY <2>1, <1>2, <1>4 DEF Shape, Idle, Keeps, CallFields
  <1> QED
    BY <1>2, <1>3, <1>4, <1>5 DEF GatewayChanges, settingsVars

--------------------------------------------------------------------------------
(* The calls. *)

\* What a call was given.
Given(c) ==
    /\ call[c].op \in Ops(host)
    /\ call[c].texts \in Seq(ToSet(call[c].texts)) /\ call[c].texts # <<>>
    /\ \A t \in ToSet(call[c].texts) : IsText(t)

\* An item has its result, from replies that came in for all that it had to ask.
ItemSettled(c, i) ==
    /\ \/ \A n \in ToSet(Wanted(call[c].op, call[c].texts[i])) : <<i, n>> \in DOMAIN call[c].asked
       \/ host = "n8n" /\ Failed(ToldOf(c, i)) # {}
    /\ host # "sillytavern" => call[c].out[i] = Result(call[c].op, call[c].texts[i], ToldOf(c, i))
    /\ host = "sillytavern" /\ call[c].out[i].is = "status" => ~call[c].out[i].unlocked

\* The items before the one under work are settled, and nothing more is asked for
\* them.  LM Studio asks for all items at once and tells no status.
Progress(c) ==
    IF host = "lmstudio" THEN \A i \in DOMAIN call[c].out : call[c].out[i].is = "text"
    ELSE /\ call[c].at \in Nat \ {0}
         /\ call[c].out \in Seq(ToSet(call[c].out)) /\ Len(call[c].out) = call[c].at - 1
         /\ call[c].at - 1 <= Len(call[c].texts)
         /\ call[c].state = "open" => call[c].at <= Len(call[c].texts)
         /\ \A k \in DOMAIN call[c].asked : k = <<k[1], k[2]>> /\ k[1] \in 1 .. call[c].at
         /\ \A k \in Waiting(c) : k[1] = call[c].at
         /\ \A i \in 1 .. call[c].at - 1 : ItemSettled(c, i)

\* Where one replacement is made after another.
InTurnHosts == {"nanoclaw", "clawhub", "n8n"}

\* A status is what the gateway was during the call, and a value is a text.
Heard(c) ==
    /\ call[c].state = "open" /\ gateway = "unlocked" => call[c].seen
    /\ \A k \in DOMAIN call[c].asked : call[c].asked[k].code = "ok" =>
          /\ call[c].op = "status" =>
                call[c].asked[k].value \in BOOLEAN /\ (call[c].asked[k].value => call[c].seen)
          /\ call[c].op = "text" /\ host \in InTurnHosts => IsText(call[c].asked[k].value)

HostInv ==
    /\ Shape
    /\ host \in AllIntegrations
    /\ DOMAIN stored = DOMAIN FirstValues /\ \A n \in DOMAIN stored : IsText(stored[n])
    /\ \A c \in AgentCalls : call[c] # Idle => Given(c) /\ Progress(c) /\ Heard(c)

\* Nothing that a settled item depends on changes.
LEMMA SettledKept ==
  ASSUME NEW c, NEW i, ItemSettled(c, i), host' = host, settings' = settings \/ host = "sillytavern",
         call'[c].op = call[c].op, call'[c].texts = call[c].texts, call'[c].out[i] = call[c].out[i],
         \A k \in DOMAIN call[c].asked \cup DOMAIN call'[c].asked : k = <<k[1], k[2]>>,
         \A k \in DOMAIN call[c].asked : k[1] = i =>
            k \in DOMAIN call'[c].asked /\ call'[c].asked[k] = call[c].asked[k],
         \A k \in DOMAIN call'[c].asked : k[1] = i => k \in DOMAIN call[c].asked
  PROVE  ItemSettled(c, i)'
  <1> DEFINE K == {l \in Arrived(c) : l[1] = i}
             L == {l \in Arrived(c)' : l[1] = i}
  <1>1. K = L
    BY DEF Arrived
  <1>2. \A k \in K : call'[c].asked[<<i, k[2]>>] = call[c].asked[<<i, k[2]>>]
    BY DEF Arrived
  <1>3. ToldOf(c, i)' = ToldOf(c, i)
    BY <1>1, <1>2 DEF ToldOf
  <1>4. Wanted(call[c].op, call[c].texts[i])' = Wanted(call[c].op, call[c].texts[i])
    BY DEF Wanted, Matched
  <1>5. host # "sillytavern" => Result(call[c].op, call[c].texts[i], ToldOf(c, i))'
                                   = Result(call[c].op, call[c].texts[i], ToldOf(c, i))
    BY <1>3 DEF Result
  <1>6. \A n \in ToSet(Wanted(call[c].op, call[c].texts[i])) :
           <<i, n>> \in DOMAIN call[c].asked => <<i, n>> \in DOMAIN call'[c].asked
    OBVIOUS
  <1> QED
    BY <1>3, <1>4, <1>5, <1>6 DEF ItemSettled

\* A call goes on with the item under work.
LEMMA ProgressKept ==
  ASSUME NEW c, Progress(c), host # "lmstudio", host' = host, settings' = settings \/ host = "sillytavern",
         Keeps(c, {"asked", "seen", "calm"}),
         DOMAIN call[c].asked \subseteq DOMAIN call'[c].asked,
         \A k \in DOMAIN call[c].asked : k[1] # call[c].at => call'[c].asked[k] = call[c].asked[k],
         \A k \in DOMAIN call'[c].asked \ DOMAIN call[c].asked : k = <<call[c].at, k[2]>>
  PROVE  Progress(c)'
  <1>1. /\ call'[c].state = call[c].state /\ call'[c].op = call[c].op /\ call'[c].texts = call[c].texts
        /\ call'[c].at = call[c].at /\ call'[c].out = call[c].out
    BY DEF Keeps, CallFields
  <1>2. call[c].at \in Nat \ {0}
    BY DEF Progress
  <1>3. \A k \in DOMAIN call'[c].asked : k = <<k[1], k[2]>> /\ k[1] \in 1 .. call[c].at
    <2> SUFFICES ASSUME NEW k \in DOMAIN call'[c].asked PROVE k = <<k[1], k[2]>> /\ k[1] \in 1 .. call[c].at
      OBVIOUS
    <2>1. CASE k \in DOMAIN call[c].asked
      BY <2>1 DEF Progress
    <2>2. CASE k \notin DOMAIN call[c].asked
      BY <1>2, <2>2
    <2> QED
      BY <2>1, <2>2
  <1>4. ASSUME NEW k \in Waiting(c)' PROVE k[1] = call[c].at
    <2>1. k \in DOMAIN call'[c].asked /\ call'[c].asked[k].state # "arrived"
      BY <1>4 DEF Waiting, Arrived
    <2>2. CASE k[1] # call[c].at
      <3>1. k \in DOMAIN call[c].asked
        BY <2>1, <2>2
      <3>2. k \in Waiting(c)
        BY <2>1, <2>2, <3>1 DEF Waiting, Arrived
      <3> QED
        BY <3>2 DEF Progress
    <2> QED
      BY <2>2
  <1>5. ASSUME NEW i \in 1 .. call[c].at - 1 PROVE ItemSettled(c, i)'
    <2>1. i # call[c].at /\ ItemSettled(c, i)
      BY <1>2, <1>5 DEF Progress
    <2>2. /\ \A k \in DOMAIN call[c].asked : k[1] = i =>
                k \in DOMAIN call'[c].asked /\ call'[c].asked[k] = call[c].asked[k]
          /\ \A k \in DOMAIN call'[c].asked : k[1] = i => k \in DOMAIN call[c].asked
      BY <2>1
    <2>3. \A k \in DOMAIN call[c].asked \cup DOMAIN call'[c].asked : k = <<k[1], k[2]>>
      BY <1>3
    <2> QED
      BY <1>1, <2>1, <2>2, <2>3, SettledKept
  <1> QED
    BY <1>1, <1>3, <1>4, <1>5 DEF Progress

LEMMA WantedSeq ==
  ASSUME NEW op, NEW text, IsText(text)
  PROVE  \E S : Wanted(op, text) \in Seq(S)
  <1>1. text \in Seq(ToSet(text))
    BY DEF IsText
  <1>2. CASE op \in {"status", "list"}
    <2>1. Wanted(op, text) = <<None>>
      BY <1>2 DEF Wanted
    <2>2. <<None>> \in Seq({None})
      OBVIOUS
    <2> QED
      BY <2>1, <2>2
  <1>3. CASE op \notin {"status", "list"}
    <2> DEFINE names == IF op = "one" THEN Names ELSE Matched
    <2>1. Wanted(op, text) = RefsIn(text, names)
      BY <1>3 DEF Wanted
    <2> HIDE DEF names
    <2>2. RefsIn(text, names) \in Seq(RefsUpTo(text, names, Len(text)))
      BY <1>1, RefsInIs
    <2> QED
      BY <2>1, <2>2
  <1> QED
    BY <1>2, <1>3

\* Only the item under work asks.
LEMMA NextKeysAt ==
  ASSUME NEW c, host # "lmstudio", NEW k \in NextKeys(c)
  PROVE  k = <<call[c].at, k[2]>>
  <1>1. Items(c) = {call[c].at}
    BY DEF Items, AtOnce
  <1>2. CASE host \notin OneByOne
    BY <1>1, <1>2 DEF NextKeys, Needed
  <1>3. CASE host \in OneByOne
    BY <1>3 DEF NextKeys
  <1> QED
    BY <1>2, <1>3

\* With nothing left to ask or to await, all was asked for the item, or it failed.
LEMMA AllAsked ==
  ASSUME NEW c, host # "lmstudio", Given(c), Progress(c), call[c].state = "open",
         Waiting(c) = {}, NextKeys(c) = {}
  PROVE  \/ \A n \in ToSet(Wanted(call[c].op, call[c].texts[call[c].at])) :
               <<call[c].at, n>> \in DOMAIN call[c].asked
         \/ host = "n8n" /\ Failed(ToldOf(c, call[c].at)) # {}
  <1> DEFINE at == call[c].at
             names == Wanted(call[c].op, call[c].texts[at])
  <1>1. at \in DOMAIN call[c].texts
    BY DEF Given, Progress
  <1>2. IsText(call[c].texts[at])
    BY <1>1 DEF Given, ToSet
  <1>3. CASE host \notin OneByOne
    <2>1. Needed(c) \subseteq DOMAIN call[c].asked
      BY <1>3 DEF NextKeys
    <2>2. Needed(c) = {<<at, n>> : n \in ToSet(names)}
      BY DEF Needed, Items, AtOnce
    <2> QED
      BY <2>1, <2>2
  <1>4. CASE host \in OneByOne /\ GoesOn(c)
    <2>1. PICK S : names \in Seq(S)
      BY <1>2, WantedSeq
    <2> HIDE DEF names
    <2> DEFINE I == {i \in 1 .. Len(names) : <<at, names[i]>> \notin DOMAIN call[c].asked}
    <2>2. I = {}
      <3>1. SUFFICES ASSUME I # {} PROVE FALSE
        OBVIOUS
      <3>2. I \subseteq Nat
        BY <2>1
      <3> HIDE DEF I
      <3>3. Min(I) \in I
        <4>1. \E x \in I : \A y \in I : x <= y
          BY <3>1, <3>2, Least
        <4> QED
          BY <4>1 DEF Min
      <3>4. Min(I) # 0
        BY <2>1, <3>3 DEF I
      <3>5. SelectInSeq(names, LAMBDA n : <<at, n>> \notin DOMAIN call[c].asked) = Min(I)
        BY <3>1 DEF SelectInSeq, I
      <3> QED
        BY <1>4, <3>4, <3>5 DEF NextKeys, names
    <2> QED
      BY <2>1, <2>2 DEF ToSet, names
  <1>5. CASE ~GoesOn(c)
    <2>1. PICK k \in Arrived(c) : k[1] = at /\ ~Ok(call[c].asked[k])
      BY <1>5 DEF GoesOn
    <2>2. k = <<at, k[2]>>
      BY <2>1 DEF Progress, Arrived
    <2>3. /\ k[2] \in DOMAIN ToldOf(c, at)
          /\ ToldOf(c, at)[k[2]] = call[c].asked[k]
      BY <2>1, <2>2 DEF ToldOf
    <2>4. k[2] \in Failed(ToldOf(c, at))
      BY <2>1, <2>3 DEF Failed
    <2> QED
      BY <1>5, <2>4 DEF GoesOn
  <1> QED
    BY <1>3, <1>4, <1>5

\* An item is settled.
LEMMA ProgressSettle ==
  ASSUME HostInv, NEW c \in AgentCalls, call[c] # Idle, SettleItems(c)
  PROVE  Progress(c)'
  <1>1. /\ Keeps(c, {"out", "at", "state"}) /\ call[c].state = "open"
        /\ Waiting(c) = {} /\ NextKeys(c) = {}
        /\ call'[c].out = Out(c) /\ call'[c].at = LastItem(c) + 1
        /\ call'[c].state = "open" => LastItem(c) # Len(call[c].texts)
        /\ host' = host /\ settings' = settings
    BY SettleSets DEF HostInv
  <1>2. /\ call'[c].op = call[c].op /\ call'[c].texts = call[c].texts /\ call'[c].asked = call[c].asked
        /\ Given(c) /\ Progress(c)
    BY <1>1 DEF Keeps, CallFields, HostInv
  <1>3. CASE host = "lmstudio"
    <2>1. Out(c) = [i \in DOMAIN call[c].texts |->
                       Result(call[c].op, call[c].texts[i], ToldOf(c, i))]
      BY <1>3 DEF Out, Results, Items, AtOnce
    <2>2. \A text, told : Result(call[c].op, text, told).is = "text"
      BY <1>3 DEF Result, LmStudioText, Text
    <2> QED
      BY <1>1, <1>3, <2>1, <2>2 DEF Progress
  <1>4. CASE host # "lmstudio"
    <2>0. PICK at \in Nat \ {0} : at = call[c].at
      BY <1>2, <1>4 DEF Progress
    <2> DEFINE new == Result(call[c].op, call[c].texts[at], ToldOf(c, at))
               out == call[c].out
               S == ToSet(out) \cup {new}
    <2>1. Out(c) = Append(out, new) /\ LastItem(c) = at
      BY <1>4, <2>0 DEF Out, Results, LastItem, Items, AtOnce
    <2>2. /\ at \in Nat \ {0} /\ out \in Seq(ToSet(out)) /\ Len(out) = at - 1
          /\ at <= Len(call[c].texts) /\ Len(call[c].texts) \in Nat
      BY <1>1, <1>2, <1>4, <2>0 DEF Given, Progress
    <2> HIDE DEF new
    <2>3. out \in Seq(S) /\ new \in S
      BY <2>2
    <2> HIDE DEF S
    <2>4. /\ Append(out, new) \in Seq(S) /\ Len(Append(out, new)) = at
          /\ \A i \in 1 .. at - 1 : Append(out, new)[i] = out[i]
          /\ Append(out, new)[at] = new
      BY <2>2, <2>3
    <2>5. call'[c].out \in Seq(ToSet(call'[c].out))
      <3>1. call'[c].out \in Seq(S)
        BY <1>1, <2>1, <2>4
      <3> QED
        BY <3>1 DEF ToSet
    <2>6. /\ call'[c].at = at + 1 /\ Len(call'[c].out) = at
          /\ \A i \in 1 .. at - 1 : call'[c].out[i] = out[i]
          /\ call'[c].out[at] = new
      BY <1>1, <2>1, <2>4
    <2>7. ASSUME NEW i \in 1 .. at - 1 PROVE ItemSettled(c, i)'
      <3>1. ItemSettled(c, i) /\ call'[c].out[i] = call[c].out[i]
        BY <1>2, <1>4, <2>0, <2>6, <2>7 DEF Progress
      <3>2. \A k \in DOMAIN call[c].asked : k = <<k[1], k[2]>>
        BY <1>2, <1>4 DEF Progress
      <3> QED
        BY <1>1, <1>2, <3>1, <3>2, SettledKept
    <2>8. ItemSettled(c, at)'
      <3>1. \/ \A n \in ToSet(Wanted(call[c].op, call[c].texts[at])) :
                  <<at, n>> \in DOMAIN call[c].asked
            \/ host = "n8n" /\ Failed(ToldOf(c, at)) # {}
        BY <1>1, <1>2, <1>4, <2>0, AllAsked
      <3>2. ToldOf(c, at)' = ToldOf(c, at)
        BY <1>2, <2>6 DEF ToldOf, Arrived
      <3>3. Wanted(call[c].op, call[c].texts[at])' = Wanted(call[c].op, call[c].texts[at])
        BY <1>1, <1>2 DEF Wanted, Matched
      <3>4. Result(call[c].op, call[c].texts[at], ToldOf(c, at))' = new
        BY <1>1, <1>2, <3>2 DEF Result, new
      <3>5. host = "sillytavern" /\ new.is = "status" => ~new.unlocked
        BY DEF new, Result, SillyTavernText, SillyTavernStatus, Text, Status
      <3> QED
        BY <1>1, <1>2, <2>6, <3>1, <3>2, <3>3, <3>4, <3>5 DEF ItemSettled
    <2>9. /\ \A k \in DOMAIN call'[c].asked : k = <<k[1], k[2]>> /\ k[1] \in 1 .. at + 1
          /\ Waiting(c)' = {}
      BY <1>1, <1>2, <1>4, <2>0, <2>2 DEF Progress, Waiting, Arrived
    <2>10. \A i \in 1 .. at : ItemSettled(c, i)'
      BY <2>2, <2>7, <2>8
    <2>11. /\ call'[c].at \in Nat \ {0} /\ call'[c].at - 1 = at /\ at <= Len(call'[c].texts)
           /\ call'[c].state = "open" => call'[c].at <= Len(call'[c].texts)
      <3> DEFINE n == Len(call[c].texts)
      <3>1. Len(call'[c].texts) = n /\ call'[c].at = at + 1
        BY <1>2, <2>6
      <3>2. n \in Nat /\ at <= n /\ (call'[c].state = "open" => at # n)
        BY <1>1, <2>1, <2>2
      <3> HIDE DEF n
      <3> QED
        BY <2>0, <3>1, <3>2
    <2>12. host' # "lmstudio" /\ \A k \in Waiting(c)' : k[1] = call'[c].at
      BY <1>1, <1>4, <2>9
    <2> QED
      BY <2>5, <2>6, <2>9, <2>10, <2>11, <2>12 DEF Progress
  <1> QED
    BY <1>3, <1>4

LEMMA CallKept ==
  ASSUME NEW c, Given(c), Progress(c), Heard(c), call'[c] = call[c],
         host' = host, settings' = settings \/ host = "sillytavern", gateway' = gateway
  PROVE  Given(c)' /\ Progress(c)' /\ Heard(c)'
  <1>1. Given(c)'
    BY DEF Given, Ops
  <1>2. Heard(c)'
    BY DEF Heard
  <1>3. CASE host = "lmstudio"
    <2>1. host' = "lmstudio" /\ call'[c].out = call[c].out /\ \A i \in DOMAIN call[c].out : call[c].out[i].is = "text"
      BY <1>3 DEF Progress
    <2>2. \A i \in DOMAIN call'[c].out : call'[c].out[i].is = "text"
      BY <2>1
    <2> QED
      BY <1>1, <1>2, <2>1, <2>2, Zenon DEF Progress
  <1>4. CASE host # "lmstudio"
    <2>1. Keeps(c, {"asked", "seen", "calm"})
      BY DEF Keeps
    <2>2. /\ DOMAIN call[c].asked \subseteq DOMAIN call'[c].asked
          /\ \A k \in DOMAIN call[c].asked : k[1] # call[c].at => call'[c].asked[k] = call[c].asked[k]
          /\ \A k \in DOMAIN call'[c].asked \ DOMAIN call[c].asked : k = <<call[c].at, k[2]>>
      OBVIOUS
    <2> QED
      BY <1>1, <1>2, <1>4, <2>1, <2>2, ProgressKept
  <1> QED
    BY <1>1, <1>2, <1>3, <1>4

LEMMA OneCall ==
  ASSUME HostInv, Shape', NEW c \in AgentCalls, Others(c),
         host' = host, settings' = settings, gateway' = gateway, stored' = stored,
         Given(c)', Progress(c)', Heard(c)'
  PROVE  HostInv'
  <1>1. ASSUME NEW d \in AgentCalls, call'[d] # Idle
        PROVE  Given(d)' /\ Progress(d)' /\ Heard(d)'
    <2>1. CASE d = c
      BY <2>1
    <2>2. CASE d # c
      <3>1. call'[d] = call[d] /\ Given(d) /\ Progress(d) /\ Heard(d)
        BY <1>1, <2>2 DEF Others, HostInv
      <3> QED
        BY <3>1, CallKept
    <2> QED
      BY <2>1, <2>2
  <1> QED
    BY <1>1 DEF HostInv, Idle, AllIntegrations

LEMMA HostBegin ==
  ASSUME HostInv, NEW c \in AgentCalls, Begin(c)
  PROVE  HostInv'
  <1>1. /\ Others(c) /\ Shape'
        /\ UNCHANGED <<cache, host, settings, loaded, server, gateway, stored, changes>>
        /\ \E op \in Ops(host) :
               \E texts \in IF op \in {"status", "list"} THEN {<< <<>> >>}
                    ELSE IF op = "one" THEN {<< <<Ref(n)>> >> : n \in Names}
                    ELSE {m \in Messages[c] : Len(m) = 1 \/ host \in Several} :
                 call'[c] = [state |-> IF Gate(op) THEN "done" ELSE "open", op |-> op, texts |-> texts,
                        at |-> 1, asked |-> <<>>, out |-> <<>>,
                        seen |-> gateway = "unlocked", calm |-> gateway = "unlocked"]
    BY BeginSets DEF HostInv
  <1>2. PICK op \in Ops(host) :
               \E texts \in IF op \in {"status", "list"} THEN {<< <<>> >>}
                    ELSE IF op = "one" THEN {<< <<Ref(n)>> >> : n \in Names}
                    ELSE {m \in Messages[c] : Len(m) = 1 \/ host \in Several} :
                 call'[c] = [state |-> IF Gate(op) THEN "done" ELSE "open", op |-> op, texts |-> texts,
                        at |-> 1, asked |-> <<>>, out |-> <<>>,
                        seen |-> gateway = "unlocked", calm |-> gateway = "unlocked"]
    BY <1>1
  <1>3. PICK texts \in IF op \in {"status", "list"} THEN {<< <<>> >>}
                    ELSE IF op = "one" THEN {<< <<Ref(n)>> >> : n \in Names}
                    ELSE {m \in Messages[c] : Len(m) = 1 \/ host \in Several} :
                 call'[c] = [state |-> IF Gate(op) THEN "done" ELSE "open", op |-> op, texts |-> texts,
                        at |-> 1, asked |-> <<>>, out |-> <<>>,
                        seen |-> gateway = "unlocked", calm |-> gateway = "unlocked"]
    BY <1>2
  <1>4. /\ call'[c].op = op /\ call'[c].texts = texts /\ call'[c].at = 1
        /\ call'[c].asked = <<>> /\ call'[c].out = <<>> /\ call'[c].seen = (gateway = "unlocked")
    BY <1>3
  <1>5. /\ texts \in Seq(ToSet(texts)) /\ texts # <<>>
        /\ \A t \in ToSet(texts) : IsText(t)
    <2>1. CASE op \in {"status", "list"}
      <3>1. texts = << <<>> >>
        BY <1>3, <2>1
      <3>2. ToSet(texts) = {<<>>} /\ texts # <<>>
        BY <3>1 DEF ToSet
      <3>3. ToSet(<<>>) = {}
        BY DEF ToSet
      <3>4. IsText(<<>>)
        BY <3>3 DEF IsText
      <3>5. texts \in Seq({<<>>})
        BY <3>1
      <3> QED
        BY <3>2, <3>4, <3>5
    <2>2. CASE op = "one"
      <3>1. PICK n \in Names : texts = << <<Ref(n)>> >>
        BY <1>3, <2>2
      <3> DEFINE t == <<Ref(n)>>
      <3>2. ToSet(t) = {Ref(n)} /\ t \in Seq({Ref(n)})
        BY DEF ToSet
      <3>3. Ref(n) = [is |-> Ref(n).is, n |-> Ref(n).n] /\ Ref(n).n = n
        BY DEF Ref
      <3>4. IsText(t)
        BY <3>2, <3>3 DEF IsText
      <3> HIDE DEF t
      <3>5. texts = <<t>>
        BY <3>1 DEF t
      <3>6. ToSet(texts) = {t} /\ texts # <<>> /\ texts \in Seq({t})
        BY <3>5 DEF ToSet
      <3> QED
        BY <3>4, <3>6
    <2>3. CASE op \notin {"status", "list", "one"}
      <3>1. texts \in Messages[c]
        BY <1>3, <2>3
      <3> QED
        BY <3>1, TextsAssumption DEF TextsAssumption
    <2> QED
      BY <2>1, <2>2, <2>3
  <1>6. Given(c)'
    BY <1>1, <1>4, <1>5 DEF Given, Ops
  <1>7. Progress(c)'
    <2>1. Len(texts) \in Nat /\ 1 <= Len(texts)
      BY <1>5
    <2>2. DOMAIN call'[c].asked = {} /\ DOMAIN call'[c].out = {} /\ Len(call'[c].out) = 0
      BY <1>4
    <2>3. call'[c].out \in Seq(ToSet(call'[c].out))
      BY <1>4
    <2>4. Waiting(c)' = {} /\ 1 .. call'[c].at - 1 = {}
      BY <1>4, <2>2 DEF Waiting
    <2> QED
      BY <1>4, <2>1, <2>2, <2>3, <2>4 DEF Progress
  <1>8. Heard(c)'
    <2>1. DOMAIN call'[c].asked = {}
      BY <1>4
    <2>2. gateway' = "unlocked" => call'[c].seen
      BY <1>1, <1>4
    <2> QED
      BY <2>1, <2>2 DEF Heard
  <1> QED
    BY <1>1, <1>6, <1>7, <1>8, OneCall

\* No cache answers for a status, or where one replacement is made after another.
LEMMA Uncached ==
  ASSUME host \in AllIntegrations, NEW op \in Ops(host), NEW n,
         op = "status" \/ host \in InTurnHosts
  PROVE  ~RequestFor(op, n).cached
  <1>1. \A route, token : Query(route, token, n).cached = FALSE
    BY DEF Query
  <1>2. \A route, token : /\ Timed(Query(route, token, n)).cached = FALSE
                          /\ Idling(Query(route, token, n)).cached = FALSE
                          /\ Authorized(Query(route, token, n)).cached = FALSE
    BY DEF Query, Timed, Idling, Authorized
  <1>3. CASE host \in InTurnHosts
    BY <1>1, <1>2, <1>3 DEF InTurnHosts, RequestFor, NanoclawRequest, ClawhubRequest,
       N8nRequest
  <1>4. CASE op = "status"
    <2>1. host \in {"nanoclaw", "clawhub", "n8n", "openclaw", "lmplugin", "provider", "plugin", "sillytavern"}
      BY <1>4 DEF Ops, AllIntegrations
    <2> QED
      BY <1>1, <1>2, <1>4, <2>1 DEF RequestFor, NanoclawRequest, ClawhubRequest,
         N8nRequest, OpenClawRequest, LmPluginRequest, ProviderRequest,
         PluginRequest, SillyTavernRequest
  <1> QED
    BY <1>3, <1>4

LEMMA ProgressGoesOn ==
  ASSUME NEW c, Progress(c), host' = host, settings' = settings \/ host = "sillytavern",
         Keeps(c, {"asked", "seen", "calm"}),
         host # "lmstudio" =>
            /\ DOMAIN call[c].asked \subseteq DOMAIN call'[c].asked
            /\ \A k \in DOMAIN call[c].asked : k[1] # call[c].at => call'[c].asked[k] = call[c].asked[k]
            /\ \A k \in DOMAIN call'[c].asked \ DOMAIN call[c].asked : k = <<call[c].at, k[2]>>
  PROVE  Progress(c)'
  <1>1. CASE host = "lmstudio"
    <2>1. call'[c].out = call[c].out
      BY DEF Keeps, CallFields
    <2> QED
      BY <1>1, <2>1 DEF Progress
  <1>2. CASE host # "lmstudio"
    BY <1>2, ProgressKept
  <1> QED
    BY <1>1, <1>2

LEMMA GivenKept ==
  ASSUME NEW c, Given(c), host' = host, call'[c].op = call[c].op, call'[c].texts = call[c].texts
  PROVE  Given(c)'
  BY DEF Given, Ops

LEMMA HostAsk ==
  ASSUME HostInv, NEW c \in AgentCalls, call[c] # Idle, Ask(c)
  PROVE  HostInv'
  <1>1. /\ Others(c) /\ Keeps(c, {"asked"}) /\ Shape'
        /\ call'[c].asked = [k \in DOMAIN call[c].asked \cup NextKeys(c) |->
                IF k \in DOMAIN call[c].asked THEN call[c].asked[k]
                ELSE First(RequestFor(call[c].op, k[2]))]
        /\ host' = host /\ settings' = settings /\ gateway' = gateway /\ stored' = stored
    BY AskSets DEF HostInv
  <1>2. /\ DOMAIN call'[c].asked = DOMAIN call[c].asked \cup NextKeys(c)
        /\ \A k \in DOMAIN call[c].asked : call'[c].asked[k] = call[c].asked[k]
        /\ \A k \in DOMAIN call'[c].asked \ DOMAIN call[c].asked :
              k \in NextKeys(c) /\ call'[c].asked[k] = First(RequestFor(call[c].op, k[2]))
    BY <1>1
  <1>3. Given(c) /\ Progress(c) /\ Heard(c) /\ host \in AllIntegrations
    BY DEF HostInv
  <1>4. call'[c].op = call[c].op /\ call'[c].texts = call[c].texts
        /\ call'[c].state = call[c].state /\ call'[c].seen = call[c].seen
    BY <1>1 DEF Keeps, CallFields
  <1>5. Given(c)'
    BY <1>1, <1>3, <1>4, GivenKept
  <1>6. Progress(c)'
    <2>1. Keeps(c, {"asked", "seen", "calm"})
      BY <1>1 DEF Keeps
    <2>2. host # "lmstudio" => \A k \in NextKeys(c) : k = <<call[c].at, k[2]>>
      BY NextKeysAt
    <2> QED
      BY <1>1, <1>2, <1>3, <2>1, <2>2, ProgressGoesOn
  <1>7. Heard(c)'
    <2>1. ASSUME NEW k \in DOMAIN call'[c].asked, call'[c].asked[k].code = "ok"
          PROVE  /\ call[c].op = "status" =>
                       call'[c].asked[k].value \in BOOLEAN /\ (call'[c].asked[k].value => call[c].seen)
                 /\ call[c].op = "text" /\ host \in InTurnHosts => IsText(call'[c].asked[k].value)
      <3>1. CASE k \in DOMAIN call[c].asked
        BY <1>2, <1>3, <2>1, <3>1 DEF Heard
      <3>2. CASE k \notin DOMAIN call[c].asked
        <4>1. PICK q : q = RequestFor(call[c].op, k[2])
          OBVIOUS
        <4>2. call'[c].asked[k] = First(q)
          BY <1>2, <3>2, <4>1
        <4>3. q.cached
          <5>1. ASSUME ~q.cached PROVE First(q).code # "ok"
            BY <5>1 DEF First, ReplyOf
          <5> QED
            BY <2>1, <4>2, <5>1
        <4>4. ~(call[c].op = "status" \/ host \in InTurnHosts)
          BY <1>3, <4>1, <4>3, Uncached DEF Given
        <4> QED
          BY <4>4
      <3> QED
        BY <3>1, <3>2
    <2> QED
      BY <1>1, <1>3, <1>4, <2>1 DEF Heard
  <1> QED
    BY <1>1, <1>5, <1>6, <1>7, OneCall

LEMMA HostReplied ==
  ASSUME HostInv, NEW c \in AgentCalls, call[c] # Idle, NEW k \in Waiting(c),
         NEW state, NEW code, NEW value, Replied(c, k, state, code, value),
         host' = host, settings' = settings, gateway' = gateway, stored' = stored,
         code = "ok" =>
            /\ call[c].op = "status" => value \in BOOLEAN /\ (value => call[c].seen)
            /\ call[c].op = "text" /\ host \in InTurnHosts => IsText(value)
  PROVE  HostInv'
  <1>1. Shape' /\ Answer1(c, k, state, code, value)
    BY RepliedSets DEF HostInv
  <1>2. Given(c) /\ Progress(c) /\ Heard(c)
    BY DEF HostInv
  <1>3. /\ Others(c) /\ Keeps(c, {"asked"})
        /\ DOMAIN call'[c].asked = DOMAIN call[c].asked
        /\ \A l \in DOMAIN call[c].asked \ {k} : call'[c].asked[l] = call[c].asked[l]
        /\ call'[c].asked[k].value = value
        /\ call'[c].asked[k].code = "ok" => code = "ok"
    BY <1>1 DEF Answer1
  <1>4. call'[c].op = call[c].op /\ call'[c].texts = call[c].texts
        /\ call'[c].state = call[c].state /\ call'[c].seen = call[c].seen
    BY <1>3 DEF Keeps, CallFields
  <1>5. Given(c)'
    BY <1>2, <1>4, GivenKept
  <1>6. Progress(c)'
    <2>1. Keeps(c, {"asked", "seen", "calm"})
      BY <1>3 DEF Keeps
    <2>2. host # "lmstudio" => k[1] = call[c].at
      BY <1>2 DEF Progress
    <2> QED
      BY <1>2, <1>3, <2>1, <2>2, ProgressGoesOn
  <1>7. Heard(c)'
    <2>1. ASSUME NEW l \in DOMAIN call'[c].asked, call'[c].asked[l].code = "ok"
          PROVE  /\ call[c].op = "status" =>
                       call'[c].asked[l].value \in BOOLEAN /\ (call'[c].asked[l].value => call[c].seen)
                 /\ call[c].op = "text" /\ host \in InTurnHosts => IsText(call'[c].asked[l].value)
      <3>1. CASE l = k
        BY <1>3, <2>1, <3>1
      <3>2. CASE l # k
        BY <1>2, <1>3, <2>1, <3>2 DEF Heard
      <3> QED
        BY <3>1, <3>2
    <2> QED
      BY <1>2, <1>4, <2>1 DEF Heard
  <1> QED
    BY <1>1, <1>3, <1>5, <1>6, <1>7, OneCall

LEMMA HostArrive ==
  ASSUME HostInv, NEW c \in AgentCalls, call[c] # Idle, NEW k \in Waiting(c), Arrive(c, k)
  PROVE  HostInv'
  <1>1. /\ Shape' /\ Others(c) /\ Keeps(c, {"asked"})
        /\ DOMAIN call'[c].asked = DOMAIN call[c].asked
        /\ \A l \in DOMAIN call[c].asked \ {k} : call'[c].asked[l] = call[c].asked[l]
        /\ call'[c].asked[k].code = call[c].asked[k].code
        /\ call'[c].asked[k].value = call[c].asked[k].value
    BY ArriveSets DEF HostInv
  <1>2. Given(c) /\ Progress(c) /\ Heard(c)
    BY DEF HostInv
  <1>3. host' = host /\ settings' = settings /\ gateway' = gateway /\ stored' = stored
    BY DEF Arrive, gatewayVars, settingsVars
  <1>4. call'[c].op = call[c].op /\ call'[c].texts = call[c].texts
        /\ call'[c].state = call[c].state /\ call'[c].seen = call[c].seen
    BY <1>1 DEF Keeps, CallFields
  <1>5. Given(c)'
    BY <1>2, <1>3, <1>4, GivenKept
  <1>6. Progress(c)'
    <2>1. Keeps(c, {"asked", "seen", "calm"})
      BY <1>1 DEF Keeps
    <2>2. host # "lmstudio" => k[1] = call[c].at
      BY <1>2 DEF Progress
    <2> QED
      BY <1>1, <1>2, <1>3, <2>1, <2>2, ProgressGoesOn
  <1>7. Heard(c)'
    <2>1. \A l \in DOMAIN call[c].asked : /\ call'[c].asked[l].code = call[c].asked[l].code
                                          /\ call'[c].asked[l].value = call[c].asked[l].value
      BY <1>1
    <2> QED
      BY <1>1, <1>2, <1>3, <1>4, <2>1 DEF Heard
  <1> QED
    BY <1>1, <1>3, <1>5, <1>6, <1>7, OneCall

LEMMA HostSettle ==
  ASSUME HostInv, NEW c \in AgentCalls, call[c] # Idle, SettleItems(c)
  PROVE  HostInv'
  <1>1. /\ Shape' /\ Others(c) /\ Keeps(c, {"out", "at", "state"}) /\ call[c].state = "open"
        /\ host' = host /\ settings' = settings /\ gateway' = gateway /\ stored' = stored
    BY SettleSets DEF HostInv
  <1>2. Given(c) /\ Heard(c)
    BY DEF HostInv
  <1>3. /\ call'[c].op = call[c].op /\ call'[c].texts = call[c].texts
        /\ call'[c].asked = call[c].asked /\ call'[c].seen = call[c].seen
    BY <1>1 DEF Keeps, CallFields
  <1>4. Given(c)' /\ Heard(c)'
    BY <1>1, <1>2, <1>3, GivenKept DEF Heard
  <1> QED
    BY <1>1, <1>4, ProgressSettle, OneCall

\* What the gateway finds is the value of an entry.
LEMMA FindIs ==
  ASSUME NEW n, Find(Entries, n) # NoEntry
  PROVE  Find(Entries, n).name \in DOMAIN FirstValues
  <1> DEFINE I == {i \in 1 .. Len(Entries) : Denotes(n, Entries[i])}
  <1>1. Entries \in Seq(ToSet(Entries))
    BY TextsAssumption DEF TextsAssumption
  <1>2. SelectInSeq(Entries, LAMBDA e : Denotes(n, e)) = IF I # {} THEN Min(I) ELSE 0
    BY DEF SelectInSeq
  <1>3. I \subseteq Nat /\ I \subseteq DOMAIN Entries
    BY <1>1
  <1> HIDE DEF I
  <1>4. CASE I = {}
    BY <1>2, <1>4 DEF Find
  <1>5. CASE I # {}
    <2>1. Min(I) \in I
      <3>1. \E x \in I : \A y \in I : x <= y
        BY <1>3, <1>5, Least
      <3> QED
        BY <3>1 DEF Min
    <2>2. Min(I) # 0
      BY <1>1, <2>1 DEF I
    <2>3. Find(Entries, n) = Entries[Min(I)]
      BY <1>2, <1>5, <2>2 DEF Find
    <2>4. Find(Entries, n) \in ToSet(Entries)
      BY <1>3, <2>1, <2>3 DEF ToSet
    <2> QED
      BY <2>4, TextsAssumption DEF TextsAssumption
  <1> QED
    BY <1>4, <1>5

LEMMA Found ==
  ASSUME HostInv, NEW n, Find(Entries, n) # NoEntry
  PROVE  IsText(stored[Find(Entries, n).name])
  BY FindIs DEF HostInv

LEMMA ServedIs ==
  ASSUME HostInv, NEW q, NEW op, NEW r,
         r \in {GatewayReply(q, op), DocumentedReply(q, op)}, r.code = "ok"
  PROVE  /\ op = "status" => r.value = (gateway = "unlocked")
         /\ op = "text" => IsText(r.value)
  <1>1. PICK found : /\ r = Looked(q, op, found)
                     /\ found = "ok" => Find(Entries, q.name) # NoEntry
    <2>1. Resolve(Entries, q.name, Origin) = "ok" => Find(Entries, q.name) # NoEntry
      BY DEF Resolve
    <2>2. CASE r = GatewayReply(q, op)
      <3>1. r = Looked(q, op, Resolve(Entries, q.name, Origin))
        BY <2>2 DEF GatewayReply
      <3> QED
        BY <2>1, <3>1
    <2>3. CASE r = DocumentedReply(q, op)
      <3>1. \/ r = Looked(q, op, Resolve(Entries, q.name, Origin))
            \/ r = Looked(q, op, IF Find(Entries, q.name) = NoEntry THEN "not_found" ELSE "ok")
        BY <2>3 DEF DocumentedReply
      <3> QED
        BY <2>1, <3>1
    <2> QED
      BY <2>2, <2>3
  <1>2. CASE op = "status"
    BY <1>1, <1>2 DEF Looked
  <1>3. CASE op = "text"
    <2>1. found = "ok" /\ r.value = stored[Find(Entries, q.name).name]
      BY <1>1, <1>3 DEF Looked
    <2> QED
      BY <1>1, <1>3, <2>1, Found
  <1> QED
    BY <1>2, <1>3

LEMMA HostInvInit ==
  ASSUME HostsInit
  PROVE  HostInv
  <1>1. \A c \in AgentCalls : call[c] = Idle
    BY DEF HostsInit
  <1>2. Shape
    BY <1>1 DEF Shape, HostsInit
  <1>3. host \in AllIntegrations
    BY IntegrationsAssumption DEF HostsInit, IntegrationsAssumption
  <1>4. stored = FirstValues /\ \A n \in DOMAIN FirstValues : IsText(FirstValues[n])
    BY TextsAssumption DEF HostsInit, TextsAssumption
  <1> QED
    BY <1>1, <1>2, <1>3, <1>4 DEF HostInv

LEMMA HostGateway ==
  ASSUME HostInv, GatewayChanges
  PROVE  HostInv'
  <1>1. /\ Shape'
        /\ \A c \in AgentCalls :
              /\ call[c] = Idle => call'[c] = Idle
              /\ call[c] # Idle =>
                    /\ Keeps(c, {"seen", "calm"})
                    /\ (call'[c].seen <=> call[c].seen \/ (call[c].state = "open" /\ gateway' = "unlocked"))
        /\ host' = host /\ settings' = settings
    BY GatewaySets DEF HostInv
  <1>2. DOMAIN stored' = DOMAIN FirstValues /\ \A n \in DOMAIN stored' : IsText(stored'[n])
    <2>1. DOMAIN stored = DOMAIN FirstValues /\ \A n \in DOMAIN stored : IsText(stored[n])
      BY DEF HostInv
    <2>2. CASE stored' = stored
      BY <2>1, <2>2
    <2>3. CASE stored' # stored
      <3>1. PICK n \in DOMAIN Values : \E v \in Values[n] : stored' = [stored EXCEPT ![n] = v]
        BY <2>3 DEF GatewayChanges
      <3>2. PICK v \in Values[n] : stored' = [stored EXCEPT ![n] = v]
        BY <3>1
      <3>3. IsText(v)
        BY TextsAssumption DEF TextsAssumption
      <3>4. /\ DOMAIN stored' = DOMAIN stored
            /\ \A m \in DOMAIN stored : stored'[m] = v \/ stored'[m] = stored[m]
        BY <3>2
      <3> QED
        BY <2>1, <3>3, <3>4
    <2> QED
      BY <2>2, <2>3
  <1>3. ASSUME NEW c \in AgentCalls, call'[c] # Idle'
        PROVE  Given(c)' /\ Progress(c)' /\ Heard(c)'
    <2>1. call[c] # Idle
      BY <1>1, <1>3 DEF Idle
    <2>2. Given(c) /\ Progress(c) /\ Heard(c)
      BY <2>1 DEF HostInv
    <2>3. /\ call'[c].op = call[c].op /\ call'[c].texts = call[c].texts /\ call'[c].asked = call[c].asked
          /\ call'[c].state = call[c].state
          /\ (call'[c].seen <=> call[c].seen \/ (call[c].state = "open" /\ gateway' = "unlocked"))
      BY <1>1, <2>1 DEF Keeps, CallFields
    <2>4. Given(c)'
      BY <1>1, <2>2, <2>3, GivenKept
    <2>5. Progress(c)'
      <3>1. Keeps(c, {"asked", "seen", "calm"})
        BY <1>1, <2>1 DEF Keeps
      <3> QED
        BY <1>1, <2>2, <2>3, <3>1, ProgressGoesOn
    <2>6. Heard(c)'
      BY <1>1, <2>2, <2>3 DEF Heard
    <2> QED
      BY <2>4, <2>5, <2>6
  <1> QED
    BY <1>1, <1>2, <1>3 DEF HostInv, AllIntegrations

\* No call changes.
LEMMA HostKept ==
  ASSUME HostInv, call' = call, host' = host, settings' = settings \/ host = "sillytavern",
         gateway' = gateway, stored' = stored
  PROVE  HostInv'
  <1>1. ASSUME NEW c \in AgentCalls, call'[c] # Idle'
        PROVE  Given(c)' /\ Progress(c)' /\ Heard(c)'
    <2>1. call'[c] = call[c] /\ Given(c) /\ Progress(c) /\ Heard(c)
      BY <1>1 DEF HostInv, Idle
    <2> QED
      BY <2>1, CallKept
  <1>2. Shape'
    BY DEF HostInv, Shape, Idle
  <1> QED
    BY <1>1, <1>2 DEF HostInv, AllIntegrations

LEMMA HostServe ==
  ASSUME HostInv, NEW c \in AgentCalls, call[c] # Idle,
         NEW k \in Waiting(c), Serve(c, k)
  PROVE  HostInv'
  <1>1. /\ host' = host /\ settings' = settings /\ gateway' = gateway /\ stored' = stored
        /\ call[c].state = "open"
    BY DEF Serve, Open, gatewayVars, settingsVars
  <1>2. CASE Replied(c, k, "arrived", "unreachable", None)
    BY <1>1, <1>2, HostReplied
  <1>3. CASE ~Replied(c, k, "arrived", "unreachable", None)
    <2>1. PICK q : q = call[c].asked[k].query
      OBVIOUS
    <2>2. PICK r : r = IF call[c].asked[k].server = "gateway" THEN GatewayReply(q, call[c].op)
                       ELSE DocumentedReply(q, call[c].op)
      OBVIOUS
    <2>3. PICK s : s = IF q.cached THEN "served" ELSE "arrived"
      OBVIOUS
    <2>4. Replied(c, k, s, r.code, r.value)
      BY <1>3, <2>1, <2>2, <2>3 DEF Serve
    <2>5. r.code = "ok" =>
             /\ call[c].op = "status" => r.value = (gateway = "unlocked")
             /\ call[c].op = "text" => IsText(r.value)
      BY <2>2, ServedIs
    <2>6. gateway = "unlocked" => call[c].seen
      BY <1>1 DEF HostInv, Heard
    <2> QED
      BY <1>1, <2>4, <2>5, <2>6, HostReplied
  <1> QED
    BY <1>2, <1>3

LEMMA HostExpire ==
  ASSUME HostInv, NEW c \in AgentCalls, call[c] # Idle, NEW k \in Waiting(c),
         Expire(c, k) \/ Stall(c, k)
  PROVE  HostInv'
  <1>1. \E state, code : Replied(c, k, state, code, None) /\ code # "ok"
    BY DEF Expire, Stall
  <1>2. host' = host /\ settings' = settings /\ gateway' = gateway /\ stored' = stored
    BY DEF Expire, Stall, gatewayVars, settingsVars
  <1> QED
    BY <1>1, <1>2, HostReplied

LEMMA HostInvNext ==
  ASSUME HostInv, [HostsNext]_hostsVars
  PROVE  HostInv'
  <1>1. CASE GatewayChanges
    BY <1>1, HostGateway
  <1>2. CASE SillyTavernChange \/ JanUnload \/ JanLoad
    BY <1>2, HostKept DEF SillyTavernChange, JanUnload, JanLoad, gatewayVars
  <1>3. ASSUME NEW c \in AgentCalls, Begin(c) PROVE HostInv'
    BY <1>3, HostBegin
  <1>4. ASSUME NEW c \in AgentCalls, Step(c) PROVE HostInv'
    BY <1>4, HostAsk, HostSettle, HostArrive, HostExpire DEF Step
  <1>5. ASSUME NEW c \in AgentCalls, call[c] # Idle, NEW k \in Waiting(c),
               Serve(c, k) \/ Stall(c, k)
        PROVE  HostInv'
    BY <1>5, HostServe, HostExpire
  <1>6. CASE UNCHANGED hostsVars
    BY <1>6, HostKept DEF hostsVars
  <1> QED
    BY <1>1, <1>2, <1>3, <1>4, <1>5, <1>6 DEF HostsNext

\* The calls of an integration go on item by item, with texts whose references can be
\* looked up; a settled item has the result of replies that came in for all that it
\* asked; no status says unlocked that the gateway was not during the call.
THEOREM CallsGoItemByItem == HostsSpec => []HostInv
  <1>1. HostsInit => HostInv
    BY HostInvInit
  <1>2. HostInv /\ [HostsNext]_hostsVars => HostInv'
    BY HostInvNext
  <1> QED
    BY <1>1, <1>2, PTL DEF HostsSpec

\* What a settled item asked for is told.
LEMMA AskedIsTold ==
  ASSUME NEW c, host # "lmstudio", Progress(c), NEW i \in 1 .. call[c].at - 1
  PROVE  /\ \A n : <<i, n>> \in DOMAIN call[c].asked =>
               /\ n \in DOMAIN ToldOf(c, i)
               /\ ToldOf(c, i)[n] = call[c].asked[<<i, n>>]
         /\ \A n \in DOMAIN ToldOf(c, i) :
               /\ <<i, n>> \in DOMAIN call[c].asked
               /\ ToldOf(c, i)[n] = call[c].asked[<<i, n>>]
  <1>1. call[c].at \in Nat \ {0} /\ i # call[c].at
    BY DEF Progress
  <1>2. ASSUME NEW n, <<i, n>> \in DOMAIN call[c].asked
        PROVE  n \in DOMAIN ToldOf(c, i) /\ ToldOf(c, i)[n] = call[c].asked[<<i, n>>]
    <2>1. <<i, n>> \notin Waiting(c)
      BY <1>1 DEF Progress
    <2>2. <<i, n>> \in Arrived(c)
      BY <1>2, <2>1 DEF Waiting
    <2>3. n \in {k[2] : k \in {l \in Arrived(c) : l[1] = i}}
      BY <2>2
    <2> QED
      BY <2>3 DEF ToldOf
  <1>3. ASSUME NEW n \in DOMAIN ToldOf(c, i)
        PROVE  <<i, n>> \in DOMAIN call[c].asked /\ ToldOf(c, i)[n] = call[c].asked[<<i, n>>]
    <2>1. PICK k \in Arrived(c) : k[1] = i /\ k[2] = n
      BY DEF ToldOf
    <2>2. k = <<i, n>> /\ k \in DOMAIN call[c].asked
      BY <2>1 DEF Progress, Arrived
    <2> QED
      BY <1>2, <2>2
  <1> QED
    BY <1>2, <1>3

\* A result that says unlocked is made of a reply that does.
LEMMA StatusOf ==
  ASSUME host \in AllIntegrations, NEW op \in Ops(host), NEW text, NEW told,
         host \notin {"lmstudio", "sillytavern"}, NEW r, r = Result(op, text, told),
         r.is = "status", r.unlocked
  PROVE  /\ op = "status" /\ told[None].value
         /\ host = "n8n" => Failed(told) = {}
         /\ host # "n8n" => told[None].code = "ok"
  <1> USE DEF Status, Text, Listed, Error, Thrown, NoValue, Ok
  <1>1. CASE host = "nanoclaw"
    BY <1>1 DEF Ops, Result, Nanoclaw, NanoclawStatus, NanoclawList,
       NanoclawResolve, NanoclawText, TextOr, ListedOr
  <1>2. CASE host = "clawhub"
    BY <1>2 DEF Ops, Result, Clawhub, ClawhubStatus, ClawhubList,
       ClawhubResolve, ClawhubText, TextOr, ListedOr
  <1>3. CASE host = "openclaw"
    BY <1>3 DEF Ops, Result, OpenClaw, OpenClawToolCall, OpenClawCli,
       OpenClawStatus, OpenClawList
  <1>4. CASE host = "provider"
    BY <1>4 DEF Ops, Result, Provider, ProviderResolve, ProviderHealth
  <1>5. CASE host = "plugin"
    BY <1>5 DEF Ops, Result, Plugin, PluginStatus, PluginList, ListedOr
  <1>6. CASE host = "n8n"
    BY <1>6 DEF Ops, Result, N8nItem, ItemError
  <1>7. CASE host \in {"node", "librechat", "flowisetool"}
    BY <1>7 DEF Result, EnigmagentNodeItem, ItemError, LibreChatGetSecret,
       LibreChatListSecrets, FlowiseTool, TextOr, ListedOr
  <1>8. CASE host \in {"jan", "flowise", "anythingllm"}
    BY <1>8 DEF Ops, Result, JanMessage, FlowiseResolver, Anything,
       TextOr, ListedOr
  <1>9. CASE host = "lmplugin"
    BY <1>9 DEF Ops, Result, LmPlugin, LmPluginStatus
  <1> QED
    BY <1>1, <1>2, <1>3, <1>4, <1>5, <1>6, <1>7, <1>8, <1>9 DEF AllIntegrations

LEMMA UnlockedHeard ==
  ASSUME HostInv PROVE UnlockedWasUnlocked
  <1>1. SUFFICES ASSUME NEW c \in Begun, NEW i \in DOMAIN call[c].out,
                        call[c].out[i].is = "status", call[c].out[i].unlocked
                 PROVE  call[c].seen
    BY DEF UnlockedWasUnlocked
  <1>2. Given(c) /\ Progress(c) /\ Heard(c) /\ host \in AllIntegrations
    BY DEF HostInv, Begun
  <1>3. host # "lmstudio"
    BY <1>1, <1>2 DEF Progress
  <1>4. i \in 1 .. call[c].at - 1 /\ ItemSettled(c, i)
    BY <1>2, <1>3 DEF Progress
  <1>5. host # "sillytavern"
    BY <1>1, <1>4 DEF ItemSettled
  <1> DEFINE told == ToldOf(c, i)
  <1>6. call[c].out[i] = Result(call[c].op, call[c].texts[i], told)
    BY <1>4, <1>5 DEF ItemSettled
  <1>7. /\ call[c].op = "status" /\ told[None].value
        /\ host = "n8n" => Failed(told) = {}
        /\ host # "n8n" => told[None].code = "ok"
    BY <1>1, <1>2, <1>3, <1>5, <1>6, StatusOf DEF Given
  <1>8. ToSet(Wanted(call[c].op, call[c].texts[i])) = {None}
    BY <1>7 DEF Wanted, ToSet
  <1>9. <<i, None>> \in DOMAIN call[c].asked
    BY <1>4, <1>7, <1>8 DEF ItemSettled
  <1>10. None \in DOMAIN told /\ told[None] = call[c].asked[<<i, None>>]
    BY <1>2, <1>3, <1>4, <1>9, AskedIsTold
  <1>11. told[None].code = "ok"
    BY <1>7, <1>10 DEF Failed, Ok
  <1> QED
    BY <1>2, <1>7, <1>9, <1>10, <1>11 DEF Heard

\* Whatever the replies and their order, no integration tells its user that the vault
\* is unlocked unless it was at some moment of the call.
THEOREM AgentsTellTheTruth == HostsSpec => []UnlockedWasUnlocked
  BY CallsGoItemByItem, UnlockedHeard, PTL

LEMMA NothingLeft ==
  ASSUME HostInv PROVE AllOrNothing
  <1>1. SUFFICES ASSUME NEW c \in Begun, NEW i \in ResolvedItems(c),
                        (host = "openclaw" /\ settings.strict) \/ host = "n8n",
                        NEW t \in ToSet(call[c].texts[i]), t.is = "ref"
                 PROVE  Told(ToldOf(c, i), t)
    BY DEF AllOrNothing
  <1>2. Given(c) /\ Progress(c) /\ Heard(c)
    BY DEF HostInv, Begun
  <1>3. call[c].op = "text" /\ call[c].out[i].is = "text" /\ i \in DOMAIN call[c].out
    BY DEF ResolvedItems
  <1>4. i \in 1 .. call[c].at - 1 /\ ItemSettled(c, i) /\ i \in DOMAIN call[c].texts
    BY <1>1, <1>2, <1>3 DEF Progress, Given
  <1> DEFINE text == call[c].texts[i]
             told == ToldOf(c, i)
  <1>5. call[c].out[i] = Result(call[c].op, text, told)
    BY <1>1, <1>4 DEF ItemSettled
  <1>6. Failed(told) = {}
    <2>1. CASE host = "n8n"
      BY <1>3, <1>5, <2>1 DEF Result, N8nItem, ItemError, Error, Thrown
    <2>2. CASE host = "openclaw" /\ settings.strict
      BY <1>3, <1>5, <2>2 DEF Result, OpenClaw, OpenClawToolCall, Thrown
    <2> QED
      BY <1>1, <2>1, <2>2
  <1>7. IsText(text) /\ text \in Seq(ToSet(text))
    <2>1. IsText(text)
      BY <1>2, <1>4 DEF Given, ToSet
    <2> QED
      BY <2>1 DEF IsText
  <1>8. t.n \in ToSet(Wanted(call[c].op, text))
    <2>1. Wanted(call[c].op, text) = RefsIn(text, Names)
      BY <1>1, <1>3 DEF Wanted, Matched
    <2>2. t.n \in Names
      BY <1>1, <1>7 DEF IsText
    <2>3. PICK j \in 1 .. Len(text) : t = text[j]
      BY <1>7 DEF ToSet
    <2>4. t.n \in RefsUpTo(text, Names, Len(text))
      BY <1>1, <2>2, <2>3 DEF RefsUpTo
    <2>5. ToSet(RefsIn(text, Names)) = RefsUpTo(text, Names, Len(text))
      BY <1>7, RefsInIs
    <2> QED
      BY <2>1, <2>4, <2>5
  <1>9. <<i, t.n>> \in DOMAIN call[c].asked
    BY <1>4, <1>6, <1>8 DEF ItemSettled
  <1>10. t.n \in DOMAIN told
    BY <1>1, <1>2, <1>4, <1>9, AskedIsTold
  <1> QED
    BY <1>1, <1>6, <1>10 DEF Told, Failed, Ok

\* A strict OpenClaw calls no tool, and the n8n node has no text, in which a reference
\* was left because one of several requests failed.
THEOREM NoHalfResolvedText == HostsSpec => []AllOrNothing
  BY CallsGoItemByItem, NothingLeft, PTL

LEMMA TextsInTurn ==
  ASSUME HostInv PROVE TextsAreOnePass
  <1>1. SUFFICES ASSUME NEW c \in Begun, NEW i \in ResolvedItems(c), host \in InTurnHosts,
                        PlainValues(ToldOf(c, i))
                 PROVE  call[c].out[i].text = OnePass(call[c].texts[i], ToldOf(c, i))
    BY DEF TextsAreOnePass, InTurnHosts
  <1>2. Given(c) /\ Progress(c) /\ Heard(c) /\ host # "lmstudio" /\ host # "sillytavern"
    BY <1>1 DEF HostInv, Begun, InTurnHosts
  <1>3. call[c].op = "text" /\ call[c].out[i].is = "text" /\ i \in DOMAIN call[c].out
    BY DEF ResolvedItems
  <1>4. i \in 1 .. call[c].at - 1 /\ ItemSettled(c, i) /\ i \in DOMAIN call[c].texts
    BY <1>2, <1>3 DEF Progress, Given
  <1>5. PICK text : text = call[c].texts[i]
    OBVIOUS
  <1>6. PICK told : told = ToldOf(c, i)
    OBVIOUS
  <1>7. call[c].out[i] = Result(call[c].op, text, told)
    BY <1>2, <1>4, <1>5, <1>6 DEF ItemSettled
  <1>8. call[c].out[i].text = InTurn(text, told)
    BY <1>1, <1>3, <1>7 DEF InTurnHosts, Result, Nanoclaw, NanoclawText, Clawhub,
       ClawhubText, N8nItem, ItemError, Error, Thrown, Text
  <1>9. IsText(text)
    BY <1>2, <1>4, <1>5 DEF Given, ToSet
  <1>10. ASSUME NEW n \in DOMAIN told, told[n].code = "ok"
         PROVE  IsText(told[n].value) /\ PlainText(told[n].value)
    <2>1. <<i, n>> \in DOMAIN call[c].asked /\ told[n] = call[c].asked[<<i, n>>]
      BY <1>2, <1>4, <1>6, AskedIsTold
    <2>2. IsText(told[n].value)
      BY <1>1, <1>2, <1>3, <1>10, <2>1 DEF Heard
    <2>3. PlainText(told[n].value)
      BY <1>1, <1>6, <1>10 DEF PlainValues, Ok, PlainText
    <2> QED
      BY <2>2, <2>3
  <1> DEFINE X == ToSet(text) \cup UNION {ToSet(told[n].value) : n \in {m \in DOMAIN told : told[m].code = "ok"}}
  <1>11. text \in Seq(X) /\ Tokens(text)
    <2>1. text \in Seq(ToSet(text)) /\ ToSet(text) \subseteq X
      BY <1>9 DEF IsText
    <2>2. Tokens(text)
      BY <1>9 DEF IsText, ToSet, Tokens
    <2> HIDE DEF X
    <2> QED
      BY <2>1, <2>2
  <1>12. PlainTold(told, X)
    <2>1. ASSUME NEW n \in DOMAIN told, told[n].code = "ok"
          PROVE  told[n].value \in Seq(X) /\ PlainText(told[n].value)
      <3>1. told[n].value \in Seq(ToSet(told[n].value)) /\ PlainText(told[n].value)
        BY <1>10, <2>1 DEF IsText
      <3>2. ToSet(told[n].value) \subseteq X
        BY <2>1
      <3> HIDE DEF X
      <3> QED
        BY <3>1, <3>2
    <2> QED
      BY <2>1 DEF PlainTold
  <1> HIDE DEF X
  <1>13. InTurn(text, told) = OnePass(text, told)
    BY <1>11, <1>12, InTurnIsOnePass
  <1> QED
    BY <1>5, <1>6, <1>8, <1>13

\* Where the code makes one replacement after another, the text is the substitution
\* of all values at once, whichever of the replies failed, as long as no value holds a
\* reference or $&.
THEOREM ReplacementsActAsOne == HostsSpec => []TextsAreOnePass
  BY CallsGoItemByItem, TextsInTurn, PTL

=============================================================================
