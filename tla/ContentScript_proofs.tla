-------------------------- MODULE ContentScript_proofs --------------------------
(***************************************************************************)
(* Proofs about ContentScript, for every number of fields, references and  *)
(* overlapping passes.                                                     *)
(***************************************************************************)
EXTENDS ContentScript, FiniteSetTheorems, TLAPS

--------------------------------------------------------------------------------
(* The order in which fields are taken up. *)

Increasing(s, n) == \A i, j \in 1 .. n : i < j => s[i] < s[j]

\* How many elements of S come up to x.
Rank(S, x) == Cardinality({y \in S : y <= x})

LEMMA RankGrows ==
  ASSUME NEW S \in SUBSET Nat, IsFiniteSet(S), NEW x \in S, NEW y \in S, x < y
  PROVE  Rank(S, x) \in Nat /\ Rank(S, y) \in Nat /\ Rank(S, x) < Rank(S, y)
  <1> DEFINE X == {z \in S : z <= x}
             Y == {z \in S : z <= y}
  <1>1. IsFiniteSet(X) /\ IsFiniteSet(Y)
    BY FS_Subset
  <1>2. X \subseteq Y /\ y \in Y /\ y \notin X
    <2>1. \A z \in S : z \in Nat
      OBVIOUS
    <2>2. ~(y <= x) /\ y <= y /\ \A z \in S : z <= x => z <= y
      BY <2>1
    <2> QED
      BY <2>2
  <1>3. Cardinality(X) <= Cardinality(Y) /\ Cardinality(X) # Cardinality(Y)
    BY <1>1, <1>2, FS_Subset
  <1> QED
    BY <1>1, <1>3, FS_CardinalityType DEF Rank

LEMMA RankInRange ==
  ASSUME NEW S \in SUBSET Nat, IsFiniteSet(S), NEW x \in S
  PROVE  Rank(S, x) \in 1 .. Cardinality(S)
  <1> DEFINE X == {z \in S : z <= x}
  <1>1. X \subseteq S /\ x \in X
    OBVIOUS
  <1>2. IsFiniteSet(X) /\ Cardinality(X) <= Cardinality(S)
    BY <1>1, FS_Subset
  <1>3. Cardinality(X) # 0
    BY <1>1, <1>2, FS_EmptySet
  <1> QED
    BY <1>2, <1>3, FS_CardinalityType DEF Rank

\* Every finite set of numbers can be put in order, by the ranks of its elements.
LEMMA OrderExists ==
  ASSUME NEW S \in SUBSET Nat, IsFiniteSet(S)
  PROVE  \E s \in [1 .. Cardinality(S) -> S] : Increasing(s, Cardinality(S))
  <1> DEFINE n == Cardinality(S)
             rank == [x \in S |-> Rank(S, x)]
  <1>1. n \in Nat /\ IsFiniteSet(1 .. n) /\ Cardinality(1 .. n) = n
    BY FS_CardinalityType, FS_Interval
  <1>2. rank \in [S -> 1 .. n]
    BY RankInRange
  <1>3. \A x, y \in S : rank[x] = rank[y] => x = y
    <2> SUFFICES ASSUME NEW x \in S, NEW y \in S, x # y PROVE rank[x] # rank[y]
      OBVIOUS
    <2>1. CASE x < y
      BY <2>1, RankGrows
    <2>2. CASE y < x
      BY <2>2, RankGrows
    <2> QED
      BY <2>1, <2>2
  <1>4. rank \in Injection(S, 1 .. n)
    BY <1>2, <1>3 DEF Injection, IsInjective
  <1>5. rank \in Surjection(S, 1 .. n)
    BY <1>1, <1>4, FS_Injection
  <1>6. \A i \in 1 .. n : \E x \in S : rank[x] = i
    BY <1>5 DEF Surjection
  <1> DEFINE s == [i \in 1 .. n |-> CHOOSE x \in S : rank[x] = i]
  <1>7. \A i \in 1 .. n : s[i] \in S /\ rank[s[i]] = i
    BY <1>6
  <1>8. ASSUME NEW i \in 1 .. n, NEW j \in 1 .. n, i < j
        PROVE  s[i] < s[j]
    <2>1. s[i] \in S /\ s[j] \in S /\ rank[s[i]] = i /\ rank[s[j]] = j
      BY <1>7
    <2>2. s[i] # s[j]
      BY <2>1, <1>8
    <2>3. s[i] \in Nat /\ s[j] \in Nat
      BY <2>1
    <2>4. ~(s[j] < s[i])
      <3> HIDE DEF s
      <3> SUFFICES ASSUME s[j] < s[i] PROVE FALSE
        OBVIOUS
      <3>1. rank[s[j]] < rank[s[i]]
        BY <2>1, RankGrows
      <3> HIDE DEF rank
      <3> QED
        BY <2>1, <3>1, <1>8, <1>1
    <2> HIDE DEF s, rank
    <2> QED
      BY <2>2, <2>3, <2>4
  <1> QED
    BY <1>7, <1>8 DEF Increasing

\* InOrder lists all elements of a set of fields.
LEMMA InOrderLists ==
  ASSUME NEW S \in SUBSET Fields, S # {}
  PROVE  /\ InOrder(S) \in Seq(Fields)
         /\ InOrder(S) # <<>>
         /\ InOrder(S)[1] \in Fields
         /\ \A f \in S : \E i \in DOMAIN InOrder(S) : InOrder(S)[i] = f
  <1> DEFINE n == Cardinality(S)
             s == InOrder(S)
  <1>1. S \in SUBSET Nat /\ IsFiniteSet(S)
    <2>1. NumFields \in Int /\ 1 \in Int
      BY NumFieldsAssumption
    <2>2. IsFiniteSet(Fields)
      BY <2>1, FS_Interval DEF Fields
    <2>3. Fields \subseteq Nat
      BY <2>1 DEF Fields
    <2> QED
      BY <2>2, <2>3, FS_Subset
  <1>2. n \in Nat /\ n # 0 /\ IsFiniteSet(1 .. n) /\ Cardinality(1 .. n) = n
    <2>1. n \in Nat
      BY <1>1, FS_CardinalityType
    <2>2. n # 0
      BY <1>1, FS_EmptySet
    <2> HIDE DEF n
    <2> QED
      BY <2>1, <2>2, FS_Interval
  <1>3. s \in [1 .. n -> S] /\ Increasing(s, n)
    BY <1>1, OrderExists DEF InOrder, Increasing
  <1>4. \A i, j \in 1 .. n : s[i] = s[j] => i = j
    <2> HIDE DEF s
    <2>1. \A i \in 1 .. n : s[i] \in Nat
      BY <1>1, <1>3
    <2> SUFFICES ASSUME NEW i \in 1 .. n, NEW j \in 1 .. n, s[i] = s[j], i # j PROVE FALSE
      OBVIOUS
    <2>2. s[i] < s[j] \/ s[j] < s[i]
      BY <1>2, <1>3 DEF Increasing
    <2> QED
      BY <2>1, <2>2
  <1>5. s \in Injection(1 .. n, S)
    BY <1>3, <1>4 DEF Injection, IsInjective
  <1>6. s \in Surjection(1 .. n, S)
    BY <1>1, <1>2, <1>5, FS_Injection
  <1>7. \A f \in S : \E i \in 1 .. n : s[i] = f
    BY <1>6 DEF Surjection
  <1>8. s \in Seq(Fields) /\ Len(s) = n /\ DOMAIN s = 1 .. n /\ s[1] \in Fields
    BY <1>2, <1>3
  <1> QED
    BY <1>2, <1>7, <1>8

--------------------------------------------------------------------------------
(* Types. *)

\* The fields that a submit finds, and what it then does.
Found == {f \in Fields : hasReference(field[f])}

Passing == [at : {"unused", "resolving", "submitted", "through", "failed"},
            todo : Seq(Fields), out : Values]

Basic == TypeOK /\ SomethingToDo

\* Only the pass p goes on.
Only(p) == /\ pass' \in [Passes -> Passing]
           /\ \A q \in Passes : q # p => pass'[q] = pass[q]

LEMMA PassTypes == Basic => pass \in [Passes -> Passing] /\ \A p \in Passes : pass[p] \in Passing
  BY DEF Basic, TypeOK, Passing

LEMMA Becoming ==
  ASSUME Basic, NEW p \in Passes, NEW r \in Passing, pass' = [pass EXCEPT ![p] = r]
  PROVE  Only(p) /\ pass'[p] = r
  BY PassTypes DEF Only

LEMMA Ended ==
  \A x \in {"submitted", "failed"} :
      [NotRun EXCEPT !.at = x] \in Passing /\ [NotRun EXCEPT !.at = x].at = x
  <1>1. Plain \in Values /\ <<>> \in Seq(Fields)
    BY MaxReferencesAssumption DEF Plain, Values
  <1> QED
    BY <1>1 DEF NotRun, Passing

LEMMA SubmitStops ==
  ASSUME Basic, NEW p \in Passes, Submit(p), ~(enigmaDone \/ Found = {})
  PROVE  /\ Only(p) /\ pass'[p].at = "resolving" /\ pass'[p].todo = InOrder(Found)
         /\ UNCHANGED <<field, enigmaDone, failed, gone, submitted>>
         /\ InOrder(Found) # <<>>
         /\ \A f \in Found : \E i \in DOMAIN InOrder(Found) : InOrder(Found)[i] = f
  <1>1. Found \in SUBSET Fields /\ Found # {}
    BY DEF Found
  <1>2. /\ InOrder(Found) \in Seq(Fields) /\ InOrder(Found)[1] \in Fields
        /\ InOrder(Found) # <<>>
        /\ \A f \in Found : \E i \in DOMAIN InOrder(Found) : InOrder(Found)[i] = f
    BY <1>1, InOrderLists
  <1> DEFINE r == [at |-> "resolving", todo |-> InOrder(Found), out |-> field[InOrder(Found)[1]]]
  <1>3. r \in Passing
    BY <1>2 DEF Basic, TypeOK, Passing
  <1>4. pass' = [pass EXCEPT ![p] = r] /\ UNCHANGED <<field, enigmaDone, failed, gone, submitted>>
    BY DEF Submit, Found
  <1>5. r.at = "resolving" /\ r.todo = InOrder(Found)
    OBVIOUS
  <1> HIDE DEF r
  <1> QED
    BY <1>2, <1>3, <1>4, <1>5, Becoming

LEMMA SubmitThrough ==
  ASSUME Basic, NEW p \in Passes, Submit(p), enigmaDone \/ Found = {}
  PROVE  /\ Only(p) /\ pass'[p].at = "through"
         /\ UNCHANGED <<field, enigmaDone, failed>>
         /\ Through(p)
  <1>1. /\ pass' = [pass EXCEPT ![p].at = "through"] /\ Through(p)
        /\ UNCHANGED <<field, enigmaDone, failed>>
    BY DEF Submit, Found
  <1> DEFINE r == [pass[p] EXCEPT !.at = "through"]
  <1>2. r \in Passing /\ r.at = "through" /\ pass' = [pass EXCEPT ![p] = r]
    BY <1>1, PassTypes DEF Passing
  <1> HIDE DEF r
  <1> QED
    BY <1>1, <1>2, Becoming

LEMMA ValueTold ==
  ASSUME Basic, NEW p \in Passes, Value(p)
  PROVE  /\ Only(p) /\ pass'[p].at = pass[p].at /\ pass'[p].todo = pass[p].todo
         /\ UNCHANGED <<field, enigmaDone, gone, submitted, failed>>
  <1>1. PICK n \in 0 .. pass[p].out.references - 1 :
            pass' = [pass EXCEPT ![p].out = [references |-> n, secret |-> TRUE]]
    BY DEF Value
  <1>2. pass[p].out.references \in 0 .. MaxReferences
    BY PassTypes DEF Passing, Values
  <1> DEFINE v == [references |-> n, secret |-> TRUE]
             r == [pass[p] EXCEPT !.out = v]
  <1>3. v \in Values
    BY <1>2, MaxReferencesAssumption DEF Values
  <1>4. pass' = [pass EXCEPT ![p] = r]
    BY <1>1
  <1> HIDE DEF v
  <1>5. r \in Passing /\ r.at = pass[p].at /\ r.todo = pass[p].todo
    BY <1>3, PassTypes DEF Passing
  <1> HIDE DEF r
  <1> QED
    BY <1>4, <1>5, Becoming DEF Value

\* A pass writes the first field of its list.
LEMMA WriteHead ==
  ASSUME Basic, NEW p \in Passes, Write(p)
  PROVE  /\ pass[p].todo \in Seq(Fields) /\ pass[p].todo # <<>>
         /\ Head(pass[p].todo) \in Fields /\ Tail(pass[p].todo) \in Seq(Fields)
         /\ pass[p].out \in Values /\ ~hasReference(pass[p].out)
         /\ field' = [field EXCEPT ![Head(pass[p].todo)] = pass[p].out]
         /\ field' \in [Fields -> Values]
  <1>1. pass[p].todo \in Seq(Fields) /\ pass[p].todo # <<>> /\ pass[p].out \in Values
    BY DEF Basic, TypeOK, SomethingToDo, Running, Write
  <1> DEFINE s == pass[p].todo
  <1>2. Head(s) \in Fields /\ Tail(s) \in Seq(Fields)
    BY <1>1
  <1>3. ~hasReference(pass[p].out)
    BY DEF Write, hasReference
  <1> QED
    BY <1>1, <1>2, <1>3 DEF Write, Basic, TypeOK

GoesOn(x) == \A s, v : [x EXCEPT !.todo = s, !.out = v] = [at |-> "resolving", todo |-> s, out |-> v]

LEMMA GoOn ==
  ASSUME NEW x \in Passing, x.at = "resolving"
  PROVE  GoesOn(x)
  <1> SUFFICES ASSUME NEW s, NEW v
               PROVE  [x EXCEPT !.todo = s, !.out = v] = [at |-> "resolving", todo |-> s, out |-> v]
    BY Zenon DEF GoesOn
  <1>1. x = [at |-> x.at, todo |-> x.todo, out |-> x.out]
    BY DEF Passing
  <1>2. DOMAIN x = {"at", "todo", "out"}
    BY <1>1
  <1> DEFINE y == [x EXCEPT !.todo = s]
             z == [y EXCEPT !.out = v]
             r == [at |-> "resolving", todo |-> s, out |-> v]
  <1>3. DOMAIN z = DOMAIN r /\ z = [f \in DOMAIN z |-> z[f]] /\ r = [f \in DOMAIN r |-> r[f]]
    BY <1>2
  <1>4. \A f \in DOMAIN r : z[f] = r[f]
    <2>1. z["at"] = x["at"] /\ z["todo"] = s /\ z["out"] = v
      BY <1>2
    <2>2. r["at"] = "resolving" /\ r["todo"] = s /\ r["out"] = v /\ DOMAIN r = {"at", "todo", "out"}
      OBVIOUS
    <2> HIDE DEF z, r
    <2> QED
      BY <2>1, <2>2
  <1> HIDE DEF z, r
  <1>5. z = r
    BY <1>3, <1>4, Zenon
  <1> QED
    BY <1>5 DEF z, r

\* It goes on to the next field, or submits after the last.
LEMMA WriteOn ==
  ASSUME Basic, NEW p \in Passes, Write(p), Tail(pass[p].todo) # <<>>
  PROVE  /\ Only(p) /\ pass'[p].at = "resolving" /\ pass'[p].todo = Tail(pass[p].todo)
         /\ UNCHANGED <<enigmaDone, gone, submitted, failed>>
  <1> DEFINE s == Tail(pass[p].todo)
             v == field'[Head(s)]
             r == [at |-> "resolving", todo |-> s, out |-> v]
  <1>1. s \in Seq(Fields) /\ Head(s) \in Fields /\ v \in Values
    BY WriteHead
  <1>2. /\ pass' = [pass EXCEPT ![p].todo = s, ![p].out = v] /\ pass[p].at = "resolving"
        /\ UNCHANGED <<enigmaDone, gone, submitted, failed>>
    BY DEF Write
  <1> HIDE DEF s, v
  <1>3. pass \in [Passes -> Passing]
    BY PassTypes
  <1>4. r \in Passing /\ r.at = "resolving" /\ r.todo = s
    BY <1>1 DEF Passing
  <1>5. [pass[p] EXCEPT !.todo = s, !.out = v] = r
    <2>1. pass[p] \in Passing /\ pass[p].at = "resolving"
      BY <1>2, PassTypes
    <2> HIDE DEF r
    <2>2. PICK x : x = pass[p]
      OBVIOUS
    <2>3. x \in Passing /\ x.at = "resolving"
      BY <2>1, <2>2
    <2>4. GoesOn(x)
      BY <2>3, GoOn, Zenon
    <2> QED
      BY <2>2, <2>4, Zenon DEF GoesOn, r
  <1>6. pass' = [pass EXCEPT ![p] = r]
    <2>1. pass' = [pass EXCEPT ![p] = [pass[p] EXCEPT !.todo = s, !.out = v]]
      BY <1>2, Zenon
    <2> QED
      BY <1>5, <2>1, Zenon
  <1> HIDE DEF r
  <1> QED
    BY <1>2, <1>4, <1>6, Becoming DEF s

LEMMA WriteLast ==
  ASSUME Basic, NEW p \in Passes, Write(p), Tail(pass[p].todo) = <<>>
  PROVE  /\ Only(p) /\ pass'[p].at = "submitted"
         /\ enigmaDone' = TRUE /\ Through(p) /\ UNCHANGED failed
  <1>1. /\ pass' = [pass EXCEPT ![p] = [NotRun EXCEPT !.at = "submitted"]]
        /\ enigmaDone' = TRUE /\ Through(p) /\ UNCHANGED failed
    BY DEF Write
  <1> DEFINE r == [NotRun EXCEPT !.at = "submitted"]
  <1>2. r \in Passing /\ r.at = "submitted" /\ pass' = [pass EXCEPT ![p] = r]
    BY <1>1, Ended
  <1> HIDE DEF r
  <1> QED
    BY <1>1, <1>2, Becoming

LEMMA RefusedEnds ==
  ASSUME Basic, NEW p \in Passes, Refused(p)
  PROVE  /\ Only(p) /\ pass'[p].at = "failed"
         /\ failed' = failed \cup {p}
         /\ UNCHANGED <<field, enigmaDone, gone, submitted>>
  <1>1. /\ pass' = [pass EXCEPT ![p] = [NotRun EXCEPT !.at = "failed"]]
        /\ failed' = failed \cup {p}
        /\ UNCHANGED <<field, enigmaDone, gone, submitted>>
    BY DEF Refused
  <1> DEFINE r == [NotRun EXCEPT !.at = "failed"]
  <1>2. r \in Passing /\ r.at = "failed" /\ pass' = [pass EXCEPT ![p] = r]
    BY <1>1, Ended
  <1> HIDE DEF r
  <1> QED
    BY <1>1, <1>2, Becoming

LEMMA BasicStart == Init => Basic
  <1> SUFFICES ASSUME Init PROVE Basic
    OBVIOUS
  <1>1. Plain \in Values /\ <<>> \in Seq(Fields)
    BY MaxReferencesAssumption DEF Plain, Values
  <1> QED
    BY <1>1 DEF Init, Basic, TypeOK, SomethingToDo, Running, NotRun

\* What goes through to the page is what the fields then hold.
LEMMA ThroughTypes ==
  ASSUME Basic, NEW p \in Passes, Through(p), field' \in [Fields -> Values]
  PROVE  gone' \in BOOLEAN /\ submitted' \subseteq [by : Passes, value : [Fields -> Values]]
  BY BooleansAssumption DEF Basic, TypeOK, Through

LEMMA BasicStep == Basic /\ [Next]_vars => Basic'
  <1> SUFFICES ASSUME Basic, [Next]_vars PROVE Basic'
    OBVIOUS
  <1>0. Plain \in Values /\ <<>> \in Seq(Fields)
    BY MaxReferencesAssumption DEF Plain, Values
  <1> USE DEF Basic, TypeOK, SomethingToDo, Running, Only, Passing
  <1>1. ASSUME NEW f \in Fields, Type(f) PROVE Basic'
    BY <1>1 DEF Type
  <1>2. ASSUME NEW p \in Passes, Submit(p) PROVE Basic'
    <2>1. CASE enigmaDone \/ Found = {}
      <3>1. /\ Only(p) /\ pass'[p].at = "through"
            /\ UNCHANGED <<field, enigmaDone, failed>> /\ Through(p)
        BY <1>2, <2>1, SubmitThrough
      <3>2. gone' \in BOOLEAN /\ submitted' \subseteq [by : Passes, value : [Fields -> Values]]
        BY <3>1, ThroughTypes
      <3> QED
        BY <3>1, <3>2
    <2>2. CASE ~(enigmaDone \/ Found = {})
      BY <1>2, <2>2, SubmitStops
    <2> QED
      BY <2>1, <2>2
  <1>3. ASSUME NEW p \in Passes, Value(p) PROVE Basic'
    BY <1>3, ValueTold
  <1>4. ASSUME NEW p \in Passes, Write(p) PROVE Basic'
    <2>1. CASE Tail(pass[p].todo) # <<>>
      BY <1>4, <2>1, WriteHead, WriteOn
    <2>2. CASE Tail(pass[p].todo) = <<>>
      <3>1. /\ Only(p) /\ pass'[p].at = "submitted"
            /\ enigmaDone' = TRUE /\ Through(p) /\ UNCHANGED failed
        BY <1>4, <2>2, WriteLast
      <3>2. field' \in [Fields -> Values]
        BY <1>4, WriteHead
      <3>3. gone' \in BOOLEAN /\ submitted' \subseteq [by : Passes, value : [Fields -> Values]]
        BY <3>1, <3>2, ThroughTypes
      <3> QED
        BY <3>1, <3>2, <3>3
    <2> QED
      BY <2>1, <2>2
  <1>5. ASSUME NEW p \in Passes, Refused(p) PROVE Basic'
    BY <1>5, RefusedEnds
  <1>6. CASE UNCHANGED vars
    BY <1>6 DEF vars
  <1> QED
    BY <1>1, <1>2, <1>3, <1>4, <1>5, <1>6 DEF Next, PassStep

\* Every variable of the content script has its type, whatever passes overlap.
THEOREM TypeCorrect == Spec => []TypeOK
  <1>1. Basic => TypeOK
    BY DEF Basic
  <1> QED
    BY <1>1, BasicStart, BasicStep, PTL DEF Spec

--------------------------------------------------------------------------------
(* A failed pass. *)

LEMMA SentStart == Init => SentByItsPass
  BY DEF Init, SentByItsPass

LEMMA SentStep == Basic /\ SentByItsPass /\ [Next]_vars => SentByItsPass'
  <1> SUFFICES ASSUME Basic, SentByItsPass, [Next]_vars PROVE SentByItsPass'
    OBVIOUS
  <1> USE DEF SentByItsPass, Only
  <1>1. ASSUME NEW f \in Fields, Type(f) PROVE SentByItsPass'
    BY <1>1 DEF Type
  <1>0. failed \subseteq Passes /\ (\A m \in submitted : m.by \in Passes)
    BY DEF Basic, TypeOK
  <1>2. ASSUME NEW p \in Passes, Submit(p) PROVE SentByItsPass'
    <2>0. pass[p].at = "unused"
      BY <1>2 DEF Submit
    <2>1. CASE enigmaDone \/ Found = {}
      <3>1. /\ Only(p) /\ pass'[p].at = "through"
            /\ UNCHANGED <<enigmaDone, failed>>
            /\ submitted' = submitted \cup {[by |-> p, value |-> field']}
        BY <1>2, <2>1, SubmitThrough DEF Through
      <3>2. \A m \in submitted' : m.by = p \/ m \in submitted
        BY <3>1
      <3> QED
        BY <1>0, <2>0, <3>1, <3>2
    <2>2. CASE ~(enigmaDone \/ Found = {})
      BY <1>0, <1>2, <2>0, <2>2, SubmitStops
    <2> QED
      BY <2>1, <2>2
  <1>3. ASSUME NEW p \in Passes, Value(p) PROVE SentByItsPass'
    <2>1. /\ \A q \in Passes : pass'[q].at = pass[q].at
          /\ UNCHANGED <<enigmaDone, submitted, failed>>
      BY <1>3, ValueTold
    <2> QED
      BY <1>0, <2>1
  <1>4. ASSUME NEW p \in Passes, Write(p) PROVE SentByItsPass'
    <2>0. pass[p].at = "resolving"
      BY <1>4 DEF Write
    <2>1. CASE Tail(pass[p].todo) # <<>>
      BY <1>0, <1>4, <2>0, <2>1, WriteOn
    <2>2. CASE Tail(pass[p].todo) = <<>>
      <3>1. /\ Only(p) /\ pass'[p].at = "submitted" /\ UNCHANGED failed
            /\ submitted' = submitted \cup {[by |-> p, value |-> field']}
        BY <1>4, <2>2, WriteLast DEF Through
      <3>2. \A m \in submitted' : m.by = p \/ m \in submitted
        BY <3>1
      <3> QED
        BY <1>0, <2>0, <3>1, <3>2
    <2> QED
      BY <2>1, <2>2
  <1>5. ASSUME NEW p \in Passes, Refused(p) PROVE SentByItsPass'
    <2>0. pass[p].at = "resolving"
      BY <1>5 DEF Refused
    <2> QED
      BY <1>0, <1>5, <2>0, RefusedEnds
  <1>6. CASE UNCHANGED vars
    BY <1>6 DEF vars
  <1> QED
    BY <1>1, <1>2, <1>3, <1>4, <1>5, <1>6 DEF Next, PassStep

\* A pass in which a reference was refused never submits, and no flag is set but by
\* a pass that did.
THEOREM FailedNeverSubmits == Spec => []AbortedAsAWhole
  <1>1. Basic /\ SentByItsPass => AbortedAsAWhole
    BY DEF Basic, TypeOK, SentByItsPass, AbortedAsAWhole
  <1> QED
    BY <1>1, BasicStart, BasicStep, SentStart, SentStep, PTL DEF Spec

--------------------------------------------------------------------------------
(* References. *)

Resolved == FlagLeaves /\ ReferencesAreListed /\ NoReferenceSubmitted

LEMMA ResolvedStart == Init => Resolved
  BY DEF Init, Resolved, FlagLeaves, ReferencesAreListed, NoReferenceSubmitted, Running, NotRun

LEMMA ResolvedStep ==
  ASSUME ~Stays, ~TypesMeanwhile, Basic, Resolved, [Next]_vars
  PROVE  Resolved'
  <1> USE DEF Resolved, FlagLeaves, ReferencesAreListed, NoReferenceSubmitted, Running, Only
  <1>1. ASSUME NEW f \in Fields, Type(f) PROVE Resolved'
    BY <1>1 DEF Type
  <1>2. ASSUME NEW p \in Passes, Submit(p) PROVE Resolved'
    <2>0. ~gone /\ ~enigmaDone
      BY <1>2 DEF Submit
    <2>1. CASE Found = {}
      <3>1. \A f \in Fields : ~hasReference(field[f])
        BY <2>1 DEF Found
      <3> QED
        BY <1>2, <2>0, <2>1, <3>1, SubmitThrough DEF Through, Basic, TypeOK, Passing
    <2>2. CASE Found # {}
      <3> DEFINE o == InOrder(Found)
      <3>1. /\ Only(p) /\ pass'[p].todo = o
            /\ UNCHANGED <<field, enigmaDone, failed, gone, submitted>>
            /\ \A f \in Fields : hasReference(field[f]) => \E i \in DOMAIN o : o[i] = f
        BY <1>2, <2>0, <2>2, SubmitStops DEF Found
      <3> HIDE DEF o
      <3> QED
        BY <2>0, <3>1
    <2> QED
      BY <2>1, <2>2
  <1>3. ASSUME NEW p \in Passes, Value(p) PROVE Resolved'
    <2>1. pass[p].at = "resolving" /\ pass[p] \in Passing
      BY <1>3 DEF Value, Basic, TypeOK, Passing
    <2>2. /\ Only(p) /\ pass'[p].at = pass[p].at /\ pass'[p].todo = pass[p].todo
          /\ UNCHANGED <<field, enigmaDone, gone, submitted>>
      BY <1>3, ValueTold
    <2>3. FlagLeaves' /\ NoReferenceSubmitted'
      BY <2>2
    <2>4. \A q \in Passes : pass'[q].at = pass[q].at /\ pass'[q].todo = pass[q].todo
      BY <2>2
    <2>5. ReferencesAreListed'
      BY <2>2, <2>4
    <2> QED
      BY <2>3, <2>5
  <1>4. ASSUME NEW p \in Passes, Write(p) PROVE Resolved'
    <2> DEFINE s == pass[p].todo
    <2>1. /\ s \in Seq(Fields) /\ s # <<>>
          /\ \A f \in Fields : hasReference(field[f]) => \E i \in DOMAIN s : s[i] = f
      BY <1>4, WriteHead DEF Write
    <2>2. \A f \in Fields : hasReference(field'[f]) => hasReference(field[f]) /\ f # Head(s)
      BY <1>4, WriteHead DEF Basic, TypeOK
    <2>3. \A f \in Fields : hasReference(field'[f]) => \E i \in DOMAIN Tail(s) : Tail(s)[i] = f
      <3> SUFFICES ASSUME NEW f \in Fields, hasReference(field'[f])
                   PROVE  \E i \in DOMAIN Tail(s) : Tail(s)[i] = f
        OBVIOUS
      <3>1. PICK i \in DOMAIN s : s[i] = f /\ i # 1
        BY <2>1, <2>2
      <3> HIDE DEF s
      <3>2. i - 1 \in DOMAIN Tail(s) /\ Tail(s)[i - 1] = s[i]
        <4>1. Len(s) \in Nat /\ i \in 1 .. Len(s) /\ Len(Tail(s)) = Len(s) - 1
          BY <2>1, <3>1
        <4>2. i - 1 \in 1 .. Len(s) - 1 /\ (i - 1) + 1 = i
          BY <3>1, <4>1
        <4>3. DOMAIN Tail(s) = 1 .. Len(s) - 1 /\ \A j \in 1 .. Len(s) - 1 : Tail(s)[j] = s[j + 1]
          BY <2>1
        <4> QED
          BY <4>2, <4>3
      <3> QED
        BY <3>1, <3>2
    <2>4. CASE Tail(s) # <<>>
      <3>1. /\ Only(p) /\ pass'[p].todo = Tail(s)
            /\ UNCHANGED <<enigmaDone, gone, submitted>>
        BY <1>4, <2>4, WriteOn
      <3> HIDE DEF s
      <3>2. FlagLeaves' /\ NoReferenceSubmitted'
        BY <3>1
      <3>3. ASSUME NEW q \in Running', NEW f \in Fields, hasReference(field'[f])
            PROVE  \E i \in DOMAIN pass'[q].todo : pass'[q].todo[i] = f
        <4>1. CASE q = p
          BY <2>3, <3>1, <3>3, <4>1
        <4>2. CASE q # p
          BY <2>2, <3>1, <3>3, <4>2
        <4> QED
          BY <4>1, <4>2
      <3> QED
        BY <3>2, <3>3
    <2>5. CASE Tail(s) = <<>>
      <3>1. \A f \in Fields : ~hasReference(field'[f])
        BY <2>3, <2>5
      <3>2. /\ Only(p) /\ pass'[p].at = "submitted"
            /\ enigmaDone' = TRUE /\ Through(p)
        BY <1>4, <2>5, WriteLast
      <3>3. FlagLeaves' /\ NoReferenceSubmitted'
        <4>1. gone'
          BY <3>2, Zenon DEF Through
        <4>2. \A m \in submitted' : m.value = field' \/ m \in submitted
          BY <3>2 DEF Through
        <4> QED
          BY <3>1, <4>1, <4>2
      <3>4. ReferencesAreListed'
        BY <3>1
      <3> QED
        BY <3>3, <3>4
    <2> QED
      BY <2>4, <2>5
  <1>5. ASSUME NEW p \in Passes, Refused(p) PROVE Resolved'
    BY <1>5, RefusedEnds
  <1>6. CASE UNCHANGED vars
    BY <1>6 DEF vars
  <1> QED
    BY <1>1, <1>2, <1>3, <1>4, <1>5, <1>6 DEF Next, PassStep

\* On a page that is left by its submit, and that nobody types into meanwhile, no
\* reference is sent, however many submits overlap.
THEOREM SecretsForReferences ==
  ASSUME ~Stays, ~TypesMeanwhile
  PROVE  Spec => []NoReferenceSubmitted
  <1>1. Basic /\ Resolved /\ [Next]_vars => Resolved'
    BY ResolvedStep
  <1>2. Resolved => NoReferenceSubmitted
    BY DEF Resolved
  <1> QED
    BY <1>1, <1>2, BasicStart, BasicStep, ResolvedStart, PTL DEF Spec

=============================================================================
