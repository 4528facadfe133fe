------------------------------ MODULE ContentScript -----------------------------
(***************************************************************************)
(* extension/content.js on one form of a web page: a submit is stopped     *)
(* when a field holds references, the fields are resolved one after the    *)
(* other, and the form is submitted again.  The user, and the agent that   *)
(* fills the form, go on typing and submitting meanwhile.                  *)
(***************************************************************************)
EXTENDS Naturals, FiniteSets, Sequences

CONSTANTS
    NumFields,      \* Fields of the form, in document order.
    Passes,         \* The submits that are stopped, each one pass of onSubmit.
    Stays,          \* Does the page handle submits itself, so that the form stays?
    TypesMeanwhile, \* Is there typing while a submit is being resolved?
    MaxReferences   \* Bound: references in one field.

ASSUME NumFieldsAssumption == NumFields \in Nat \ {0}
ASSUME BooleansAssumption == Stays \in BOOLEAN /\ TypesMeanwhile \in BOOLEAN
ASSUME MaxReferencesAssumption == MaxReferences \in Nat \ {0}

VARIABLES
    field,          \* The value of each field.
    enigmaDone,     \* form.dataset.enigmaDone
    pass,           \* Each run of onSubmit.
    gone,           \* Has the page been left by a submit?
    submitted,      \* What reached the page's own handling, and which pass sent it.
    failed          \* Ghost: the passes that ended with an error badge.

vars == <<field, enigmaDone, pass, gone, submitted, failed>>

--------------------------------------------------------------------------------

Fields == 1 .. NumFields

\* A value: how many references are in it still, and whether a secret is.
Values == [references : 0 .. MaxReferences, secret : BOOLEAN]

Plain == [references |-> 0, secret |-> FALSE]

hasReference(v) == v.references > 0

\* The fields to resolve, in order, the value of the first of them that is being
\* resolved (template, out), and how many of its references are left to ask for.
NotRun == [at |-> "unused", todo |-> <<>>, out |-> Plain]

Running == {p \in Passes : pass[p].at = "resolving"}

Init ==
    /\ field \in [Fields -> {v \in Values : ~v.secret}]
    /\ enigmaDone = FALSE
    /\ pass = [p \in Passes |-> NotRun]
    /\ gone = FALSE
    /\ submitted = {}
    /\ failed = {}

--------------------------------------------------------------------------------

\* Somebody types into a field.
Type(f) ==
    /\ ~gone
    /\ TypesMeanwhile \/ Running = {}
    /\ \E v \in {w \in Values : ~w.secret} : field' = [field EXCEPT ![f] = v]
    /\ UNCHANGED <<enigmaDone, pass, gone, submitted, failed>>

\* The event reaches the page, which either handles it or is left.
Through(p) ==
    /\ submitted' = submitted \cup {[by |-> p, value |-> field']}
    /\ gone' = ~Stays

InOrder(S) == CHOOSE s \in [1 .. Cardinality(S) -> S] :
                  \A i, j \in 1 .. Cardinality(S) : i < j => s[i] < s[j]

\* onSubmit: the submit goes through if the flag is set or there is nothing to
\* resolve. Otherwise it is stopped, and the first field is taken up.
Submit(p) ==
    LET found == {f \in Fields : hasReference(field[f])} IN
    /\ ~gone
    /\ pass[p].at = "unused"
    /\ UNCHANGED <<field, enigmaDone, failed>>
    /\ IF enigmaDone \/ found = {}
       THEN /\ Through(p)
            /\ pass' = [pass EXCEPT ![p].at = "through"]
       ELSE /\ pass' = [pass EXCEPT ![p] = [at |-> "resolving", todo |-> InOrder(found),
                                            out |-> field[InOrder(found)[1]]]]
            /\ UNCHANGED <<gone, submitted>>

\* The worker gives the value of a reference: it stands for every occurrence of
\* that reference in the field.
Value(p) ==
    /\ pass[p].at = "resolving" /\ ~gone
    /\ pass[p].out.references > 0
    /\ \E n \in 0 .. pass[p].out.references - 1 :
          pass' = [pass EXCEPT ![p].out = [references |-> n, secret |-> TRUE]]
    /\ UNCHANGED <<field, enigmaDone, gone, submitted, failed>>

\* Mutant: nothing is done after the last field.
WriteEndless(p) ==
    LET todo == Tail(pass[p].todo) IN
    /\ pass[p].at = "resolving" /\ ~gone
    /\ pass[p].out.references = 0 /\ todo # <<>>
    /\ field' = [field EXCEPT ![Head(pass[p].todo)] = pass[p].out]
    /\ pass' = [pass EXCEPT ![p].todo = todo, ![p].out = field'[Head(todo)]]
    /\ UNCHANGED <<enigmaDone, gone, submitted, failed>>

\* Mutant: the form is submitted after its first field.
WriteFirst(p) ==
    /\ pass[p].at = "resolving" /\ ~gone
    /\ pass[p].out.references = 0
    /\ field' = [field EXCEPT ![Head(pass[p].todo)] = pass[p].out]
    /\ enigmaDone' = TRUE
    /\ Through(p)
    /\ pass' = [pass EXCEPT ![p] = [NotRun EXCEPT !.at = "submitted"]]
    /\ UNCHANGED failed

\* setInputValue. After the last field the flag is set and the form submitted: the
\* flag lets it through.
Write(p) ==
    LET todo == Tail(pass[p].todo) IN
    /\ pass[p].at = "resolving" /\ ~gone
    /\ pass[p].out.references = 0
    /\ field' = [field EXCEPT ![Head(pass[p].todo)] = pass[p].out]
    /\ UNCHANGED failed
    /\ IF todo # <<>>
       THEN /\ pass' = [pass EXCEPT ![p].todo = todo, ![p].out = field'[Head(todo)]]
            /\ UNCHANGED <<enigmaDone, gone, submitted>>
       ELSE /\ enigmaDone' = TRUE
            /\ Through(p)
            /\ pass' = [pass EXCEPT ![p] = [NotRun EXCEPT !.at = "submitted"]]

\* Mutant: the form is submitted with what there is.
RefusedSubmits(p) ==
    /\ pass[p].at = "resolving" /\ ~gone
    /\ pass[p].out.references > 0
    /\ UNCHANGED field
    /\ Through(p)
    /\ pass' = [pass EXCEPT ![p] = [NotRun EXCEPT !.at = "failed"]]
    /\ failed' = failed \cup {p}
    /\ UNCHANGED enigmaDone

\* The worker answers with an error, or does not answer: an error badge is shown.
Refused(p) ==
    /\ pass[p].at = "resolving" /\ ~gone
    /\ pass[p].out.references > 0
    /\ pass' = [pass EXCEPT ![p] = [NotRun EXCEPT !.at = "failed"]]
    /\ failed' = failed \cup {p}
    /\ UNCHANGED <<field, enigmaDone, gone, submitted>>

PassStep(p) == Submit(p) \/ Value(p) \/ Write(p) \/ Refused(p)

Next == (\E f \in Fields : Type(f)) \/ (\E p \in Passes : PassStep(p))

Spec == Init /\ [][Next]_vars

\* The worker answers every request (ExtensionBridge!EveryRequestAnswered).
Fairness == \A p \in Passes : WF_vars(Value(p) \/ Refused(p)) /\ WF_vars(Write(p))

FairSpec == Spec /\ Fairness

--------------------------------------------------------------------------------
(* What the content script promises. *)

\* Every variable has its type.
TypeOK ==
    /\ field \in [Fields -> Values]
    /\ enigmaDone \in BOOLEAN
    /\ pass \in [Passes -> [at : {"unused", "resolving", "submitted", "through", "failed"},
                            todo : Seq(Fields), out : Values]]
    /\ gone \in BOOLEAN
    /\ submitted \subseteq [by : Passes, value : [Fields -> Values]]
    /\ failed \subseteq Passes

\* "Watches every form submit on every page" (content.js:4): no reference is ever
\* submitted in the place of its secret.
NoReferenceSubmitted == \A s \in submitted, f \in Fields : ~hasReference(s.value[f])

\* "one invalid reference in a field aborts the whole submit" (03-syntax.spec.js): a
\* pass that fails submits nothing, and leaves no flag that lets the next submit
\* through unresolved.
AbortedAsAWhole ==
    /\ \A s \in submitted : s.by \notin failed
    /\ enigmaDone => \E p \in Passes : pass[p].at = "submitted"

\* What the proofs add. A pass that is under way has a field to write.
SomethingToDo == \A p \in Running : pass[p].todo # <<>>

\* What was sent was sent by a pass that has ended, and the flag was set by one.
SentByItsPass ==
    /\ \A s \in submitted : pass[s.by].at \in {"submitted", "through"}
    /\ \A p \in failed : pass[p].at = "failed"
    /\ enigmaDone => \E p \in Passes : pass[p].at = "submitted"

\* Where a submit leaves the page, a flag that is set is of no further use.
FlagLeaves == enigmaDone => gone

\* Until they are written, all fields with references are on the list of every pass
\* that is under way.
ReferencesAreListed ==
    \A p \in Running, f \in Fields :
        hasReference(field[f]) => \E i \in DOMAIN pass[p].todo : pass[p].todo[i] = f

\* "Mixed: valid SITE_KEY + non-existent MISSING - must NOT reveal SITE_KEY"
\* (03-syntax.spec.js:111): after an error the fields hold no secret.
NoPartialReveal ==
    failed # {} /\ Running = {} /\ submitted = {} => \A f \in Fields : ~field[f].secret

\* "Plaintext secret: DOM <input>.value, ~1 event-loop tick" (ARCHITECTURE.md): the
\* fields hold no secret while the worker is being waited for.
PlaintextIsBrief == Running # {} => \A f \in Fields : ~field[f].secret

\* A submit that was stopped is answered: the form is submitted or the user told.
StoppedSubmitsEnd ==
    \A p \in Passes : pass[p].at = "resolving" ~> pass[p].at \in {"submitted", "failed"} \/ gone

================================================================================
