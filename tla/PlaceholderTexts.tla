--------------------------- MODULE PlaceholderTexts ---------------------------
(***************************************************************************)
(* Texts with references such as {{NAME}}, and the two ways in which the   *)
(* integrations put values in their place: in one pass over the text, or   *)
(* with one String.replace after another, which also finds references in   *)
(* the values already put in and expands the pattern $& in a value.        *)
(***************************************************************************)
EXTENDS RestChecks

\* A text is a sequence of tokens: plain ones, references and the pattern $&.
Plain(x) == [is |-> "plain", n |-> x]
Ref(n)   == [is |-> "ref", n |-> n]
Pattern  == [is |-> "pattern", n |-> "$&"]

\* A finite text of such tokens, whose references have names that can be looked up.
IsText(text) ==
    /\ text \in Seq(ToSet(text))
    /\ \A t \in ToSet(text) : t = [is |-> t.is, n |-> t.n] /\ (t.is = "ref" => t.n \in Names)

\* The distinct names of a text that a regular expression for the given names
\* finds, in the order of their first occurrence.
RefsIn(text, names) ==
    LET found[i \in 0 .. Len(text)] ==
            IF i = 0 THEN <<>>
            ELSE LET before == found[i - 1]
                 IN  IF text[i].is = "ref" /\ text[i].n \in names \ ToSet(before)
                     THEN Append(before, text[i].n) ELSE before
    IN  found[Len(text)]

\* told[n] is the reply for the name n: a code, and the value when that is "ok".
Told(told, t) == t.is = "ref" /\ t.n \in DOMAIN told /\ told[t.n].code = "ok"

OnePass(text, told) ==
    FlattenSeq([i \in DOMAIN text |->
        IF Told(told, text[i]) THEN told[text[i].n].value ELSE <<text[i]>>])

\* String.replace's reading of the replacement: $& is the text matched.
Expanded(value, n) ==
    [i \in DOMAIN value |-> IF value[i] = Pattern THEN Ref(n) ELSE value[i]]

\* Mutant: a regular expression without the flag g.
ReplaceOneRef(text, n, value) ==
    LET first == SelectInSeq(text, LAMBDA t : t = Ref(n))
    IN  FlattenSeq([i \in DOMAIN text |->
            IF i = first THEN Expanded(value, n) ELSE <<text[i]>>])

ReplaceRefs(text, n, value) ==
    FlattenSeq([i \in DOMAIN text |->
        IF text[i] = Ref(n) THEN Expanded(value, n) ELSE <<text[i]>>])

InTurn(text, told) ==
    LET refs == RefsIn(text, DOMAIN told)
        after[i \in 0 .. Len(refs)] ==
            IF i = 0 THEN text
            ELSE LET before == after[i - 1]
                 IN  IF told[refs[i]].code = "ok" THEN ReplaceRefs(before, refs[i], told[refs[i]].value)
                     ELSE before
    IN  after[Len(refs)]

=============================================================================
