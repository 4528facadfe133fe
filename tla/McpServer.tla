------------------------------- MODULE McpServer -------------------------------
(***************************************************************************)
(* The gateway's stdio transport (mcp-server.js): a byte stream that       *)
(* arrives in chunks of any length is cut into lines of bounded length,    *)
(* and each line is handled to its end before the next one.  A byte stands *)
(* for a part of a message: the first one on a line tells what the message *)
(* is, Pad lengthens it, Bad is no UTF-8 and Blank is white space.  The id *)
(* of the request on the k-th line is k; 0 is the id null.                 *)
(***************************************************************************)
EXTENDS Naturals, Sequences, SequencesExt, FiniteSets

CONSTANTS
    Streams,        \* The inputs considered, as sequences of bytes.
    Newline, Pad, Bad, Blank,
    MaxMessage      \* MAX_MESSAGE_BYTES: how long a line may be.

ASSUME MaxMessageAssumption == MaxMessage \in Nat \ {0}

ASSUME StreamsAssumption == \A s \in Streams : s \in Seq(ToSet(s))

VARIABLES
    input,          \* The whole stream.
    taken,          \* How many of its bytes have been read.
    data,           \* The rest of the chunk that was read last.
    parts,          \* The bytes of the line that is not complete.
    lines,          \* How many lines were completed.
    initialized, ready,
    replies,        \* What was written to the output.
    stdio           \* "open", "ended" or "failed", the result of serveStdio.

mcpVars == <<input, taken, data, parts, lines, initialized, ready, replies, stdio>>

--------------------------------------------------------------------------------
(* Messages. *)

Reply(id, code) == [id |-> id, code |-> code]

Notifications == {"initialized", "notification"}

Tools(raw, broker) ==
    {"list"} \cup (IF raw THEN {"resolve"} ELSE {})
             \cup (IF broker THEN {"operations", "execute"} ELSE {})

Calls == {"list", "resolve", "operations", "execute"}

\* handle: the reply to a message, or none, in a session that is as s says.
Handled(m, k, s, raw, broker) ==
    CASE m = "garbage"                           -> <<Reply(0, "parse_error")>>
      [] m = "not_a_request"                     -> <<Reply(0, "invalid_request")>>
      [] m = "response" \/ m \in Notifications   -> <<>>
      [] m = "initialize" /\ s.initialized       -> <<Reply(k, "invalid_request")>>
      [] m = "initialize_bad" /\ s.initialized   -> <<Reply(k, "invalid_request")>>
      [] m = "initialize_bad"                    -> <<Reply(k, "invalid_params")>>
      [] m \in {"initialize", "ping"}            -> <<Reply(k, "result")>>
      [] OTHER ->
         IF ~s.ready THEN <<Reply(k, "not_initialized")>>
         ELSE IF m \in Tools(raw, broker) \cup {"tools/list"} THEN <<Reply(k, "result")>>
         ELSE IF m \in Calls \cup {"call_bad"} THEN <<Reply(k, "invalid_params")>>
         ELSE <<Reply(k, "method_not_found")>>

After(m, s) ==
    [initialized |-> s.initialized \/ m = "initialize",
     ready       |-> s.ready \/ (m = "initialized" /\ s.initialized)]

Session == [initialized |-> initialized, ready |-> ready]

Message(line) == SelectSeq(line, LAMBDA b : b \notin {Blank, Pad})[1]

IsBlank(line) == \A i \in DOMAIN line : line[i] = Blank

--------------------------------------------------------------------------------
(* serveStdio. *)

McpInit(streams) ==
    /\ input \in streams
    /\ taken = 0 /\ data = <<>> /\ parts = <<>> /\ lines = 0
    /\ initialized = FALSE /\ ready = FALSE
    /\ replies = <<>>
    /\ stdio = "open"

\* The next chunk is read when the last one is used up.
Chunk ==
    /\ stdio = "open" /\ data = <<>>
    /\ \E end \in taken + 1 .. Len(input) :
          /\ data' = SubSeq(input, taken + 1, end)
          /\ taken' = end
    /\ UNCHANGED <<input, parts, lines, initialized, ready, replies, stdio>>

FirstNewline == SelectInSeq(data, LAMBDA b : b = Newline)

\* The bytes up to the newline, or to the end of the chunk.
NewSegment == IF FirstNewline = 0 THEN data ELSE SubSeq(data, 1, FirstNewline - 1)

\* Mutant: the length of what one chunk adds, not of the line.
TooLongInChunk(line) == Len(NewSegment) > MaxMessage

TooLong(line) == Len(line) > MaxMessage

\* One round of the loop over a chunk.
Segment(raw, broker) ==
    LET line == parts \o NewSegment
    IN  /\ stdio = "open" /\ data # <<>>
        /\ UNCHANGED <<input, taken>>
        /\ \/ /\ TooLong(line)
              /\ replies' = Append(replies, Reply(0, "too_large"))
              /\ stdio' = "failed"
              /\ UNCHANGED <<data, parts, lines, initialized, ready>>
           \/ /\ ~TooLong(line) /\ FirstNewline = 0
              /\ parts' = line
              /\ data' = <<>>
              /\ UNCHANGED <<lines, initialized, ready, replies, stdio>>
           \/ /\ ~TooLong(line) /\ FirstNewline > 0
              /\ parts' = <<>>
              /\ data' = SubSeq(data, FirstNewline + 1, Len(data))
              /\ lines' = lines + 1
              /\ UNCHANGED stdio
              /\ IF Bad \in ToSet(line)
                 THEN /\ replies' = Append(replies, Reply(0, "invalid_utf8"))
                      /\ UNCHANGED <<initialized, ready>>
                 ELSE IF IsBlank(line) THEN UNCHANGED <<initialized, ready, replies>>
                 ELSE /\ replies' = replies \o Handled(Message(line), lines', Session, raw, broker)
                      /\ initialized' = After(Message(line), Session).initialized
                      /\ ready' = After(Message(line), Session).ready

\* The input ends; bytes without a newline are an incomplete message.
EndOfInput ==
    /\ stdio = "open" /\ data = <<>> /\ taken = Len(input)
    /\ IF parts = <<>>
       THEN stdio' = "ended" /\ UNCHANGED replies
       ELSE stdio' = "failed" /\ replies' = Append(replies, Reply(0, "incomplete"))
    /\ UNCHANGED <<input, taken, data, parts, lines, initialized, ready>>

McpStep(raw, broker) == Chunk \/ Segment(raw, broker) \/ EndOfInput

--------------------------------------------------------------------------------
(* What a reader of whole lines would answer to a stream of bytes. *)

Ends(s) == {i \in DOMAIN s : s[i] = Newline}

Start(s, end) == IF \E i \in Ends(s) : i < end
                 THEN CHOOSE i \in Ends(s) : i < end /\ \A j \in Ends(s) : j < end => j <= i
                 ELSE 0

\* The k-th line, the last one being what follows the last newline.
Line(s, k) ==
    LET end == CHOOSE e \in Ends(s) \cup {Len(s) + 1} :
                   Cardinality({i \in Ends(s) : i <= e}) + (IF e \in Ends(s) THEN 0 ELSE 1) = k
    IN  SubSeq(s, Start(s, end) + 1, end - 1)

Count(s) == Cardinality(Ends(s)) + 1

\* FALSE once a line was too long: no later line is answered.
Read(s, k) == \A j \in 1 .. k : Len(Line(s, j)) <= MaxMessage

Understood(line) == Bad \notin ToSet(line) /\ ~IsBlank(line)

Says(s, k, m) == Understood(Line(s, k)) /\ Message(Line(s, k)) = m

SessionBefore(s, k) ==
    LET opened(j) == \E i \in 1 .. j - 1 : Says(s, i, "initialize")
    IN  [initialized |-> opened(k),
         ready |-> \E j \in 1 .. k - 1 : Says(s, j, "initialized") /\ opened(j)]

AnswerTo(s, k, raw, broker) ==
    LET line == Line(s, k)
    IN  IF Len(line) > MaxMessage THEN <<Reply(0, "too_large")>>
        ELSE IF k = Count(s) THEN IF line = <<>> THEN <<>> ELSE <<Reply(0, "incomplete")>>
        ELSE IF Bad \in ToSet(line) THEN <<Reply(0, "invalid_utf8")>>
        ELSE IF IsBlank(line) THEN <<>>
        ELSE Handled(Message(line), k, SessionBefore(s, k), raw, broker)

Answers(s, raw, broker) ==
    FlattenSeq([k \in 1 .. Count(s) |-> IF Read(s, k - 1) THEN AnswerTo(s, k, raw, broker) ELSE <<>>])

=============================================================================
