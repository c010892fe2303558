---------------------------- MODULE UsageTracker ----------------------------
(* Token usage read out of a provider's response while it streams past       *)
(* (portus-dataplane-core/src/ai/usage.rs).                                  *)
(*                                                                           *)
(* A body is a sequence of pieces, the smallest thing a frame can cut it     *)
(* into: pieces of one line (or of one JSON field) and the newline that ends *)
(* a line.  What a whole line says is in its last piece; a line whose last   *)
(* piece or newline has not come has said nothing.  The carry keeps only how *)
(* long the unfinished line is and its last piece: all that is read of it.   *)
EXTENDS Integers, Sequences, FiniteSets, SequencesExt

CONSTANTS
  SSE_LINE_MAX,  \* pieces the tracker holds while it waits for a newline
  None           \* an absent value

Fields == {"input", "output", "cache_read", "cache_creation"}

\* Pieces of a body.
Newline == [piece |-> "newline"]
Part == [piece |-> "part"]                                 \* says nothing by itself
Line(type, usage) == [piece |-> "line", type |-> type, usage |-> usage]

\* From<AnthropicUsage>: an absent count is zero.
FromAnthropic(u) == [f \in Fields |-> IF u[f] = None THEN 0 ELSE u[f]]

\* From<OpenAiUsage>: prompt_tokens includes the cached part; the four fields
\* mean the same whichever provider answered.
FromOpenAi(u) ==
  LET t == FromAnthropic(u)
      uncached == t.input - t.cache_read
  IN [input |-> IF uncached < 0 THEN 0 ELSE uncached, output |-> t.output,
      cache_read |-> t.cache_read, cache_creation |-> 0]

parse_usage(dialect, u) ==
  CASE dialect = "anthropic" -> FromAnthropic(u)
    [] dialect = "openai" -> FromOpenAi(u)
    [] dialect = "mcp" -> None

\* message_delta: cumulative counts; a field it does not repeat is kept.
Overlay(tokens, u) ==
  LET old == IF tokens = None THEN [f \in Fields |-> 0] ELSE tokens
  IN [f \in Fields |-> IF u[f] = None THEN old[f] ELSE u[f]]

sse_line(dialect, line, tokens) ==
  CASE line.piece # "line" \/ line.usage = None -> tokens
    [] line.piece = "line" /\ line.usage # None /\ dialect = "mcp" -> tokens
    [] line.piece = "line" /\ line.usage # None /\ dialect = "openai" -> FromOpenAi(line.usage)
    [] line.piece = "line" /\ line.usage # None /\ dialect = "anthropic" ->
         (CASE line.type = "start" -> FromAnthropic(line.usage)
            [] line.type = "delta" -> Overlay(tokens, line.usage)
            [] line.type = "other" -> tokens)

NoCarry == [length |-> 0, last |-> Part]

\* UsageTracker::new
NewTracker(dialect, streaming) ==
  [dialect |-> dialect, mode |-> IF streaming THEN "sse" ELSE "json",
   carry |-> NoCarry, overflowed |-> FALSE, tokens |-> None, scanned |-> None]

\* One piece of a chunk: a newline hands the carried line over, anything else
\* is carried; in JSON mode the scanner keeps the usage object once it is whole.
Scan(piece, t) ==
  CASE t.mode = "json" /\ piece.piece = "line" -> [t EXCEPT !.scanned = piece.usage]
    [] t.mode = "json" /\ piece.piece # "line" -> t
    [] t.mode = "sse" /\ piece.piece = "newline" ->
         [t EXCEPT !.tokens = sse_line(t.dialect, t.carry.last, @), !.carry = NoCarry]
    [] t.mode = "sse" /\ piece.piece # "newline" ->
         [t EXCEPT !.carry = [length |-> @.length + 1, last |-> piece]]

\* UsageTracker::feed: a line that outgrows the carry ends the reading of the
\* stream; what was read before it stays.
feed(t, chunk) ==
  LET scanned == FoldLeft(LAMBDA acc, piece : Scan(piece, acc), t, chunk)
  IN IF t.overflowed THEN t
     ELSE IF scanned.carry.length > SSE_LINE_MAX
            THEN [scanned EXCEPT !.overflowed = TRUE, !.carry = NoCarry]
            ELSE scanned

\* UsageTracker::finish: the tokens of the record.  An unfinished line is not
\* read; JSON is read once the object was seen whole.
finish(t) ==
  IF t.mode = "json" /\ t.scanned # None THEN parse_usage(t.dialect, t.scanned) ELSE t.tokens

(* What a body says, read from the whole of it. *)

\* The lines that ended within the body, oldest first.
Ended(body) ==
  LET ends == {i \in DOMAIN body : body[i] = Newline /\ i > 1}
  IN [k \in 1 .. Cardinality(ends) |->
        body[SetToSortSeq(ends, <)[k] - 1]]

\* The last line that starts a message, and for each field the last count
\* given since; OpenAI repeats everything in one final chunk.
Reported(dialect, streaming, body) ==
  LET said == SelectSeq(IF streaming THEN Ended(body) ELSE body,
                        LAMBDA p : p.piece = "line" /\ p.usage # None /\ p.type # "other")
      starts == {i \in DOMAIN said : said[i].type = "start"}
      first == IF starts = {} THEN 1 ELSE CHOOSE i \in starts : \A j \in starts : j <= i
      given(f) == {i \in first .. Len(said) : said[i].usage[f] # None}
      lastOf(f) == said[CHOOSE i \in given(f) : \A j \in given(f) : j <= i].usage[f]
      counts == [f \in Fields |-> IF given(f) = {} THEN 0 ELSE lastOf(f)]
  IN IF said = <<>> \/ dialect = "mcp" THEN None
     ELSE IF dialect = "anthropic" THEN counts
     ELSE FromOpenAi(said[Len(said)].usage)
=============================================================================
