------------------------------- MODULE JsonlLog -------------------------------
(***************************************************************************)
(* The append-only JSONL files (orchestrator/artifacts.py: append_jsonl,   *)
(* read_jsonl) under the iteration log and the oracle's run log.           *)
(*                                                                         *)
(* The file is a sequence of tokens.  An event is written as two halves,   *)
(* its text between them, and a newline; it parses only when it is whole   *)
(* and alone on a line.  json.dumps(ensure_ascii=False) writes a text as   *)
(* UTF-8, unescaped, so three kinds of text differ to the reader: plain    *)
(* ASCII; one with a separator (U+0085, U+2028, U+2029) where              *)
(* str.splitlines breaks the line; and one with a character of two bytes,  *)
(* whose first byte alone makes read_text raise UnicodeDecodeError.        *)
(***************************************************************************)
EXTENDS Integers, Sequences, FiniteSets

CONSTANTS
    Events,      \* event contents
    Text,        \* the kind of text each holds
    MaxAppends,  \* bound: calls of append_jsonl
    MaxTorn      \* bound: appends that fail or die part-way

ASSUME JsonlAssumption ==
    /\ Text \in [Events -> {"plain", "separator", "wide"}]
    /\ MaxAppends \in Nat
    /\ MaxTorn \in Nat

Head1(e) == <<"head", e>>
Tail1(e) == <<"tail", e>>
NewLine == <<"newline">>
Sep == <<"separator">>
LeadByte == <<"lead byte">>
NextByte == <<"continuation byte">>

\* json.dumps(event).
Json(e) ==
    <<Head1(e)>> \o (CASE Text[e] = "plain" -> <<>>
                       [] Text[e] = "separator" -> <<Sep>>
                       [] Text[e] = "wide" -> <<LeadByte, NextByte>>) \o <<Tail1(e)>>

Encode(e) == Append(Json(e), NewLine)

VARIABLES
    text,   \* the file: its tokens on disk
    acked,  \* the events whose append_jsonl returned
    last,   \* how the last append ended: "none", "ok", "torn"
    torn    \* appends that did not complete so far

logVars == <<text, acked, last, torn>>

LogInit == text = <<>> /\ acked = <<>> /\ last = "none" /\ torn = 0

\* Mutant: the event is written without its newline.
AppendUnended(e) ==
    /\ Len(acked) + torn < MaxAppends
    /\ text' = text \o Json(e)
    /\ acked' = Append(acked, e)
    /\ last' = "ok"
    /\ UNCHANGED torn

AppendJsonl(e) ==
    /\ Len(acked) + torn < MaxAppends
    /\ text' = text \o Encode(e)
    /\ acked' = Append(acked, e)
    /\ last' = "ok"
    /\ UNCHANGED torn

\* The process or the machine dies, or the disk is full, part-way.
TornAppend(e) ==
    /\ Len(acked) + torn < MaxAppends
    /\ torn < MaxTorn
    /\ \E n \in 0 .. Len(Encode(e)) - 1 : text' = text \o SubSeq(Encode(e), 1, n)
    /\ last' = "torn"
    /\ torn' = torn + 1
    /\ UNCHANGED acked

LogNext == \E e \in Events : AppendJsonl(e) \/ TornAppend(e)

LogSpec == LogInit /\ [][LogNext]_logVars

-----------------------------------------------------------------------------
(* read_jsonl *)

\* str.splitlines: the positions that end a line, and the last one of the
\* file if the file does not end with such a token.
LineEnds == {i \in DOMAIN text : text[i] \in {NewLine, Sep}}
LineStops == IF text = <<>> \/ Len(text) \in LineEnds THEN LineEnds
             ELSE LineEnds \cup {Len(text) + 1}

\* The tokens of the line that stops at position i.
Line(i) ==
    LET from == {j \in LineEnds : j < i}
        start == IF from = {} THEN 1 ELSE 1 + CHOOSE j \in from : \A k \in from : k <= j
    IN  SubSeq(text, start, i - 1)

Parses(line) == \E e \in Events : line = Json(e)

EventOf(line) == CHOOSE e \in Events : line = Json(e)

\* The stop of the last line; blank lines are skipped wherever they are.
FinalStop == CHOOSE i \in LineStops : \A j \in LineStops : j <= i

\* Mutant: malformed lines are skipped wherever they are.
TolerantReader == FALSE

\* LogCorruptionError: a malformed line that is not the final one.
Corrupt ==
    \E i \in LineStops : Line(i) # <<>> /\ ~Parses(Line(i)) /\ i # FinalStop

\* UnicodeDecodeError: the bytes of a character were cut apart.
Undecodable ==
    \E i \in DOMAIN text : text[i] = LeadByte /\ ~(i < Len(text) /\ text[i + 1] = NextByte)

\* The events read, in file order, when the log is not corrupt.
Entries ==
    LET good == {i \in LineStops : Parses(Line(i))}
        nth(n) == CHOOSE i \in good : Cardinality({j \in good : j <= i}) = n
    IN  [n \in 1 .. Cardinality(good) |-> EventOf(Line(nth(n)))]

-----------------------------------------------------------------------------
(* Properties *)

\* The reader returns entries instead of raising.
Readable == ~Corrupt /\ ~Undecodable

\* The event being written when the process died, should it be on disk whole.
WithTorn == last = "torn" /\ \E e \in Events : Entries = Append(acked, e)

\* A text with a line separator was written.
Separated == \E i \in DOMAIN text : text[i] = Sep

\* While every append completes, or the latest one is the first to be torn
\* and not inside a character, the reader gives back exactly what was
\* appended, with at most the torn event added (read_jsonl: "torn-final-line
\* tolerant"), as long as no text with a line separator was written.
ReadsWhatWasAppended ==
    ~Separated /\ (torn = 0 \/ (torn = 1 /\ last = "torn" /\ ~Undecodable)) =>
        Readable /\ (Entries = acked \/ WithTorn)

\* However many appends were torn, and wherever: a log that is read without an
\* exception has no hole in its middle.  What a replay sees is what was
\* appended, up to the last event (read_jsonl: consumers "must
\* fail closed on a hole, never proceed").
HoleOnlyAtEnd ==
    Readable =>
        \/ Entries = acked
        \/ WithTorn
        \/ \E e \in Events : acked = Append(Entries, e)
==============================================================================
