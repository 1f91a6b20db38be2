------------------------------ MODULE CaptureText ------------------------------
(***************************************************************************)
(* proxy_capture.rs, read_records: the reading of a capture file line by line. *)
(* A text is a sequence of characters; the reader's buffer ends after the      *)
(* places in ends, and at the end of the file.                               *)
(***************************************************************************)
EXTENDS Integers, Sequences, FiniteSets

CONSTANTS
    Newline,
    Garbage         \* a character that no valid record contains

-----------------------------------------------------------------------------
\* The line in progress is the text after from and up to at; lines: the ones given
\* to the callback; done: "end" or "error" when the loop is left.
LineReading(C) == [from : Nat, at : Nat, lines : Seq(Seq(C)), done : {"no", "end", "error"}]
ReadStart == [from |-> 0, at |-> 0, lines |-> <<>>, done |-> "no"]

\* What fill_buf shows after place at is taken up to its first newline, or all of it.
Stops(text, ends, at) ==
    {e \in (at + 1)..Len(text) : e \in ends \/ e = Len(text) \/ text[e] = Newline}
Taken(text, ends, at) ==
    CHOOSE e \in Stops(text, ends, at) : \A d \in Stops(text, ends, at) : e <= d

\* Faulty: the limit is applied to what is taken from one buffer
TooLongByPiece(s, to, max) == to - s.at > max

TooLong(s, to, max) == to - s.from > max

\* A line that is not UTF-8, no record, one of another version, or one that the
\* callback refuses.
Invalid(line) == \E i \in 1..Len(line) : line[i] = Garbage

Blank(line) == line = <<Newline>>

Failed(s) == [s EXCEPT !.done = "error"]

\* read_records has the line up to place to; blank lines are passed over.
LineRead(text, s, to) ==
    LET line == SubSeq(text, s.from + 1, to)
    IN  IF Invalid(line) THEN Failed(s)
        ELSE [from |-> to, at |-> to, done |-> "no",
              lines |-> IF Blank(line) THEN s.lines ELSE Append(s.lines, line)]

\* One turn of the loop in read_bounded_line.
read_bounded_line(text, ends, max, s) ==
    LET to == Taken(text, ends, s.at)
    IN  IF s.done # "no" THEN s
        ELSE IF s.at = Len(text)
        THEN IF s.from = s.at THEN [s EXCEPT !.done = "end"] ELSE LineRead(text, s, s.at)
        ELSE IF TooLong(s, to, max) THEN Failed(s)
        ELSE IF text[to] = Newline THEN LineRead(text, s, to)
        ELSE [s EXCEPT !.at = to]

\* No file takes more turns than this.
MaxReads(text) == 2 * Len(text) + 1

reading(text, ends, max) ==
    LET after[i \in 0..MaxReads(text)] ==
            IF i = 0 THEN ReadStart ELSE read_bounded_line(text, ends, max, after[i - 1])
    IN  after

read_records(text, ends, max) == reading(text, ends, max)[MaxReads(text)]

-----------------------------------------------------------------------------
\* The places where a line ends, the place after which it begins, and the line.
LineEnds(text) == {e \in 1..Len(text) : text[e] = Newline \/ e = Len(text)}
IsLine(text, b, e) == b < e /\ \A d \in LineEnds(text) : d <= b \/ e <= d
LineStart(text, e) == CHOOSE b \in {0} \cup LineEnds(text) : IsLine(text, b, e)
LineTo(text, e) == SubSeq(text, LineStart(text, e) + 1, e)

BadEnds(text, max) ==
    {e \in LineEnds(text) : e - LineStart(text, e) > max \/ Invalid(LineTo(text, e))}
GoodEnds(text, max) ==
    {e \in LineEnds(text) : (\A b \in BadEnds(text, max) : e < b) /\ ~Blank(LineTo(text, e))}

\* lines are the lines that end in the places G, in their order.
LinesOf(text, lines, G) ==
    /\ Len(lines) = Cardinality(G)
    /\ \A e \in G : lines[Cardinality({d \in G : d <= e})] = LineTo(text, e)

\* However the buffer cuts the file, its records are its lines up to the first that
\* is invalid or longer than the limit, and an error is such a line.
LinesRight(text, ends, max) ==
    LET s == read_records(text, ends, max)
    IN  /\ s.done = IF BadEnds(text, max) = {} THEN "end" ELSE "error"
        /\ LinesOf(text, s.lines, GoodEnds(text, max))
=============================================================================
