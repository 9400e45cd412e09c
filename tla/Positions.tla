----------------------------- MODULE Positions -----------------------------
(***************************************************************************)
(* Between the byte columns of go/token and the UTF-16 columns of LSP:     *)
(* byteColumnToUTF16, utf16ColumnToByte and sourceLine of position.go.     *)
(*                                                                         *)
(* A text is a sequence of runes, of which only the width in bytes and in  *)
(* UTF-16 units matters.  A "query" sends the position of a byte column to *)
(* gopls and gets the same position back, as when a type is its own        *)
(* answer; an "answer" is any position gopls may send.                     *)
(***************************************************************************)
EXTENDS Integers, Sequences, FiniteSetsExt

CONSTANTS
    MaxRunes,    \* bound: runes of a file
    Alphabet     \* runes a file is made of

\* "bad" is a byte that is no UTF-8, which decodes to U+FFFD on its own.
Width == [lf |-> 1, cr |-> 1, one |-> 1, two |-> 2, three |-> 3, four |-> 4, bad |-> 1]
Units == [lf |-> 1, cr |-> 1, one |-> 1, two |-> 1, three |-> 1, four |-> 2, bad |-> 1]

ASSUME PositionsAssumption == MaxRunes \in Nat /\ Alphabet \subseteq DOMAIN Width

VARIABLES
    contents,           \* the file
    way,                \* "query" or "answer"
    stage,
    line, column, character,
    start, current,     \* sourceLine: where line current starts
    text,               \* the line found
    rune, byteOffset, units    \* utf16ColumnToByte: how far the scan is

input == <<contents, way, line>>
seek  == <<start, current, text>>
scan  == <<rune, byteOffset, units>>
vars  == <<contents, way, stage, line, column, character, start, current, text,
           rune, byteOffset, units>>

\* The size of the first k runes, counting the bytes or units of each.
Size(width, s, k) == Cardinality({p \in (1..k) \X (1..4) : p[2] <= width[s[p[1]]]})

BytesIn(s, k) == Size(Width, s, k)
UnitsIn(s, k) == Size(Units, s, k)
Bytes(s)      == BytesIn(s, Len(s))

Init ==
    /\ contents \in UNION {[1..n -> Alphabet] : n \in 0..MaxRunes}
    /\ way \in {"query", "answer"}
    /\ stage = "line"
    /\ line \in 0..(MaxRunes + 1)
    /\ IF way = "query" THEN column \in 0..(Bytes(contents) + 2) /\ character = 0
                        ELSE character \in 0..(2 * MaxRunes + 1) /\ column = 0
    /\ start = 0 /\ current = 1 /\ text = <<>>
    /\ rune = 0 /\ byteOffset = 0 /\ units = 0

Fails == stage' = "error"

---------------------------------------------------------------------------
(* sourceLine.                                                             *)

\* The first line feed at or after start, as an index from 0; none gives the end.
Feeds  == {i \in start..(Len(contents) - 1) : contents[i + 1] = "lf"}
LineEnd == IF Feeds = {} THEN Len(contents) ELSE Min(Feeds)

SkipLine ==
    /\ stage = "line" /\ line >= 1 /\ current < line
    /\ IF Feeds = {} THEN Fails /\ UNCHANGED seek
       ELSE start' = Min(Feeds) + 1 /\ current' = current + 1 /\ UNCHANGED <<stage, text>>
    /\ UNCHANGED <<input, column, character, scan>>

NoLineZero ==
    /\ stage = "line" /\ line < 1
    /\ Fails
    /\ UNCHANGED <<input, column, character, seek, scan>>

\* One trailing carriage return is not part of the line.
TrimCR(s) == IF s # <<>> /\ s[Len(s)] = "cr" THEN SubSeq(s, 1, Len(s) - 1) ELSE s

\* A query converts its column; its answer is then looked for on the same line.
TakeLine ==
    /\ stage = "line" /\ line >= 1 /\ current = line
    /\ text' = TrimCR(SubSeq(contents, start + 1, LineEnd))
    /\ stage' = IF way = "query" THEN "convert" ELSE "scan"
    /\ UNCHANGED <<input, column, character, start, current, scan>>

---------------------------------------------------------------------------
(* byteColumnToUTF16.                                                      *)

\* Fault: the bound leaves out the column after the last rune.
Outside_LastColumn(offset) == offset < 0 \/ offset >= Bytes(text)

Outside(offset) == offset < 0 \/ offset > Bytes(text)

\* Runes that are whole within the first offset bytes.  A rune that is cut
\* there counts one unit for each of its bytes.
Whole(offset)   == Max({k \in 0..Len(text) : BytesIn(text, k) <= offset})
ToUTF16(offset) == UnitsIn(text, Whole(offset)) + offset - BytesIn(text, Whole(offset))

Convert ==
    /\ stage = "convert"
    /\ IF Outside(column - 1) THEN Fails /\ UNCHANGED character
       ELSE character' = ToUTF16(column - 1) /\ stage' = "scan"
    /\ UNCHANGED <<input, column, seek, scan>>

---------------------------------------------------------------------------
(* utf16ColumnToByte.                                                      *)

\* Fault: a column is counted in bytes.
RuneUnits_Bytes(r) == Width[r]

RuneUnits(r) == Units[r]

ScanRune ==
    /\ stage = "scan" /\ rune < Len(text) /\ units < character
    /\ rune' = rune + 1
    /\ byteOffset' = byteOffset + Width[text[rune + 1]]
    /\ units' = units + RuneUnits(text[rune + 1])
    /\ UNCHANGED <<input, stage, column, character, seek>>

\* Fault: a column inside a surrogate pair or past the line is rounded.
OffColumn_Never == FALSE

\* Past the line, or in the middle of a surrogate pair.
OffColumn == units # character

ScanEnds ==
    /\ stage = "scan" /\ ~(rune < Len(text) /\ units < character)
    /\ stage' = IF OffColumn THEN "error" ELSE "done"
    /\ UNCHANGED <<input, column, character, seek, scan>>

Result == byteOffset + 1

Finished == stage \in {"done", "error"} /\ UNCHANGED vars

Next == SkipLine \/ NoLineZero \/ TakeLine \/ Convert \/ ScanRune \/ ScanEnds \/ Finished

Spec == Init /\ [][Next]_vars

---------------------------------------------------------------------------
TypeOK ==
    /\ contents \in Seq(Alphabet) /\ text \in Seq(Alphabet)
    /\ Len(contents) <= MaxRunes /\ Len(text) <= Len(contents)
    /\ way \in {"query", "answer"}
    /\ stage \in {"line", "convert", "scan", "done", "error"}
    /\ line \in Nat /\ column \in Nat /\ character \in 0..(4 * MaxRunes + 1)
    /\ start \in 0..Len(contents) /\ current \in 1..(MaxRunes + 1)
    /\ rune \in 0..Len(text) /\ byteOffset = BytesIn(text, rune)
    /\ units \in 0..(character + 1)

\* The line by definition: the runes between two line feeds, by counting them.
Before(i)  == Cardinality({j \in 1..(i - 1) : contents[j] = "lf"})
OfLine     == {i \in 1..Len(contents) : Before(i) = line - 1 /\ contents[i] # "lf"}
LineExists == line >= 1 /\ Cardinality({i \in 1..Len(contents) : contents[i] = "lf"}) >= line - 1
LineText   == IF OfLine = {} THEN <<>>
              ELSE LET s == SubSeq(contents, Min(OfLine), Max(OfLine)) IN
                   IF s[Len(s)] = "cr" THEN SubSeq(s, 1, Len(s) - 1) ELSE s

Boundaries == {BytesIn(LineText, k) : k \in 0..Len(LineText)}

\* A position that starts a rune, or ends its line, survives the way to gopls
\* and back; no rune, whatever its width in either encoding, shifts it.
RoundTrip ==
    way = "query" /\ LineExists /\ column - 1 \in Boundaries =>
        stage # "error" /\ (stage = "done" => Result = column)

\* What gopls sends is converted exactly or refused, on every line of a file, a
\* last one without line feed and an empty one after the last line feed too: the
\* result starts a rune with that many UTF-16 units before it, and only a
\* position that has none (on no line, past it, or inside a surrogate pair) is an
\* error.
ExactOrRefused ==
    LET fits == {k \in 0..Len(LineText) : UnitsIn(LineText, k) = character} IN
    way = "answer" =>
        /\ stage = "done" => LineExists /\ \E k \in fits : Result = BytesIn(LineText, k) + 1
        /\ stage = "error" => ~LineExists \/ fits = {}
=============================================================================
