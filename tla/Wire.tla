-------------------------------- MODULE Wire --------------------------------
(***************************************************************************)
(* The format of the protocol's values (internal/wire): WriteTo and the    *)
(* reader, as functions on texts.  A text is a sequence of bytes, of which *)
(* the letters stand for all bytes without a meaning in the format.        *)
(*                                                                         *)
(* Reading gives the value, what is left of the text, and how it ended:    *)
(* "none", "io" (ErrIO: the text ended), "format" (ErrFormat, with what    *)
(* was unexpected), or "panic" (make of a length that there cannot be).    *)
(*                                                                         *)
(* Maps are left out (only SHOWUSER writes one, and nothing here reads     *)
(* them), and so are '%' in the text of an error, which fmt.Sprintf        *)
(* expands once more, and sizes that do not fit an int.                    *)
(***************************************************************************)
EXTENDS Integers, Sequences

CONSTANTS
    MaxBlobSize,    \* of the reader: 32 KB in the session
    MaxLen,         \* the greatest length that make of a []Value takes
    Nesting,        \* how deep the values that are considered nest
    Byte            \* those with a meaning in the format, and some others

Nl       == "\n"
Digits   == <<"0", "1", "2", "3", "4", "5", "6", "7", "8", "9">>
NullSign == "_"
Sigils   == {NullSign, "#", "+", "-", "@", "=", "*", "$", ":"}
Meanings == Sigils \cup {"t", "f", " ", ",", Nl}
              \cup {Digits[i] : i \in DOMAIN Digits}

ASSUME WireAssumption ==
    /\ MaxBlobSize \in Nat /\ MaxLen \in Nat /\ Nesting \in Nat
    /\ Meanings \cup {"P", "e"} \subseteq Byte

Bytes  == Seq(Byte)
InLine == {s \in Bytes : \A i \in DOMAIN s : s[i] # Nl}

Null          == [t |-> "null"]
Bool(b)       == [t |-> "bool", value |-> b]
String(s)     == [t |-> "string", text |-> s]
Error(c, m)   == [t |-> "error", code |-> c, message |-> m]
Integer(n)    == [t |-> "integer", int |-> n]
Blob(d)       == [t |-> "blob", data |-> d]
Array(vs)     == [t |-> "array", values |-> vs]
Tagged(v, g)  == [t |-> "tagged", tag |-> g, of |-> v]

Table(rows, cols, cells) ==
    [t |-> "table", rows |-> rows, cols |-> cols, cells |-> cells]

NoRows == Table(0, 0, <<>>)

\* A table grows by rows; the first one fixes how many columns it has, and the
\* first one is told by the absence of cells.
Add(tbl, row) ==
    IF tbl.cells = <<>> THEN Table(1, Len(row), row)
    ELSE Table(tbl.rows + 1, tbl.cols, tbl.cells \o row)

-----------------------------------------------------------------------------
(* The values that can be written so that they can be read: what is on a   *)
(* line has no newline, a code no space, and a table as many cells as its  *)
(* rows and columns need.  Arrays and tables nest; tags do not.            *)

Simple ==
    [t : {"null"}] \cup [t : {"bool"}, value : BOOLEAN]
      \cup [t : {"string"}, text : InLine]
      \cup [t : {"error"}, code : {s \in InLine : \A i \in DOMAIN s : s[i] # " "},
            message : InLine]
      \cup [t : {"integer"}, int : Int]
      \cup [t : {"blob"}, data : {d \in Bytes : Len(d) <= MaxBlobSize}]

\* What Add makes of rows of one length; rows without cells do not add up.
IsTable(tbl) ==
    \/ tbl.rows = 0 /\ tbl.cells = <<>>
    \/ tbl.rows = 1 /\ tbl.cells = <<>> /\ tbl.cols = 0
    \/ /\ tbl.rows > 0 /\ tbl.cols > 0 /\ tbl.cols <= MaxLen
       /\ Len(tbl.cells) = tbl.rows * tbl.cols

Compound(inner) ==
    [t : {"array"}, values : {vs \in Seq(inner) : Len(vs) <= MaxLen}]
      \cup {tbl \in [t : {"table"}, rows : Nat, cols : Nat, cells : Seq(inner)] :
                IsTable(tbl)}

Untagged[d \in 0 .. Nesting] ==
    Simple \cup (IF d = 0 THEN {} ELSE Compound(Untagged[d - 1]))

Values == Untagged[Nesting]
            \cup [t : {"tagged"}, tag : InLine, of : Untagged[Nesting]]

-----------------------------------------------------------------------------
(* Numbers, as strconv and fmt write and read them.                        *)

IsDigit(b) == \E i \in DOMAIN Digits : Digits[i] = b
DigitOf(b) == CHOOSE n \in 0 .. 9 : Digits[n + 1] = b

Decimal(n) ==
    LET dec[k \in 0 .. (IF n < 0 THEN -n ELSE n)] ==
            IF k < 10 THEN <<Digits[k + 1]>>
            ELSE Append(dec[k \div 10], Digits[(k % 10) + 1])
    IN  IF n < 0 THEN <<"-">> \o dec[-n] ELSE dec[n]

Unsigned(s) == IF s # <<>> /\ Head(s) \in {"+", "-"} THEN Tail(s) ELSE s

IsNumber(s) ==
    Unsigned(s) # <<>> /\ \A i \in DOMAIN Unsigned(s) : IsDigit(Unsigned(s)[i])

Number(ds) ==
    LET upTo[i \in 0 .. Len(ds)] ==
            IF i = 0 THEN 0 ELSE 10 * upTo[i - 1] + DigitOf(ds[i])
    IN  upTo[Len(ds)]

Atoi(s) == IF Head(s) = "-" THEN -Number(Unsigned(s)) ELSE Number(Unsigned(s))

-----------------------------------------------------------------------------
(* Writing.                                                                *)

Line(sigil, s) == <<sigil>> \o (s \o <<Nl>>)

\* Texts, one after the other.
Joined(ts) ==
    LET n == Len(ts)
        last[k \in 0 .. n] == IF k = 0 THEN <<>> ELSE ts[n - k + 1] \o last[k - 1]
    IN  last[n]

\* WriteTo of every type, where inner is that of the values inside.
WriteTo(v, inner) ==
    CASE v.t = "null"    -> Line(NullSign, <<>>)
      [] v.t = "bool"    -> Line("#", <<IF v.value THEN "t" ELSE "f">>)
      [] v.t = "string"  -> Line("+", v.text)
      [] v.t = "error"   -> Line("-", v.code \o (<<" ">> \o v.message))
      [] v.t = "integer" -> Line(":", Decimal(v.int))
      [] v.t = "blob"    -> Line("$", Decimal(Len(v.data))) \o (v.data \o <<Nl>>)
      [] v.t = "array"   -> Line("*", Decimal(Len(v.values)))
                              \o Joined([i \in DOMAIN v.values |-> inner[v.values[i]]])
      [] v.t = "table"   -> Line("=", Decimal(v.rows) \o (<<",">> \o Decimal(v.cols)))
                              \o Joined([i \in DOMAIN v.cells |-> inner[v.cells[i]]])

Texts[d \in 0 .. Nesting] ==
    [v \in Untagged[d] |-> WriteTo(v, IF d = 0 THEN <<>> ELSE Texts[d - 1])]

Text(v) == IF v.t = "tagged" THEN Line("@", v.tag) \o Texts[Nesting][v.of]
           ELSE Texts[Nesting][v]

AllTexts(vs) == Joined([i \in DOMAIN vs |-> Text(vs[i])])

-----------------------------------------------------------------------------
(* Reading.                                                                *)

Read(v, rest) == [end |-> "none", val |-> v, rest |-> rest, odd |-> <<>>]
Ended         == [end |-> "io", val |-> Null, rest |-> <<>>, odd |-> <<>>]
Bad(odd, rest) == [end |-> "format", val |-> Null, rest |-> rest, odd |-> odd]
Panicked      == [end |-> "panic", val |-> Null, rest |-> <<>>, odd |-> <<>>]

From(txt, i)  == SubSeq(txt, i, Len(txt))

\* Where a byte is found first, or 0.
IndexOf(txt, b) ==
    IF \E i \in DOMAIN txt : txt[i] = b
    THEN CHOOSE i \in DOMAIN txt : txt[i] = b /\ \A j \in 1 .. i - 1 : txt[j] # b
    ELSE 0

\* (mutant) what is there before the end of the text is a line too
ReadBytes_atEof(txt) ==
    LET i == IF IndexOf(txt, Nl) = 0 THEN Len(txt) + 1 ELSE IndexOf(txt, Nl)
    IN  [ok |-> txt # <<>>, line |-> SubSeq(txt, 1, i - 1),
         rest |-> From(txt, i + 1)]

\* ReadBytes('\n'), and the line without its end; the bytes of a line that
\* never ends are lost.
ReadBytes(txt) ==
    LET i == IndexOf(txt, Nl)
    IN  [ok |-> i # 0, line |-> SubSeq(txt, 1, i - 1),
         rest |-> IF i = 0 THEN <<>> ELSE From(txt, i + 1)]

\* (mutant) the line keeps its end
nextLine_untrimmed(txt) ==
    LET r == ReadBytes(txt) IN [r EXCEPT !.line = Append(@, Nl)]

\* The next line that is not empty.
nextLine(txt) ==
    LET i == CHOOSE i \in 1 .. Len(txt) + 1 :
                 /\ i <= Len(txt) => txt[i] # Nl
                 /\ \A j \in 1 .. i - 1 : txt[j] = Nl
    IN  ReadBytes(From(txt, i))

handleNull(txt) ==
    IF txt = <<>> THEN Ended
    ELSE IF Head(txt) # Nl THEN Bad(<<Head(txt)>>, Tail(txt))
    ELSE Read(Null, Tail(txt))

handleBoolean(txt) ==
    IF txt = <<>> THEN Ended
    ELSE IF Head(txt) \notin {"t", "f"} THEN Bad(<<Head(txt)>>, Tail(txt))
    ELSE LET r == handleNull(Tail(txt))     \* the newline
         IN  IF r.end = "none" THEN Read(Bool(Head(txt) = "t"), r.rest) ELSE r

handleString(txt) ==
    LET r == ReadBytes(txt)
    IN  IF r.ok THEN Read(String(r.line), r.rest) ELSE Ended

handleError(txt) ==
    LET r     == ReadBytes(txt)
        space == IndexOf(r.line, " ")
    IN  IF ~r.ok THEN Ended
        ELSE IF space = 0 THEN Bad(<<>>, r.rest)
        ELSE Read(Error(SubSeq(r.line, 1, space - 1),
                        From(r.line, space + 1)), r.rest)

\* (mutant) a blob of the greatest size is refused
handleBlob_below(size, txt) ==
    IF size >= MaxBlobSize THEN Bad(<<>>, txt)
    ELSE LET r == handleNull(From(txt, size + 1))
         IN  IF r.end = "none" THEN Read(Blob(SubSeq(txt, 1, size)), r.rest)
             ELSE r

\* A blob that is too large is refused before it is read: its bytes are what
\* is read next.
handleBlob(size, txt) ==
    IF size > MaxBlobSize THEN Bad(<<>>, txt)
    ELSE IF size < 0 THEN Panicked
    ELSE LET r == handleNull(From(txt, size + 1))   \* the newline
         IN  IF r.end = "none" THEN Read(Blob(SubSeq(txt, 1, size)), r.rest)
             ELSE r

\* n values, each read by reader; the first that cannot be read ends it.
readMany(n, reader, txt) ==
    LET got[k \in 0 .. n] ==
          IF k = 0 THEN Read(<<>>, txt)
          ELSE LET so == got[k - 1]
                   r  == reader[so.rest]
               IN  IF so.end # "none" THEN so
                   ELSE IF r.end = "none" THEN Read(Append(so.val, r.val), r.rest)
                   ELSE r
    IN  got[n]

handleArray(len, reader, txt) ==
    IF len < 0 \/ len > MaxLen THEN Panicked
    ELSE LET r == readMany(len, reader, txt)
         IN  IF r.end = "none" THEN Read(Array(r.val), r.rest) ELSE r

\* (mutant) the line says columns first
readTableSize_swapped(line) ==
    LET comma == IndexOf(line, ",")
    IN  [rows |-> From(line, comma + 1), cols |-> SubSeq(line, 1, comma - 1)]

readTableSize(line) ==
    LET comma == IndexOf(line, ",")
    IN  [rows |-> SubSeq(line, 1, comma - 1), cols |-> From(line, comma + 1)]

\* The cells, row by row; a row without cells is the first row each time.
TableOf(rows, cols, cells) ==
    LET added[i \in 0 .. rows] ==
          IF i = 0 THEN Table(0, cols, <<>>)
          ELSE Add(added[i - 1], SubSeq(cells, (i - 1) * cols + 1, i * cols))
    IN  added[rows]

handleTable(reader, txt) ==
    LET line == nextLine(txt)
        size == readTableSize(line.line)
        rows == Atoi(size.rows)
        cols == Atoi(size.cols)
        r    == readMany(rows * cols, reader, line.rest)
    IN  IF ~line.ok \/ ~IsNumber(size.rows) \/ ~IsNumber(size.cols)
        THEN Bad(line.line, line.rest)
        ELSE IF rows <= 0 THEN Read(Table(0, cols, <<>>), line.rest)
        ELSE IF cols < 0 \/ cols > MaxLen THEN Panicked
        ELSE IF r.end = "none" THEN Read(TableOf(rows, cols, r.val), r.rest)
        ELSE r

\* Tags do not nest, and an array or a table has none.
handleTag(canBeTag, reader, txt) ==
    LET name == ReadBytes(txt)
        r    == reader[name.rest]
    IN  IF ~canBeTag THEN Bad(<<>>, txt)
        ELSE IF ~name.ok THEN Ended
        ELSE IF r.end = "none" THEN Read(Tagged(r.val, name.line), r.rest)
        ELSE r

\* A line that ends the text is a format error here, like a line that is no
\* number: readValue wraps whatever goes wrong in ErrFormat.
readSize(txt) ==
    LET line == nextLine(txt)
    IN  IF line.ok /\ IsNumber(line.line) THEN Read(Atoi(line.line), line.rest)
        ELSE Bad(line.line, line.rest)

\* An array, a blob or an integer.
handleSized(sigil, reader, txt) ==
    LET size == readSize(txt)
    IN  IF size.end # "none" THEN size
        ELSE IF sigil = "*" THEN handleArray(size.val, reader, size.rest)
        ELSE IF sigil = "$" THEN handleBlob(size.val, size.rest)
        ELSE Read(Integer(size.val), size.rest)

\* reader reads the values inside this one.
readValue(txt, canBeTag, reader) ==
    IF txt = <<>> THEN Ended
    ELSE LET b == Head(txt) after == Tail(txt)
         IN  CASE b = NullSign -> handleNull(after)
               [] b = "#" -> handleBoolean(after)
               [] b = "+" -> handleString(after)
               [] b = "-" -> handleError(after)
               [] b = "@" -> handleTag(canBeTag, reader, after)
               [] b = "=" -> handleTable(reader, after)
               [] b \in {"*", "$", ":"} -> handleSized(b, reader, after)
               [] OTHER -> Bad(<<b>>, after)

\* What is read inside a text of d + 1 bytes: every value takes a byte at least.
Inside(d) ==
    LET upTo[k \in 0 .. d] ==
          [txt \in Bytes |-> IF k = 0 THEN Ended
                             ELSE readValue(txt, FALSE, upTo[k - 1])]
    IN  upTo[d]

\* reader.Read()
ReadNext(txt) == readValue(txt, TRUE, Inside(Len(txt)))
WireReader    == [txt \in Bytes |-> ReadNext(txt)]

\* What the session answers to malformed input: the text of a format error
\* ends with what was not expected.
Complaint(r) == Error(<<"P">>, <<"e">> \o r.odd)
=============================================================================
