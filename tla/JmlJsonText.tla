---------------------------- MODULE JmlJsonText ----------------------------
(***************************************************************************)
(* The strings and numbers of std.json (std/json.c), character by          *)
(* character, as the two passes read them: jml_json_string_size and        *)
(* jml_json_number_size check a text and count its bytes,                  *)
(* jml_json_string_parse and jml_json_number_parse copy it.  The texts are *)
(* all those a run can build from the alphabets, one character at a time.  *)
(*                                                                         *)
(* In strings "A" to "L" are four hex digits: a code point of one, two or  *)
(* three bytes of UTF-8, a high and a low surrogate; "n" is a letter that  *)
(* is also an escape, "nl" a newline, "ctl" another control character.  In *)
(* numbers "I" is Infinity, "N" NaN and "end" the end of the input.        *)
(***************************************************************************)
EXTENDS Integers, Sequences, FiniteSets

CONSTANTS MaxString, MaxNumber      \* bounds: characters of a string, of a number

Quads == {"A", "B", "C", "H", "L"}
Digits == {"0", "1"}
Hex == {"0", "1", "e"}
AfterNumber == {" ", ",", "end"}    \* of what may follow a number
NumberStarts(json5) == {"-", "0", "1"} \cup (IF json5 THEN {"+", ".", "I", "N"} ELSE {})

TextAssumption == MaxString \in Nat /\ MaxNumber \in Nat

VARIABLES kind, json5, text         \* "string" or "number"; whether in MODE_JSON5; the input
vars == <<kind, json5, text>>

At(t, i) == IF i < Len(t) THEN t[i + 1] ELSE "eof"
Bytes(c) == CASE c \in Quads -> 4 [] c = "I" -> 8 [] c = "N" -> 3 [] OTHER -> 1
RECURSIVE Length(_)
Length(t) == IF t = <<>> THEN 0 ELSE Bytes(Head(t)) + Length(Tail(t))

-----------------------------------------------------------------------------
(* jml_json_string_size; a text that ends inside the string is open. *)
Error == [ok |-> FALSE, open |-> FALSE, off |-> 0, size |-> 0]
Open  == [Error EXCEPT !.open = TRUE]

(* mutant: the end of a surrogate pair is counted as one byte. *)
QuadBytesLow(q) == CASE q = "B" -> 1 [] q = "C" -> 2 [] OTHER -> 0

(* What an escape of four hex digits adds to its first character. *)
QuadBytes(q) == CASE q = "L" -> 3 [] q = "B" -> 1 [] q = "C" -> 2 [] OTHER -> 0

(* mutant: a high surrogate may stand alone. *)
QuadFitsAlone(q, high, t, i) == IF high THEN q = "L" ELSE q # "L"

QuadFits(q, high, t, i) ==
    IF high THEN q = "L"
    ELSE q # "L" /\ (q = "H" => At(t, i + 2) \in {"\\", "eof"} /\ At(t, i + 3) \in {"u", "eof"})

RECURSIVE SizeString(_, _, _, _, _)
SizeString(t, quote, i, high, size) ==
    LET c == At(t, i)  e == At(t, i + 1)  q == At(t, i + 2) IN
    CASE c = "eof" -> Open
      [] c = quote -> [ok |-> TRUE, open |-> FALSE, off |-> i + 1, size |-> size + 1]
      [] c = "tab" -> Error
      [] c = "nl" -> IF json5 THEN SizeString(t, quote, i + 1, high, size + 1) ELSE Error
      [] c = "\\" /\ e \in {"\"", "\\", "n"} -> SizeString(t, quote, i + 2, high, size + 1)
      [] c = "\\" /\ e = "eof" -> Open
      [] c = "\\" /\ e = "u" ->
            IF i + 3 >= Len(t) THEN Open
            ELSE IF q \in Quads /\ QuadFits(q, high, t, i + 1)
            THEN SizeString(t, quote, i + 3, q = "H", size + 1 + QuadBytes(q))
            ELSE Error
      [] c = "\\" -> Error
      [] OTHER -> SizeString(t, quote, i + 1, high, size + Bytes(c))

StringSize(t) ==
    IF t[1] = "\"" \/ (t[1] = "'" /\ json5) THEN SizeString(t, t[1], 1, FALSE, 0) ELSE Error

(* jml_json_string_parse: what it writes, the terminator left out. *)
Utf8(q) == CASE q = "A" -> <<"A1">> [] q = "B" -> <<"B1", "B2">> [] q = "C" -> <<"C1", "C2", "C3">>
             [] q = "L" -> <<"S1", "S2", "S3", "S4">> [] OTHER -> <<>>
RECURSIVE ParseString(_, _, _, _)
ParseString(t, quote, i, data) ==
    LET c == At(t, i)  e == At(t, i + 1) IN
    CASE c \in {quote, "eof"} -> [off |-> i + 1, data |-> data]
      [] c = "\\" /\ e = "u" -> ParseString(t, quote, i + 3, data \o Utf8(At(t, i + 2)))
      [] c = "\\" /\ e # "u" -> ParseString(t, quote, i + 2, Append(data, IF e = "n" THEN "nl" ELSE e))
      [] OTHER -> ParseString(t, quote, i + 1, Append(data, c))
StringParse(t) == ParseString(t, IF t[1] = "'" THEN "'" ELSE "\"", 1, <<>>)

-----------------------------------------------------------------------------
(* jml_json_number_size.  A name needs a character behind it, a sign and an
   exponent take the end of the input for the digit they need.             *)
Run(t, i, S) == CHOOSE j \in i..Len(t) : At(t, j) \notin S /\ \A k \in i..j - 1 : At(t, k) \in S
SignEnd(t, i) == IF At(t, i) \in {"-", "+"} THEN i + 1 ELSE i
NameEnd(t, i, c) == IF json5 /\ At(t, i) = c /\ At(t, i + 1) \notin {"end", "eof"} THEN i + 1 ELSE i
Named(t) == NameEnd(t, NameEnd(t, SignEnd(t, 0), "I"), "N")
SignFits(t) == LET s == SignEnd(t, 0) IN
    s > 0 /\ Named(t) = s => At(t, s) \in Digits \cup {"end"} \/ (json5 /\ At(t, s) = ".")

(* mutant: digits may follow a leading zero. *)
ZeroFitsAny(t, i) == TRUE

ZeroFits(t, i) == At(t, i) = "0" => At(t, i + 1) \notin Digits
PointFits(t, i, j) == At(t, j) = "." /\ At(t, j + 1) \notin Digits => json5 /\ j > i
PointEnd(t, j) == IF At(t, j) = "." THEN Run(t, j + 1, Digits) ELSE j
ExponentAt(t, k) == SignEnd(t, k + 1)
ExponentFits(t, k) == At(t, k) = "e" => At(t, ExponentAt(t, k)) \in Digits \cup {"end"}
(* The first digit is stepped over unseen: at the end, past the end. *)
ExponentEnd(t, k) ==
    IF At(t, k) # "e" THEN k
    ELSE IF At(t, ExponentAt(t, k)) = "end" THEN ExponentAt(t, k) + 1
    ELSE Run(t, ExponentAt(t, k), Digits)

IsHex(t) == json5 /\ At(t, 0) = "0" /\ At(t, 1) = "x"
NumberEnd(t) == IF IsHex(t) THEN Run(t, 2, Hex)
                ELSE ExponentEnd(t, PointEnd(t, Run(t, Named(t), Digits)))
NumberSize(t) ==
    LET i == Named(t)  j == Run(t, i, Digits)  k == PointEnd(t, j) IN
    [ok |-> /\ IsHex(t) \/ (SignFits(t) /\ ZeroFits(t, i) /\ PointFits(t, i, j) /\ ExponentFits(t, k))
            /\ At(t, NumberEnd(t)) \in AfterNumber \cup {"eof"},
     off |-> NumberEnd(t), size |-> Length(SubSeq(t, 1, NumberEnd(t))) + 1]

(* jml_json_parse refuses a text of which it is not at the end. *)
Accepted(t) == NumberSize(t).ok /\ NumberSize(t).off < Len(t)

(* jml_json_number_parse: digits and signs in any order, then a name. *)
Numerals == Digits \cup {".", "e", "+", "-"}
NumberParse(t) ==
    LET h == IF IsHex(t) THEN Run(t, 0, Hex \cup {"x"}) ELSE 0
        n == NameEnd(t, NameEnd(t, Run(t, h, Numerals), "I"), "N")
    IN [off |-> n, data |-> Length(SubSeq(t, 1, n)) + 1]

-----------------------------------------------------------------------------
Init ==
    /\ json5 \in BOOLEAN
    /\ \/ kind = "string" /\ text \in {<<"\"">>, <<"'">>}
       \/ kind = "number" /\ text \in {<<c>> : c \in NumberStarts(json5)}

After(t, n) == SubSeq(t, Len(t) - n + 1, Len(t))
InEscape(t) == Len(t) > 1 /\ After(t, 2) = <<"\\", "u">>
More(c) ==
    /\ \/ /\ kind = "string" /\ Len(text) < MaxString /\ StringSize(text).open
          /\ c \in {"\"", "'", "\\", "n", "u", "nl", "tab", "ctl"} \cup (IF InEscape(text) THEN Quads ELSE {})
       \/ /\ kind = "number" /\ Len(text) < MaxNumber /\ After(text, 1)[1] \notin AfterNumber
          /\ c \in Numerals \cup {"x", "I", "N"} \cup AfterNumber
    /\ text' = Append(text, c)
    /\ UNCHANGED <<kind, json5>>
Next == \E c \in {"\"", "'", "\\", "n", "u", "nl", "tab", "ctl", "x", "I", "N"} \cup Quads \cup Numerals \cup AfterNumber : More(c)
Spec == Init /\ [][Next]_vars

-----------------------------------------------------------------------------
(* Reference: the strings of JSON, as what each of their parts stands for,
   and raw control characters besides.                                     *)
Parts ==
    {[text |-> <<c>>, is |-> <<c>>] : c \in {"n", "u", "'", "ctl"} \cup Quads}
    \cup {[text |-> <<"\\", c>>, is |-> <<IF c = "n" THEN "nl" ELSE c>>] : c \in {"\"", "\\", "n"}}
    \cup {[text |-> <<"\\", "u", q>>, is |-> Utf8(q)] : q \in {"A", "B", "C"}}
    \cup {[text |-> <<"\\", "u", "H", "\\", "u", "L">>, is |-> <<"S1", "S2", "S3", "S4">>]}
RECURSIVE Means(_)
Means(t) ==
    IF t = <<>> THEN {<<>>}
    ELSE UNION { {p.is \o m : m \in Means(SubSeq(t, Len(p.text) + 1, Len(t)))}
               : p \in {q \in Parts : Len(q.text) <= Len(t) /\ SubSeq(t, 1, Len(q.text)) = q.text} }

(* Reference: the numbers of JSON. *)
All(t, S) == \A i \in 1..Len(t) : t[i] \in S
IsInt(t) == t = <<"0">> \/ (t # <<>> /\ t[1] # "0" /\ All(t, Digits))
IsFraction(t) == t = <<>> \/ (t[1] = "." /\ Len(t) > 1 /\ All(Tail(t), Digits))
IsExponent(t) ==
    \/ t = <<>>
    \/ /\ t[1] = "e"
       /\ \E i \in {1, 2} :
             /\ i < Len(t) /\ All(SubSeq(t, i + 1, Len(t)), Digits)
             /\ i = 2 => t[2] \in {"-", "+"}
IsNumber(t) ==
    \E s \in {0, 1}, i, j \in 0..Len(t) :
        /\ s <= i /\ i <= j /\ (s = 1 => t[1] = "-")
        /\ IsInt(SubSeq(t, s + 1, i)) /\ IsFraction(SubSeq(t, i + 1, j)) /\ IsExponent(SubSeq(t, j + 1, Len(t)))

Complete == IF kind = "string" THEN StringSize(text).ok ELSE After(text, 1)[1] \in AfterNumber

(* Digits, a point or an exponent behind Infinity or NaN: -Infinity.5e1. *)
GluedNumber(t) == ~IsHex(t) /\ Named(t) # SignEnd(t, 0) /\ NumberEnd(t) # Named(t)

NumberIsRead(t) == LET s == NumberSize(t)  p == NumberParse(t) IN p.off = s.off /\ p.data <= s.size

(* The second pass stops where the first one did, and writes no more bytes
   than were counted, surrogate pairs included: jml_json_string_parse looks
   for a quote and for nothing else.  Glued numbers are left out.          *)
SameText ==
    /\ kind = "string" /\ Complete =>
        LET s == StringSize(text)  p == StringParse(text)
        IN p.off = s.off /\ Length(p.data) + 1 <= s.size
    /\ kind = "number" /\ Complete /\ Accepted(text) => NumberIsRead(text) \/ GluedNumber(text)

(* Without extensions a string is read exactly when it is one of JSON, but
   for raw control characters, and as what it stands for.                  *)
StringIsJson ==
    ~json5 /\ kind = "string" =>
        LET body == SubSeq(text, 2, Len(text) - 1)  m == Means(body) IN
        /\ Complete => text[1] = "\"" /\ StringParse(text).data \in m
        /\ ~Complete /\ text[1] = "\"" /\ Len(text) > 1 /\ After(text, 1)[1] = "\"" => m = {}

(* Without extensions a number is read exactly when it is one of JSON, or a
   sign that ends the input.                                               *)
NumberIsJson ==
    ~json5 /\ kind = "number" /\ Complete =>
        (Accepted(text) <=> IsNumber(SubSeq(text, 1, Len(text) - 1)) \/ text = <<"-", "end">>)

(* The code breaks these, which no run checks: every number is read as it
   was checked, a number does not pass the end of the input (the do loop of
   the exponent, 1e), and strict strings have no raw control characters.   *)
EveryNumberIsRead == kind = "number" /\ Complete /\ Accepted(text) => NumberIsRead(text)
NumberStaysInside == kind = "number" /\ Complete /\ NumberSize(text).ok => NumberSize(text).off < Len(text)
ControlsAreEscaped == ~json5 /\ kind = "string" /\ Complete => \A i \in 1..Len(text) : text[i] # "ctl"
=============================================================================
