------------------------------ MODULE JmlJson ------------------------------
(***************************************************************************)
(* The parser of std.json (std/json.c).  It reads its input twice: the     *)
(* pass jml_json_*_size checks the text and adds up the bytes its strings  *)
(* and numbers need, the pass jml_json_*_parse builds the value and writes *)
(* those bytes, and checks nothing.                                        *)
(*                                                                         *)
(* The input is made up as it is read.  Its characters are the structural  *)
(* ones, a letter "k", a digit "1", a sign "-" and whole lexemes: "s" a    *)
(* quoted string of one character, "t" the word true, "I" Infinity, "c" a  *)
(* comment, " " a space.  JmlJsonText has what is inside strings and       *)
(* numbers.                                                                *)
(***************************************************************************)
EXTENDS Integers, Sequences, FiniteSets

CONSTANTS
    Alphabet,       \* the characters of inputs
    MaxLength       \* bound: characters of an input

Modes == {"strict", "lenient", "json5"}
Flags(mode) ==
    CASE mode = "strict"  -> {}
      [] mode = "lenient" -> {"trailing", "unquoted", "global", "equals", "nocommas"}
      [] mode = "json5"   -> {"trailing", "unquoted", "comments", "infnan"}

Letters == {"k", "1", "t", "I"}                     \* jml_is_identnum
Bytes(c) == CASE c = "t" -> 4 [] c = "I" -> 8 [] OTHER -> 1

ASSUME JsonAssumption ==
    /\ Alphabet \subseteq Letters \cup {"{", "}", "[", "]", ",", ":", "=", "-", "s", "c", " "}
    /\ MaxLength \in Nat

VARIABLES
    mode, src, ended,   \* the input, and whether it is complete
    pass,               \* "size", "parse", "done", "error" or "overrun"
    off,                \* parser->off
    stack,              \* the calls in progress, the innermost last
    data,               \* bytes counted, then bytes written
    size,               \* parser->data_size, once counted
    plan, built         \* what the first and the second pass read where

vars == <<mode, src, ended, pass, off, stack, data, size, plan, built>>

Has(f) == f \in Flags(mode)
Cur == IF off < Len(src) THEN src[off + 1] ELSE "eof"
Ready == off < Len(src) \/ ended
Top == stack[Len(stack)]
Under(s) == SubSeq(s, 1, Len(s) - 1)
At(s, at) == [s EXCEPT ![Len(s)].at = at]
Frame(is, at) == [is |-> is, at |-> at, comma |-> FALSE, n |-> 0]

(* The stack after the innermost value was read: a container goes on to
   its next element, the text to its end.                                  *)
After(s) == IF s[Len(s)].is = "text" THEN At(s, "end")
            ELSE [s EXCEPT ![Len(s)].at = "loop", ![Len(s)].comma = TRUE]

Text == Frame("text", "value")
Starts(m) == IF "global" \in Flags(m) THEN <<Text, Frame("global", "start")>> ELSE <<Text>>

Init ==
    /\ mode \in Modes /\ src = <<>> /\ ended = FALSE
    /\ pass = "size" /\ off = 0 /\ stack = Starts(mode) /\ data = 0 /\ size = 0
    /\ plan = <<>> /\ built = <<>>

(* The environment. *)
Feed(c) ==
    /\ pass = "size" /\ ~ended /\ off = Len(src) /\ Len(src) < MaxLength
    /\ src' = Append(src, c)
    /\ UNCHANGED <<mode, ended, pass, off, stack, data, size, plan, built>>
FeedEnd ==
    /\ pass = "size" /\ ~ended /\ ended' = TRUE
    /\ off = Len(src)
    /\ UNCHANGED <<mode, src, pass, off, stack, data, size, plan, built>>

-----------------------------------------------------------------------------
(* Steps of either pass: the calls change to s, n characters are consumed,
   b bytes counted or written.                                             *)
Input == UNCHANGED <<mode, src, ended, size>>
Step(s, n, b) == stack' = s /\ off' = off + n /\ data' = data + b /\ UNCHANGED pass /\ Input
Silent == UNCHANGED <<plan, built>>
Reads(what) == IF pass = "size" THEN plan' = Append(plan, <<what, off>>) /\ UNCHANGED built
               ELSE built' = Append(built, <<what, off>>) /\ UNCHANGED plan
Stops(how) == pass' = how /\ UNCHANGED <<off, stack, data>> /\ Input /\ Silent

Deciding(p) == pass = p /\ p \in {"size", "parse"} /\ Ready /\ Top.at \in {"start", "loop", "key", "colon", "value", "end"}

(* mutant: the second pass skips spaces only. *)
BlankSpaces == Cur = " " \/ (Cur = "c" /\ Has("comments") /\ pass = "size")

Blank == Cur = " " \/ (Cur = "c" /\ Has("comments"))
Now(p, at) == Deciding(p) /\ Top.at = at /\ ~Blank

(* jml_json_skip_all: before every decision. *)
Skip == /\ Deciding(pass) /\ (pass = "parse" => Top.at # "end")
        /\ Blank /\ Step(stack, 1, 0) /\ Silent

(* jml_json_value_size and jml_json_value_parse agree on what a value
   begins with; the first refuses the rest, the second reads nothing.      *)
ValueOpens(p) ==
    /\ Now(p, "value") /\ Cur \in {"{", "["}
    /\ Step(Append(stack, Frame(IF Cur = "{" THEN "object" ELSE "array", "loop")), 1, 0)
    /\ Reads("open")
ValueString(p) == Now(p, "value") /\ Cur = "s" /\ Step(After(stack), 1, 2) /\ Reads("string")
ValueWord(p) == Now(p, "value") /\ Cur = "t" /\ Step(After(stack), 1, 0) /\ Reads("word")
IsNumber == Cur \in {"1", "-"} \/ (Cur = "I" /\ Has("infnan"))
ValueNumber(p) == Now(p, "value") /\ IsNumber /\ Step(Append(stack, Frame("number", "first")), 0, 0) /\ Reads("number")
NoValue == Cur \notin {"{", "[", "s", "t"} /\ ~IsNumber
ValueMissing == Now(pass, "value") /\ NoValue /\ IF pass = "size" THEN Stops("error")
                                                ELSE Step(After(stack), 0, 0) /\ Reads("nothing")

(* jml_json_number_size: a sign, Infinity when something follows it, digits,
   then one of the characters that may follow a number.  Behind a sign the
   end of the input will do; digits are also read behind Infinity, glued to
   it, where the second pass takes them for the next element.              *)
InNumber(p) == pass = p /\ Top.is = "number" /\ Ready
SawNext == off + 1 < Len(src) \/ ended
MayBeNamed == Top.at \in {"first", "signed"} /\ Cur = "I" /\ Has("infnan")
InfinityAt == MayBeNamed /\ off + 1 < Len(src)
Counted(n, at) == [stack EXCEPT ![Len(stack)].n = @ + n, ![Len(stack)].at = at]
SizeSign == InNumber("size") /\ Top.at = "first" /\ Cur = "-" /\ Step(Counted(1, "signed"), 1, 0) /\ Silent
SizeInfinity == InNumber("size") /\ InfinityAt /\ Step(Counted(8, "named"), 1, 0) /\ Silent
SizeDigit == /\ InNumber("size") /\ Cur = "1" /\ Step(Counted(1, "digits"), 1, 0)
             /\ IF Top.at = "named" THEN Reads("glued") ELSE Silent
NumberEnds == Cur \in {"eof", " ", "}", ",", "]"} \/ (Cur = "=" /\ Has("equals"))

(* mutant: no byte is counted for the terminator. *)
NumberBytesBare(n) == n

(* The characters and the terminator. *)
NumberBytes(n) == n + 1
SizeNumberEnd == /\ InNumber("size") /\ NumberEnds /\ (Top.at = "signed" => Cur = "eof")
                 /\ Step(After(Under(stack)), 0, NumberBytes(Top.n)) /\ Silent
SizeNumberFails == /\ InNumber("size") /\ Cur # "1" /\ ~(Top.at = "first" /\ Cur = "-")
                   /\ ~NumberEnds \/ (Top.at = "signed" /\ Cur # "eof")
                   /\ MayBeNamed => SawNext /\ ~InfinityAt
                   /\ Stops("error")
FeedMore(c) ==
    /\ InNumber("size") /\ MayBeNamed /\ ~SawNext /\ Len(src) < MaxLength
    /\ src' = Append(src, c)
    /\ UNCHANGED <<mode, ended, pass, off, stack, data, size, plan, built>>
FeedNoMore ==
    /\ InNumber("size") /\ MayBeNamed /\ ~SawNext /\ ended' = TRUE
    /\ UNCHANGED <<mode, src, pass, off, stack, data, size, plan, built>>

(* jml_json_number_parse: signs and digits, then Infinity. *)
ParseDigit == InNumber("parse") /\ Top.at = "first" /\ Cur \in {"1", "-"} /\ Step(stack, 1, 1) /\ Silent
ParseInfinity == InNumber("parse") /\ InfinityAt /\ Step(Counted(0, "named"), 1, 8) /\ Silent
ParseNumberEnd == /\ InNumber("parse") /\ ~(Top.at = "first" /\ Cur \in {"1", "-"}) /\ ~InfinityAt
                  /\ Step(After(Under(stack)), 0, 1) /\ Silent

(* jml_json_array_size and jml_json_object_size: the loop over elements;
   a comma is due after each.                                              *)
Closer(f) == CASE f.is = "array" -> "]" [] f.is = "object" -> "}" [] OTHER -> "eof"
Element(f) == IF f.is = "array" THEN "value" ELSE "key"
InLoop(p) == Now(p, "loop") /\ Top.is # "text"
NoComma(s) == [s EXCEPT ![Len(s)].comma = FALSE]

(* mutant: the end of the input is consumed like a brace. *)
ClosesAll(p) == /\ InLoop(p) /\ Cur = Closer(Top)
                /\ Step(After(Under(stack)), 1, 0) /\ Reads("close")

Closes(p) == /\ InLoop(p) /\ Cur = Closer(Top)
             /\ Step(After(Under(stack)), IF Top.is = "global" THEN 0 ELSE 1, 0) /\ Reads("close")

(* mutant: a closing bracket may follow a comma in every mode. *)
SizeCommaTrailing == /\ InLoop("size") /\ Cur = "," /\ Top.comma
                     /\ Step(NoComma(stack), 1, 0) /\ Silent

SizeComma == /\ InLoop("size") /\ Cur = "," /\ Top.comma
             /\ Step(IF Has("trailing") THEN NoComma(stack) ELSE At(NoComma(stack), Element(Top)), 1, 0) /\ Silent

(* mutant: allow_comma stays set. *)
SizeOmittedAgain == /\ InLoop("size") /\ Cur \notin {",", Closer(Top), "eof"} /\ Top.comma /\ Has("nocommas")
                    /\ Step(stack, 0, 0) /\ Silent

SizeOmitted == /\ InLoop("size") /\ Cur \notin {",", Closer(Top), "eof"} /\ Top.comma /\ Has("nocommas")
               /\ Step(NoComma(stack), 0, 0) /\ Silent
SizeElement == /\ InLoop("size") /\ Cur \notin {Closer(Top), "eof"} /\ ~Top.comma
               /\ Step(At(stack, Element(Top)), 0, 0) /\ Silent
SizeLoopFails == /\ InLoop("size") /\ Cur # Closer(Top)
                 /\ Top.comma /\ Cur \notin {",", "eof"} /\ ~Has("nocommas")
                 /\ Stops("error")

(* The same loops of the second pass. *)
ParseComma == InLoop("parse") /\ Cur = "," /\ Top.comma /\ Step(NoComma(stack), 1, 0) /\ Silent
ParseElement == /\ InLoop("parse") /\ Cur \notin {Closer(Top), "eof"} /\ ~(Cur = "," /\ Top.comma)
                /\ Step(At(stack, Element(Top)), 0, 0) /\ Silent
(* The loops of the second pass end at the end of the input as well; an
   object behind blanks reads one key, which is past the end, first.       *)
LoopAtEof == InLoop(pass) /\ Cur = "eof" /\ Closer(Top) # "eof"
             /\ IF pass = "size" THEN Stops("error")
                ELSE Step(After(Under(stack)), 0, 0) /\ Reads("eof")

(* The object of a lenient text may have no braces. *)
GlobalStart(p) ==
    /\ Now(p, "start")
    /\ IF Cur = "{" THEN Step(Append(Under(stack), Frame("object", "loop")), 1, 0) /\ Reads("open")
       ELSE Step(At(stack, "loop"), 0, 0) /\ Reads("open")

(* jml_json_key_size and jml_json_key_parse. *)
KeyString(p) == Now(p, "key") /\ Cur = "s" /\ Step(At(stack, "colon"), 1, 2) /\ Reads("key")
KeyOpens(p) == /\ Now(p, "key") /\ Cur # "s" /\ Has("unquoted")
               /\ Step(Append(At(stack, "colon"), Frame("ident", "letters")), 0, 0) /\ Reads("key")
KeyMissing == Now(pass, "key") /\ Cur # "s" /\ ~Has("unquoted")
              /\ Stops(IF pass = "size" THEN "error" ELSE "overrun")     \* the second pass reads on
InKey(p) == pass = p /\ Ready /\ Top.is = "ident"
KeyLetter(p) == InKey(p) /\ Cur \in Letters /\ Step(stack, 1, Bytes(Cur)) /\ Silent
SizeKeyEnd == InKey("size") /\ Cur \notin Letters /\ Step(Under(stack), 0, 1) /\ Silent
ParseKeyEnd == InKey("parse") /\ Cur \notin Letters /\ Step(Under(stack), 0, 0) /\ Silent

(* The second pass takes the next character for the colon. *)
IsColon == Cur = ":" \/ (Cur = "=" /\ Has("equals"))
SizeColon == Now("size", "colon") /\ Top.is # "ident" /\ IsColon /\ Step(At(stack, "value"), 1, 0) /\ Silent
SizeColonFails == Now("size", "colon") /\ ~IsColon /\ Stops("error")
ParseColon == Now("parse", "colon") /\ Step(At(stack, "value"), 1, 0) /\ Silent

(* jml_json_parse: between the passes, and the end. *)
TextEnd ==
    /\ Now("size", "end")
    /\ IF Cur # "eof" THEN Stops("error")
       ELSE /\ pass' = "parse" /\ off' = 0 /\ stack' = Starts(mode) /\ size' = data /\ data' = 0
            /\ UNCHANGED <<mode, src, ended>> /\ Silent
ParseEnd == pass = "parse" /\ Top.at = "end" /\ Stops("done")

Values(p) == ValueOpens(p) \/ ValueString(p) \/ ValueWord(p) \/ ValueNumber(p)
Both(p) == Values(p) \/ Closes(p) \/ GlobalStart(p) \/ KeyString(p) \/ KeyOpens(p) \/ KeyLetter(p)
SizeStep ==
    \/ Both("size")
    \/ SizeSign \/ SizeInfinity \/ SizeDigit \/ SizeNumberEnd \/ SizeNumberFails
    \/ SizeComma \/ SizeOmitted \/ SizeElement \/ SizeLoopFails
    \/ SizeKeyEnd \/ SizeColon \/ SizeColonFails \/ TextEnd
ParseStep ==
    \/ Both("parse")
    \/ ParseDigit \/ ParseInfinity \/ ParseNumberEnd
    \/ ParseComma \/ ParseElement
    \/ ParseKeyEnd \/ ParseColon \/ ParseEnd
Parser == Skip \/ ValueMissing \/ LoopAtEof \/ KeyMissing \/ SizeStep \/ ParseStep
Next == (\E c \in Alphabet : Feed(c) \/ FeedMore(c)) \/ FeedEnd \/ FeedNoMore \/ Parser

Spec == Init /\ [][Next]_vars /\ WF_vars(Parser) /\ WF_vars(FeedEnd) /\ WF_vars(FeedNoMore)

-----------------------------------------------------------------------------
(* Reference: where a JSON text of these lexemes ends, from its grammar. *)
Char(i) == IF i < Len(src) THEN src[i + 1] ELSE "eof"
Run(i, c) == CHOOSE j \in i..Len(src) : Char(j) # c /\ \A k \in i..j - 1 : Char(k) = c
W(i) == Run(i, " ")

RECURSIVE Value(_), Elements(_, _)
Member(i) == IF Char(i) = "s" /\ Char(W(i + 1)) = ":" THEN Value(W(W(i + 1) + 1)) ELSE {}
List(close, i) == IF Char(W(i)) = close THEN {W(i) + 1} ELSE Elements(close, W(i))
Elements(close, i) ==
    UNION { IF Char(W(j)) = close THEN {W(j) + 1}
            ELSE IF Char(W(j)) = "," THEN Elements(close, W(W(j) + 1)) ELSE {}
          : j \in IF close = "]" THEN Value(i) ELSE Member(i) }
Value(i) ==
    CASE Char(i) \in {"s", "t"} -> {i + 1}
      [] Char(i) = "1" -> {Run(i, "1")}
      [] Char(i) = "-" /\ Char(i + 1) = "1" -> {Run(i + 1, "1")}
      [] Char(i) = "[" -> List("]", i + 1)
      [] Char(i) = "{" -> List("}", i + 1)
      [] OTHER -> {}
IsJson == \E j \in Value(W(0)) : W(j) = Len(src)

(* Types; neither pass leaves the input. *)
TypeOK ==
    /\ mode \in Modes /\ src \in Seq(Alphabet) /\ Len(src) <= MaxLength /\ ended \in BOOLEAN
    /\ pass \in {"size", "parse", "done", "error", "overrun"}
    /\ off \in 0..Len(src) /\ stack # <<>> /\ data \in Nat /\ size \in Nat

(* A digit was read behind Infinity: [Infinity1].  On these texts the passes
   part, and nothing is claimed of the second.                             *)
Glued == \E k \in 1..Len(plan) : plan[k][1] = "glued"

(* The pass that builds the value reads what the checked pass read, at the
   same places: a value is never built from characters the first pass took
   for something else, and the unchecked loops of jml_json_object_parse and
   jml_json_array_parse find their closing bracket.                        *)
ReadsThePlan ==
    /\ pass \in {"parse", "done"} => /\ Len(built) <= Len(plan)
                                     /\ built = SubSeq(plan, 1, Len(built))
    /\ pass = "done" => built = plan
    /\ pass # "overrun"
PassesReadTheSame == Glued \/ ReadsThePlan

(* What the second pass has written fits what the first pass counted; the
   terminator that jml_json_key_parse writes without counting it included. *)
Fits == pass \in {"parse", "done"} => data + (IF Top.is = "ident" THEN 1 ELSE 0) <= size
BufferSuffices == Glued \/ Fits

(* Without extensions the first pass accepts the texts of the JSON grammar
   and one other: a sign that ends the input.                              *)
LoneSign == Char(W(0)) = "-" /\ W(0) + 1 = Len(src)
StrictIsJson ==
    mode = "strict" =>
        /\ pass \in {"parse", "done"} => IsJson \/ LoneSign
        /\ pass = "error" => ~IsJson

(* The code breaks these two, which no run checks: the second pass writes
   more than was counted (jml_json_number_size reads digits behind Infinity,
   jml_json_number_parse before it only), and strict mode takes a sign for a
   number (the test of the next character needs one).                      *)
EveryTextFits == ReadsThePlan /\ Fits
StrictSignsHaveDigits == mode = "strict" /\ pass \in {"parse", "done"} => IsJson

(* Every input is accepted or refused: no mode makes a loop of the parser
   go round without reading.                                               *)
ParseEnds == <>(Glued \/ pass \in {"done", "error"})
=============================================================================
