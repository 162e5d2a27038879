------------------------------- MODULE JmlLexer -------------------------------
(***************************************************************************)
(* The lexer (jml_lexer.c): jml_lexer_tokenize called until the end of the *)
(* file, one step per character it moves over, over every text a run can   *)
(* build from an alphabet.                                                 *)
(*                                                                         *)
(* The text is a string of C: the character after its last is "nul"; "bs"  *)
(* is a backslash, "dq" a double quote, "nl" a newline.  The               *)
(* keywords are those of the letters below; an operator's kind is its      *)
(* text.  Positions count from 1.                                          *)
(***************************************************************************)
EXTENDS Integers, Sequences, FiniteSets

CONSTANTS
    Alphabets,      \* sets of characters; a text uses one of them
    InStrings,      \* the characters of longer texts, for strings in three quotes
    MaxLength,      \* bound: characters of a text
    MaxString       \* bound: characters of a text of InStrings

LexerAssumption == MaxLength \in Nat /\ MaxString \in Nat

Blanks == {" "}
Quotes == {"'", "dq"}
Digits == {"0", "1"}
Letters == {"a", "b", "e", "n", "o", "r", "t", "x", "_"}
Keywords == {<<"n", "o", "t">>, <<"o", "r">>, <<"n", "o", "n", "e">>}
IdentNum == Letters \cup Digits
RadixDigits(c) == IF c = "x" THEN {"0", "1", "a", "b", "e"} ELSE {"0", "1"}
Operators == { <<"(">>, <<".">>, <<"|">>, <<"|", ">">>, <<":">>, <<":", ":">>, <<":", ":", "=">>,
               <<"-">>, <<"-", ">">>, <<"-", "=">>, <<"*">>, <<"*", "=">>, <<"*", "*">>, <<"*", "*", "=">>,
               <<"=">>, <<"=", "=">>, <<"<">>, <<"<", "-">>, <<"<", "=">>, <<">">>, <<">", "=">>,
               <<"!">>, <<"!", "=">> }

VARIABLES
    source,
    start, cur,     \* lexer->start and lexer->current
    line, eof, comment,
    pc,             \* where jml_lexer_tokenize is; "idle" between calls, "end" after the last
    opened, wide,   \* the quote or the radix letter of a literal; a string in three quotes
    tokens,         \* what the calls returned
    far             \* history: the furthest position read

vars == <<source, start, cur, line, eof, comment, pc, opened, wide, tokens, far>>

At(i) == IF i <= Len(source) THEN source[i] ELSE IF i = Len(source) + 1 THEN "nul" ELSE "beyond"
Text(i, j) == SubSeq(source, i, j - 1)      \* the characters from i up to j

Init ==
    /\ \/ \E A \in Alphabets, n \in 0 .. MaxLength : source \in [1 .. n -> A]
       \/ \E n \in 0 .. MaxString : source \in [1 .. n -> InStrings]
    /\ start = 1 /\ cur = 1 /\ line = 1 /\ eof = FALSE /\ comment = FALSE
    /\ pc = "idle" /\ opened = "nul" /\ wide = FALSE
    /\ tokens = <<>> /\ far = 0

Reads(i) == far' = IF i > far THEN i ELSE far
Moves(n, p) == /\ cur' = cur + n /\ pc' = p
               /\ UNCHANGED <<source, start, line, eof, comment, opened, wide, tokens>>

(* jml_token_emit and jml_token_emit_error; `skin` quotes on each side are *)
(* left out.                                                               *)
Token(kind, from, to, skin, at) == [kind |-> kind, from |-> from, to |-> to, skin |-> skin, line |-> at]
Emits(kind, n) ==
    /\ cur' = cur + n /\ pc' = "idle"
    /\ tokens' = Append(tokens, Token(kind, start, cur + n, 0, line))
    /\ UNCHANGED <<source, start, line, eof, comment, opened, wide>>

(* A call of jml_lexer_tokenize; after the end it returns EOF. *)
Call ==
    /\ pc = "idle"
    /\ IF eof THEN /\ pc' = "end" /\ tokens' = Append(tokens, Token("EOF", start, cur, 0, line))
              ELSE /\ pc' = "skip" /\ UNCHANGED tokens
    /\ UNCHANGED <<source, start, cur, line, eof, comment, opened, wide, far>>

-------------------------------------------------------------------------------
(* jml_lexer_skip_char. *)
ToggledOn == TRUE
Toggled == ~ comment

SkipBlank ==
    /\ pc = "skip" /\ Reads(cur)
    /\ IF comment THEN At(cur) \notin {"?", "nl", "nul"} ELSE At(cur) \in Blanks
    /\ Moves(1, "skip")

SkipToggle ==
    /\ pc = "skip" /\ Reads(cur) /\ At(cur) = "?"
    /\ comment' = Toggled /\ cur' = cur + 1
    /\ UNCHANGED <<source, start, line, eof, pc, opened, wide, tokens>>

SkipCommentLine ==
    /\ pc = "skip" /\ Reads(cur) /\ comment /\ At(cur) = "nl"
    /\ line' = line + 1 /\ cur' = cur + 1
    /\ UNCHANGED <<source, start, eof, comment, pc, opened, wide, tokens>>

SkipBang ==
    /\ pc = "skip" /\ Reads(cur + 1) /\ ~ comment /\ At(cur) = "!" /\ At(cur + 1) # "="
    /\ Moves(0, "rest")

(* The rest of a line comment, and the newline that ends it. *)
AfterRestSame == line
AfterRest == line + 1
SkipRest ==
    /\ pc = "rest" /\ Reads(cur)
    /\ \/ At(cur) \notin {"nl", "nul"} /\ Moves(1, "rest")
       \/ /\ At(cur) = "nl" /\ line' = AfterRest /\ cur' = cur + 1 /\ pc' = "skip"
          /\ UNCHANGED <<source, start, eof, comment, opened, wide, tokens>>
       \/ At(cur) = "nul" /\ Moves(0, "skip")

(* The first character of a token: what skip_char leaves alone. *)
Skips(c) == \/ comment /\ c # "nul"
            \/ c \in Blanks \cup {"?"}
            \/ c = "!" /\ At(cur + 1) # "="
Begins == pc = "skip" /\ ~ Skips(At(cur)) /\ start' = cur

EndOfFile ==
    /\ Begins /\ Reads(cur) /\ At(cur) = "nul"
    /\ eof' = TRUE /\ pc' = "idle"
    /\ tokens' = Append(tokens, Token(IF comment THEN "ERROR" ELSE "LINE", cur, cur, 0, line))
    /\ UNCHANGED <<source, cur, line, comment, opened, wide>>

Newline ==
    /\ Begins /\ Reads(cur) /\ At(cur) = "nl"
    /\ line' = line + 1 /\ cur' = cur + 1 /\ pc' = "idle"
    /\ tokens' = Append(tokens, Token("LINE", cur, cur + 1, 0, line + 1))
    /\ UNCHANGED <<source, eof, comment, opened, wide>>

Unexpected(c) == c \notin IdentNum \cup Quotes \cup {"nl", "nul"} /\ <<c>> \notin Operators
BadCharacter ==
    /\ Begins /\ Reads(cur) /\ Unexpected(At(cur))
    /\ cur' = cur + 1 /\ pc' = "idle"
    /\ tokens' = Append(tokens, Token("ERROR", cur, cur + 1, 0, line))
    /\ UNCHANGED <<source, line, eof, comment, opened, wide>>

Dispatch ==
    LET c == At(cur) IN
    /\ Begins /\ Reads(cur + (IF c = "!" THEN 1 ELSE 0))
    /\ c \notin {"nl", "nul"} /\ ~ Unexpected(c)
    /\ cur' = cur + 1
    /\ pc' = CASE c \in Letters      -> "name"
               [] c = "0"            -> "zero"
               [] c \in Digits \ {"0"} -> "digits"
               [] c \in Quotes       -> "quote"
               [] OTHER              -> "operator"
    /\ opened' = IF c \in Quotes THEN c ELSE opened
    /\ UNCHANGED <<source, line, eof, comment, wide, tokens>>

-------------------------------------------------------------------------------
(* jml_identifier_literal and jml_identifier_check, *)
Name ==
    /\ pc = "name" /\ Reads(cur)
    /\ IF At(cur) \in IdentNum THEN Moves(1, "name")
       ELSE Emits(IF Text(start, cur) \in Keywords THEN "KEYWORD" ELSE "NAME", 0)

(* the operators, by jml_lexer_match: the longest that goes on, *)
Operator ==
    /\ pc = "operator" /\ Reads(cur)
    /\ IF Text(start, cur) \o <<At(cur)>> \in Operators THEN Moves(1, "operator")
       ELSE Emits("OPERATOR", 0)

(* and jml_number_literal. *)
Zero ==
    /\ pc = "zero"
    /\ CASE At(cur) \in {"x", "b"} ->
            /\ Reads(cur + 1)
            /\ IF At(cur + 1) \notin RadixDigits(At(cur)) THEN Emits("ERROR", 1)
               ELSE /\ opened' = At(cur) /\ cur' = cur + 1 /\ pc' = "radix"
                    /\ UNCHANGED <<source, start, line, eof, comment, wide, tokens>>
         [] At(cur) = "0" -> Reads(cur) /\ Emits("ERROR", 0)
         [] OTHER         -> Reads(cur) /\ Moves(0, "digits")

Radix ==
    /\ pc = "radix" /\ Reads(cur)
    /\ CASE At(cur) \in RadixDigits(opened) -> Moves(1, "radix")
         [] At(cur) = "."                   -> Emits("ERROR", 0)
         [] OTHER                           -> Emits("NUMBER", 0)

Number ==
    /\ pc \in {"digits", "fraction"}
    /\ Reads(IF pc = "digits" /\ At(cur) = "." THEN cur + 1 ELSE cur)
    /\ CASE At(cur) \in Digits -> Moves(1, pc)
         [] pc = "digits" /\ At(cur) = "." /\ At(cur + 1) \in Digits -> Moves(1, "fraction")
         [] OTHER              -> Emits("NUMBER", 0)

-------------------------------------------------------------------------------
(* jml_string_literal. *)
Quote ==
    /\ pc = "quote"
    /\ Reads(IF At(cur) = opened THEN cur + 1 ELSE cur)
    /\ wide' = (At(cur) = opened /\ At(cur + 1) = opened)
    /\ cur' = cur + (IF wide' THEN 2 ELSE 0) /\ pc' = "string"
    /\ UNCHANGED <<source, start, line, eof, comment, opened, tokens>>

(* Whether the string ends here, and how far that looks. *)
ClosesTwo == IF wide THEN At(cur + 1) = opened ELSE TRUE
Closes == IF wide THEN At(cur + 1) = opened /\ At(cur + 2) = opened ELSE TRUE
LooksFar == IF wide THEN cur + 2 ELSE cur
Looks == IF ~ wide THEN cur ELSE IF At(cur + 1) = opened THEN cur + 2 ELSE cur + 1

OverEndOne == 1
OverEnd == 0
StringEnd ==
    /\ pc = "string"
    /\ \/ At(cur) = "nul" /\ Reads(cur) /\ Emits("ERROR", OverEnd)
       \/ /\ At(cur) = opened /\ Closes /\ Reads(Looks)
          /\ IF ~ wide THEN Emits("STRING", 1)
             ELSE /\ cur' = cur + 3 /\ pc' = "idle"
                  /\ tokens' = Append(tokens, Token("STRING", start + 2, cur + 1, 2, line))
                  /\ UNCHANGED <<source, start, line, eof, comment, opened, wide>>

OverQuoteStays == 0
OverQuote == 1
StringStep ==
    /\ pc = "string"
    /\ \/ At(cur) = opened /\ ~ Closes /\ Reads(Looks) /\ Moves(OverQuote, "string")
       \/ /\ At(cur) = "nl" /\ Reads(cur) /\ line' = line + 1 /\ cur' = cur + 1
          /\ UNCHANGED <<source, start, eof, comment, pc, opened, wide, tokens>>
       \/ At(cur) = "bs" /\ Reads(cur + 1) /\ Moves(IF At(cur + 1) = opened THEN 2 ELSE 1, "string")
       \/ At(cur) \notin {opened, "nl", "bs", "nul"} /\ Reads(cur) /\ Moves(1, "string")

Skip == SkipBlank \/ SkipToggle \/ SkipCommentLine \/ SkipBang \/ SkipRest
Begin == EndOfFile \/ Newline \/ BadCharacter \/ Dispatch
Literal == Name \/ Operator \/ Zero \/ Radix \/ Number \/ Quote \/ StringEnd \/ StringStep
Next == Call \/ Skip \/ Begin \/ Literal
Spec == Init /\ [][Next]_vars /\ WF_vars(Next)
-------------------------------------------------------------------------------
TypeOK ==
    /\ cur \in 1 .. Len(source) + 1 /\ start \in 1 .. cur
    /\ line \in 1 .. Len(source) + 1 /\ eof \in BOOLEAN /\ comment \in BOOLEAN /\ wide \in BOOLEAN
    /\ pc \in {"idle", "skip", "rest", "name", "operator", "zero", "radix", "digits", "fraction", "quote", "string", "end"}
    /\ opened \in Quotes \cup {"x", "b", "nul"}
    /\ \A t \in {tokens[k] : k \in DOMAIN tokens} : t.from \in 1 .. cur /\ t.to \in t.from .. cur

(* jml_lexer.c never reads past the character that ends the text, however  *)
(* far peek_next, current[2] and the radix look ahead.                     *)
ReadsInside == far <= Len(source) + 1

From(k) == tokens[k].from - tokens[k].skin
To(k) == IF k = 0 THEN 1 ELSE tokens[k].to + tokens[k].skin

(* Reference: the characters from i up to j are blanks and whole comments. *)
Void(i, j) ==
    LET void[k \in 1 .. Len(source) + 2] ==
          \/ k = j
          \/ k < j /\ source[k] \in Blanks /\ void[k + 1]
          \/ /\ k < j /\ source[k] = "?"
             /\ \E m \in k + 1 .. j - 1 : /\ source[m] = "?" /\ void[m + 1]
                                          /\ \A n \in k + 1 .. m - 1 : source[n] # "?"
          \/ /\ k < j /\ source[k] = "!" /\ At(k + 1) # "="
             /\ \E m \in k + 1 .. j : /\ \A n \in k .. m - 1 : source[n] # "nl"
                                      /\ IF m < j THEN source[m] = "nl" /\ void[m + 1]
                                         ELSE m = Len(source) + 1
    IN  void[i]
(* ... and then a comment that nothing ends. *)
OpenComment(i) == \E k \in i .. Len(source) : /\ Void(i, k) /\ source[k] = "?"
                                              /\ \A n \in k + 1 .. Len(source) : source[n] # "?"

(* The tokens of jml_lexer_tokenize lie in the text in order, and between  *)
(* two of them there is nothing but blanks and comments: no character is   *)
(* lost to a comment flag, a lookahead or an error.                        *)
TokensCover ==
    \A k \in DOMAIN tokens :
        LET unended == tokens[k].kind = "ERROR" /\ tokens[k].from = Len(source) + 1
        IN  IF unended THEN OpenComment(To(k - 1)) ELSE Void(To(k - 1), From(k))

(* The line jml_lexer_newline counts is that of a token's end, through     *)
(* comments and strings of several lines.                                  *)
LinesAreExact ==
    \A k \in DOMAIN tokens : tokens[k].line = 1 + Cardinality({i \in 1 .. To(k) - 1 : source[i] = "nl"})

(* Reference: literals and names. *)
AllIn(i, j, S) == \A k \in i .. j - 1 : source[k] \in S
NumberFits(i, j) ==
    \/ source[i] = "0" /\ j > i + 2 /\ source[i + 1] \in {"x", "b"} /\ AllIn(i + 2, j, RadixDigits(source[i + 1]))
    \/ /\ AllIn(i, j, Digits \cup {"."}) /\ source[i] # "." /\ source[j - 1] # "."
       /\ Cardinality({k \in i .. j - 1 : source[k] = "."}) <= 1
       /\ At(j) \notin Digits /\ (source[i] = "0" => At(i + 1) # "0")
StringFits(i, j, q, skin) ==
    /\ j - i >= 2 * (skin + 1) /\ q \in Quotes
    /\ \A k \in i .. i + skin : At(k) = q /\ At(j - 1 - (k - i)) = q
    /\ skin = 0 => \A k \in i + 1 .. j - 2 : source[k] = q => source[k - 1] = "bs"

(* What the lexer returns as a number, a string or a name is one, and it   *)
(* stops where the literal stops.                                          *)
LiteralsFit ==
    \A k \in DOMAIN tokens : LET t == tokens[k] IN
        CASE t.kind = "NUMBER" -> NumberFits(t.from, t.to)
          [] t.kind = "STRING" -> StringFits(From(k), To(k), source[From(k)], t.skin)
          [] t.kind \in {"NAME", "KEYWORD"} -> AllIn(t.from, t.to, IdentNum) /\ At(t.to) \notin IdentNum
          [] OTHER -> TRUE

(* Every text has an end: no literal, comment or error keeps the lexer     *)
(* where it is.                                                            *)
LexerEnds == <>(pc = "end")

(* The grammar beside the code (tool/code/syntax/jml.tmLanguage.json) lets *)
(* a backslash be escaped: a string ends at the first quote outside an     *)
(* escape.                                                                 *)
Escaped(i, k) == LET esc[n \in i .. k] == n > i /\ source[n - 1] = "bs" /\ ~ esc[n - 1] IN esc[k]
InOneQuote(t) == /\ t.kind \in {"STRING", "ERROR"} /\ t.skin = 0 /\ At(t.from) \in Quotes
                 /\ ~ (At(t.from + 1) = At(t.from) /\ At(t.from + 2) = At(t.from))
StringsEndAtQuote ==
    \A k \in DOMAIN tokens : LET t == tokens[k] IN
        InOneQuote(t) => \A n \in t.from + 1 .. (IF t.kind = "ERROR" THEN Len(source) ELSE t.to - 2) :
                             source[n] = source[t.from] => Escaped(t.from + 1, n)

(* The same grammar lets a number have an exponent: it is one token. *)
ExponentsAreNumbers ==
    \A k \in DOMAIN tokens : LET t == tokens[k] IN
        t.kind = "NUMBER" /\ AllIn(t.from, t.to, Digits) => ~ (At(t.to) = "e" /\ At(t.to + 1) \in Digits)
===============================================================================
