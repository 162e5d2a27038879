------------------------------ MODULE MCJmlParser ------------------------------
(***************************************************************************)
(* The front end.  JmlParser reads tokens: alphabets of pieces of one kind *)
(* of construct each, with what may stand around it, programs and programs *)
(* with lines of junk.  JmlLexer reads texts.  A run is of one of the two; *)
(* the other stays where it starts.                                        *)
(***************************************************************************)
EXTENDS JmlParser

CONSTANTS Pieces, Productions    \* bounds: pieces of an alphabet, productions of a program

Block0 == {<<"{">>, <<"}">>, <<"line">>}

Operators == {<<"name">>, <<"=">>, <<"-">>, <<"and">>, <<"line">>, <<"(">>, <<")">>, <<",">>}
Collections == {<<"name">>, <<"[">>, <<"]">>, <<"{", "string", ":">>, <<"}">>, <<"line">>, <<";">>}
Branches == Block0 \cup {<<"while", "name">>, <<"if", "name">>, <<"break">>, <<"else">>}
Functions == {<<"fn", "name", "(">>, <<")", "{">>, <<"}">>, <<"return">>, <<"^", "name">>, <<",">>, <<"line">>}
Classes == Block0 \cup {<<"class", "name">>, <<"from", "name">>, <<"fn", "name", "(", ")">>, <<"let", "name">>}
Matches == Block0 \cup {<<"match", "name">>, <<"number", "->">>, <<"_", "->">>, <<"name">>}
Calls == {<<"try">>, <<"name">>, <<".", "name">>, <<"(">>, <<")">>, <<"|", "|", "{">>, <<"|>">>, <<"}">>}
Imports == {<<"import", "name">>, <<".", "name">>, <<".", "_">>, <<"->">>, <<"line">>, <<"error">>, <<"name">>}
Loops == Block0 \cup {<<"for", "let", "name", "in">>, <<"spread">>, <<"skip">>, <<"name">>}
Methods == {<<"class", "name", "{", "fn", "name", "(", ")", "{">>, <<"self">>, <<".">>, <<"name">>, <<"line">>, <<"}">>}

Any(alphabet) == [start |-> "Any", alphabet |-> alphabet, choices |-> Pieces]
Of(start) == [start |-> start, alphabet |-> {}, choices |-> Productions]

MCKinds == {Any(a) : a \in {Operators, Collections, Branches, Functions, Classes, Matches, Calls, Imports, Loops}}
             \cup {Of("Program"), Of("Lines")}
JustOperators == {Any(Operators)}

-------------------------------------------------------------------------------
VARIABLES
    part,       \* "parser" or "lexer"
    source, start, at, line, eof, comment, pc, opened, wide, tokens, far
text == <<source, start, at, line, eof, comment, pc, opened, wide, tokens, far>>

Lexer == INSTANCE JmlLexer WITH cur <- at, MaxLength <- 5, MaxString <- 7,
    InStrings <- {"'", "bs", "nl"},
    Alphabets <- {{"?", "!", "nl", "=", "a", "'", "dq"}, {"0", "1", "x", "b", ".", "e"},
                  {":", "=", "*", "-", "<"}, {"n", "o", "t", "e", "!", " "}}
ASSUME Lexer!LexerAssumption

MCInit ==
    /\ part \in {"parser", "lexer"}
    /\ part = "lexer" => kind = Of("Program")
    /\ Init
    /\ part = "parser" => source = <<>>
    /\ Lexer!Init
Parses == part = "parser" /\ Next /\ UNCHANGED <<part, text>>
Scans == part = "lexer" /\ Lexer!Next /\ UNCHANGED <<part, vars>>
MCNext == Parses \/ Scans
MCSpec == MCInit /\ [][MCNext]_<<part, text, vars>> /\ WF_<<part, text, vars>>(MCNext)

(* What compiles without a report has its brackets in pairs and its        *)
(* statements apart (jml_parser_consume, jml_parser_newline).              *)
AcceptedIsWellFormed == TypeOK /\ AcceptedIsBalanced /\ StatementsAreSeparated
(* The tokens are the text: only blanks and comments between them,         *)
(* literals that are whole, each on the line it ends on, and nothing read  *)
(* behind the end (jml_lexer_tokenize, jml_lexer_newline,                  *)
(* jml_lexer_peek_next).                                                   *)
TokensAreExact == /\ Lexer!TypeOK /\ Lexer!ReadsInside
                  /\ Lexer!TokensCover /\ Lexer!LiteralsFit /\ Lexer!LinesAreExact
(* The parser comes back from any tokens, and the lexer from any text: no *)
(* loop of either waits for what the end of the source keeps away.        *)
FrontEndEnds == <>(stack = <<>> \/ pc = "end")
================================================================================
