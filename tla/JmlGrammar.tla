------------------------------- MODULE JmlGrammar -------------------------------
(***************************************************************************)
(* A reference grammar of jml programs, of the constructs the compiler has *)
(* and of the style of the programs in src/std/*.jml: statements end in a  *)
(* newline or a `;', a block opens on the line of its statement, and       *)
(* newlines are free inside brackets and after an operator that is a word. *)
(* A symbol stands for its shortest production or for one of its rules; a  *)
(* token stands for itself.  "Any" is any sequence of the pieces of an     *)
(* alphabet, a set of short sequences of tokens.                           *)
(***************************************************************************)
EXTENDS Sequences

(* The reference grammar, and junk: a line of tokens that open nothing and *)
(* begin no statement, and end in a name.                                  *)
JunkTokens == {"name", "number", ",", "->", "=", "+", ")", "]", ":", "_", "else", "^"}

Shortest(s) ==
    CASE s \in {"Any", "Program", "Body", "Params", "MoreMembers", "Args", "Lines"} -> <<>>
      [] s \in {"Decl", "Bad", "Line"}       -> <<"name", "line">>
      [] s = "End"                           -> <<"line">>
      [] s \in {"Simple", "Expr", "Op", "Value"} -> <<"name">>
      [] s \in {"Block", "FBlock", "MBlock", "IBlock", "Members", "SubMembers"} -> <<"{", "}">>
      [] s = "LBlock"                        -> <<"{", "break", "}">>
      [] s = "Member"                        -> <<"let", "name", "line">>
      [] s = "Cases"                         -> <<"_", "->", "Block", "line">>
      [] s = "Call"                          -> <<"name", "(", ")">>

Rules(s, alphabet) ==
    CASE s = "Any"     -> {t \o <<"Any">> : t \in alphabet}
      [] s = "Program" -> {<<"Decl", "Program">>, <<"line", "Decl", "Program">>}
      [] s = "Body"    -> {<<"Decl", "Body">>, <<"Simple">>}
      [] s = "End"     -> {<<";">>, <<"line", "line">>}
      [] s = "Simple"  -> {<<"Expr">>}
      [] s = "Decl"    -> { <<"Simple", "End">>, <<"let", "name", "=", "Value", "End">>, <<"let", "_", "=", "Expr", "End">>,
                            <<"fn", "name", "(", "Params", ")", "FBlock", "End">>, <<"spread", "Expr", "End">>,
                            <<"class", "name", "Members", "End">>, <<"class", "name", "from", "name", ".", "name", "SubMembers", "End">>,
                            <<"import", "name", ".", "name", "End">>, <<"if", "Expr", "Block", "End">>,
                            <<"if", "Expr", "Block", "else", "Block", "End">>, <<"if", "Expr", "Block", "else", "line", "if", "Expr", "Block", "End">>,
                            <<"while", "Expr", "LBlock", "End">>, <<"for", "let", "name", "in", "Expr", "LBlock", "End">>,
                            <<"match", "Expr", "{", "Cases", "}", "line", "Simple", "End">>, <<"Block", "End">> }
      [] s = "Cases"   -> {<<"number", "->", "Block", "End", "Cases">>}
      [] s = "Block"   -> {<<"{", "Simple", "}">>, <<"{", "line", "Decl", "Body", "}">>}
      [] s = "LBlock"  -> {<<"Block">>, <<"{", "line", "Decl", "skip", "}">>, <<"{", "if", "Expr", "{", "break", "}", "End", "}">>}
      [] s = "FBlock"  -> { <<"Block">>, <<"{", "return", "}">>, <<"{", "line", "return", "line", "}">>, <<"{", "return", "Expr", "End", "}">>,
                            <<"{", "import", "name", "->", "name", "End", "name", "}">> }
      [] s = "MBlock"  -> { <<"FBlock">>, <<"{", "self", ".", "name", "}">>, <<"{", "line", "self", ".", "name", "=", "Value", "line", "self", "}">>}
      [] s = "IBlock"  -> {<<"Block">>, <<"{", "return", "line", "}">>, <<"{", "line", "self", ".", "name", "=", "Value", "End", "}">>}
      [] s = "Params"  -> {<<"name">>, <<"_", ",", "^", "name">>}
      [] s = "Members" -> {<<"{", "line", "Member", "MoreMembers", "}">>}
      [] s = "SubMembers" -> {<<"{", "fn", "name", "(", ")", "{", "super", ".", "name", "(", "Args", ")", "}", "End", "MoreMembers", "}">>}
      [] s = "MoreMembers" -> {<<"Member", "MoreMembers">>}
      [] s = "Member"  -> {<<"fn", "name", "(", "Params", ")", "MBlock", "End">>, <<"fn", "__init", "(", "Params", ")", "IBlock", "End">>, <<"let", "name", "=", "Value", "End">>,
                           <<"class", "name", "Members", "End">>}
      [] s = "Expr"    -> { <<"Op">>, <<"name", "=", "line", "Value">>, <<"name", "[", "Expr", "]", "+=", "Expr">>,
                            <<"name", ".", "name", "=", "Value">>, <<"name", "->", "name">>, <<"Op", "*", "Op", "+", "Op">>,
                            <<"Op", "and", "line", "Op">>, <<"Op", "==", "-", "Op">>, <<"not", "Op">>, <<"try", "Call">>,
                            <<"Op", "|>", "name", "(", "Args", ")">>, <<"|", "Params", "|", "FBlock">> }
      [] s = "Op"      -> { <<"number">>, <<"(", "Expr", ")">>, <<"(", "line", "Expr", "line", ")">>, <<"[", "Args", "]">>,
                            <<"Op", ".", "name">>, <<"Call">>, <<"name", "[", "Expr", "]">> }
      [] s = "Call"    -> {<<"name", "(", "Args", ")">>, <<"name", ".", "name", "(", "line", "Args", "line", ")">>}
      [] s = "Args"    -> {<<"Value">>, <<"Value", ",", "line", "Value">>}
      [] s = "Value"   -> {<<"Expr">>, <<"{", "line", "string", ":", "Value", "line", "}">>}
      [] s = "Lines"   -> { <<"Line", "Lines">>, <<"fn", "name", "(", ")", "{", "line", "Line", "Lines", "}", "line", "Lines">>,
                            <<"class", "name", "{", "line", "Bad", "fn", "name", "(", ")", "{", "Line", "}", "line", "}", "line", "Lines">>,
                            <<"while", "name", "{", "Line", "Lines", "}", "line", "Lines">> }
      [] s = "Line"    -> {<<"let", "name", "=", "name", "line">>, <<"Bad">>}
      [] s = "Bad"     -> {<<t, "Bad">> : t \in JunkTokens}

Symbols == { "Any", "Program", "Body", "Params", "MoreMembers", "Args", "Lines", "Decl", "Bad", "Line", "End", "Simple", "Expr", "Op", "Value",
             "Block", "FBlock", "MBlock", "IBlock", "Members", "SubMembers", "LBlock", "Member", "Cases", "Call" }
================================================================================
