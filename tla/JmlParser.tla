------------------------------- MODULE JmlParser -------------------------------
(***************************************************************************)
(* The parser inside the compiler (jml_compiler.c): what the functions     *)
(* jml_compiler_compile, jml_declaration, jml_statement, jml_expression    *)
(* and those they call do with the tokens, with newlines and with errors.  *)
(*                                                                         *)
(* The calls that are active are a stack of what they have yet to do; a    *)
(* step does the first of it.  Tokens are drawn when the parser advances,  *)
(* from JmlGrammar: any tokens, or programs.                               *)
(*                                                                         *)
(* All names are different; strings have no escapes; the limits of 255     *)
(* arguments, 255 parameters and 65535 items are not reached.              *)
(***************************************************************************)
EXTENDS JmlGrammar, Integers, FiniteSets

CONSTANTS
    Kinds   \* of input: the start symbol ("Any", "Program", "Lines"), the sequences
            \* of tokens "Any" is made of, and a bound of the productions other than
            \* the shortest

ASSUME ParserAssumption ==
    Kinds \subseteq [start : {"Any", "Program", "Lines"}, alphabet : SUBSET Seq(STRING), choices : Nat]

VARIABLES
    gen,        \* the symbols whose tokens are to come
    left,       \* what remains of the bound of its kind
    kind,
    stack,      \* what the active functions have yet to do: <<what, argument>>
    prev, cur,  \* parser->previous and parser->current
    panicked, w_error,
    called,     \* the last instruction emitted is a call
    open,       \* history: the brackets read and not closed
    marks,      \* history: what happened that should not
    reports,    \* history: the errors reported
    junk        \* history: the lines of junk drawn

input == <<gen, left, junk>>
calls == <<stack, prev, cur, panicked, w_error, called, open, marks, reports>>
vars == <<kind, input, calls>>

-------------------------------------------------------------------------------
(* The table of rules: precedences, and the tokens with a prefix or an     *)
(* infix function.                                                         *)
PREC_NONE == 0
PREC_ASSIGNMENT == 1
PREC_OR == 2
PREC_AND == 3
PREC_EQUALITY == 4
PREC_COMPARISON == 5
PREC_TERM == 6
PREC_FACTOR == 7
PREC_UNARY == 8
PREC_EXPONENT == 9
PREC_CALL == 10
PREC_PRIMARY == 11

BinaryOps == {"::", "+", "-", "*", "**", "/", "%", "==", "!=", "<", "<=", ">", ">=", "in"}
AssignOps == {"=", "::=", "+=", "-=", "*=", "**=", "/=", "%="}
Literals == {"string", "number", "none", "false", "true"}
Prefixes == Literals \cup {"(", "[", "{", "_", "|", "-", "self", "super", "try", "not", "name"}
Infixes == BinaryOps \cup {"(", "[", ".", "|>", "and", "or"}
PrecedenceLast(t) == IF t \in BinaryOps THEN PREC_PRIMARY ELSE PREC_NONE   \* mutant: no operand binds tighter
Precedence(t) ==
    CASE t \in {"(", "[", ".", "|>", "try"}  -> PREC_CALL
      [] t \in {"::", "+", "-"}              -> PREC_TERM
      [] t \in {"*", "/", "%"}               -> PREC_FACTOR
      [] t = "**"                            -> PREC_EXPONENT
      [] t \in {"==", "!="}                  -> PREC_EQUALITY
      [] t \in {"<", "<=", ">", ">=", "in"}  -> PREC_COMPARISON
      [] t = "and"                           -> PREC_AND
      [] t = "or"                            -> PREC_OR
      [] OTHER                               -> PREC_NONE

(* The tokens at which an error ends. *)
Keywords == {"for", "while", "break", "skip", "match", "with", "if", "class", "let", "fn", "return", "import", "spread"}

(* What there is to do: an operation and its argument. *)
Line == <<"line", 0>>
Newline == <<"newline", 0>>
Eat(t) == <<"eat", t>>
Parse(p) == <<"parse", p>>
Expr == Parse(PREC_ASSIGNMENT)
Block == <<"block", 0>>
Var(a) == <<"var", a>>
Emit(c) == <<"emit", c>>
List(k) == <<Line, <<"list", k>>>>
Args == List(")") \o <<Emit(TRUE)>>
Function(type) == <<Eat("("), <<"params", ")">>, Eat(")"), Eat("{"), Block, Newline, <<"endfn", type>>>>

Init ==
    /\ kind \in Kinds
    /\ gen = <<kind.start, "line">> /\ left = kind.choices /\ junk = 0
    /\ stack = <<<<"start", 0>>, Line, <<"top", 0>>>>
    /\ prev = "start" /\ cur = "start"
    /\ panicked = FALSE /\ w_error = FALSE /\ called = FALSE
    /\ open = <<>> /\ marks = {} /\ reports = 0

-------------------------------------------------------------------------------
(* The tokens to come: a symbol becomes its shortest production, or one of *)
(* its rules.                                                              *)
Expand ==
    /\ gen # <<>> /\ Head(gen) \in Symbols
    /\ \/ gen' = Shortest(Head(gen)) \o Tail(gen) /\ UNCHANGED <<left, junk>>
       \/ /\ left > 0 /\ left' = left - 1
          /\ \E r \in Rules(Head(gen), kind.alphabet) :
              /\ gen' = r \o Tail(gen)
              /\ junk' = junk + (IF Head(gen) # "Bad" /\ \E i \in DOMAIN r : r[i] = "Bad" THEN 1 ELSE 0)
    /\ UNCHANGED <<kind, calls>>
NextToken == IF gen = <<>> THEN "eof" ELSE Head(gen)
Drawn == NextToken \notin Symbols

At(what) == stack # <<>> /\ Head(stack)[1] = what
Arg == Head(stack)[2]

Closer == [b \in {"(", "[", "{"} |-> CASE b = "(" -> ")" [] b = "[" -> "]" [] OTHER -> "}"]
Opens(t) == t \in DOMAIN Closer
Closes(t) == t \in {")", "]", "}"}
Fits(t) == open # <<>> /\ Closer[open[Len(open)]] = t
Mark(m, c) == IF c THEN {m} ELSE {}

(* jml_parser_error_at: an error inside an error is not reported. *)
Reports(err) ==
    /\ panicked' = (panicked \/ err) /\ w_error' = (w_error \/ err)
    /\ reports' = reports + (IF err /\ ~ panicked THEN 1 ELSE 0)

(* jml_parser_advance, which goes on over tokens that are errors. *)
Advances(err, todo, m) ==
    /\ Drawn
    /\ gen' = (IF gen = <<>> THEN gen ELSE Tail(gen)) /\ UNCHANGED <<left, junk>>
    /\ prev' = cur /\ cur' = NextToken
    /\ stack' = (IF NextToken = "error" THEN <<<<"fetch", 0>>>> ELSE <<>>) \o todo \o Tail(stack)
    /\ Reports(err \/ NextToken = "error")
    /\ open' = (IF At("key") THEN open ELSE IF Opens(cur) THEN Append(open, cur) ELSE IF Closes(cur) /\ Fits(cur) THEN SubSeq(open, 1, Len(open) - 1) ELSE open)
    /\ marks' = marks \cup m \cup Mark("unbalanced", ~ At("key") /\ Closes(cur) /\ ~ Fits(cur))

(* The first of the stack becomes `todo`; the parser advances or not, and  *)
(* reports an error or not.                                                *)
Goes(adv, err, todo, m) ==
    \/ adv /\ Advances(err, todo, m)
    \/ /\ ~ adv
       /\ stack' = todo \o Tail(stack) /\ Reports(err) /\ marks' = marks \cup m
       /\ UNCHANGED <<input, prev, cur, open>>
Does(adv, todo) == Goes(adv, FALSE, todo, {}) /\ UNCHANGED <<kind, called>>
Fails(adv) == Goes(adv, TRUE, <<>>, {}) /\ UNCHANGED <<kind, called>>

Fetch ==
    /\ At("fetch") /\ Drawn
    /\ gen' = (IF gen = <<>> THEN gen ELSE Tail(gen)) /\ cur' = NextToken
    /\ stack' = (IF NextToken = "error" THEN stack ELSE Tail(stack))
    /\ Reports(NextToken = "error")
    /\ UNCHANGED <<left, junk, kind, prev, called, open, marks>>

(* jml_parser_consume, *)
ConsumeSilently ==   \* mutant: a token that is missing is no error
    At("eat") /\ (IF cur = Arg THEN Does(TRUE, <<>>) ELSE Does(FALSE, <<>>))
Consume == At("eat") /\ (IF cur = Arg THEN Does(TRUE, <<>>) ELSE Fails(FALSE))

(* jml_parser_match_line, where its result is not used, *)
MatchLine == At("line") /\ (IF cur = "line" THEN Does(TRUE, <<Line>>) ELSE Does(FALSE, <<>>))

(* jml_parser_newline. *)
NewlineTokensAny == {"line", ";", "name", "number", "string"}   \* mutant: a statement may begin on the same line
NewlineTokens == {"line", ";"}
NewlineStep ==
    /\ At("newline")
    /\ CASE cur = "}"                -> Does(FALSE, <<>>)
         [] cur \in NewlineTokens    -> Does(TRUE, <<Line>>)
         [] OTHER -> /\ Goes(FALSE, TRUE, <<>>, Mark("newline", ~ w_error /\ prev = "line" /\ cur # "eof"))
                     /\ UNCHANGED <<kind, called>>

-------------------------------------------------------------------------------
(* Where the parser is: inside a class, a class with a superclass, a loop  *)
(* of this function, a function.                                           *)
Is(i, S) == stack[i][1] \in S
InClass == \E i \in DOMAIN stack : Is(i, {"endclass"})
InSubclass == \E i \in DOMAIN stack :
    stack[i] = <<"endclass", TRUE>> /\ \A j \in 1 .. i - 1 : ~ Is(j, {"endclass", "inherit"})
InLoop == \E i \in DOMAIN stack : Is(i, {"endloop"}) /\ \A j \in 1 .. i - 1 : ~ Is(j, {"endfn"})
Type == IF \E i \in DOMAIN stack : Is(i, {"endfn"})
        THEN stack[CHOOSE i \in DOMAIN stack : Is(i, {"endfn"}) /\ \A j \in 1 .. i - 1 : ~ Is(j, {"endfn"})][2]
        ELSE "main"

(* jml_parser_precedence_parse: the prefix function, *)
PrecedenceParse == At("parse") /\ Does(TRUE, <<<<"prefix", Arg>>>>)

PrefixTodo(t, a) ==
    CASE t \in Literals    -> <<>>
      [] t = "name"        -> <<Var(a)>>
      [] t = "("           -> <<Line, Expr, Line, Eat(")")>>
      [] t = "["           -> List("]") \o <<Emit(FALSE)>>
      [] t = "{"           -> List("}") \o <<Emit(FALSE)>>
      [] t = "|"           -> <<<<"params", "|">>, Eat("|"), Eat("{"), Block, <<"endfn", "lambda">>, Emit(FALSE)>>
      [] t \in {"-", "not"} -> <<Parse(PREC_UNARY), Emit(FALSE)>>
      [] t = "try"         -> <<Parse(PREC_CALL), <<"tried", 0>>>>
      [] t = "_"           -> <<<<"wildcard", 0>>>>
      [] t = "self"        -> <<Line, <<"self", 0>>>>
      [] t = "super"       -> <<Line, <<"super", 0>>, Eat("."), Eat("name"), Var(FALSE), <<"superrest", 0>>>>

Prefix ==
    /\ At("prefix")
    /\ IF prev \in Prefixes
       THEN /\ Goes(FALSE, FALSE, PrefixTodo(prev, Arg <= PREC_ASSIGNMENT) \o <<<<"infix", Arg>>>>, {})
            /\ called' = FALSE /\ UNCHANGED kind
       ELSE Fails(FALSE)

(* and the infix functions while their precedence allows it. *)
Infix ==
    /\ At("infix")
    /\ IF Arg <= Precedence(cur) THEN Does(TRUE, <<<<"infixed", Arg>>>>)
       ELSE IF Arg <= PREC_ASSIGNMENT /\ cur \in AssignOps THEN Fails(TRUE) ELSE Does(FALSE, <<>>)

InfixTodo(t, a) ==
    CASE t = "("           -> Args
      [] t = "["           -> <<Line, Expr, Line, Eat("]"), <<"indexed", a>>>>
      [] t = "."           -> <<Eat("name"), <<"dot", a>>>>
      [] t = "|>"          -> <<Parse(PREC_PRIMARY), <<"piped", 0>>>>
      [] t = "and"         -> <<Line, Parse(PREC_AND), Emit(FALSE)>>
      [] t = "or"          -> <<Line, Parse(PREC_OR), Emit(FALSE)>>
      [] OTHER             -> <<Line, <<"binary", 0>>>>
Infixed ==
    /\ At("infixed")
    /\ IF prev \in Infixes THEN Does(FALSE, InfixTodo(prev, Arg <= PREC_ASSIGNMENT) \o <<<<"infix", Arg>>>>)
       ELSE Fails(FALSE)

(* jml_binary looks at the previous token behind the newlines. *)
Binary == At("binary") /\ Does(FALSE, <<Parse(Precedence(prev) + 1), <<"operate", prev>>>>)
Operate == /\ At("operate")
           /\ Goes(FALSE, FALSE, <<Emit(FALSE)>>, Mark("unreachable", ~ w_error /\ Arg \notin BinaryOps))
           /\ UNCHANGED <<kind, called>>

EmitCode == At("emit") /\ Goes(FALSE, FALSE, <<>>, {}) /\ called' = Arg /\ UNCHANGED kind

(* jml_dot, jml_indexing, jml_piping, jml_try, jml_wildcard, jml_self and  *)
(* jml_super behind their first tokens.                                    *)
Assigned == <<Line, Expr, Emit(FALSE)>>
Postfix ==
    \/ /\ At("dot")
       /\ CASE Arg /\ cur = "=" -> Does(TRUE, Assigned)
            [] cur = "("        -> Does(TRUE, Args)
            [] OTHER            -> Does(FALSE, <<Emit(FALSE)>>)
    \/ At("indexed") /\ (IF Arg /\ cur = "=" THEN Does(TRUE, Assigned) ELSE Does(FALSE, <<Emit(FALSE)>>))
    \/ At("piped") /\ (IF cur = "(" THEN Does(TRUE, Args) ELSE Does(FALSE, <<Emit(TRUE)>>))
Tried == At("tried") /\ (IF called THEN Does(FALSE, <<Emit(FALSE)>>) ELSE Fails(FALSE))
Wildcard == At("wildcard") /\ Fails(cur = "->")
Self == At("self") /\ (IF InClass THEN Does(FALSE, <<Var(FALSE)>>) ELSE Fails(FALSE))
Super ==
    \/ At("super") /\ (IF InSubclass THEN Does(FALSE, <<>>) ELSE Fails(FALSE))
    \/ At("superrest") /\ (IF cur = "(" THEN Does(TRUE, List(")") \o <<Var(FALSE), Emit(TRUE)>>)
                           ELSE Does(FALSE, <<Var(FALSE), Emit(FALSE)>>))

(* jml_variable_named. *)
VariableNamed ==
    \/ /\ At("var")
       /\ IF cur = "[" THEN Does(TRUE, <<Line, Expr, Line, Eat("]"), <<"varrest", <<Arg, TRUE>>>>>>)
          ELSE Does(FALSE, <<<<"varrest", <<Arg, FALSE>>>>>>)
    \/ /\ At("varrest")
       /\ CASE Arg[1] /\ cur \in AssignOps -> Does(TRUE, Assigned)
            [] cur = "->" /\ Arg[2]        -> Fails(TRUE)
            [] cur = "->" /\ ~ Arg[2]      -> Does(TRUE, <<Line, <<"swap", 0>>, Emit(FALSE)>>)
            [] OTHER                       -> Does(FALSE, <<Emit(FALSE)>>)
    \/ At("swap") /\ (IF cur = "_" THEN Does(TRUE, <<>>) ELSE Does(FALSE, <<Eat("name")>>))

(* jml_arguments_list, jml_array and jml_map, by the bracket that ends     *)
(* them; a map takes any token for a key.                                  *)
ElementSameLine(k) ==   \* mutant: no newline behind a comma
    CASE k = ")" -> <<Expr, <<"more", k>>>>
      [] k = "]" -> <<Expr, Line, <<"more", k>>>>
      [] k = "}" -> <<<<"key", 0>>, Line, Eat(":"), Line, Expr, Line, <<"more", k>>>>
Element(k) ==
    CASE k = ")" -> <<Line, Expr, <<"more", k>>>>
      [] k = "]" -> <<Line, Expr, Line, <<"more", k>>>>
      [] k = "}" -> <<Line, <<"key", 0>>, Line, Eat(":"), Line, Expr, Line, <<"more", k>>>>
Ended(k) == <<Line, Eat(k)>>
Lists ==
    \/ At("list") /\ Does(FALSE, IF cur = Arg THEN Ended(Arg) ELSE Element(Arg))
    \/ At("key") /\ Does(TRUE, <<>>)
    \/ At("more") /\ (IF cur = "," THEN Does(TRUE, Element(Arg)) ELSE Does(FALSE, Ended(Arg)))

(* The parameters of jml_function and jml_lambda; "param" and the others   *)
(* have the number of variadic ones.                                       *)
Variadic == IF Arg < 2 THEN Arg + 1 ELSE 2
Parameters ==
    \/ At("params") /\ Does(FALSE, IF cur = Arg THEN <<>> ELSE <<<<"param", 0>>>>)
    \/ /\ At("param")
       /\ Goes(cur = "^", Arg >= 1, <<<<"paramname", IF cur = "^" THEN Variadic ELSE Arg>>>>, {})
       /\ UNCHANGED <<kind, called>>
    \/ /\ At("paramname")
       /\ IF cur = "_" THEN Does(TRUE, <<<<"parammore", Arg>>>>)
          ELSE Does(FALSE, <<Eat("name"), <<"parammore", Arg>>>>)
    \/ At("parammore") /\ (IF cur = "," THEN Does(TRUE, <<<<"param", Arg>>>>) ELSE Does(FALSE, <<>>))

-------------------------------------------------------------------------------
(* jml_compiler_compile, *)
Compile ==
    \/ At("start") /\ Does(TRUE, <<>>)
    \/ At("top") /\ (IF cur = "eof" THEN Does(TRUE, <<>>) ELSE Does(FALSE, <<<<"decl", 0>>, <<"top", 0>>>>))

(* jml_block, *)
BlockStep == At("block") /\ Does(FALSE, IF cur \in {"}", "eof"} THEN <<Eat("}")>> ELSE <<<<"decl", 0>>, Block>>)

(* jml_declaration, jml_statement, *)
Ends(t) == t = (CASE Is(3, {"block"}) -> "}" [] Is(3, {"top"}) -> "eof")
Apart == {"start", "line", ";", "{", "}", "break", "skip"}
Declared ==
    CASE cur = "class"  -> <<<<"class", 0>>>>
      [] cur = "fn"     -> <<Eat("name")>> \o Function("fn")
      [] cur = "let"    -> <<<<"let", 0>>>>
      [] cur = "return" -> <<<<"return", 0>>>>
      [] cur = "import" -> <<Eat("name"), <<"path", 0>>>>
      [] cur = "while"  -> <<Line, Expr, Line, Eat("{"), Block, Newline, <<"endloop", 0>>>>
      [] cur \in {"break", "skip"} -> <<<<"leave", 0>>>>
      [] cur = "for"    -> <<Eat("let"), Eat("name"), Eat("in"), Expr, Eat("{"), Block, Newline, <<"endloop", 0>>>>
      [] cur = "if"     -> <<<<"if", 0>>>>
      [] cur = "match"  -> <<Expr, Line, Eat("{"), <<"case", <<0, FALSE>>>>>>
      [] cur = "spread" -> <<Expr, Newline>>
      [] cur = "{"      -> <<Block, Newline>>
Declaration ==
    \/ At("decl") /\ Does(FALSE, <<Line, <<"decl1", 0>>, <<"sync", 0>>>>)
    \/ /\ At("decl1")
       /\ LET m == Mark("ended", ~ w_error /\ Ends(cur)) \cup Mark("together", prev \notin Apart)
              keyword == cur \in (Keywords \ {"with"}) \cup {"{"}
          IN Goes(keyword, FALSE, IF keyword THEN Declared ELSE <<Expr, Newline>>, m)
       /\ UNCHANGED <<kind, called>>

(* jml_parser_synchronize, *)
SynchronizeHere ==   \* mutant: goes on where the error was
    /\ At("sync") /\ panicked' = FALSE /\ stack' = Tail(stack)
    /\ UNCHANGED <<kind, input, prev, cur, w_error, called, open, marks, reports>>
Synchronize ==
    \/ /\ At("sync") /\ ~ panicked /\ Does(FALSE, <<>>)
    \/ /\ At("sync") /\ panicked
       /\ panicked' = FALSE /\ stack' = <<<<"skip", 0>>>> \o Tail(stack)
       /\ UNCHANGED <<kind, input, prev, cur, w_error, called, open, marks, reports>>
SkipPastEnd ==       \* mutant: goes on at the end of the source
    /\ At("skip")
    /\ IF cur = "}" THEN Does(FALSE, <<>>) ELSE IF prev \in {"line", ";"} THEN Does(FALSE, <<Line>>)
       ELSE Does(cur \notin Keywords, IF cur \in Keywords THEN <<>> ELSE <<<<"skip", 0>>>>)
Skip ==
    /\ At("skip")
    /\ IF cur \in {"eof", "}"} THEN Does(FALSE, <<>>) ELSE IF prev \in {"line", ";"} THEN Does(FALSE, <<Line>>)
       ELSE Does(cur \notin Keywords, IF cur \in Keywords THEN <<>> ELSE <<<<"skip", 0>>>>)

(* jml_let_declaration, and a field of a class, *)
Let ==
    \/ At("let") /\ (IF cur = "_" THEN Does(TRUE, <<<<"value", 0>>>>) ELSE Does(FALSE, <<Eat("name"), <<"value", 0>>>>))
    \/ At("value") /\ (IF cur = "=" THEN Does(TRUE, <<Expr, Newline>>) ELSE Does(FALSE, <<Newline>>))

(* jml_return_statement, *)
Return ==
    \/ /\ At("return") /\ Goes(FALSE, Type = "main", <<<<"return1", 0>>>>, {}) /\ UNCHANGED <<kind, called>>
    \/ /\ At("return1")
       /\ CASE cur \in {"line", "}"}             -> Does(FALSE, <<Line>>)
            [] cur \notin {"line", "}"} /\ Type = "init" -> Fails(FALSE)
            [] OTHER                             -> Does(FALSE, <<Expr, Newline>>)

(* jml_import_statement, *)
Import ==
    \/ At("path") /\ (IF cur = "." THEN Does(TRUE, <<<<"part", 0>>>>) ELSE Does(FALSE, <<<<"rename", 0>>, Newline>>))
    \/ At("part") /\ (IF cur = "_" THEN Does(TRUE, <<<<"all", 0>>, Newline>>) ELSE Does(FALSE, <<Eat("name"), <<"path", 0>>>>))
    \/ At("all") /\ (IF Type = "main" THEN Does(FALSE, <<>>) ELSE Fails(FALSE))
    \/ At("rename") /\ (IF cur = "->" THEN Does(TRUE, <<<<"newname", 0>>>>) ELSE Does(FALSE, <<>>))
    \/ At("newname") /\ (IF cur = "_" /\ Type = "main" THEN Does(TRUE, <<>>) ELSE Does(FALSE, <<Eat("name")>>))

(* jml_break_statement and jml_skip_statement, *)
Leave == At("leave") /\ (IF InLoop THEN Does(FALSE, <<>>) ELSE Fails(FALSE))

(* jml_if_statement, *)
If ==
    \/ At("if") /\ Does(FALSE, <<Expr, Line, Eat("{"), Block, <<"else", 0>>>>)
    \/ At("else") /\ (IF cur = "else" THEN Does(TRUE, <<Line, <<"elseif", 0>>>>) ELSE Does(FALSE, <<Newline>>))
    \/ At("elseif") /\ (IF cur = "if" THEN Does(TRUE, <<<<"if", 0>>>>) ELSE Does(FALSE, <<Eat("{"), Block, Newline>>))

(* jml_match_statement: <<wildcard, done>>, *)
CaseTodo(w, done) == <<<<"done", done>>, Eat("->"), Eat("{"), Block, Newline, <<"cases", <<w, done \/ w = 1>>>>>>
Match ==
    \/ /\ At("case")
       /\ LET w == IF cur = "_" THEN IF Arg[1] < 2 THEN Arg[1] + 1 ELSE 2 ELSE Arg[1]
          IN Goes(cur \in Literals \cup {"_"}, IF cur = "_" THEN w > 1 ELSE cur \notin Literals, CaseTodo(w, Arg[2]), {})
       /\ UNCHANGED <<kind, called>>
    \/ At("done") /\ (IF Arg THEN Fails(FALSE) ELSE Does(FALSE, <<>>))
    \/ /\ At("cases")
       /\ Does(FALSE, IF cur \in Literals \cup {"_"} THEN <<<<"case", Arg>>>> ELSE <<Eat("}"), <<"exhaustive", Arg[1]>>>>)
    \/ At("exhaustive") /\ (IF Arg = 0 THEN Fails(FALSE) ELSE Does(FALSE, <<>>))

(* jml_class_declaration and jml_method; <<"inherit">> stands where the    *)
(* superclass is not yet known.                                            *)
Inherited == <<Line, Eat("name"), Var(FALSE), <<"dots", 0>>, Var(FALSE), <<"inherit", 0>>>>
Members == <<Var(FALSE), Eat("{"), Line, <<"members", 0>>, Eat("}"), Newline>>
Class ==
    \/ At("class") /\ Does(FALSE, <<Line, Eat("name"), <<"from", 0>>>>)
    \/ /\ At("from")
       /\ IF cur = "from" THEN Does(TRUE, Inherited \o Members \o <<<<"endclass", TRUE>>>>)
          ELSE Does(FALSE, Members \o <<<<"endclass", FALSE>>>>)
    \/ At("dots") /\ (IF cur = "." THEN Does(TRUE, <<Eat("name"), <<"dots", 0>>>>) ELSE Does(FALSE, <<>>))
    \/ At("inherit") /\ Does(FALSE, <<>>)
    \/ At("method") /\ (IF cur = "__init" THEN Does(TRUE, Function("init")) ELSE Does(FALSE, <<Eat("name")>> \o Function("method")))
    \/ /\ At("members")
       /\ CASE cur \in {"}", "eof"} -> Does(FALSE, <<>>)
            [] cur = "fn"    -> Does(TRUE, <<Line, <<"method", 0>>, <<"members", 0>>>>)
            [] cur = "let"   -> Does(TRUE, <<<<"let", 0>>, <<"members", 0>>>>)
            [] cur = "class" -> Does(TRUE, <<<<"class", 0>>, <<"members", 0>>>>)
            [] OTHER         -> Goes(TRUE, TRUE, <<<<"members", 0>>>>, {}) /\ UNCHANGED <<kind, called>>

(* The end of a function, a loop, a class. *)
Leaves == (At("endfn") \/ At("endloop") \/ At("endclass")) /\ Does(FALSE, <<>>)

Tokens == Fetch \/ Consume \/ MatchLine \/ NewlineStep
Expression == \/ PrecedenceParse \/ Prefix \/ Infix \/ Infixed \/ Binary \/ Operate \/ EmitCode
              \/ Postfix \/ Tried \/ Wildcard \/ Self \/ Super \/ VariableNamed \/ Lists \/ Parameters
Statement == \/ Compile \/ BlockStep \/ Declaration \/ Synchronize \/ Skip \/ Let \/ Return \/ Import
             \/ Leave \/ If \/ Match \/ Class \/ Leaves
Next == Expand \/ Tokens \/ Expression \/ Statement
Spec == Init /\ [][Next]_vars /\ WF_vars(Next)

-------------------------------------------------------------------------------
(* Properties.                                                             *)

(* Every value has its type; the operand of an operator is parsed at a     *)
(* precedence that jml_parser_precedence has.                              *)
TypeOK ==
    /\ kind \in Kinds /\ left \in 0 .. kind.choices
    /\ \A b \in {panicked, w_error, called} : b \in BOOLEAN
    /\ marks \subseteq {"unreachable", "ended", "newline", "together", "unbalanced"}
    /\ reports \in Nat /\ junk \in Nat
    /\ \A i \in DOMAIN stack : Is(i, {"parse"}) => stack[i][2] \in PREC_ASSIGNMENT .. PREC_PRIMARY
    /\ \A i \in DOMAIN open : Opens(open[i])

(* A program of the reference grammar compiles: no newline, comma or       *)
(* keyword that the grammar allows makes the parser report an error.       *)
AcceptsPrograms == kind.start = "Program" /\ junk = 0 => ~ w_error

(* After an error the parser is back at the start of the next statement:   *)
(* a line of junk is reported once, and never the good lines, functions    *)
(* and classes around it.                                                  *)
RecoversAtNextLine == kind.start = "Lines" => reports <= junk

(* A source that compiles without an error has its brackets in pairs,      *)
(* whatever its tokens (the keys of maps aside: any token is taken).       *)
Accepted == stack = <<>> /\ ~ w_error
AcceptedIsBalanced == Accepted => open = <<>> /\ "unbalanced" \notin marks

(* In a source that compiles, a statement begins behind a newline, a `;'   *)
(* or a brace, or behind `break' and `skip', never on the line of another. *)
StatementsAreSeparated == Accepted => "together" \notin marks

(* The compiler comes back from any tokens: no loop of the parser waits    *)
(* for a token that the end of the source keeps away.                      *)
CompileEnds == <>(stack = <<>>)

(* JML_UNREACHABLE() in jml_binary: the operator is one of its cases.      *)
BinaryIsReachable == "unreachable" \notin marks

(* "Expect '}' after block.": a block ends where its brace is, and the     *)
(* source where it ends; no declaration begins there.                      *)
BlocksEndAtBrace == "ended" \notin marks

(* "Expect newline.": reported only where there is no newline.             *)
NewlineIsMissed == "newline" \notin marks
===============================================================================
