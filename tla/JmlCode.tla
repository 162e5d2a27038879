------------------------------ MODULE JmlCode -------------------------------
(***************************************************************************)
(* One function body, compiled in a single pass to bytes and then run.     *)
(* The compiler emits, patches and rewrites the code through offsets and   *)
(* through the values of bytes it finds there: jumps are patched when a    *)
(* construct closes, the end of a loop scans its body for the placeholders *)
(* of `break`, `try` and the implicit return rewrite what the last bytes   *)
(* seem to be.  It also counts the locals it believes are on the stack.    *)
(* The run decodes the same bytes; its stack is reduced to its height      *)
(* above the frame's first slot, and a program is any sequence of          *)
(* statements the parser accepts, up to a number of them.                  *)
(***************************************************************************)
EXTENDS JmlOps, FiniteSets, SequencesExt

CONSTANTS
    Params,         \* parameters of the function
    Types,          \* which of "FN", "INIT", "MAIN" are compiled
    Exprs,          \* the expressions programs are made of
    Name,           \* index, in the constants, of every name and value
    MaxStatements,  \* statements of a program
    MaxOpen,        \* constructs open at once
    MaxHeight,      \* values on the stack of a run
    Admitted        \* the forms of programs the code mishandles that a run admits

(* A declaration, `break` or end of function that leaves the stack other
   than the compiler counts; a closure or a `try` of a method in a loop; a
   call of a superclass.                                                   *)
Forms == {"slots", "closure_in_loop", "try_in_loop", "super"}

ASSUME CodeAssumption ==
    /\ Params \in Nat /\ Name \in 0..255
    /\ Types \subseteq {"FN", "INIT", "MAIN"}
    /\ MaxStatements \in Nat /\ MaxOpen \in Nat /\ MaxHeight \in Nat
    /\ Admitted \subseteq Forms

VARIABLES
    type,       \* compiler->type
    code,       \* bytecode.code
    locals,     \* compiler->locals: [depth, captured]
    depth,      \* compiler->scope_depth
    open,       \* the constructs being compiled, outermost first (the C stack of the parser)
    left,       \* statements the program may still have
    tail,       \* the last top-level statement left a value to return
    phase,      \* "compile", "run", "done"
    pc, sp,     \* the frame of the run: next byte, values above frame->slots
    starts,     \* ghost: offsets where the compiler began an instruction
    heights,    \* ghost: offset of a statement or a return -> values the compiler counts there
    exits       \* ghost: offset of a `break` -> offset after its loop

compiler == <<type, code, locals, depth, open, left, tail>>
ghosts   == <<starts, heights, exits>>
vars     == <<compiler, phase, pc, sp, ghosts>>

Module  == 0        \* module_const, the first constant of every function
Pending == 255      \* what a jump's operand holds until it is patched

Short(n)     == <<(n \div 256) % 256, n % 256>>
I0(op)       == <<Op(op)>>
I1(op, a)    == <<Op(op), a>>
I2(op, a, b) == <<Op(op), a, b>>
Jump(op, n)  == <<Op(op)>> \o Short(n)
Bytes(instrs) == FlattenSeq(instrs)
Size(instrs)  == Len(Bytes(instrs))

(* Where the instructions of a sequence begin when it is emitted at `at`. *)
StartsAt(at, instrs) == {at + Size(SubSeq(instrs, 1, k - 1)) : k \in DOMAIN instrs}

At(i) == IF i + 1 \in DOMAIN code THEN code[i + 1] ELSE -1
Word(i) == 256 * At(i) + At(i + 1)

(***************************************************************************)
(* Rewriting the code.                                                     *)
(***************************************************************************)
(* mutant: the two bytes of the operand are not counted. *)
PatchJumpFar(c, off) == LET s == Short(Len(c) - off)
                        IN  [c EXCEPT ![off + 1] = s[1], ![off + 2] = s[2]]

(* jml_bytecode_patch_jump: the operand at `off` jumps to the end of the code. *)
PatchJump(c, off) == LET s == Short(Len(c) - off - 2)
                     IN  [c EXCEPT ![off + 1] = s[1], ![off + 2] = s[2]]

(* mutant: the two bytes of the operand are not counted. *)
EmitLoopShort(c, start) == c \o <<Op("LOOP")>> \o Short(Len(c) + 1 - start)

(* jml_bytecode_emit_loop. *)
EmitLoop(c, start) == c \o <<Op("LOOP")>> \o Short(Len(c) + 1 - start + 2)

(* jml_bytecode_instruction_offset.  For a closure it reads the constant
   whose index is byte 1 of the function, whatever instruction it stands
   at: `u` is the number of upvalues it finds there.                       *)
ScanLength(b, u) == IF b > OpEnd THEN 1
                    ELSE IF b = Op("CLOSURE") THEN 2 + 2 * u
                    ELSE ScanFixed(Opcodes[b + 1])

(* The offsets jml_loop_end stops at, from the start of the loop's body. *)
Visited(c, body, u) ==
    LET walk[i \in 0..(Len(c) + 8)] ==
            IF i >= Len(c) THEN {}
            ELSE {i} \cup walk[i + (IF c[i + 1] = Placeholder THEN 3 ELSE ScanLength(c[i + 1], u))]
    IN  walk[body]

JmlLoopEnd(c, body, u) ==
    FoldSet(LAMBDA i, acc : PatchJump([acc EXCEPT ![i + 1] = Op("JUMP")], i + 1),
            c, {i \in Visited(c, body, u) : c[i + 1] = Placeholder})

LastPop(c) == Max({0} \cup {i \in DOMAIN c : c[i] \in {Op("POP"), Op("POP_TWO")}})

(* mutant: a body that ends in a return is scanned like any other. *)
EmitReturnAlways(t, c) ==
    CASE t = "FN" /\ LastPop(c) > 0 ->
             Append([c EXCEPT ![LastPop(c)] = IF @ = Op("POP") THEN Op("NOP") ELSE Op("POP")], Op("RETURN"))
      [] OTHER -> c \o <<Op("NONE"), Op("RETURN")>>

(* jml_bytecode_emit_return: an implicit return takes back the last byte
   that looks like a pop.                                                  *)
EmitReturn(t, c) ==
    CASE t = "INIT" -> c \o <<Op("GET_LOCAL"), 0, Op("RETURN")>>
      [] t = "FN" /\ c # <<>> /\ Last(c) # Op("RETURN") /\ LastPop(c) > 0 ->
             Append([c EXCEPT ![LastPop(c)] = IF @ = Op("POP") THEN Op("NOP") ELSE Op("POP")], Op("RETURN"))
      [] OTHER -> c \o <<Op("NONE"), Op("RETURN")>>

(* jml_try: the call just compiled, found by the value of its bytes from
   the end, becomes its `try` form and the number of locals is its last
   operand.                                                                *)
JmlTry(c, n) ==
    LET k == Len(c)
        Is(back, op) == k >= back /\ c[k - back + 1] = Op(op)
    IN  Append(CASE Is(2, "CALL")                  -> [c EXCEPT ![k - 1] = Op("TRY_CALL")]
                 [] ~Is(2, "CALL") /\ Is(3, "INVOKE") -> [c EXCEPT ![k - 2] = Op("TRY_INVOKE")]
                 [] OTHER                          -> [c EXCEPT ![k - 2] = Op("TRY_SUPER_INVOKE")], n)

(***************************************************************************)
(* Expressions: one of each way to emit; Top stands for any local.         *)
(***************************************************************************)
Top  == Len(locals) - 1
Call == <<I2("GET_GLOBAL", Module, Name), I1("CALL", 0)>>
Get  == <<I2("GET_GLOBAL", Module, Name)>>
Super == <<I1("GET_LOCAL", 0), I1("GET_UPVALUE", 0), I2("SUPER_INVOKE", Name, 0)>>

Plain(e) ==
    CASE e = "or"      -> Get \o <<Jump("JUMP_IF_FALSE", 3), Jump("JUMP", 1 + Size(Get)), I0("POP")>>
                              \o Get \o <<I0("BOOL")>>
      [] e = "closure" -> << <<Op("CLOSURE"), Name, 1, Top>> >>
      [] e = "try_call"   -> Call
      [] e = "try_invoke" -> Get \o <<I2("INVOKE", Name, 0)>>
      [] e = "try_super"  -> Super
      [] e = "super"      -> Super \o <<I1("GET_MEMBER", Name)>>
      [] e = "none"       -> <<>>            \* no expression

Tries == {"try_call", "try_invoke", "try_super"}
WithExpr(c, e, n) == IF e \in Tries THEN JmlTry(c \o Bytes(Plain(e)), n) ELSE c \o Bytes(Plain(e))

InLoop == \E i \in DOMAIN open : open[i].kind \in {"while", "for"}

(* The expressions that can stand here: a closure captures a local. *)
Expr(e) == /\ e \in Exprs
           /\ e = "closure" => Top > 0
           /\ e = "closure" /\ InLoop => "closure_in_loop" \in Admitted
           /\ e = "try_invoke" /\ InLoop => "try_in_loop" \in Admitted
           /\ e \in {"super", "try_super"} => "super" \in Admitted
Initializer(e) == Expr(e) /\ (e \in Tries => "slots" \in Admitted)
Captured(e) == IF e = "closure" THEN [locals EXCEPT ![Top + 1].captured = TRUE] ELSE locals

(***************************************************************************)
(* Statements.                                                             *)
(***************************************************************************)
Local(d) == [depth |-> d, captured |-> FALSE]
LocalsAt(d, n) == [i \in 1..n |-> Local(d)]

(* jml_scope_end: the instructions that drop the locals of the scope, the
   newest first.                                                           *)
Outlive(ls, d)  == SelectSeq(ls, LAMBDA l : l.depth <= d)
ScopeEndKeeps(ls, d) == [k \in 1..Len(SelectSeq(ls, LAMBDA l : l.depth > d /\ ~l.captured)) |-> I0("POP")]  \* mutant
ScopeEnd(ls, d) == LET n == Len(ls) - Len(Outlive(ls, d))
                   IN  [k \in 1..n |-> IF ls[Len(ls) + 1 - k].captured THEN I0("CLOSE_UPVALUE") ELSE I0("POP")]

Construct(kind) == [kind |-> kind, start |-> 0, body |-> 0, exit |-> 0, ends |-> {},
                    cond |-> 0, done |-> FALSE, base |-> Len(locals)]
Inside(kind) == phase = "compile" /\ open # <<>> /\ Last(open).kind = kind
Loop == CHOOSE i \in DOMAIN open : /\ open[i].kind \in {"while", "for"}
                                   /\ \A j \in DOMAIN open : j > i => open[j].kind \notin {"while", "for"}

(* Where a declaration's slot is dropped again: a scope of its own. *)
OwnScope == open # <<>> => Last(open).kind \in {"block", "case"}
Slots(condition) == "slots" \notin Admitted => condition
MatchHeader == open # <<>> /\ Last(open).kind = "match"

Start == Len(code) :> Len(locals)
Stated(value, marks) ==
    /\ phase = "compile" /\ left > 0 /\ ~MatchHeader
    /\ left' = left - 1
    /\ heights' = marks @@ heights
    /\ tail' = IF open = <<>> THEN value ELSE FALSE
    /\ UNCHANGED <<type, phase, pc, sp>>

Statement(value) == Stated(value, Start)

(* The instructions `pre`, an expression compiled when n locals are
   declared, and the instructions `post`.                                  *)
Emitted(pre, e, n, post) == WithExpr(code \o Bytes(pre), e, n) \o Bytes(post)
Begun(pre, e, n, post)   == StartsAt(Len(code), pre \o Plain(e))
                            \cup StartsAt(Len(Emitted(pre, e, n, <<>>)), post)
Emit(pre, e, n, post) == /\ code' = Emitted(pre, e, n, post)
                         /\ starts' = starts \cup Begun(pre, e, n, post)

(* jml_expression_statement. *)
Expression(e) ==
    /\ Statement(TRUE) /\ Expr(e)
    /\ Emit(<<>>, e, Len(locals), <<I0("POP")>>)
    /\ locals' = Captured(e)
    /\ UNCHANGED <<depth, open, exits>>

(* jml_let_declaration: at the top level a global, else a local declared
   before its initializer is compiled.                                     *)
Let(e) ==
    /\ Statement(FALSE) /\ Initializer(e)
    /\ IF depth = 0
       THEN /\ Emit(<<>>, e, Len(locals), <<I2("DEF_GLOBAL", Module, Name)>>)
            /\ locals' = Captured(e)
       ELSE /\ Slots(OwnScope)
            /\ Emit(<<>>, e, Len(locals) + 1, <<>>)
            /\ locals' = Append(Captured(e), Local(depth))
    /\ UNCHANGED <<depth, open, exits>>

(* `let _ = e`. *)
LetWildcard(e) ==
    /\ Statement(TRUE) /\ Expr(e)
    /\ Emit(<<>>, e, Len(locals), <<I0("NONE"), I0("POP_TWO")>>)
    /\ locals' = Captured(e)
    /\ UNCHANGED <<depth, open, exits>>

(* jml_import_statement; in a function a name that is a local already gets
   no slot of its own.                                                     *)
Import(known) ==
    /\ Statement(FALSE)
    /\ IF type = "MAIN"
       THEN /\ ~known /\ locals' = locals
            /\ Emit(<<>>, "none", 0, <<I2("IMPORT", Name, Name), I2("DEF_GLOBAL", Module, Name)>>)
       ELSE /\ Slots(OwnScope /\ ~known) /\ (known => Top > 0)
            /\ Emit(<<>>, "none", 0, <<I2("IMPORT", Name, Name)>>)
            /\ locals' = IF known THEN locals ELSE Append(locals, Local(depth))
    /\ UNCHANGED <<depth, open, exits>>

(* jml_return_statement and jml_spread_statement. *)
Return(e) ==
    /\ Stated(TRUE, Start @@ (Len(WithExpr(code, e, Len(locals))) :> Len(locals) + 1))
    /\ type = "FN" /\ Expr(e)
    /\ Emit(<<>>, e, Len(locals), <<I0("RETURN")>>)
    /\ locals' = Captured(e)
    /\ UNCHANGED <<depth, open, exits>>

ReturnNone ==
    /\ Stated(TRUE, Start @@ (Len(code) + 1 :> Len(locals) + 1)) /\ type # "MAIN"
    /\ Emit(<<I0("NONE"), I0("RETURN")>>, "none", 0, <<>>)
    /\ UNCHANGED <<locals, depth, open, exits>>

Spread(e) ==
    /\ Statement(FALSE) /\ Expr(e)
    /\ Emit(<<>>, e, Len(locals), <<I0("SPREAD")>>)
    /\ locals' = Captured(e)
    /\ UNCHANGED <<depth, open, exits>>

(***************************************************************************)
(* Constructs: each opens with a header and closes with its patches.       *)
(***************************************************************************)
Opening == Statement(FALSE) /\ Len(open) < MaxOpen
Closing(kind) ==
    /\ Inside(kind)
    /\ heights' = Start @@ heights
    /\ UNCHANGED <<type, left, tail, phase, pc, sp>>
Pop == open' = Front(open)

BlockOpen ==
    /\ Opening /\ depth' = depth + 1
    /\ open' = Append(open, Construct("block"))
    /\ UNCHANGED <<code, locals, starts, exits>>
BlockClose ==
    /\ Closing("block") /\ depth' = depth - 1 /\ Pop
    /\ Emit(<<>>, "none", 0, ScopeEnd(locals, depth - 1))
    /\ locals' = Outlive(locals, depth - 1)
    /\ UNCHANGED exits

IfOpen(e) ==
    /\ Opening /\ Expr(e)
    /\ LET head == <<Jump("JUMP_IF_FALSE", 65535), I0("POP")>>
       IN  /\ Emit(<<>>, e, Len(locals), head)
           /\ open' = Append(open, [Construct("if") EXCEPT !.exit = Len(code') - 3])
    /\ locals' = Captured(e)
    /\ UNCHANGED <<depth, exits>>
IfClose(else) ==
    /\ Closing("if")
    /\ LET jump == Len(code) + 1
           c    == PatchJump(code \o Jump("JUMP", 65535), Last(open).exit) \o I0("POP")
       IN  IF else THEN /\ code' = c
                        /\ open' = Append(Front(open), [Construct("else") EXCEPT !.exit = jump])
           ELSE code' = PatchJump(c, jump) /\ Pop
    /\ starts' = starts \cup {Len(code), Len(code) + 3}
    /\ UNCHANGED <<locals, depth, exits>>
ElseClose ==
    /\ Closing("else") /\ Pop
    /\ code' = PatchJump(code, Last(open).exit)
    /\ UNCHANGED <<locals, depth, starts, exits>>

WhileOpen(e) ==
    /\ Opening /\ Expr(e)
    /\ Emit(<<>>, e, Len(locals), <<Jump("JUMP_IF_FALSE", 65535), I0("POP")>>)
    /\ open' = Append(open, [Construct("while") EXCEPT !.start = Len(code), !.exit = Len(code') - 3,
                                                       !.body = Len(code') - 1])
    /\ locals' = Captured(e)
    /\ UNCHANGED <<depth, exits>>

(* jml_for_statement: the variable, the iterable, the index and the size
   are four locals of a scope around the loop; the increment stands before
   the body and is where the body loops to.                                *)
ForOpen(e) ==
    /\ Opening /\ Initializer(e)
    /\ LET x     == Len(locals)
           pre   == <<I0("NONE")>>
           setup == <<I1("CONST", Name), I2("IMPORT", Name, Name), I1("GET_LOCAL", x + 1), I2("INVOKE", Name, 1)>>
           test  == <<I1("GET_LOCAL", x + 2), I1("GET_LOCAL", x + 3), I0("LESS"),
                      Jump("JUMP_IF_FALSE", 65535), I0("POP")>>
           inc   == <<I1("GET_LOCAL", x + 2), I1("CONST", Name), I0("ADD"), I1("SET_LOCAL", x + 2), I0("POP")>>
           next  == <<Jump("LOOP", Size(test) + 3 + Size(inc) + 3)>>
           item  == <<I1("GET_LOCAL", x + 1), I1("GET_LOCAL", x + 2), I0("GET_INDEX"), I1("SET_LOCAL", x), I0("POP")>>
           start == Len(Emitted(pre, e, x + 2, setup))
       IN  /\ Emit(pre, e, x + 2, setup \o test \o <<Jump("JUMP", Size(inc) + 3)>> \o inc \o next \o item)
           /\ open' = Append(open, [Construct("for") EXCEPT !.start = start + Size(test) + 3,
                                                            !.exit = start + Size(test) - 3,
                                                            !.body = Len(code') - Size(item),
                                                            !.base = x + 4])
    /\ depth' = depth + 1
    /\ locals' = Captured(e) \o LocalsAt(depth + 1, 4)
    /\ UNCHANGED exits

(* The end of either loop: back to its start, the exit patched, and the
   placeholders of its breaks.  The scan reads the upvalues of a closure
   from a constant that need not be a function: then any number.           *)
LoopClosedEarly(u) ==      \* mutant: the breaks are patched before the pop
    LET l == Last(open)
    IN  JmlLoopEnd(PatchJump(EmitLoop(code, l.start), l.exit), l.body, u) \o I0("POP")
LoopClosed(u) ==
    LET l == Last(open)
    IN  JmlLoopEnd(PatchJump(EmitLoop(code, l.start), l.exit) \o I0("POP"), l.body, u)
Upvalues == IF At(1) = Name THEN {1} ELSE 0..2

LoopClose(kind, post) ==
    /\ Closing(kind) /\ Pop
    /\ \E u \in Upvalues : code' = LoopClosed(u) \o Bytes(post)
    /\ starts' = starts \cup {Len(code), Len(code) + 3} \cup StartsAt(Len(code) + 4, post)
    /\ exits' = [b \in Last(open).ends |-> Len(code) + 4] @@ exits

WhileClose == LoopClose("while", <<>>) /\ UNCHANGED <<locals, depth>>
ForClose   == /\ LoopClose("for", ScopeEnd(locals, depth - 1))
              /\ locals' = Outlive(locals, depth - 1) /\ depth' = depth - 1

Break ==
    /\ Statement(FALSE) /\ InLoop /\ Slots(Len(locals) = open[Loop].base)
    /\ Emit(<<>>, "none", 0, << <<Placeholder, Pending, Pending>> >>)
    /\ open' = [open EXCEPT ![Loop].ends = @ \cup {Len(code)}]
    /\ UNCHANGED <<locals, depth, exits>>
Skip ==
    /\ Statement(FALSE) /\ InLoop /\ Slots(Len(locals) = open[Loop].base)
    /\ code' = EmitLoop(code, open[Loop].start)
    /\ starts' = starts \cup {Len(code)}
    /\ UNCHANGED <<locals, depth, open, exits>>

(* jml_match_statement: the value is a local of the scope around it, and
   stays one; every case is a scope; the wildcard comes last.              *)
MatchOpen(e) ==
    /\ Opening /\ Initializer(e) /\ Slots(OwnScope)
    /\ Emit(<<>>, e, Len(locals) + 1, <<>>)
    /\ locals' = Append(Captured(e), Local(depth))
    /\ open' = Append(open, [Construct("match") EXCEPT !.cond = Len(locals)])
    /\ UNCHANGED <<depth, exits>>
CaseOpen(literal) ==
    /\ Inside("match") /\ ~Last(open).done
    /\ literal => left > 0
    /\ left' = IF literal THEN left - 1 ELSE left
    /\ LET test == <<I1("CONST", Name), I1("GET_LOCAL", Last(open).cond), I0("EQUAL"),
                     Jump("JUMP_IF_FALSE", 65535), I0("POP")>>
       IN  /\ Emit(<<>>, "none", 0, IF literal THEN test ELSE <<>>)
           /\ open' = Append([open EXCEPT ![Len(open)].done = ~literal],
                             [Construct("case") EXCEPT !.exit = Len(code') - 3])
    /\ depth' = depth + 1
    /\ UNCHANGED <<type, locals, tail, phase, pc, sp, heights, exits>>
CaseClose ==
    /\ Closing("case") /\ depth' = depth - 1
    /\ locals' = Outlive(locals, depth - 1)
    /\ LET n    == Len(open)
           drop == ScopeEnd(locals, depth - 1)
           jump == Len(code) + Size(drop) + 1
       IN  IF open[n - 1].done
           THEN Emit(<<>>, "none", 0, drop) /\ Pop
           ELSE /\ code' = PatchJump(code \o Bytes(drop) \o Jump("JUMP", 65535), Last(open).exit) \o I0("POP")
                /\ starts' = starts \cup StartsAt(Len(code), drop) \cup {jump - 1, jump + 2}
                /\ open' = [Front(open) EXCEPT ![n - 1].ends = @ \cup {jump}]
    /\ UNCHANGED exits
MatchClose ==
    /\ Closing("match") /\ Last(open).done /\ Pop
    /\ code' = FoldSet(LAMBDA off, c : PatchJump(c, off), code, Last(open).ends)
    /\ UNCHANGED <<locals, depth, starts, exits>>

(* jml_compiler_end; the run starts with the callee and the arguments. *)
Finish ==
    /\ phase = "compile" /\ open = <<>>
    /\ Slots(type # "FN" \/ tail)
    /\ LET c == EmitReturn(type, code)
           value == Len(c) - Len(code) - 1
       IN  /\ code' = c \o I0("END")
           /\ starts' = starts \cup {Len(code), Len(code) + value, Len(c)}
           /\ heights' = (Len(c) - 1 :> Len(locals) + 1) @@ heights
    /\ phase' = "run" /\ left' = 0 /\ pc' = 0 /\ sp' = 1 + (IF type = "MAIN" THEN 0 ELSE Params)
    /\ UNCHANGED <<type, locals, depth, open, tail, exits>>

(***************************************************************************)
(* The run, one instruction a step, through the dispatch table.            *)
(***************************************************************************)
Running == phase = "run" /\ pc \in starts /\ At(pc) \in 0..OpEnd
Handler == Dispatched(At(pc))
Length  == IF Handler = "CLOSURE" THEN 4 ELSE HandlerLength(Handler)

(* What the handlers of the emitted instructions do to the stack. *)
Effect ==
    CASE Handler \in {"CONST", "NONE", "GET_LOCAL", "GET_GLOBAL", "GET_UPVALUE", "CLOSURE", "IMPORT"} -> 1
      [] Handler \in {"POP", "DEF_GLOBAL", "CLOSE_UPVALUE", "EQUAL", "LESS", "ADD", "GET_INDEX"}      -> -1
      [] Handler = "POP_TWO"                                -> -2
      [] Handler \in {"CALL", "TRY_CALL"}                   -> -At(pc + 1)
      [] Handler \in {"INVOKE", "TRY_INVOKE"}               -> -At(pc + 2)
      [] Handler \in {"SUPER_INVOKE", "TRY_SUPER_INVOKE"}   -> -At(pc + 2) - 1
      [] OTHER                                              -> 0

Proceeds(at, height) ==
    /\ height \in 0..MaxHeight
    /\ pc' = at /\ sp' = height
    /\ UNCHANGED <<compiler, phase, ghosts>>
Ends == phase' = "done" /\ UNCHANGED <<compiler, pc, sp, ghosts>>

RunJump == /\ Running
           /\ \/ Handler = "JUMP" /\ Proceeds(pc + 3 + Word(pc + 1), sp)
              \/ Handler = "LOOP" /\ Proceeds(pc + 3 - Word(pc + 1), sp)
RunBranch == /\ Running /\ Handler = "JUMP_IF_FALSE"
             /\ \E at \in {pc + 3, pc + 3 + Word(pc + 1)} : Proceeds(at, sp)
RunReturn == Running /\ Handler = "RETURN" /\ Ends

Control == {"JUMP", "LOOP", "JUMP_IF_FALSE", "RETURN", "SPREAD", "END"}
RunOther  == Running /\ Handler \notin Control /\ Proceeds(pc + Length, sp + Effect)

(* A frame above, or a SPREAD here, raises an exception while this frame
   stands behind the instruction: jml_vm_exception looks for a `try` in the
   bytes before pc, cuts the stack to the operand and leaves the exception
   there, or abandons the frame.                                           *)
Calls == {"CALL", "TRY_CALL", "INVOKE", "TRY_INVOKE", "SUPER_INVOKE", "TRY_SUPER_INVOKE"}
Tried(at) == \/ at > 3 /\ At(at - 3) = Op("TRY_CALL")
             \/ at > 4 /\ At(at - 4) \in {Op("TRY_INVOKE"), Op("TRY_SUPER_INVOKE")}
RunThrow == /\ Running /\ Handler \in Calls \cup {"SPREAD"}
            /\ IF Tried(pc + Length) THEN Proceeds(pc + Length, At(pc + Length - 1) + 1) ELSE Ends

Init ==
    /\ type \in Types
    /\ locals = <<Local(0)>> \o (IF type = "MAIN" THEN <<>> ELSE LocalsAt(1, Params))
    /\ depth = IF type = "MAIN" THEN 0 ELSE 1
    /\ code = <<>> /\ open = <<>> /\ left = MaxStatements /\ tail = TRUE
    /\ phase = "compile" /\ pc = 0 /\ sp = 0
    /\ starts = {} /\ heights = <<>> /\ exits = <<>>

Compile == \/ \E e \in Exprs : \/ Expression(e) \/ Let(e) \/ LetWildcard(e) \/ Return(e) \/ Spread(e)
                               \/ IfOpen(e) \/ WhileOpen(e) \/ ForOpen(e) \/ MatchOpen(e)
           \/ \E b \in BOOLEAN : Import(b) \/ IfClose(b) \/ CaseOpen(b)
           \/ ReturnNone \/ BlockOpen \/ BlockClose \/ ElseClose \/ WhileClose \/ ForClose
           \/ Break \/ Skip \/ CaseClose \/ MatchClose \/ Finish
Run == RunJump \/ RunBranch \/ RunReturn \/ RunOther \/ RunThrow

Next == Compile \/ Run
Spec == Init /\ [][Next]_vars

(***************************************************************************)
(* Properties.                                                             *)
(***************************************************************************)
(* What the variables are: bytes are bytes, and a run has not left its code
   nor gone below its frame.                                               *)
TypeOK ==
    /\ code \in Seq(0..255)
    /\ phase \in {"compile", "run", "done"} /\ type \in Types
    /\ \A i \in DOMAIN locals : locals[i].depth \in 0..depth
    /\ phase = "run" => pc \in 0..Len(code) - 1 /\ sp \in 0..MaxHeight

(* Every byte the run dispatches on is the first of an instruction the
   compiler emitted, none is a `break` left unpatched or the end marker
   whose handler is unreachable: patches, the scan of a loop's body and the
   rewriting of `try` and of the implicit return keep the code in step with
   the handlers (jml_loop_end, jml_try, jml_bytecode_emit_return).         *)
OnInstructions == phase = "run" => pc \in starts /\ At(pc) \in 0..OpEnd - 1

(* At a statement the stack of the run holds exactly the locals the
   compiler counts there, so that every GET_LOCAL, SET_LOCAL and capture
   names the slot it means; a return finds one value more, the one it
   returns, whichever path led there (locals, jml_scope_end, `try`,
   jml_bytecode_emit_return).                                              *)
StackIsLocals == phase = "run" /\ pc \in DOMAIN heights => sp = heights[pc]

(* A `break` goes behind the loop it was written in, past the pop of the
   condition, however loops and other breaks nest (jml_loop_end).          *)
BreaksLeaveTheirLoop == [][phase = "run" /\ phase' = "run" /\ pc \in DOMAIN exits => pc' = exits[pc]]_vars

(* Code once emitted changes only where a jump's operand was left open, at
   a `break`'s placeholder, or at the first byte of an instruction the
   implicit return takes back: the rewriting never edits an operand.       *)
OperandsKept == \A i \in DOMAIN code : code'[i] # code[i] => i - 1 \in starts \/ code[i] = Pending
OperandsAreKept == [][OperandsKept]_vars

(* The assertion of the dispatcher: "Out of range op". *)
OpInRange == phase = "run" /\ At(pc) # -1 => At(pc) <= OpEnd
=============================================================================
