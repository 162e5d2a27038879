------------------------------ MODULE JmlScope ------------------------------
(***************************************************************************)
(* How the compiler finds the variable that a name stands for              *)
(* (jml_compiler.c): the locals of each function being compiled, innermost *)
(* last, the upvalues by which a function reaches the locals of those      *)
(* around it, and the renaming x -> y.  The parser is the environment: it  *)
(* opens and closes functions and blocks, declares and uses names, in any  *)
(* order the grammar allows.                                               *)
(*                                                                         *)
(* Beside the tables of the compiler the module keeps the program's own    *)
(* structure: every declaration is a variable of its own, and blocks says  *)
(* which names each block that is open has bound.                          *)
(***************************************************************************)
EXTENDS Integers, Sequences, FiniteSets

CONSTANTS
    Names,          \* names of variables
    MaxFunctions,   \* bound: functions inside one another, the top level included
    MaxLocals,      \* LOCAL_MAX, slot 0 included
    MaxVariables,   \* bound: declarations of a program
    MaxBlocks,      \* bound: blocks open at once
    Forms           \* which of the forms the code mishandles are admitted

ScopeAssumption ==
    /\ MaxFunctions \in Nat \ {0} /\ MaxLocals \in Nat \ {0}
    /\ MaxVariables \in Nat /\ MaxBlocks \in Nat
    /\ Forms \subseteq {"uscore", "outer"}

VARIABLES
    fns,        \* the compilers, the innermost last
    blocks,     \* the blocks that are open, the innermost last: what each binds
    next,       \* the variables declared so far
    taken,      \* the variables some function inside another has taken up
    pending,    \* the variables whose initializer is being read, with their function
    gone,       \* how each variable that went out of scope left the stack
    state       \* "statement", "initializer" (of the last local), "params", "error"

vars == <<fns, blocks, next, taken, pending, gone, state>>

Fn == fns[Len(fns)]
Front(s) == SubSeq(s, 1, Len(s) - 1)
Last(s) == s[Len(s)]
Local(x, depth, v, place) == [name |-> x, depth |-> depth, captured |-> FALSE, var |-> v, place |-> place]

(* A compiler; places counts the values below its next local at run time. *)
Compiler == [locals |-> <<Local("", 0, 0, 0)>>, upvalues |-> <<>>, depth |-> 0, places |-> 1]
Block(fn) == [fn |-> fn, binds |-> [x \in Names |-> 0]]

Init ==
    /\ fns = <<Compiler>> /\ blocks = <<>> /\ next = 0 /\ taken = {} /\ pending = {} /\ gone = {}
    /\ state = "statement"

-----------------------------------------------------------------------------
(* jml_local_resolve: the slot, -1 for none; the last one of that name. *)
MaxOf(S) == CHOOSE i \in S : \A j \in S : j <= i
LocalResolve(f, x) ==
    LET S == {i \in 1..Len(f.locals) : f.locals[i].name = x} IN IF S = {} THEN -1 ELSE MaxOf(S) - 1

(* mutant: an upvalue is known by its index alone. *)
SameUpvalueIndex(u, index, local) == u.index = index

SameUpvalue(u, index, local) == u.index = index /\ u.local = local

(* jml_upvalue_add: the functions with it, and its number. *)
UpvalueAdd(fs, k, index, local) ==
    LET us == fs[k].upvalues
        S == {i \in 1..Len(us) : SameUpvalue(us[i], index, local)}
    IN IF S # {} THEN [fns |-> fs, at |-> (CHOOSE i \in S : \A j \in S : i <= j) - 1]
       ELSE [fns |-> [fs EXCEPT ![k].upvalues = Append(us, [index |-> index, local |-> local])],
             at |-> Len(us)]

(* mutant: only the function that uses the name marks the local. *)
CapturedDirect(fs, k, i) == IF k + 1 = Len(fs) THEN [fs EXCEPT ![k].locals[i + 1].captured = TRUE] ELSE fs

Captured(fs, k, i) == [fs EXCEPT ![k].locals[i + 1].captured = TRUE]

(* jml_upvalue_resolve, for the k-th function. *)
RECURSIVE UpvalueResolve(_, _, _)
UpvalueResolve(fs, k, x) ==
    IF k = 1 THEN [fns |-> fs, at |-> -1]
    ELSE LET i == LocalResolve(fs[k - 1], x) IN
         IF i # -1 THEN UpvalueAdd(Captured(fs, k - 1, i), k, i, TRUE)
         ELSE LET r == UpvalueResolve(fs, k - 1, x) IN
              IF r.at = -1 THEN r ELSE UpvalueAdd(r.fns, k, r.at, FALSE)

(* Which variable a slot or an upvalue of the k-th function is. *)
RECURSIVE Behind(_, _, _)
Behind(fs, k, u) == IF u.local THEN fs[k - 1].locals[u.index + 1].var
                    ELSE Behind(fs, k - 1, fs[k - 1].upvalues[u.index + 1])

(* The names the program itself binds: the block nearest to the end. *)
Binding(x) == LET S == {b \in 1..Len(blocks) : blocks[b].binds[x] # 0}
              IN IF S = {} THEN 0 ELSE blocks[MaxOf(S)].binds[x]
IsUnready(v) == \E p \in pending : p.var = v

-----------------------------------------------------------------------------
Keep == UNCHANGED <<next, taken, pending, gone, state>>
InFn(f) == [fns EXCEPT ![Len(fns)] = f]
Statement == state = "statement"

(* jml_scope_begin: a block, or the parameters of a function. *)
BlockBegin ==
    /\ Statement /\ Len(blocks) < MaxBlocks
    /\ fns' = InFn([Fn EXCEPT !.depth = @ + 1])
    /\ blocks' = Append(blocks, Block(Len(fns)))
    /\ Keep

(* mutant: a local of the block around it is popped too. *)
LeavesDeep(l, depth) == l.depth >= depth

Leaves(l, depth) == l.depth > depth

LeavesBy(l) == IF l.captured THEN "close" ELSE "pop"

(* jml_scope_end. *)
BlockEnd ==
    /\ Statement /\ Fn.depth > 0 /\ blocks # <<>> /\ Last(blocks).fn = Len(fns)
    /\ Len(fns) > 1 => Fn.depth > 1
    /\ LET left == {i \in 1..Len(Fn.locals) : Leaves(Fn.locals[i], Fn.depth - 1)} IN
       /\ fns' = InFn([Fn EXCEPT !.depth = @ - 1, !.locals = SubSeq(@, 1, Len(@) - Cardinality(left)),
                                 !.places = @ - Cardinality(left)])
       /\ gone' = gone \cup {[var |-> Fn.locals[i].var, by |-> LeavesBy(Fn.locals[i])] : i \in left}
    /\ blocks' = Front(blocks)
    /\ UNCHANGED <<next, taken, pending, state>>

(* jml_variable_declaration, in a block; at the top level a name is a
   global and needs no slot.                                               *)
IsDeclared(x) == \E i \in 1..Len(Fn.locals) :
    /\ Fn.locals[i].name = x
    /\ \A j \in i..Len(Fn.locals) : Fn.locals[j].depth = -1 \/ Fn.locals[j].depth >= Fn.depth
Declared(x, depth) ==
    /\ Fn.depth > 0 /\ ~IsDeclared(x) /\ Len(Fn.locals) < MaxLocals /\ next < MaxVariables
    /\ next' = next + 1
    /\ blocks' = [blocks EXCEPT ![Len(blocks)].binds[x] = next + 1]
    /\ UNCHANGED <<taken, gone>>
WithLocal(x, depth) == [Fn EXCEPT !.locals = Append(@, Local(x, depth, next + 1, Fn.places)), !.places = @ + 1]

(* mutant: the name is bound before its initializer is read. *)
UnmarkedEarly == Fn.depth

Unmarked == -1
Let(x) == /\ Statement /\ Declared(x, -1)
          /\ fns' = InFn(WithLocal(x, Unmarked)) /\ state' = "initializer"
          /\ pending' = pending \cup {[fn |-> Len(fns), var |-> next + 1]}

(* jml_local_mark, after the initializer. *)
Defined ==
    /\ state = "initializer"
    /\ fns' = InFn([Fn EXCEPT !.locals[Len(Fn.locals)].depth = Fn.depth])
    /\ state' = "statement" /\ pending' = {p \in pending : p.fn # Len(fns)}
    /\ UNCHANGED <<blocks, next, taken, gone>>

(* jml_function and jml_lambda; the body of a lambda may be in the
   initializer of a name.                                                  *)
Opened(fs) == Append(fs, [Compiler EXCEPT !.depth = 1])
FunctionBegin ==
    /\ Len(fns) < MaxFunctions /\ Len(blocks) < MaxBlocks /\ state \in {"statement", "initializer"}
    /\ fns' = Opened(fns) /\ blocks' = Append(blocks, Block(Len(fns) + 1))
    /\ state' = "params"
    /\ UNCHANGED <<next, taken, pending, gone>>

(* fn x: its name is marked before the body. *)
NamedFunction(x) ==
    /\ Statement /\ Len(fns) < MaxFunctions /\ Len(blocks) < MaxBlocks
    /\ Fn.depth > 0 /\ ~IsDeclared(x) /\ Len(Fn.locals) < MaxLocals /\ next < MaxVariables
    /\ next' = next + 1
    /\ fns' = Opened(InFn(WithLocal(x, Fn.depth)))
    /\ blocks' = Append([blocks EXCEPT ![Len(blocks)].binds[x] = next + 1], Block(Len(fns) + 1))
    /\ state' = "params"
    /\ UNCHANGED <<taken, pending, gone>>
Param(x) == state = "params" /\ Declared(x, Fn.depth) /\ fns' = InFn(WithLocal(x, Fn.depth)) /\ UNCHANGED <<pending, state>>

(* A parameter _ is counted, and passed, but has no local; at most one in a
   function here.                                                          *)
ParamUscore ==
    /\ state = "params" /\ "uscore" \in Forms /\ Fn.places = Len(Fn.locals)
    /\ fns' = InFn([Fn EXCEPT !.places = @ + 1])
    /\ UNCHANGED blocks /\ Keep
ParamsEnd == state = "params" /\ state' = "statement" /\ UNCHANGED <<fns, blocks, next, taken, pending, gone>>

(* jml_compiler_end; then the function around it goes on where it was. *)
FunctionEnd ==
    /\ Statement /\ Len(fns) > 1 /\ Fn.depth = 1
    /\ fns' = Front(fns) /\ blocks' = Front(blocks)
    /\ state' = IF \E p \in pending : p.fn = Len(fns) - 1 THEN "initializer" ELSE "statement"
    /\ UNCHANGED <<next, taken, pending, gone>>

(* jml_variable_named: local, upvalue or global. *)
Found(x) ==
    LET i == LocalResolve(Fn, x)
        r == UpvalueResolve(fns, Len(fns), x)
    IN IF i # -1 THEN [is |-> "local", at |-> i, fns |-> fns, var |-> Fn.locals[i + 1].var]
       ELSE IF r.at # -1 THEN [is |-> "upvalue", at |-> r.at, fns |-> r.fns,
                               var |-> Behind(r.fns, Len(fns), r.fns[Len(fns)].upvalues[r.at + 1])]
       ELSE [is |-> "global", at |-> 0, fns |-> fns, var |-> 0]

(* Reading a local in its own initializer is reported, here and in the
   functions inside the initializer.                                       *)
Reported(x) ==
    \E k \in 1..Len(fns) :
        LET i == LocalResolve(fns[k], x) IN
        /\ i # -1 /\ fns[k].locals[i + 1].depth = -1
        /\ \A j \in k + 1..Len(fns) : LocalResolve(fns[j], x) = -1
Uses == state \in {"statement", "initializer"}
Use(x) ==
    /\ Uses /\ ~Reported(x)
    /\ LET r == Found(x) IN
       /\ fns' = r.fns
       /\ taken' = IF r.is = "upvalue" THEN taken \cup {r.var} ELSE taken
    /\ UNCHANGED <<blocks, next, pending, gone, state>>
UseUnready(x) == /\ Uses /\ Reported(x) /\ state' = "error"
                 /\ UNCHANGED <<fns, blocks, next, taken, pending, gone>>

(* x -> y: a local takes the other name; so does, in form "outer", the
   local that has the number of the upvalue.                               *)
Rename(x, y) ==
    /\ Statement /\ x # y /\ Found(x).is # "global" /\ Binding(y) = 0
    /\ \A k \in 1..Len(fns) : LocalResolve(fns[k], y) = -1
    /\ Found(x).is = "upvalue" => "outer" \in Forms /\ Found(x).at < Len(Fn.locals)
    /\ LET r == Found(x)  v == Binding(x) IN
       /\ fns' = [r.fns EXCEPT ![Len(fns)].locals[r.at + 1].name = y]
       /\ blocks' = [b \in 1..Len(blocks) |->
                        [blocks[b] EXCEPT !.binds = [z \in Names |->
                            IF @[x] # v THEN @[z] ELSE IF z = x THEN 0 ELSE IF z = y THEN v ELSE @[z]]]]
       /\ taken' = IF r.is = "upvalue" THEN taken \cup {v} ELSE taken
    /\ UNCHANGED <<next, pending, gone, state>>

Next ==
    \/ BlockBegin \/ BlockEnd \/ Defined \/ FunctionBegin \/ FunctionEnd
    \/ ParamUscore \/ ParamsEnd
    \/ \E x \in Names : Let(x) \/ NamedFunction(x) \/ Param(x) \/ Use(x) \/ UseUnready(x)
    \/ \E x, y \in Names : Rename(x, y)
Spec == Init /\ [][Next]_vars

-----------------------------------------------------------------------------
(* Types; upvalues and locals are within their tables. *)
TypeOK ==
    /\ Len(fns) \in 1..MaxFunctions /\ Len(blocks) <= MaxBlocks /\ next \in 0..MaxVariables
    /\ state \in {"statement", "initializer", "params", "error"}
    /\ \A k \in 1..Len(fns) :
          /\ Len(fns[k].locals) \in 1..MaxLocals /\ fns[k].depth \in Nat
          /\ \A i \in 1..Len(fns[k].upvalues) :
                LET u == fns[k].upvalues[i] IN
                u.index < Len(IF u.local THEN fns[k - 1].locals ELSE fns[k - 1].upvalues)

(* A name is compiled to the variable that the innermost block around it
   binds to the name, through any number of functions, after shadowing,
   renaming and the ends of blocks; and to a global when no block does.    *)
NamesAreLexical ==
    state # "error" => \A x \in Names : Found(x).var = Binding(x)

(* A name is refused exactly when it stands for the variable that is being
   initialized.                                                            *)
UnreadyIsRefused == \A x \in Names : Reported(x) <=> IsUnready(Binding(x))

(* When a block ends, exactly the variables that some function took up are
   closed, the others popped: a closure never points into a popped slot.   *)
TakenAreClosed == \A g \in gone : g.by = "close" <=> g.var \in taken

(* The slot of a local is where the run has its value. *)
SlotsArePlaces == \A k \in 1..Len(fns) : \A i \in 1..Len(fns[k].locals) : fns[k].locals[i].place = i - 1
=============================================================================
