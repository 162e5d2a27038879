---------------------------- MODULE JmlCoroutine ----------------------------
(***************************************************************************)
(* How the interpreter of src/src/jml_vm.c runs a program on the stack of  *)
(* a coroutine: locals and temporaries, call frames, closures with open    *)
(* and closed upvalues, exceptions (`try`, `spread`), a stack that moves   *)
(* when it grows, and a second coroutine run on top of the first one (the  *)
(* import of a module).                                                    *)
(*                                                                         *)
(* The program is any one the compiler lays out as it should: the next     *)
(* instruction is chosen freely among those that respect the scopes of the *)
(* running function.  A frame's `locals` is what compiler->local_count     *)
(* was when the instruction was emitted; slots above it are temporaries.   *)
(***************************************************************************)
EXTENDS Integers, SequencesExt, FiniteSetsExt

CONSTANTS Coros,        \* coroutine objects
          Main,         \* the one jml_vm_interpret makes
          Data,         \* values that are neither closures nor exceptions,
                        \* the C functions among them
          Exc,          \* an exception object
          None,         \* NULL, and the contents of memory nobody wrote
          StackMin,     \* STACK_MIN, 128 in the code
          StackMax,     \* STACK_MAX, 32768
          FramesMin,    \* FRAMES_MIN, 8
          FramesMax,    \* FRAMES_MAX, 128
          MaxLocals,    \* LOCAL_MAX, 256
          MaxTemps,     \* bounds the temporaries of a frame
          MaxCaptures,  \* bounds the upvalues of a function
          MaxUpvalues,  \* bounds the upvalues in use at a time
          MaxVars       \* bounds the variables alive at a time

ASSUME CoroutineAssumption ==
    /\ Main \in Coros /\ None \notin Coros
    /\ {Exc, None} \cap Data = {} /\ Exc # None
    /\ {StackMin, StackMax, FramesMin, FramesMax, MaxLocals, MaxTemps,
        MaxCaptures, MaxUpvalues, MaxVars} \subseteq Nat
    /\ StackMin >= 2 /\ FramesMin >= 2 /\ FramesMax >= 1 /\ MaxLocals >= 2

VARIABLES coro,      \* the coroutine objects
          upvalues,  \* the upvalue objects
          global,    \* a global variable
          running,   \* vm->running
          saved,     \* the C stack of jml_vm_call_coroutine activations
          result     \* what jml_vm_run is about to answer

vars == <<coro, upvalues, global, running, saved, result>>

Upvalues == 1..MaxUpvalues
Vars     == 1..MaxVars

(* A slot holds a value; `var` is history, the variable the compiler gave
   the slot to (0: a temporary, or a slot no name stands for).             *)
Slot(x, v) == [var |-> x, val |-> v]

Closure(us)  == [ups |-> us]
IsClosure(v) == v \notin Data \cup {Exc, None}
Names(v)     == IF IsClosure(v) THEN ToSet(v.ups) ELSE {}

(* An open upvalue points at a slot: the coroutine, the block its stack was
   in when the address was taken, the index.  `var` is history.            *)
Free == [open |-> FALSE, coro |-> None, block |-> 0, idx |-> 0,
         val |-> None, var |-> 0]

(* jml_call_frame_t; pc is reduced to `try`, the operand of the OP_TRY_CALL
   the frame is stopped at, or -1.  Other frames may look as if they were
   stopped at one (Spread).                                                *)
FrameAbove(f, at, n) == [ups |-> f.ups, slots |-> at + 1, locals |-> n, try |-> -1]   \* mutant
Frame(f, at, n) == [ups |-> f.ups, slots |-> at, locals |-> n, try |-> -1]

NoCoro == [stack |-> <<>>, cap |-> StackMin, block |-> 0,
           frames |-> <<>>, framecap |-> FramesMin,
           open |-> <<>>, caller |-> None]

(* jml_obj_coroutine_new(closure) *)
NewCoro(f) == [NoCoro EXCEPT !.stack = <<Slot(0, f)>>,
                             !.frames = <<Frame(f, 1, 1)>>]
-----------------------------------------------------------------------------
(* An instruction is a function of the running coroutine and the upvalues;
   ok turns FALSE where the code goes on with vm->running = NULL.          *)
World == [co |-> coro[running], up |-> upvalues, ok |-> TRUE]

(* jml_obj_coroutine_grow: the block moves, and the frames and the open
   upvalues of this coroutine with it (frames are kept as indices here).
   The mutants move no upvalue, or those of other coroutines too.          *)
GrowWith(w, Moves(_)) ==
    IF 2 * w.co.cap >= StackMax
    THEN [w EXCEPT !.ok = FALSE]
    ELSE [w EXCEPT !.co.cap = 2 * @, !.co.block = @ + 1,
                   !.up = [u \in Upvalues |->
                             IF Moves(u) THEN [@[u] EXCEPT !.block = w.co.block + 1] ELSE @[u]]]
GrowNone(w) == GrowWith(w, LAMBDA u : FALSE)
GrowAll(w)  == GrowWith(w, LAMBDA u : w.up[u].open)
Grow(w)     == GrowWith(w, LAMBDA u : Contains(w.co.open, u))

(* jml_vm_push; the mutant waits until there is no slot left. *)
PushLate(w, s) ==
    LET g == IF Len(w.co.stack) >= w.co.cap THEN Grow(w) ELSE w
    IN  [g EXCEPT !.co.stack = Append(@, s)]

Push(w, s) ==
    LET g == IF Len(w.co.stack) + 1 >= w.co.cap THEN Grow(w) ELSE w
    IN  [g EXCEPT !.co.stack = Append(@, s)]

Drop(w, n) == [w EXCEPT !.co.stack = SubSeq(@, 1, Len(@) - n)]

(* How far a loop over the list of open upvalues goes before it meets one
   that fails the test.                                                    *)
Prefix(open, Test(_)) ==
    CHOOSE n \in 0..Len(open) : /\ \A k \in 1..n : Test(open[k])
                                /\ n < Len(open) => ~Test(open[n + 1])

(* A closed upvalue keeps the value its slot had; the mutant takes the one
   on top of the stack.                                                    *)
ShutTop(w, u) == [Free EXCEPT !.val = Last(w.co.stack).val, !.var = w.up[u].var]
Shut(w, u)    == [Free EXCEPT !.val = w.co.stack[w.up[u].idx].val, !.var = w.up[u].var]

(* jml_vm_upvalue_close: every open upvalue at slot `last` or above. *)
Close(w, last) ==
    LET n == Prefix(w.co.open, LAMBDA u : w.up[u].idx >= last)
        closed == {w.co.open[k] : k \in 1..n}
    IN  [w EXCEPT !.co.open = SubSeq(@, n + 1, Len(@)),
                  !.up = [u \in Upvalues |->
                            IF u \in closed THEN Shut(w, u) ELSE @[u]]]

(* What the values in use name: the upvalues that are not garbage. *)
Held(cs, up, g) ==
    {u \in Upvalues :
        \/ \E c \in Coros :
              \/ \E i \in DOMAIN cs[c].stack : u \in Names(cs[c].stack[i].val)
              \/ \E i \in DOMAIN cs[c].frames : Contains(cs[c].frames[i].ups, u)
              \/ Contains(cs[c].open, u)
        \/ \E t \in Upvalues : u \in Names(up[t].val)
        \/ u \in Names(g)}

Unused(w) == Upvalues \ Held([coro EXCEPT ![running] = w.co], w.up, global)

UsedVars == (UNION {{coro[c].stack[i].var : i \in DOMAIN coro[c].stack} : c \in Coros})
            \cup {upvalues[u].var : u \in Upvalues}
NewVars  == Vars \ UsedVars
NewVar   == Min(NewVars)

(* jml_vm_upvalue_capture: the upvalue of that slot if the list, sorted by
   address, has one; a new one in its place in the list otherwise.  The
   mutant does not look for it.                                            *)
CaptureNew(w, at) ==
    LET new == Min(Unused(w))
        n   == Prefix(w.co.open, LAMBDA u : w.up[u].idx > at)
    IN  [w |-> [w EXCEPT
                  !.co.open = InsertAt(@, n + 1, new),
                  !.up[new] = [open |-> TRUE, coro |-> running,
                               block |-> w.co.block, idx |-> at,
                               val |-> None, var |-> w.co.stack[at].var]],
         u |-> new]

Capture(w, at) ==
    LET open == w.co.open
        n    == Prefix(open, LAMBDA u : w.up[u].idx > at)
    IN  IF n < Len(open) /\ w.up[open[n + 1]].idx = at
        THEN [w |-> w, u |-> open[n + 1]]
        ELSE CaptureNew(w, at)
-----------------------------------------------------------------------------
Co       == coro[running]
F        == Last(Co.frames)
Temps(f, co) == Len(co.stack) - (f.slots + f.locals - 1)
Peek(n)  == Co.stack[Len(Co.stack) - n].val
Running  == running # None /\ result = "running"
Room     == Temps(F, Co) < MaxTemps

Declared(w, n) == [w EXCEPT !.co.frames[Len(w.co.frames)].locals = @ + n]
ResumedNot(w)  == w   \* mutant: the frame still looks as if it tried
Resumed(w)     == [w EXCEPT !.co.frames[Len(w.co.frames)].try = -1]

(* Upvalues nobody names any more are left to the collector. *)
Settle(cs, up, g) ==
    /\ coro' = cs /\ global' = g
    /\ LET held == Held(cs, up, g)
       IN  upvalues' = [u \in Upvalues |-> IF u \in held THEN up[u] ELSE Free]

(* The program is over, and with it everything it could reach. *)
Stop(r) == /\ result' = r /\ running' = None /\ saved' = <<>>
           /\ coro' = [c \in Coros |-> NoCoro]
           /\ upvalues' = [u \in Upvalues |-> Free] /\ global' = None

(* After "Stack overflow" jml_vm_push goes on through vm->running, which
   jml_vm_error has just set to NULL.                                      *)
Become(w, g) ==
    IF w.ok THEN /\ Settle([coro EXCEPT ![running] = w.co], w.up, g)
                 /\ UNCHANGED <<running, saved, result>>
            ELSE Stop("crash")

Init == /\ coro = [c \in Coros |-> IF c = Main THEN NewCoro(Closure(<<>>)) ELSE NoCoro]
        /\ upvalues = [u \in Upvalues |-> Free]
        /\ global = None
        /\ running = Main /\ saved = <<>> /\ result = "running"

(* OP_CONST, OP_GET_LOCAL, OP_GET_UPVALUE, OP_GET_GLOBAL *)
PushValue(v) == Running /\ Room /\ Become(Push(World, Slot(0, v)), global)

Const == \E v \in Data \cup {Exc} : PushValue(v)

Locals == 1..(F.locals - 1)

GetLocal == \E i \in Locals : PushValue(Co.stack[F.slots + i].val)

(* Through the pointer: the slot it addresses, or the upvalue's own field. *)
Deref(u) ==
    LET o == upvalues[u] IN
    IF ~o.open THEN o.val
    ELSE IF o.block = coro[o.coro].block /\ o.idx <= Len(coro[o.coro].stack)
         THEN coro[o.coro].stack[o.idx].val
         ELSE None

GetUpvalue == \E j \in DOMAIN F.ups : PushValue(Deref(F.ups[j]))

GetGlobal == global # None /\ PushValue(global)

(* OP_SET_LOCAL and the others leave the value on the stack. *)
SetLocal(i) ==
    /\ Running /\ Temps(F, Co) > 0
    /\ Become([World EXCEPT !.co.stack[F.slots + i].val = Peek(0)], global)

(* mutant: the slot is looked up in the running coroutine. *)
SetUpvalueHere(j) ==
    /\ Running /\ Temps(F, Co) > 0
    /\ LET o == upvalues[F.ups[j]]
       IN  Become(IF o.open THEN [World EXCEPT !.co.stack[o.idx].val = Peek(0)]
                  ELSE [World EXCEPT !.up[F.ups[j]].val = Peek(0)], global)

SetUpvalue(j) ==
    /\ Running /\ Temps(F, Co) > 0
    /\ LET u == F.ups[j]
           o == upvalues[u]
       IN  IF o.open
           THEN /\ Settle([coro EXCEPT ![o.coro].stack[o.idx].val = Peek(0)], upvalues, global)
                /\ UNCHANGED <<running, saved, result>>
           ELSE Become([World EXCEPT !.up[u].val = Peek(0)], global)

(* Of the values a global may hold, only those matter that let a variable
   outlive its function.                                                   *)
SetGlobal == /\ Running /\ Temps(F, Co) > 0
             /\ Become(World, IF Names(Peek(0)) # {} THEN Peek(0) ELSE None)

(* OP_POP at the end of an expression statement *)
Pop == /\ Running /\ Temps(F, Co) > 0
       /\ Become(Drop(World, 1), global)

(* `let`: no instruction, the value of the initializer stays where it is
   and the compiler counts one more local.                                 *)
Let ==
    /\ Running /\ Temps(F, Co) = 1 /\ F.locals < MaxLocals /\ NewVars # {}
    /\ Become(Declared([World EXCEPT !.co.stack[Len(Co.stack)].var = NewVar], 1), global)

(* The end of the scope of the last local: jml_scope_end emits OP_POP, or
   OP_CLOSE_UPVALUE if a function of the program captures it.              *)
EndScope ==
    /\ Running /\ Temps(F, Co) = 0 /\ F.locals > 1
    /\ Become(Declared(Drop(Close(World, Len(Co.stack)), 1), -1), global)

(* The upvalues of a closure are captured one by one, from the slots or from
   the upvalues of the enclosing function.                                 *)
CaptureNext(a, c) ==
    IF c.local
    THEN LET r == Capture(a.w, F.slots + c.index)
         IN  [w |-> r.w, us |-> Append(a.us, r.u)]
    ELSE [w |-> a.w, us |-> Append(a.us, F.ups[c.index])]

CaptureAll(w, caps) ==
    LET after[k \in 0..Len(caps)] ==
            IF k = 0 THEN [w |-> w, us |-> <<>>] ELSE CaptureNext(after[k - 1], caps[k])
    IN  after[Len(caps)]

(* OP_CLOSURE: the closure is pushed, then its upvalues are captured.  A
   `fn` declaration has already given its name to the slot, so that the
   function may capture itself.                                            *)
MakeClosure(caps, decl) ==
    LET x  == IF decl THEN NewVar ELSE 0
        w0 == Push(World, Slot(x, None))
        w1 == CaptureAll(w0, caps)
        w2 == [w1.w EXCEPT !.co.stack[Len(w0.co.stack)].val = Closure(w1.us)]
    IN  /\ Running
        /\ IF decl THEN Temps(F, Co) = 0 /\ F.locals < MaxLocals /\ NewVars # {} ELSE Room
        /\ Cardinality({k \in DOMAIN caps : caps[k].local}) <= Cardinality(Unused(World))
        /\ Become(IF w0.ok /\ decl THEN Declared(w2, 1) ELSE w2, global)

Captures(decl) ==
    [local : {TRUE}, index : 1..(F.locals - (IF decl THEN 0 ELSE 1))]
    \cup [local : {FALSE}, index : DOMAIN F.ups]

OpClosure ==
    \E decl \in BOOLEAN : \E n \in 0..MaxCaptures :
        \E caps \in [1..n -> Captures(decl)] :
            IsInjective(caps) /\ MakeClosure(caps, decl)

(* vm->running is NULL and jml_vm_run answers INTERPRET_RUNTIME_ERROR; the
   import that runs this coroutine, if any, fails in the same way.         *)
Error == Stop("error")

(* jml_vm_call, with a try operand of -1 for OP_CALL.  Whether the callee
   takes n arguments, or any number of them in an array, is not modelled:
   a wrong number is one of the failures of Fail.                          *)
Call(n, try) ==
    LET f    == Peek(n)
        at   == Len(Co.stack) - n
        w0   == [World EXCEPT !.co.frames[Len(Co.frames)].try = try]
        w1   == IF Len(Co.frames) + 1 >= Co.framecap
                THEN Grow([w0 EXCEPT !.co.framecap = 2 * @]) ELSE w0
        w2   == [w1 EXCEPT !.co.frames = Append(@, Frame(f, at, n + 1))]
    IN  /\ Running /\ Temps(F, Co) > n
        /\ try # -1 => Temps(F, Co) = n + 1 /\ try = F.locals
        /\ IsClosure(f) /\ n <= Cardinality(NewVars)
        /\ IF Len(Co.frames) = FramesMax
           THEN Error
           ELSE Become(IF n = 0 THEN w2 ELSE [w2 EXCEPT !.co.stack[at + 1].var = NewVar], global)

OpCall == Running /\ \E n \in 0..1 : \E try \in {-1, F.locals} : Call(n, try)

(* The innermost frame stopped at a try instruction, or 0. *)
Handler(co) == Max({0} \cup {i \in DOMAIN co.frames : co.frames[i].try # -1})

(* jml_vm_call_value on a C function that answers v.  An exception it
   returns is a value for whoever called it as long as some frame of the
   coroutine is stopped at a `try`, that one or an outer one, or is taken
   for one that is.                                                        *)
CallNative(n, v) ==
    /\ Running /\ Temps(F, Co) > n /\ Peek(n) \in Data
    /\ \E try \in BOOLEAN :
           IF v = Exc /\ ~try /\ Handler(Co) = 0
           THEN Error
           ELSE Become(Push(Drop(World, n + 1), Slot(0, v)), global)

OpCallNative == \E n \in 0..1, v \in Data \cup {Exc} : CallNative(n, v)

(* OP_SPREAD, with jml_vm_exception: the frames above the handler are
   gone, the callee's slot of the call that was tried holds the exception.
   jml_vm_exception knows a handler by single bytes at fixed places before
   the pc, whatever instruction they belong to.  An operand that is the
   number of a try instruction (OP_GET_LOCAL 31, then OP_CALL 0) makes any
   frame above the handler, the running one included, pass for one: the
   exception is caught where nothing was tried, above a number of slots
   read off another operand.  What the program does then is not modelled.  *)
Spread ==
    /\ Running /\ Temps(F, Co) > 0 /\ Peek(0) = Exc
    /\ \/ Handler(Co) < Len(Co.frames) /\ Stop("astray")
       \/ LET i   == Handler(Co)
              h   == Co.frames[i]
              end == h.slots + h.try + 1
              w   == Close(World, end)
          IN  IF i = 0
              THEN Error
              ELSE Become(Resumed([w EXCEPT !.co.frames = SubSeq(@, 1, i),
                                            !.co.stack = Append(SubSeq(@, 1, end - 2), Slot(0, Exc))]),
                          global)

(* OP_RETURN.  The outermost frame of a coroutine ends it: the program, or
   the module whose import goes on in the coroutine below.                 *)
Return ==
    /\ Running /\ Temps(F, Co) > 0
    /\ LET w == Close(Drop(World, 1), F.slots)
           v == Peek(0)
           r == [w EXCEPT !.co.frames = Front(@), !.co.stack = SubSeq(@, 1, F.slots - 1)]
       IN  IF Len(Co.frames) > 1
           THEN Become(Resumed(Push(r, Slot(0, v))), global)
           ELSE IF saved = <<>>
           THEN Stop("ok")
           ELSE \E m \in Data :
                LET below == Last(saved).running
                    p == Push([co |-> coro[below], up |-> w.up, ok |-> TRUE], Slot(0, m))
                IN  IF ~p.ok THEN Stop("crash") ELSE
                    /\ Settle([coro EXCEPT ![running] = NoCoro, ![below] = p.co], p.up, global)
                    /\ running' = below /\ saved' = Front(saved) /\ UNCHANGED result

(* mutant: the nested coroutine does not know its caller. *)
ImportAlone(c) ==
    /\ Running /\ Room /\ coro[c] = NoCoro
    /\ coro' = [coro EXCEPT ![c] = NewCoro(Closure(<<>>))]
    /\ saved' = Append(saved, [running |-> running, caller |-> coro[c].caller])
    /\ running' = c
    /\ UNCHANGED <<upvalues, global, result>>

(* OP_IMPORT of a JML module: jml_module_open runs its top level through
   jml_vm_call_coroutine.                                                  *)
Import(c) ==
    /\ Running /\ Room /\ coro[c] = NoCoro
    /\ coro' = [coro EXCEPT ![c] = [NewCoro(Closure(<<>>)) EXCEPT !.caller = running]]
    /\ saved' = Append(saved, [running |-> running, caller |-> coro[c].caller])
    /\ running' = c
    /\ UNCHANGED <<upvalues, global, result>>

(* Any other runtime error an instruction may find *)
Fail == Running /\ Error

Next ==
    \/ Running /\ (GetLocal \/ GetUpvalue \/ \E i \in Locals : SetLocal(i))
    \/ Running /\ \E j \in DOMAIN F.ups : SetUpvalue(j)
    \/ Const \/ GetGlobal \/ SetGlobal \/ Pop \/ Let \/ EndScope
    \/ Running /\ OpClosure
    \/ OpCall \/ OpCallNative \/ Spread \/ Return \/ Fail
    \/ \E c \in Coros : Import(c)

Spec == Init /\ [][Next]_vars
-----------------------------------------------------------------------------
InUse == {u \in Upvalues : upvalues[u] # Free}
Live  == {c \in Coros : coro[c].frames # <<>>}

SlotType == [var : 0..MaxVars, val : Data \cup {Exc, None} \cup
                                     {Closure(us) : us \in UNION {[1..n -> Upvalues] : n \in 0..MaxCaptures}}]

TypeOK ==
    /\ \A c \in Coros :
          /\ ToSet(coro[c].stack) \subseteq SlotType
          /\ Len(coro[c].stack) < coro[c].cap
          /\ Len(coro[c].frames) <= FramesMax /\ Len(coro[c].frames) < coro[c].framecap
          /\ \A f \in ToSet(coro[c].frames) : f.try \in -1..MaxLocals /\ f.locals \in 1..MaxLocals
          /\ ToSet(coro[c].open) \subseteq Upvalues
          /\ coro[c].caller \in Coros \cup {None}
    /\ \A u \in Upvalues : Slot(upvalues[u].var, upvalues[u].val) \in SlotType
    /\ running \in Coros \cup {None}
    /\ result \in {"running", "ok", "error", "crash", "astray"}

(* The list of open upvalues of a coroutine is strictly descending, so one
   upvalue per slot; it holds every open upvalue of the coroutine and no
   closed one; each points into the block the stack is in now, below the
   top.  jml_vm_upvalue_capture and _close search it on that assumption,
   and jml_obj_coroutine_grow moves the pointers of no other upvalue.      *)
OpenListIsExact ==
    result = "running" =>
    \A c \in Coros :
        LET open == coro[c].open IN
        /\ ToSet(open) = {u \in InUse : upvalues[u].open /\ upvalues[u].coro = c}
        /\ \A k \in DOMAIN open :
              /\ upvalues[open[k]].block = coro[c].block
              /\ upvalues[open[k]].idx <= Len(coro[c].stack)
              /\ k > 1 => upvalues[open[k]].idx < upvalues[open[k - 1]].idx

(* The functions that captured a variable, and the function that declared
   it, share one cell: an open upvalue points at the slot that still is
   that variable, the slot of a closed one is gone, and no two upvalues
   stand for the same variable.                                            *)
OneCellPerVariable ==
    result = "running" =>
    \A u \in InUse :
        /\ upvalues[u].var # 0
        /\ \A t \in InUse : upvalues[t].var = upvalues[u].var => t = u
        /\ upvalues[u].open =>
              coro[upvalues[u].coro].stack[upvalues[u].idx].var = upvalues[u].var
        /\ ~upvalues[u].open =>
              \A c \in Live : \A s \in ToSet(coro[c].stack) : s.var # upvalues[u].var

(* The frames of a coroutine tile its stack: each starts where its caller's
   locals end or above, and the running one has its locals on the stack.
   No return and no caught exception leaves a frame short of its slots.    *)
FramesTileTheStack ==
    result = "running" =>
    \A c \in Live :
        LET fs == coro[c].frames IN
        /\ fs[1].slots = 1
        /\ \A i \in 1..(Len(fs) - 1) : fs[i].slots + fs[i].locals <= fs[i + 1].slots
        /\ c = running => Temps(Last(fs), coro[c]) \in 0..MaxTemps

(* The coroutines that wait for a nested one are those the `caller` links
   lead to, in that order, down to the main one: the collector finds them
   that way.                                                               *)
CallersAreChained ==
    result = "running" =>
    LET n == Len(saved) IN
    /\ \A k \in 1..n : LET c == IF k = n THEN running ELSE saved[k + 1].running
                       IN  coro[c].caller = saved[k].running
    /\ Live = {running} \cup {saved[k].running : k \in 1..n}
    /\ coro[Main].caller = None

(* The two together: every coroutine's stack belongs to its frames, every
   frame's coroutine to the chain of those that run (jml_vm_push, jml_vm_call,
   jml_vm_exception, jml_vm_call_coroutine).                               *)
StacksAreSound == TypeOK /\ FramesTileTheStack /\ CallersAreChained

(* A variable has one cell, whoever captured it, and it is found: the open
   ones through the list (jml_vm_upvalue_capture, jml_vm_upvalue_close).   *)
UpvaluesAreExact == OpenListIsExact /\ OneCellPerVariable

(* The variables with their values, on a stack or in a closed upvalue. *)
Bindings ==
    (UNION {{<<coro[c].stack[i].var, coro[c].stack[i].val>> : i \in DOMAIN coro[c].stack} : c \in Coros})
    \cup {<<upvalues[u].var, upvalues[u].val>> : u \in {t \in InUse : ~upvalues[t].open}}

Differ(B, C) == {b[1] : b \in (B \ C) \cup (C \ B)}
Common(B, C) == {b[1] : b \in B} \cap {c[1] : c \in C}

Assigns(x) ==
    \/ \E i \in Locals : Co.stack[F.slots + i].var = x /\ SetLocal(i)
    \/ \E j \in DOMAIN F.ups : upvalues[F.ups[j]].var = x /\ SetUpvalue(j)

(* While a variable exists, only an assignment to it changes its value:
   not a return, an exception, the end of a scope or the move of a stack,
   all of which copy it from the stack to the upvalue's own field.         *)
KeepsValues == \A x \in Differ(Bindings, Bindings') \ {0} : x \in Common(Bindings, Bindings') => Assigns(x)
VariablesAreKept == [][KeepsValues]_vars

(* An exception ends the program only if no frame of the coroutine tries.
   Unless it goes astray, it lands where the innermost `try` expects its
   result: on top of the locals the function had there, which are
   untouched.                                                              *)
LandsWhereTried ==
    /\ Spread /\ result' = "error" => Handler(Co) = 0
    /\ Spread /\ result' = "running" =>
           LET i == Handler(Co)
               n == Co.frames[i].slots + Co.frames[i].locals
           IN  /\ Len(Co'.frames) = i /\ Len(Co'.stack) = n
               /\ Co'.stack[n].val = Exc
               /\ \A k \in 1..(n - 1) : Co'.stack[k] = Co.stack[k]
CaughtWhereTried == [][LandsWhereTried]_vars

(* Nothing but a `try` catches an exception.  The bytes before the pc do not
   tell: see Spread.                                                       *)
OnlyTriesCatch == result # "astray"
=============================================================================
