------------------------------ MODULE JmlClass ------------------------------
(***************************************************************************)
(* Classes, instances and methods: jml_class_declaration and jml_super of  *)
(* the compiler, OP_CLASS, OP_INHERIT, OP_CLASS_FIELD, the member and      *)
(* super instructions, jml_vm_invoke and jml_vm_call_value.                *)
(*                                                                         *)
(* A program is a sequence of texts (jml_vm_interpret), each declaring     *)
(* classes at its top level and calling methods; a method's body is any    *)
(* sequence of the statements below.  Calls pass no arguments; every       *)
(* statement assigns its result to x, a global in the text and the one     *)
(* local of a method.  An error ends the program.                          *)
(*                                                                         *)
(* The memory is the coroutine's stack, so that what the compiler takes    *)
(* for the slot of `super` and what is there can differ.  `Forms` admits   *)
(* the programs the code is known to mishandle:                            *)
(*   "leak"      a class with a superclass after another one in a text     *)
(*   "nested"    a class with a superclass inside the body of a class      *)
(*   "classget"  a method read from the class itself                       *)
(*   "nativeget" a native method read and not called at once               *)
(*   "callable"  a static that is an instance                              *)
(*   "hooksuper" super in __inherit, or in a class whose superclass has it   *)
(***************************************************************************)
EXTENDS Integers, Sequences, FiniteSets

CONSTANTS
    Names,          \* names of methods, statics and fields
    Natives,        \* names the native class 1 has C functions for
    Inheritable,    \* whether class 1 may be a superclass
    Forms,
    MaxClasses, MaxMembers, MaxInstances, MaxFrames, Texts, Statements  \* bounds

Hooks == {"__init", "__call", "__inherit"}
Keys == Names \cup Hooks \cup {"inner"}

ASSUME ClassAssumption ==
    /\ Natives \subseteq Names \cup {"__init", "__call"}
    /\ Forms \subseteq {"leak", "nested", "classget", "nativeget", "callable", "hooksuper"}
    /\ Inheritable \in BOOLEAN
    /\ {MaxClasses, MaxMembers, MaxInstances, MaxFrames, Texts, Statements} \subseteq Nat
    /\ MaxClasses >= 1

VARIABLES
    classes,    \* [super, statics, own]: own is a history, what its body wrote
    bodies,     \* the class bodies being executed, the innermost last
    slots,      \* locals the compiler counts at the top level
    cells,      \* upvalues of `super`: at a place of the stack, or 0 when closed
    machine,    \* the interpreter: stack, frames, instances, global x
    left        \* [texts, statements] that may follow

vars == <<classes, bodies, slots, cells, machine, left>>

None      == [is |-> "none"]
Unset     == [is |-> "unset"]
Class(c)  == [is |-> "class", c |-> c]
Inst(i)   == [is |-> "inst", i |-> i]
Fn(c, n, cell) == [is |-> "fn", home |-> c, name |-> n, cell |-> cell]
Native(n) == [is |-> "native", home |-> 1, name |-> n]
Bound(i, fn) == [is |-> "bound", self |-> Inst(i), fn |-> fn]

Places == 1..3 * (MaxClasses + MaxFrames)
NoStatics == [k \in Keys |-> Unset]

Init ==
    /\ classes = <<[super |-> 0, own |-> NoStatics,
                    statics |-> [k \in Keys |-> IF k \in Natives THEN Native(k) ELSE Unset]]>>
    /\ bodies = <<>> /\ slots = 0 /\ cells = <<>>
    /\ machine = [mem |-> [p \in Places |-> None], top |-> 0, insts |-> <<>>, x |-> None,
                  frames |-> <<>>, native |-> Unset, failed |-> FALSE]
    /\ left = [texts |-> Texts, statements |-> Statements]

-----------------------------------------------------------------------------
(* The machine.  top is the top of the stack between statements; an
   expression evaluates above it.                                          *)
Frame(m) == m.frames[Len(m.frames)]
X(m)     == IF m.frames = <<>> THEN m.x ELSE m.mem[Frame(m).base + 1]
Self(m)  == m.mem[Frame(m).base]
Yields(m, v) == IF m.frames = <<>> THEN [m EXCEPT !.x = v] ELSE [m EXCEPT !.mem[Frame(m).base + 1] = v]
Fails(m) == [m EXCEPT !.failed = TRUE]

(* jml_vm_call of a closure whose slot 0 is at base. *)
Entered(m, fn, base, kind) ==
    [m EXCEPT !.frames = Append(@, [fn |-> fn, base |-> base, kind |-> kind]),
              !.top = base + 1, !.mem[base + 1] = None]

(* A C function gets its receiver as last argument, or none. *)
Ran(m, fn, self, result) == Yields([m EXCEPT !.native = [fn |-> fn, self |-> self]], result)

(* mutant: the instance is not put in slot 0. *)
NewKeepsClass(m, c, base) ==
    LET i == Len(m.insts) + 1
        n == [m EXCEPT !.insts = Append(@, [klass |-> c, fields |-> NoStatics])]
        f == classes[c].statics["__init"]
    IN  CASE f.is = "fn"     -> Entered(n, f, base, "init")
          [] f.is = "native" -> Ran(n, f, Inst(i), Inst(i))
          [] OTHER           -> Yields(n, Inst(i))

(* jml_vm_call_value of a class. *)
New(m, c, base) ==
    LET i == Len(m.insts) + 1
        n == [m EXCEPT !.insts = Append(@, [klass |-> c, fields |-> NoStatics]), !.mem[base] = Inst(i)]
        f == classes[c].statics["__init"]
    IN  CASE f.is = "fn"     -> Entered(n, f, base, "init")
          [] f.is = "native" -> Ran(n, f, Inst(i), Inst(i))
          [] OTHER           -> Yields(n, Inst(i))

(* jml_vm_call_value: slot 0 of the call is already at base. *)
CallValue(m, v, base) ==
    CASE v.is = "bound"  -> Entered([m EXCEPT !.mem[base] = v.self], v.fn, base, "call")
      [] v.is = "fn"     -> Entered(m, v, base, "call")
      [] v.is = "class"  -> New(m, v.c, base)
      [] v.is = "native" -> Ran(m, v, None, None)
      [] v.is = "inst"   ->
            LET f == classes[m.insts[v.i].klass].statics["__call"]
            IN  CASE f.is = "fn"     -> Entered(m, f, base, "call")
                  [] f.is = "native" -> Ran(m, f, v, None)
                  [] OTHER           -> Fails(m)
      [] OTHER -> Fails(m)

(* jml_vm_invoke_instance and jml_vm_invoke_class, once the static is found. *)
InvokeStatic(m, v, base, self) ==
    CASE v.is = "fn"     -> Entered(m, v, base, "call")
      [] v.is = "native" -> Ran(m, v, self, None)
      [] OTHER           -> CallValue(m, v, base)

At(m, v) == [m EXCEPT !.mem[m.top + 1] = v]

(* mutant: a static hides the field of the same name. *)
InvokeStaticsFirst(m, r, n) ==
    LET base == m.top + 1
        f == m.insts[r.i].fields[n]
        s == classes[m.insts[r.i].klass].statics[n]
    IN  CASE s # Unset -> InvokeStatic(At(m, r), s, base, r)
          [] s = Unset /\ f # Unset -> CallValue(At(m, f), f, base)
          [] OTHER -> Fails(m)

(* jml_vm_invoke of an instance: a field before a static. *)
InvokeInstance(m, r, n) ==
    LET base == m.top + 1
        f == m.insts[r.i].fields[n]
        s == classes[m.insts[r.i].klass].statics[n]
    IN  CASE f # Unset -> CallValue(At(m, f), f, base)
          [] f = Unset /\ s # Unset -> InvokeStatic(At(m, r), s, base, r)
          [] OTHER -> Fails(m)

(* jml_vm_invoke of a class calls what is no method. *)
InvokeClass(m, r, n) ==
    LET s == classes[r.c].statics[n]
    IN  IF s.is \in {"unset", "fn", "native", "bound"} THEN Fails(m)
        ELSE CallValue(At(m, r), s, m.top + 1)

(* jml_vm_class_field_bind: what a static is as a member of instance i. *)
BoundStatic(i, s) == IF s.is = "fn" THEN Bound(i, s) ELSE s

(* OP_GET_MEMBER. *)
Member(m, r, n) ==
    CASE r.is = "inst"  -> IF m.insts[r.i].fields[n] # Unset THEN m.insts[r.i].fields[n]
                           ELSE BoundStatic(r.i, classes[m.insts[r.i].klass].statics[n])
      [] r.is = "class" -> classes[r.c].statics[n]
      [] OTHER          -> Unset

-----------------------------------------------------------------------------
(* Statements of the innermost frame; r is what it can name. *)
Operands == {X(machine)} \cup {Class(c) : c \in DOMAIN classes}
                \cup (IF machine.frames = <<>> THEN {} ELSE {Self(machine)})

Fetched(v) == v.is = "native" => "nativeget" \in Forms

Statement == ~machine.failed /\ (bodies = <<>> \/ machine.frames # <<>>) /\ left.statements > 0
HasRoom == Len(machine.frames) < MaxFrames /\ Len(machine.insts) < MaxInstances
Took == left' = [left EXCEPT !.statements = @ - 1] /\ UNCHANGED <<classes, bodies, slots, cells>>

(* OP_CALL. *)
Call(r) ==
    /\ Statement /\ HasRoom
    /\ machine' = CallValue(At(machine, r), r, machine.top + 1)
    /\ Took

(* OP_INVOKE. *)
Invoke(r, n) ==
    /\ Statement /\ HasRoom
    /\ machine' = CASE r.is = "inst"  -> InvokeInstance(machine, r, n)
                    [] r.is = "class" -> InvokeClass(machine, r, n)
                    [] OTHER          -> Fails(machine)
    /\ Took

GetMember(r, n) ==
    /\ Statement
    /\ LET v == Member(machine, r, n)
       IN  /\ Fetched(v) /\ (r.is = "class" /\ v.is = "fn" => "classget" \in Forms)
           /\ machine' = IF v = Unset THEN Fails(machine) ELSE Yields(machine, v)
    /\ Took

(* OP_SET_MEMBER: only an instance has properties that can be set. *)
SetMember(r, n, v) ==
    /\ Statement
    /\ machine' = IF r.is = "inst" THEN Yields([machine EXCEPT !.insts[r.i].fields[n] = v], v)
                  ELSE Fails(machine)
    /\ Took

(* GET_UPVALUE of `super` in the running method. *)
CellValue(m, c) == IF cells[c].at = 0 THEN cells[c].value ELSE m.mem[cells[c].at]
InSuper == Statement /\ machine.frames # <<>> /\ Frame(machine).fn.cell # 0
TheSuper == CellValue(machine, Frame(machine).fn.cell)

(* OP_SUPER_INVOKE: self, then super, which is popped before the call. *)
SuperInvoke(n) ==
    /\ InSuper /\ HasRoom /\ TheSuper.is = "class"
    /\ LET s == classes[TheSuper.c].statics[n]
           m == At(machine, Self(machine))
       IN  machine' = IF s = Unset THEN Fails(machine) ELSE InvokeStatic(m, s, machine.top + 1, Self(machine))
    /\ Took

(* OP_SUPER. *)
SuperGet(n) ==
    /\ InSuper /\ TheSuper.is = "class" /\ Self(machine).is = "inst"
    /\ LET s == classes[TheSuper.c].statics[n]
       IN  /\ Fetched(s)
           /\ machine' = IF s = Unset THEN Fails(machine) ELSE Yields(machine, BoundStatic(Self(machine).i, s))
    /\ Took

(* OP_RETURN of a method: an initializer returns its slot 0; what the hook
   __inherit returns replaces the two classes, and the class is pushed.    *)
Body == bodies[Len(bodies)]
Return(v) ==
    /\ Statement /\ machine.frames # <<>>
    /\ LET f == Frame(machine)
           m == [machine EXCEPT !.frames = SubSeq(@, 1, Len(@) - 1), !.top = f.base - 1]
       IN  machine' = CASE f.kind = "init" -> Yields(m, machine.mem[f.base])
                         [] f.kind = "call" -> Yields(m, v)
                         [] f.kind = "hook" -> [m EXCEPT !.top = f.base + 1, !.mem[f.base] = v,
                                                         !.mem[f.base + 1] = Class(Body.class)]
    /\ Took

-----------------------------------------------------------------------------
(* Class declarations, at the top level of a text. *)
Closed(at, m) == [c \in DOMAIN cells |-> IF cells[c].at >= at THEN [at |-> 0, value |-> m.mem[cells[c].at]] ELSE cells[c]]

Declaring == ~machine.failed /\ machine.frames = <<>>
Depth == Cardinality({i \in DOMAIN bodies : bodies[i].super # 0})
Under(m, v) == [m EXCEPT !.top = @ + 1, !.mem[m.top + 1] = v]

(* mutant: the statics are not copied. *)
InheritNothing(c, s) == [super |-> s, own |-> NoStatics, statics |-> NoStatics]

(* OP_INHERIT: the statics are copied. *)
Inherit(c, s) == [super |-> s, own |-> NoStatics, statics |-> classes[s].statics]

(* jml_class_declaration up to the brace.  What is left on the stack is the
   class, over its name as superclass's operand and itself when it has one:
   OP_INHERIT pops neither.                                                *)
ClassOpen(s, nested) ==
    LET c == Len(classes) + 1
        t == machine.top
    IN  /\ Declaring /\ c <= MaxClasses /\ s \in 0..Len(classes)
        /\ nested <=> bodies # <<>>
        /\ Depth = 0 /\ s \notin {bodies[i].class : i \in DOMAIN bodies}
        /\ s # 0 => (nested => "nested" \in Forms) /\ (machine.top # slots => nested \/ "leak" \in Forms)
        /\ bodies' = Append(bodies, [class |-> c, super |-> IF s = 0 THEN 0 ELSE slots + 1])
        /\ IF s = 0
           THEN /\ classes' = Append(classes, [super |-> 0, own |-> NoStatics, statics |-> NoStatics])
                /\ machine' = Under(machine, Class(c)) /\ UNCHANGED slots
           ELSE LET m == Under(Under(machine, Class(s)), Class(c))
                    f == classes[s].statics["__inherit"]
                IN  /\ slots' = slots + 1 /\ classes' = Append(classes, Inherit(c, s))
                    /\ machine' = CASE s = 1 /\ ~Inheritable -> Fails(machine)
                                     [] f.is = "fn" -> [Entered(m, f, t + 1, "hook") EXCEPT !.mem = m.mem]
                                     [] OTHER -> Under(m, Class(c))
        /\ UNCHANGED <<cells, left>>

(* OP_CLASS_FIELD: the member goes to the class under the value. *)
Stored(k, v, at) ==
    [c \in DOMAIN classes |-> IF Class(c) = machine.mem[at] THEN [classes[c] EXCEPT !.statics[k] = v] ELSE classes[c]]
Written(k, v, at) == [Stored(k, v, at) EXCEPT ![Body.class].own[k] = v]
InBody == Declaring /\ bodies # <<>>
NewMember(k) == /\ InBody /\ classes[Body.class].own[k] = Unset
              /\ Cardinality({j \in Keys : classes[Body.class].own[j] # Unset}) < MaxMembers

(* jml_method; `uses` when it says super, which captures the slot that the
   compiler gave to `super`.                                               *)
Method(k, uses) ==
    /\ NewMember(k)
    /\ uses => Body.super # 0
    /\ uses /\ "hooksuper" \notin Forms =>
          k # "__inherit" /\ classes[classes[Body.class].super].statics["__inherit"] = Unset
    /\ LET open == {c \in DOMAIN cells : cells[c].at = Body.super}
           cell == IF ~uses THEN 0 ELSE IF open = {} THEN Len(cells) + 1 ELSE CHOOSE c \in open : TRUE
       IN  /\ cells' = IF cell = Len(cells) + 1 THEN Append(cells, [at |-> Body.super, value |-> None]) ELSE cells
           /\ classes' = Written(k, Fn(Body.class, k, cell), machine.top)
    /\ UNCHANGED <<bodies, slots, machine, left>>

(* `let` in the body of a class without superclass. *)
Field(n) ==
    /\ NewMember(n) /\ Depth = 0
    /\ machine.x.is = "inst" => "callable" \in Forms
    /\ classes' = Written(n, machine.x, machine.top)
    /\ UNCHANGED <<bodies, slots, cells, machine, left>>

(* mutant: the local is popped and still counted. *)
ScopeEndKeeps(b) == slots

(* jml_scope_end: the locals that remain, `super` being one. *)
ScopeEnd(b) == IF b.super = 0 THEN slots ELSE slots - 1

(* The end of a body: jml_scope_end for `super`, then OP_CLASS_FIELD of the
   body around it or the OP_POP of jml_declaration.                        *)
ClassClose ==
    /\ InBody
    /\ LET t == machine.top - (IF Body.super = 0 THEN 0 ELSE 1)
           m == [machine EXCEPT !.top = t - 1]
       IN  /\ machine' = m
           /\ cells' = IF Body.super = 0 THEN cells ELSE Closed(machine.top, machine)
           /\ slots' = ScopeEnd(Body)
           /\ bodies' = SubSeq(bodies, 1, Len(bodies) - 1)
           /\ classes' = IF bodies' = <<>> THEN classes
                         ELSE [Stored("inner", machine.mem[t], t - 1)
                                 EXCEPT ![bodies'[Len(bodies')].class].own["inner"] = Class(Body.class)]
    /\ UNCHANGED left

(* mutant: OP_RETURN of the text leaves the upvalues open. *)
NextTextOpen ==
    /\ Declaring /\ bodies = <<>> /\ left.texts > 0
    /\ left' = [left EXCEPT !.texts = @ - 1]
    /\ machine' = [machine EXCEPT !.top = 0, !.mem = [p \in Places |-> None]]
    /\ UNCHANGED <<classes, bodies, slots, cells>>

(* The text returns, which closes its upvalues; another is interpreted. *)
NextText ==
    /\ Declaring /\ bodies = <<>> /\ left.texts > 0
    /\ left' = [left EXCEPT !.texts = @ - 1]
    /\ machine' = [machine EXCEPT !.top = 0, !.mem = [p \in Places |-> None]]
    /\ cells' = Closed(1, machine)
    /\ UNCHANGED <<classes, bodies, slots>>

Next ==
    \/ \E r \in Operands : Call(r) \/ Return(r)
    \/ \E r \in Operands, n \in Names : Invoke(r, n) \/ GetMember(r, n)
    \/ \E r, v \in Operands, n \in Names : SetMember(r, n, v)
    \/ \E n \in Names : SuperInvoke(n) \/ SuperGet(n) \/ Field(n)
    \/ \E s \in 0..MaxClasses, nested \in BOOLEAN : ClassOpen(s, nested)
    \/ \E k \in Names \cup Hooks, uses \in BOOLEAN : Method(k, uses)
    \/ ClassClose \/ NextText

Spec == Init /\ [][Next]_vars

-----------------------------------------------------------------------------
TypeOK ==
    /\ \A c \in DOMAIN classes : classes[c].super < c /\ DOMAIN classes[c].statics = Keys
    /\ machine.top \in 0..Cardinality(Places)
    /\ bodies = <<>> => slots = 0
    /\ \A c \in DOMAIN cells : cells[c].at \in 0..machine.top \/ bodies = <<>>

IsOpen(c) == c \in {bodies[i].class : i \in DOMAIN bodies}

(* d is in every set that has c and, with a class, its superclass. *)
Descends(c, d) == \A S \in SUBSET (DOMAIN classes) :
    c \in S /\ (\A k \in S : classes[k].super \in S \cup {0}) => d \in S
Fits(fn, v) == v.is = "inst" /\ Descends(machine.insts[v.i].klass, fn.home)

(* A method runs with an instance of its class, or of a class derived from
   it, as self, and a C function of a class gets such an instance: however
   the method was reached, through an instance, a field, super, a bound
   method or an instance that is called (jml_vm_invoke, jml_vm_call_value). *)
SelfFits ==
    /\ \A i \in DOMAIN machine.frames :
          machine.frames[i].kind # "hook" => Fits(machine.frames[i].fn, machine.mem[machine.frames[i].base])
    /\ machine.native # Unset => Fits(machine.native.fn, machine.native.self)

(* `super` in a method is the superclass of the class the method is written
   in, also after the text that declared it has returned (jml_super,
   jml_scope_end, OP_CLOSE_UPVALUE and OP_RETURN).                         *)
SuperIsTheSuperclass ==
    \A c \in DOMAIN classes, k \in Keys :
        LET f == classes[c].statics[k]
        IN  f.is = "fn" /\ f.cell # 0 => CellValue(machine, f.cell) = Class(classes[f.home].super)

(* Once its body is closed a class has what its body wrote and, of the rest,
   what its superclass has: nothing is written elsewhere, nothing is lost,
   and a superclass does not change after it was copied (OP_INHERIT,
   OP_CLASS_FIELD).                                                        *)
StaticsAreOwnOrInherited ==
    \A c \in DOMAIN classes \ {1} : ~IsOpen(c) =>
        classes[c].statics = [k \in Keys |-> IF classes[c].own[k] # Unset \/ classes[c].super = 0
                                             THEN classes[c].own[k]
                                             ELSE classes[classes[c].super].statics[k]]

(* The stack holds the superclass where `super` is read, and a class has
   the statics its body wrote or its superclass had (OP_INHERIT,
   OP_CLASS_FIELD, jml_scope_end).                                         *)
ClassesInPlace == TypeOK /\ SuperIsTheSuperclass /\ StaticsAreOwnOrInherited

(* r.n() does what reading r.n and calling it does: the two paths agree on
   which member is found and on self (jml_vm_invoke against OP_GET_MEMBER
   and OP_CALL); C functions, which lose self when read, are left out.     *)
InvokeIsGetThenCall ==
    ~machine.failed /\ bodies = <<>> =>
        \A i \in DOMAIN machine.insts, n \in Names :
            LET v == Member(machine, Inst(i), n)
                invoked == InvokeInstance(machine, Inst(i), n)
                called  == CallValue(At(machine, v), v, machine.top + 1)
            IN  v.is # "native" => invoked.failed = called.failed /\ (~called.failed => invoked = called)

(* "Class properties are immutable" (jml_vm.c:2074). *)
ClosedClassesAreImmutable ==
    [][\A c \in DOMAIN classes : ~IsOpen(c) => classes'[c].statics = classes[c].statics]_vars
=============================================================================
