---------------------------- MODULE JmlImportProofs ----------------------------
(***************************************************************************)
(* The module loader for any set of modules, files and statements, imports *)
(* that form cycles included: what a failed import restores, and the order *)
(* in which the end of the machine runs destructors and closes libraries.  *)
(***************************************************************************)
EXTENDS JmlImport, TLAPS

-------------------------------------------------------------------------------
(* The heap of the loader.  A global that is a module names an object that *)
(* is one, and an instance was made when its module was there already.     *)
Values == [is : {"unbound", "builtin", "none"}] \cup [is : {"data"}, by : Nat]
            \cup [is : {"module"}, of : Nat] \cup [is : {"text"}, of : Modules \cup {Main}]
Globals == [Keys -> Values]
Object == [is : {"module"}, name : Modules \cup {Core}, handle : BOOLEAN, globals : Globals]
            \cup [is : {"instance"}, of : Nat]
ModuleAt(v, objs) == v \in 1..Len(objs) /\ objs[v].is = "module"
Named(g, objs) == g \in Globals /\ \A k \in Keys : g[k].is = "module" => ModuleAt(g[k].of, objs)
Good(objs) == /\ objs \in Seq(Object)
              /\ \A i \in 1..Len(objs) : objs[i].is = "module" => Named(objs[i].globals, objs)
              /\ \A i \in 1..Len(objs) : objs[i].is = "instance" => objs[i].of \in 1..i - 1
Extends(objs, more) == /\ Len(objs) \in Nat /\ Len(more) \in Nat /\ Len(objs) <= Len(more)
                       /\ \A i \in 1..Len(objs) : more[i].is = objs[i].is

(* What names modules goes on naming modules when objects are added.       *)
LEMMA NamedStays ==
    ASSUME NEW objs, NEW more, Extends(objs, more), NEW g, Named(g, objs)
    PROVE  Named(g, more)
  BY DEF Extends, Named, ModuleAt

(* jml_obj_allocate: one object more, the newest.                          *)
LEMMA Appending ==
    ASSUME NEW objs, Good(objs), NEW x \in Object,
           x.is = "module" => Named(x.globals, objs),
           x.is = "instance" => ModuleAt(x.of, objs)
    PROVE  /\ Good(Append(objs, x)) /\ Extends(objs, Append(objs, x))
           /\ Len(Append(objs, x)) = Len(objs) + 1 /\ Append(objs, x)[Len(objs) + 1] = x
  <1> DEFINE more == Append(objs, x)
  <1>1. objs \in Seq(Object) /\ Len(objs) \in Nat
    BY DEF Good
  <1>2. more \in Seq(Object) /\ Len(more) = Len(objs) + 1 /\ more[Len(objs) + 1] = x
        /\ \A i \in 1..Len(objs) : more[i] = objs[i]
    BY <1>1
  <1>3. Extends(objs, more)
    BY <1>1, <1>2 DEF Extends
  <1>4. ASSUME NEW i \in 1..Len(more), more[i].is = "module"
        PROVE  Named(more[i].globals, more)
    <2>1. Named(more[i].globals, objs)
      BY <1>1, <1>2, <1>4 DEF Good
    <2> QED
      BY <2>1, <1>3, NamedStays
  <1>5. ASSUME NEW i \in 1..Len(more), more[i].is = "instance"
        PROVE  more[i].of \in 1..i - 1
    <2>1. CASE i \in 1..Len(objs)
      BY <1>2, <1>5, <2>1 DEF Good
    <2>2. CASE i = Len(objs) + 1
      BY <1>1, <1>2, <1>5, <2>2 DEF ModuleAt
    <2> QED
      BY <1>1, <1>2, <2>1, <2>2
  <1> QED
    BY <1>2, <1>3, <1>4, <1>5 DEF Good

(* Other globals for one module.                                           *)
LEMMA Storing ==
    ASSUME NEW objs, Good(objs), NEW o, ModuleAt(o, objs), NEW g, Named(g, objs)
    PROVE  Good([objs EXCEPT ![o].globals = g]) /\ Extends(objs, [objs EXCEPT ![o].globals = g])
  <1> DEFINE more == [objs EXCEPT ![o].globals = g]
  <1>1. objs \in Seq(Object) /\ Len(objs) \in Nat /\ o \in 1..Len(objs) /\ objs[o] \in Object /\ objs[o].is = "module"
    BY DEF Good, ModuleAt
  <1>2. objs[o] \in [is : {"module"}, name : Modules \cup {Core}, handle : BOOLEAN, globals : Globals]
    BY <1>1 DEF Object
  <1>3. g \in Globals
    BY DEF Named
  <1>4. [objs[o] EXCEPT !.globals = g] \in Object /\ [objs[o] EXCEPT !.globals = g].is = "module"
        /\ [objs[o] EXCEPT !.globals = g].globals = g
    BY <1>2, <1>3 DEF Object
  <1>5. more = [objs EXCEPT ![o] = [objs[o] EXCEPT !.globals = g]]
    OBVIOUS
  <1>6. /\ more \in Seq(Object) /\ Len(more) = Len(objs)
        /\ \A i \in 1..Len(objs) : more[i] = IF i = o THEN [objs[o] EXCEPT !.globals = g] ELSE objs[i]
    BY <1>1, <1>4, <1>5
  <1>7. Extends(objs, more)
    BY <1>1, <1>4, <1>6 DEF Extends
  <1>8. ASSUME NEW i \in 1..Len(more), more[i].is = "module"
        PROVE  Named(more[i].globals, more)
    <2>1. Named(more[i].globals, objs)
      BY <1>1, <1>4, <1>6, <1>8 DEF Good
    <2> QED
      BY <2>1, <1>7, NamedStays
  <1>9. ASSUME NEW i \in 1..Len(more), more[i].is = "instance"
        PROVE  more[i].of \in 1..i - 1
    BY <1>1, <1>4, <1>6, <1>9 DEF Good
  <1> QED
    BY <1>6, <1>7, <1>8, <1>9 DEF Good

-------------------------------------------------------------------------------
(* One global more, or another value of one.                               *)
LEMMA Putting ==
    ASSUME NEW objs, NEW h, Named(h, objs), NEW k \in Keys, NEW x \in Values,
           x.is = "module" => ModuleAt(x.of, objs)
    PROVE  Named([h EXCEPT ![k] = x], objs)
  BY DEF Named, Globals

(* What an import leaves of the importer's globals is globals again, in    *)
(* each of the ways it may bind.                                           *)
LEMMA Binding ==
    ASSUME NEW objs, Good(objs), NEW g, Named(g, objs), NEW m \in Modules,
           NEW v, ModuleAt(v, objs), NEW how \in Ways
    PROVE  Named(Bound(g, m, v, how, objs), objs)
  <1> DEFINE s == Short[m]
  <1>1. s \in Keys /\ Names \subseteq Keys
    BY DEF Keys
  <1>2. Module(v) \in Values /\ Module(v).is = "module" /\ Module(v).of = v
    <2>1. v \in Nat
      BY DEF Good, ModuleAt
    <2> QED
      BY <2>1 DEF Module, Values
  <1>3. Unbound \in Values /\ Unbound.is # "module"
    BY DEF Unbound, Values
  <1>4. Named([g EXCEPT ![s] = Module(v)], objs)
    BY <1>1, <1>2, Putting
  <1>10. Named([g EXCEPT ![s] = Unbound], objs)
    BY <1>1, <1>3, Putting
  <1>5. CASE how.as = "name"
    <2>1. Bound(g, m, v, how, objs) = [g EXCEPT ![s] = Module(v)]
      BY <1>5 DEF Bound
    <2> QED
      BY <1>4, <2>1
  <1>6. CASE how.as = "drop"
    <2>1. Bound(g, m, v, how, objs) = [g EXCEPT ![s] = Unbound]
      BY <1>6 DEF Bound
    <2> QED
      BY <1>10, <2>1
  <1>7. CASE how.as = "wild"
    <2>1. Bound(g, m, v, how, objs) = Added(objs[v].globals, g)
      BY <1>7 DEF Bound
    <2>2. Named(objs[v].globals, objs)
      BY DEF Good, ModuleAt
    <2> QED
      BY <2>1, <2>2 DEF Added, Named, Globals
  <1>8. CASE how.as = "local"
    BY <1>8 DEF Bound
  <1>9. CASE how.as = "swap"
    <2>1. how.to \in Keys
      BY <1>1, <1>9 DEF Ways
    <2>2. Bound(g, m, v, how, objs) = [[g EXCEPT ![s] = Unbound] EXCEPT ![how.to] = Module(v)]
      BY <1>9 DEF Bound
    <2>3. Named([[g EXCEPT ![s] = Unbound] EXCEPT ![how.to] = Module(v)], objs)
      BY <1>2, <1>10, <2>1, Putting
    <2> QED
      BY <2>2, <2>3
  <1> QED
    BY <1>5, <1>6, <1>7, <1>8, <1>9 DEF Ways

(* Objects and main's globals after globals g were stored as those of o.   *)
LEMMA StoringGlobals ==
    ASSUME NEW objs, Good(objs), NEW mn, Named(mn, objs), NEW o, o = 0 \/ ModuleAt(o, objs),
           NEW g, Named(g, objs)
    PROVE  /\ Good(Stored(o, g, objs)) /\ Extends(objs, Stored(o, g, objs))
           /\ Named(StoredMain(o, g, mn), Stored(o, g, objs))
  <1>1. CASE o = 0
    <2>1. Extends(objs, objs)
      BY DEF Extends, Good
    <2> QED
      BY <1>1, <2>1 DEF Stored, StoredMain
  <1>2. CASE o # 0
    <2>1. Good(Stored(o, g, objs)) /\ Extends(objs, Stored(o, g, objs))
      BY <1>2, Storing DEF Stored
    <2>2. Named(mn, Stored(o, g, objs))
      BY <2>1, NamedStays
    <2> QED
      BY <1>2, <2>1, <2>2 DEF StoredMain
  <1> QED
    BY <1>1, <1>2

(* The whole of Bind, for an importer o and a module v that is there.      *)
LEMMA Bindings ==
    ASSUME NEW objs, Good(objs), Named(main, objs), NEW o, o = 0 \/ ModuleAt(o, objs),
           NEW m \in Modules, NEW v, ModuleAt(v, objs), NEW how \in Ways, Bind(o, m, v, how, objs)
    PROVE  Good(objects') /\ Named(main', objects') /\ Extends(objs, objects')
  <1> DEFINE h == GlobalsOf(o, objs, main)
             g == Bound(h, m, v, how, objs)
  <1>1. Named(h, objs)
    BY DEF GlobalsOf, Good, ModuleAt
  <1>2. Named(g, objs)
    BY <1>1, Binding
  <1>3. objects' = Stored(o, g, objs) /\ main' = StoredMain(o, g, main)
    BY DEF Bind
  <1> QED
    BY <1>2, <1>3, StoringGlobals

(* A module is told its own name.                                          *)
LEMMA Knowing ==
    ASSUME NEW objs, Good(objs), NEW v, ModuleAt(v, objs), NEW m \in Modules
    PROVE  Good(Known(objs, v, m)) /\ Extends(objs, Known(objs, v, m))
  <1>1. Named(objs[v].globals, objs)
    BY DEF Good, ModuleAt
  <1>2. Text(m) \in Values /\ Text(m).is # "module" /\ "__path" \in Keys /\ "__module" \in Keys
    BY DEF Text, Values, Keys, Self
  <1> DEFINE g == [objs[v].globals EXCEPT !["__path"] = Text(m)]
             h == [g EXCEPT !["__module"] = Text(m)]
  <1>3. Named(g, objs) /\ Named(h, objs)
    BY <1>1, <1>2 DEF Named, Globals
  <1>4. objs \in Seq(Object) /\ v \in 1..Len(objs) /\ v \in DOMAIN objs /\ objs[v].is = "module"
    BY DEF Good, ModuleAt
  <1>5. objs[v] \in [is : {"module"}, name : Modules \cup {Core}, handle : BOOLEAN, globals : Globals]
    BY <1>4 DEF Object
  <1>6. Known(objs, v, m) = [objs EXCEPT ![v].globals = h]
    BY <1>4, <1>5 DEF Known
  <1>7. /\ Good([objs EXCEPT ![v].globals = h])
        /\ Extends(objs, [objs EXCEPT ![v].globals = h])
    BY <1>3, Storing
  <1> QED
    BY <1>6, <1>7

-------------------------------------------------------------------------------
(* vm->current and the exempt stack.  What makes it inductive: each run    *)
(* has saved the module of the run below it, and the first run is main's.  *)
Frame == [obj : Nat, name : Modules \cup {Main}, super : Nat, how : Ways]

Chained == /\ runs # <<>> => runs[1].obj = 0
           /\ \A i \in 2..Len(runs) : runs[i].super = runs[i - 1].obj
Counted == /\ phase \in {"run", "failing"} =>
                 runs # <<>> /\ current = runs[Len(runs)].obj /\ exempt = 2 * (Len(runs) - 1)
           /\ phase \in {"idle", "freeing"} => runs = <<>> /\ current = 0 /\ exempt = 0
RunInv == /\ runs \in Seq(Frame) /\ phase \in {"run", "failing", "idle", "freeing"}
          /\ Len(objects) \in Nat /\ Chained /\ Counted

(* Leaving the innermost of several runs gives back what it saved.         *)
LEMMA RunLeft ==
    ASSUME RunInv, Len(runs) > 1, phase \in {"run", "failing"}
    PROVE  /\ Front(runs) \in Seq(Frame) /\ Front(runs) # <<>> /\ Len(Front(runs)) = Len(runs) - 1
           /\ \A i \in 1..Len(runs) - 1 : Front(runs)[i] = runs[i]
           /\ Top.super = runs[Len(runs) - 1].obj
  <1>1. runs \in Seq(Frame) /\ Len(runs) \in Nat
    BY DEF RunInv
  <1>2. /\ Front(runs) \in Seq(Frame) /\ Len(Front(runs)) = Len(runs) - 1
        /\ \A i \in 1..Len(runs) - 1 : Front(runs)[i] = runs[i]
    BY <1>1 DEF Front
  <1>3. Front(runs) # <<>>
    BY <1>1, <1>2
  <1>4. Top.super = runs[Len(runs) - 1].obj
    BY <1>1 DEF RunInv, Chained, Top, Last
  <1> QED
    BY <1>2, <1>3, <1>4

(* Importing a text enters a run that saves the one it came from.          *)
LEMMA RunEntered ==
    ASSUME RunInv, phase = "run", NEW m \in Modules, NEW how \in Ways, NEW n \in Nat,
           runs' = Append(runs, Run(n, m, current, how)), current' = n, exempt' = exempt + 2,
           phase' = phase, Len(objects') \in Nat
    PROVE  RunInv'
  <1> DEFINE r == Run(n, m, current, how)
  <1>1. runs \in Seq(Frame) /\ Len(runs) \in Nat /\ Len(runs) > 0 /\ current = runs[Len(runs)].obj
        /\ exempt = 2 * (Len(runs) - 1)
    BY DEF RunInv, Counted
  <1>2. r \in Frame /\ r.obj = n /\ r.super = current
    <2>1. runs[Len(runs)] \in Frame
      BY <1>1
    <2>2. current \in Nat
      BY <1>1, <2>1 DEF Frame
    <2> QED
      BY <2>2 DEF Run, Frame
  <1>3. runs' \in Seq(Frame) /\ Len(runs') = Len(runs) + 1 /\ runs'[Len(runs) + 1] = r
        /\ \A i \in 1..Len(runs) : runs'[i] = runs[i]
    BY <1>1, <1>2
  <1>4. Chained'
    BY <1>1, <1>2, <1>3 DEF RunInv, Chained
  <1>5. Counted'
    BY <1>1, <1>2, <1>3 DEF Counted
  <1> QED
    BY <1>3, <1>4, <1>5 DEF RunInv

-------------------------------------------------------------------------------
(* The two invariants together, and what the freeing order adds.           *)
Modules0(objs) == \A m \in DOMAIN modules : modules[m] # 0 => ModuleAt(modules[m], objs)
Runs0(objs) == \A i \in 1..Len(runs) : \/ i = 1 /\ runs[i].obj = 0
                                       \/ runs[i].name \in Modules /\ ModuleAt(runs[i].obj, objs)
HeapInv == /\ Good(objects) /\ Named(main, objects)
           /\ modules \in [Modules \cup {Core} -> Nat]
           /\ Modules0(objects) /\ Runs0(objects)
FreedInv == /\ \E n \in 0..Len(objects) : freed = n + 1..Len(objects)
            /\ phase # "freeing" => freed = {}
IInv == HeapInv /\ RunInv /\ FreedInv

(* What is a module stays one.                                             *)
LEMMA ModuleStays ==
    ASSUME NEW objs, NEW more, Extends(objs, more)
    PROVE  \A v : ModuleAt(v, objs) => ModuleAt(v, more)
  BY DEF ModuleAt, Extends

(* A step that allocates, stores and binds, and leaves the runs.           *)
LEMMA HeapKept ==
    ASSUME HeapInv, Good(objects'), Named(main', objects'), Extends(objects, objects'),
           UNCHANGED runs, UNCHANGED modules
    PROVE  HeapInv'
  <1>1. Modules0(objects)' /\ Runs0(objects)'
    BY ModuleStays DEF HeapInv, Modules0, Runs0
  <1> QED
    BY <1>1 DEF HeapInv

(* The importer of the innermost run.                                      *)
LEMMA ImporterIsThere ==
    ASSUME IInv, phase \in {"run", "failing"}
    PROVE  /\ Len(runs) \in Nat \ {0} /\ Top = runs[Len(runs)] /\ Top \in Frame
           /\ Top.obj = 0 \/ ModuleAt(Top.obj, objects)
           /\ Len(runs) > 1 => Top.name \in Modules /\ ModuleAt(Top.obj, objects)
  <1>1. runs \in Seq(Frame) /\ runs # <<>>
    BY DEF IInv, RunInv, Counted
  <1>2. Len(runs) \in Nat \ {0}
    BY <1>1
  <1> QED
    BY <1>1, <1>2 DEF IInv, HeapInv, Runs0, Top, Last

(* Entering module v, the runs being what they will be.                    *)
LEMMA Entering ==
    ASSUME NEW objs, Good(objs), Named(main, objs), NEW o, o = 0 \/ ModuleAt(o, objs),
           NEW m \in Modules, NEW v, ModuleAt(v, objs), NEW how \in Ways,
           modules \in [Modules \cup {Core} -> Nat], Modules0(objs), Enter(o, m, v, how, objs)
    PROVE  /\ Good(objects') /\ Named(main', objects') /\ Extends(objs, objects')
           /\ modules' \in [Modules \cup {Core} -> Nat] /\ Modules0(objects)'
  <1> DEFINE known == Known(objs, v, m)
  <1>1. Good(known) /\ Extends(objs, known)
    BY Knowing
  <1>2. ModuleAt(v, known) /\ (o = 0 \/ ModuleAt(o, known)) /\ Named(main, known)
    <2>1. ModuleAt(v, known) /\ (o = 0 \/ ModuleAt(o, known))
      BY <1>1 DEF ModuleAt, Extends
    <2> QED
      BY <2>1, <1>1, NamedStays
  <1>3. Bind(o, m, v, how, known) /\ modules' = [modules EXCEPT ![m] = v]
    BY DEF Enter
  <1>4. Good(objects') /\ Named(main', objects') /\ Extends(known, objects')
    BY <1>1, <1>2, <1>3, Bindings
  <1>5. Extends(objs, objects')
    BY <1>1, <1>4 DEF Extends
  <1>6. v \in Nat /\ modules' \in [Modules \cup {Core} -> Nat]
    BY <1>3 DEF ModuleAt, Good
  <1>7. Modules0(objects)'
    BY <1>3, <1>5 DEF Modules0, ModuleAt, Extends
  <1> QED
    BY <1>4, <1>5, <1>6, <1>7

(* jml_obj_module_new, and the globals it comes with.                      *)
LEMMA NewModuleIs ==
    ASSUME NEW m \in Modules \cup {Core}, NEW handle \in BOOLEAN, NEW g \in Globals
    PROVE  LET x == [NewModule(m, handle) EXCEPT !.globals = g]
           IN  x \in Object /\ x.is = "module" /\ x.globals = g
  <1> DEFINE x == [NewModule(m, handle) EXCEPT !.globals = g]
             y == [is |-> "module", name |-> m, handle |-> handle, globals |-> g]
  <1>1. x = y
    <2>1. NoGlobals \in Globals
      BY DEF NoGlobals, Globals, Values, Unbound
    <2>2. NewModule(m, handle) \in [is : {"module"}, name : Modules \cup {Core}, handle : BOOLEAN, globals : Globals]
      BY <2>1 DEF NewModule
    <2>3. NewModule(m, handle).name = m /\ NewModule(m, handle).handle = handle
          /\ NewModule(m, handle).is = "module"
      BY DEF NewModule
    <2> QED
      BY <2>2, <2>3
  <1>2. y \in Object /\ y.is = "module" /\ y.globals = g
    BY DEF Object
  <1> QED
    BY <1>1, <1>2

(* jml_core_register.                                                      *)
LEMMA ImportInit == Init => IInv
  <1> SUFFICES ASSUME Init PROVE IInv
    OBVIOUS
  <1> DEFINE core == [k \in Keys |-> IF k \in Builtins THEN Builtin ELSE Unbound]
             c == [NewModule(Core, FALSE) EXCEPT !.globals = core]
  <1>1. core \in Globals /\ \A k \in Keys : core[k].is # "module"
    BY DEF Globals, Values, Builtin, Unbound
  <1> HIDE DEF core
  <1>3. c \in Object /\ c.is = "module" /\ c.globals = core
    BY <1>1, NewModuleIs
  <1>4. objects = <<c>> /\ main = core /\ runs = <<>> /\ freed = {} /\ current = 0 /\ exempt = 0
        /\ phase = "idle" /\ modules = [m \in Modules \cup {Core} |-> IF m = Core THEN 1 ELSE 0]
    BY DEF Init, core
  <1> HIDE DEF c
  <1>5. objects \in Seq(Object) /\ Len(objects) = 1 /\ \A i \in 1..Len(objects) : objects[i] = c
    BY <1>3, <1>4
  <1>6. Named(core, objects)
    BY <1>1 DEF Named
  <1>7. Good(objects) /\ Named(main, objects)
    BY <1>3, <1>4, <1>5, <1>6 DEF Good
  <1>8. Modules0(objects) /\ modules \in [Modules \cup {Core} -> Nat]
    BY <1>3, <1>4, <1>5 DEF Modules0, ModuleAt
  <1>9. Runs0(objects) /\ runs \in Seq(Frame) /\ Len(runs) = 0
    BY <1>4 DEF Runs0
  <1>10. RunInv
    BY <1>4, <1>5, <1>9 DEF RunInv, Chained, Counted
  <1>11. FreedInv
    <2>1. freed = 1 + 1..Len(objects) /\ 1 \in 0..Len(objects)
      BY <1>4, <1>5
    <2> QED
      BY <1>4, <2>1 DEF FreedInv
  <1> QED
    BY <1>7, <1>8, <1>9, <1>10, <1>11 DEF IInv, HeapInv

(* Nothing is freed while a program runs: the empty tail.                  *)
LEMMA NothingFreed ==
    ASSUME NEW n \in Nat
    PROVE  n \in 0..n /\ {} = n + 1..n
  OBVIOUS

(* A step inside a run of a text: no run begins or ends, nothing is freed. *)
LEMMA StatementStep ==
    ASSUME IInv, phase = "run", UNCHANGED <<runs, current, exempt, freed>>,
           phase' \in {"run", "failing"}, HeapInv'
    PROVE  IInv'
  <1>1. Len(objects') \in Nat
    BY DEF HeapInv, Good
  <1>2. RunInv'
    BY <1>1 DEF IInv, RunInv, Chained, Counted
  <1>3. FreedInv'
    BY <1>1, NothingFreed DEF IInv, FreedInv
  <1> QED
    BY <1>2, <1>3 DEF IInv

(* An import of a module that is in the table.                             *)
LEMMA KeepsImportKnown ==
    ASSUME IInv, NEW m \in Modules, NEW how \in Ways, ImportKnown(m, how)
    PROVE  IInv'
  <1>1. phase = "run" /\ Bind(Top.obj, m, modules[m], how, objects) /\ modules[m] # 0
        /\ UNCHANGED <<runs, modules, current, exempt, phase, freed>>
    BY DEF ImportKnown, Statement, Took
  <1>2. ModuleAt(modules[m], objects)
    BY <1>1 DEF IInv, HeapInv, Modules0
  <1>3. Top.obj = 0 \/ ModuleAt(Top.obj, objects)
    BY <1>1, ImporterIsThere
  <1>4. Good(objects) /\ Named(main, objects)
    BY DEF IInv, HeapInv
  <1>5. Good(objects') /\ Named(main', objects') /\ Extends(objects, objects')
    BY <1>1, <1>2, <1>3, <1>4, Bindings
  <1>6. HeapInv'
    BY <1>1, <1>5, HeapKept DEF IInv
  <1> QED
    BY <1>1, <1>6, StatementStep

(* An import of a library.                                                 *)
LEMMA KeepsImportNative ==
    ASSUME IInv, NEW m \in Modules, NEW how \in Ways, ImportNative(m, how)
    PROVE  IInv'
  <1> DEFINE v == Len(objects) + 1
             table == [k \in Keys |-> IF k \in Table THEN Data(v) ELSE Unbound]
             x == [NewModule(m, TRUE) EXCEPT !.globals = table]
             more == Append(objects, x)
  <1>1. phase = "run" /\ Enter(Top.obj, m, v, how, more)
        /\ UNCHANGED <<runs, current, exempt, phase, freed>>
    BY DEF ImportNative, Statement, Took
  <1>2. Good(objects) /\ Named(main, objects) /\ modules \in [Modules \cup {Core} -> Nat]
        /\ Modules0(objects) /\ Runs0(objects) /\ Len(objects) \in Nat
    BY DEF IInv, HeapInv, Good
  <1>3. table \in Globals /\ \A k \in Keys : table[k].is # "module"
    BY <1>2 DEF Globals, Values, Data, Unbound
  <1> HIDE DEF table
  <1>4. x \in Object /\ x.is = "module" /\ x.globals = table
    BY <1>3, NewModuleIs
  <1>5. Named(table, objects)
    BY <1>3 DEF Named
  <1> HIDE DEF x
  <1>6. Good(more) /\ Extends(objects, more) /\ Len(more) = v /\ more[v] = x
    BY <1>2, <1>4, <1>5, Appending
  <1>7. Top.obj = 0 \/ ModuleAt(Top.obj, objects)
    BY <1>1, ImporterIsThere
  <1> HIDE DEF more
  <1>8. ModuleAt(v, more) /\ (Top.obj = 0 \/ ModuleAt(Top.obj, more)) /\ Modules0(more)
    BY <1>2, <1>4, <1>6, <1>7 DEF ModuleAt, Extends, Modules0
  <1>9. Named(main, more)
    BY <1>2, <1>6, NamedStays
  <1> HIDE DEF v
  <1>10. /\ Good(objects') /\ Named(main', objects') /\ Extends(more, objects')
         /\ modules' \in [Modules \cup {Core} -> Nat] /\ Modules0(objects)'
    BY <1>1, <1>2, <1>6, <1>8, <1>9, Entering
  <1>11. Runs0(objects)'
    <2>1. Extends(objects, objects')
      BY <1>6, <1>10 DEF Extends
    <2> QED
      BY <1>1, <1>2, <2>1, ModuleStays DEF Runs0
  <1>12. HeapInv'
    BY <1>10, <1>11 DEF HeapInv
  <1> QED
    BY <1>1, <1>12, StatementStep

(* A module object made for a text: one object more, nothing else touched. *)
LEMMA TextObject ==
    ASSUME IInv, NEW m \in Modules, objects' = Append(objects, NewModule(m, FALSE)), UNCHANGED main
    PROVE  /\ Good(objects') /\ Named(main', objects') /\ Extends(objects, objects')
           /\ Len(objects') = Len(objects) + 1 /\ Len(objects) \in Nat
           /\ ModuleAt(Len(objects'), objects')
  <1> DEFINE x == NewModule(m, FALSE)
  <1>1. Good(objects) /\ Named(main, objects) /\ Len(objects) \in Nat
    BY DEF IInv, HeapInv, Good
  <1>2. NoGlobals \in Globals /\ \A k \in Keys : NoGlobals[k].is # "module"
    BY DEF NoGlobals, Globals, Values, Unbound
  <1>3. x \in Object /\ x.is = "module" /\ x.globals = NoGlobals
    BY <1>2 DEF NewModule, Object
  <1>4. Named(NoGlobals, objects)
    BY <1>2 DEF Named
  <1> HIDE DEF x
  <1>5. objects' = Append(objects, x)
    BY DEF x
  <1>6. /\ Good(objects') /\ Extends(objects, objects') /\ Len(objects') = Len(objects) + 1
        /\ objects'[Len(objects) + 1] = x
    BY <1>1, <1>3, <1>4, <1>5, Appending
  <1>7. Named(main', objects')
    BY <1>1, <1>6, NamedStays
  <1> DEFINE n == Len(objects)
  <1>8. Len(objects') = n + 1 /\ n \in Nat /\ objects'[n + 1].is = "module"
    BY <1>1, <1>3, <1>6
  <1>9. ModuleAt(n + 1, objects')
    <2>1. n + 1 \in 1..n + 1
      BY <1>8
    <2> QED
      BY <1>8, <2>1, Zenon DEF ModuleAt
  <1>10. ModuleAt(Len(objects'), objects')
    BY <1>8, <1>9
  <1> QED
    BY <1>6, <1>7, <1>8, <1>10

(* An import that begins a nested run.                                     *)
LEMMA KeepsImportText ==
    ASSUME IInv, NEW m \in Modules, NEW how \in Ways, ImportText(m, how)
    PROVE  IInv'
  <1> DEFINE n == Len(objects')
  <1>1. phase = "run" /\ objects' = Append(objects, NewModule(m, FALSE)) /\ exempt' = exempt + 2
        /\ runs' = Append(runs, Run(n, m, current, how)) /\ current' = n
        /\ UNCHANGED <<modules, main, phase, freed>>
    BY DEF ImportText, Statement
  <1>2. /\ Good(objects') /\ Named(main', objects') /\ Extends(objects, objects')
        /\ n = Len(objects) + 1 /\ Len(objects) \in Nat /\ ModuleAt(n, objects')
    BY <1>1, TextObject
  <1> HIDE DEF n
  <1>3. n \in Nat /\ n = Len(objects')
    BY <1>2 DEF n
  <1>4. RunInv'
    BY <1>1, <1>3, RunEntered DEF IInv
  <1>5. Runs0(objects)'
    <2>1. runs \in Seq(Frame) /\ Len(runs) \in Nat
      BY DEF IInv, RunInv
    <2>2. current \in Nat
      <3>1. Top \in Frame /\ Top = runs[Len(runs)]
        BY <1>1, ImporterIsThere
      <3>2. current = runs[Len(runs)].obj
        BY <1>1 DEF IInv, RunInv, Counted
      <3> QED
        BY <3>1, <3>2 DEF Frame
    <2>3. Run(n, m, current, how) \in Frame /\ Run(n, m, current, how).obj = n
          /\ Run(n, m, current, how).name = m
      BY <1>3, <2>2 DEF Run, Frame
    <2>4. Len(runs') = Len(runs) + 1 /\ runs'[Len(runs) + 1] = Run(n, m, current, how)
          /\ \A i \in 1..Len(runs) : runs'[i] = runs[i]
      BY <1>1, <2>1, <2>3
    <2>5. \A i \in 1..Len(runs) : \/ i = 1 /\ runs[i].obj = 0
                                  \/ runs[i].name \in Modules /\ ModuleAt(runs[i].obj, objects')
      BY <1>2, ModuleStays DEF IInv, HeapInv, Runs0
    <2> QED
      BY <1>2, <2>1, <2>3, <2>4, <2>5 DEF Runs0
  <1>6. Modules0(objects)' /\ modules' \in [Modules \cup {Core} -> Nat]
    <2>1. modules' = modules /\ Modules0(objects) /\ modules \in [Modules \cup {Core} -> Nat]
      BY <1>1 DEF IInv, HeapInv
    <2> QED
      BY <1>2, <2>1, ModuleStays DEF Modules0
  <1>7. HeapInv'
    BY <1>2, <1>5, <1>6 DEF HeapInv
  <1>8. FreedInv'
    BY <1>1, <1>3, NothingFreed DEF IInv, FreedInv
  <1> QED
    BY <1>4, <1>7, <1>8 DEF IInv

(* An import that fails before anything runs.                              *)
LEMMA KeepsImportFails ==
    ASSUME IInv, NEW m \in Modules, ImportFails(m)
    PROVE  IInv'
  <1>1. phase = "run" /\ phase' = "failing" /\ UNCHANGED <<runs, main, modules, current, exempt, freed>>
    BY DEF ImportFails, Statement, FailAt, Took
  <1>2. Good(objects') /\ Named(main', objects') /\ Extends(objects, objects')
    <2>1. CASE objects' = Append(objects, NewModule(m, FALSE))
      BY <1>1, <2>1, TextObject
    <2>2. CASE objects' = objects
      BY <1>1, <2>2 DEF IInv, HeapInv, Extends, Good
    <2> QED
      BY <2>1, <2>2 DEF ImportFails
  <1>3. HeapInv'
    BY <1>1, <1>2, HeapKept DEF IInv
  <1> QED
    BY <1>1, <1>3, StatementStep

(* OP_DEF_GLOBAL and OP_SET_GLOBAL.                                        *)
LEMMA KeepsDefine ==
    ASSUME IInv, NEW k \in Names, Define(k)
    PROVE  IInv'
  <1> DEFINE o == Top.obj
             h == GlobalsOf(o, objects, main)
             g == [h EXCEPT ![k] = Data(o)]
  <1>1. phase = "run" /\ objects' = Stored(o, g, objects) /\ main' = StoredMain(o, g, main)
        /\ UNCHANGED <<runs, modules, current, exempt, phase, freed>>
    BY DEF Define, Statement, Took
  <1>2. Top \in Frame /\ (o = 0 \/ ModuleAt(o, objects))
    BY <1>1, ImporterIsThere
  <1>3. Good(objects) /\ Named(main, objects)
    BY DEF IInv, HeapInv
  <1>4. Named(h, objects)
    BY <1>2, <1>3 DEF GlobalsOf, Good, ModuleAt
  <1>5. k \in Keys /\ Data(o) \in Values /\ Data(o).is # "module"
    BY <1>2 DEF Keys, Data, Values, Frame
  <1> HIDE DEF o, h
  <1>6. Named(g, objects)
    BY <1>4, <1>5, Putting
  <1> HIDE DEF g
  <1>7. Good(objects') /\ Named(main', objects') /\ Extends(objects, objects')
    BY <1>1, <1>2, <1>3, <1>6, StoringGlobals
  <1>8. HeapInv'
    BY <1>1, <1>7, HeapKept DEF IInv
  <1> QED
    BY <1>1, <1>8, StatementStep

(* OP_CALL of a native class: the one that allocates after its module.     *)
LEMMA KeepsInstance ==
    ASSUME IInv, Instance
    PROVE  IInv'
  <1>1. phase = "run" /\ UNCHANGED <<runs, main, modules, current, exempt, phase, freed>>
    BY DEF Instance, Statement, Took
  <1>2. PICK k \in Keys : /\ Lookup(Top.obj, k).is = "module"
                          /\ objects' = Append(objects, [is |-> "instance", of |-> Lookup(Top.obj, k).of])
    BY DEF Instance
  <1> DEFINE o == Top.obj
             v == Lookup(o, k).of
             x == [is |-> "instance", of |-> v]
  <1>3. o = 0 \/ ModuleAt(o, objects)
    BY <1>1, ImporterIsThere
  <1>4. Good(objects) /\ Named(main, objects) /\ Len(objects) \in Nat
    BY DEF IInv, HeapInv, Good
  <1>5. Named(GlobalsOf(o, objects, main), objects)
    BY <1>3, <1>4 DEF GlobalsOf, Good, ModuleAt
  <1>6. ModuleAt(v, objects)
    <2>1. Lookup(o, k) = GlobalsOf(o, objects, main)[k]
      BY <1>2 DEF Lookup, Builtin
    <2> QED
      BY <1>2, <1>5, <2>1 DEF Named
  <1> HIDE DEF v
  <1>7. x \in Object /\ x.is = "instance" /\ x.of = v
    BY <1>4, <1>6 DEF Object, ModuleAt
  <1>8. objects' = Append(objects, x)
    BY <1>2 DEF v
  <1> HIDE DEF x
  <1>9. Good(objects') /\ Extends(objects, objects')
    BY <1>4, <1>6, <1>7, <1>8, Appending
  <1>10. Named(main', objects')
    BY <1>1, <1>4, <1>9, NamedStays
  <1>11. HeapInv'
    BY <1>1, <1>9, <1>10, HeapKept DEF IInv
  <1> QED
    BY <1>1, <1>11, StatementStep

(* Any other error.                                                        *)
LEMMA KeepsRuntimeError ==
    ASSUME IInv, RuntimeError
    PROVE  IInv'
  <1>1. phase = "run" /\ phase' = "failing"
        /\ UNCHANGED <<objects, runs, main, modules, current, exempt, freed>>
    BY DEF RuntimeError, Statement, FailAt, Took
  <1>2. HeapInv'
    BY <1>1 DEF IInv, HeapInv, Modules0, Runs0
  <1> QED
    BY <1>1, <1>2, StatementStep

(* The end of a nested run and an error that leaves one: what both restore. *)
LEMMA RunRestored ==
    ASSUME IInv, phase \in {"run", "failing"}, Len(runs) > 1, UNCHANGED <<phase, freed>>,
           runs' = Front(runs), exempt' = exempt - 2, current' = Top.super,
           Good(objects'), Named(main', objects'), Extends(objects, objects'),
           modules' \in [Modules \cup {Core} -> Nat], Modules0(objects)'
    PROVE  IInv'
  <1>1. RunInv /\ runs \in Seq(Frame) /\ Len(runs) \in Nat /\ Len(objects) \in Nat
    BY DEF IInv, RunInv
  <1>2. /\ runs' \in Seq(Frame) /\ runs' # <<>> /\ Len(runs') = Len(runs) - 1
        /\ \A i \in 1..Len(runs) - 1 : runs'[i] = runs[i]
        /\ current' = runs[Len(runs) - 1].obj
    BY <1>1, RunLeft
  <1>3. exempt = 2 * (Len(runs) - 1) /\ runs # <<>>
    BY <1>1 DEF RunInv, Counted
  <1>4. Counted'
    BY <1>1, <1>2, <1>3 DEF Counted
  <1>5. Chained'
    BY <1>1, <1>2, <1>3, SMTT(30) DEF RunInv, Chained
  <1>6. RunInv'
    BY <1>1, <1>2, <1>4, <1>5 DEF RunInv
  <1>7. Runs0(objects)'
    <2>1. Runs0(objects)
      BY DEF IInv, HeapInv
    <2>2. \A i \in 1..Len(runs) : \/ i = 1 /\ runs[i].obj = 0
                                  \/ runs[i].name \in Modules /\ ModuleAt(runs[i].obj, objects')
      BY <2>1, ModuleStays DEF Runs0
    <2> QED
      BY <1>1, <1>2, <2>2 DEF Runs0
  <1>8. HeapInv'
    BY <1>7 DEF HeapInv
  <1>9. FreedInv'
    BY NothingFreed DEF IInv, FreedInv, Extends
  <1> QED
    BY <1>6, <1>8, <1>9 DEF IInv

(* The end of a module: what RunLeft and Entering give together.           *)
LEMMA KeepsEndOfModule ==
    ASSUME IInv, EndOfModule
    PROVE  IInv'
  <1> DEFINE o == Last(Front(runs)).obj
  <1>1. phase = "run" /\ Len(runs) > 1 /\ runs' = Front(runs) /\ exempt' = exempt - 2
        /\ current' = Top.super /\ Enter(o, Top.name, Top.obj, Top.how, objects)
        /\ UNCHANGED <<phase, freed>>
    BY DEF EndOfModule
  <1>2. Top.name \in Modules /\ ModuleAt(Top.obj, objects) /\ Top.how \in Ways
    BY <1>1, ImporterIsThere DEF Frame
  <1>3. o = 0 \/ ModuleAt(o, objects)
    <2>1. runs \in Seq(Frame) /\ Len(runs) \in Nat /\ Runs0(objects) /\ RunInv
      BY DEF IInv, RunInv, HeapInv
    <2>2. Last(Front(runs)) = runs[Len(runs) - 1]
      BY <1>1, <2>1, RunLeft DEF Last
    <2> QED
      BY <1>1, <2>1, <2>2 DEF Runs0
  <1> HIDE DEF o
  <1>4. Good(objects) /\ Named(main, objects) /\ modules \in [Modules \cup {Core} -> Nat]
        /\ Modules0(objects)
    BY DEF IInv, HeapInv
  <1>5. /\ Good(objects') /\ Named(main', objects') /\ Extends(objects, objects')
        /\ modules' \in [Modules \cup {Core} -> Nat] /\ Modules0(objects)'
    BY <1>1, <1>2, <1>3, <1>4, Entering
  <1> QED
    BY <1>1, <1>5, RunRestored

(* The first run of all ends, with or without an error.                    *)
LEMMA FirstRunEnds ==
    ASSUME IInv, phase \in {"run", "failing"}, Len(runs) = 1, runs' = <<>>, phase' = "idle",
           UNCHANGED <<objects, modules, main, current, exempt, freed>>
    PROVE  IInv'
  <1>1. runs[1].obj = 0 /\ current = runs[Len(runs)].obj /\ exempt = 2 * (Len(runs) - 1)
    BY DEF IInv, RunInv, Chained, Counted
  <1>2. current' = 0 /\ exempt' = 0 /\ Len(runs') = 0 /\ runs' \in Seq(Frame)
    BY <1>1
  <1>3. RunInv'
    BY <1>2 DEF IInv, RunInv, Chained, Counted
  <1>4. HeapInv'
    BY <1>2 DEF IInv, HeapInv, Modules0, Runs0
  <1>5. FreedInv'
    BY DEF IInv, FreedInv
  <1> QED
    BY <1>3, <1>4, <1>5 DEF IInv

(* An error leaves one run.                                                *)
LEMMA KeepsUnwind ==
    ASSUME IInv, Unwind
    PROVE  IInv'
  <1>1. phase = "failing" /\ runs' = Front(runs) /\ UNCHANGED <<objects, modules, main, freed>>
    BY DEF Unwind
  <1>2. runs \in Seq(Frame) /\ Len(runs) \in Nat \ {0}
    <2>1. runs \in Seq(Frame)
      BY DEF IInv, RunInv
    <2> QED
      BY <1>1, <2>1, ImporterIsThere
  <1>3. CASE Len(runs) > 1
    <2>1. exempt' = exempt - 2 /\ current' = Top.super /\ phase' = phase
      BY <1>3 DEF Unwind
    <2>2. Good(objects) /\ Named(main, objects) /\ modules \in [Modules \cup {Core} -> Nat]
          /\ Modules0(objects)
      BY DEF IInv, HeapInv
    <2>3. /\ Good(objects') /\ Named(main', objects') /\ Extends(objects, objects')
          /\ modules' \in [Modules \cup {Core} -> Nat] /\ Modules0(objects)'
      BY <1>1, <2>2 DEF Extends, Good, Modules0
    <2> QED
      BY <1>1, <1>3, <2>1, <2>3, RunRestored
  <1>4. CASE Len(runs) = 1
    <2>1. runs' = <<>>
      BY <1>1, <1>2, <1>4 DEF Front
    <2>2. phase' = "idle" /\ UNCHANGED <<exempt, current>>
      BY <1>4 DEF Unwind
    <2> QED
      BY <1>1, <1>4, <2>1, <2>2, FirstRunEnds
  <1>5. Len(runs) > 1 \/ Len(runs) = 1
    <2>1. \A n \in Nat \ {0} : n > 1 \/ n = 1
      OBVIOUS
    <2> QED
      BY <1>2, <2>1
  <1> QED
    BY <1>3, <1>4, <1>5

(* jml_vm_interpret.                                                       *)
LEMMA KeepsInterpret ==
    ASSUME IInv, Interpret
    PROVE  IInv'
  <1> DEFINE r == Run(0, Main, 0, [as |-> "local", to |-> ""])
  <1>1. phase = "idle" /\ phase' = "run" /\ runs' = <<r>>
        /\ main' = [main EXCEPT !["__module"] = Text(Main), !["__path"] = None]
        /\ UNCHANGED <<objects, modules, freed, current, exempt>>
    BY DEF Interpret
  <1>2. r \in Frame /\ r.obj = 0
    BY DEF Run, Frame, Ways
  <1> HIDE DEF r
  <1>3. runs' \in Seq(Frame) /\ Len(runs') = 1 /\ runs'[1] = r
    BY <1>1, <1>2
  <1>4. RunInv'
    BY <1>1, <1>2, <1>3 DEF IInv, RunInv, Chained, Counted
  <1>5. Named(main', objects')
    <2> DEFINE g == [main EXCEPT !["__module"] = Text(Main)]
    <2>1. Named(main, objects)
      BY DEF IInv, HeapInv
    <2>2. /\ "__module" \in Keys /\ "__path" \in Keys /\ Text(Main) \in Values /\ None \in Values
          /\ Text(Main).is # "module" /\ None.is # "module"
      BY DEF Keys, Self, Text, None, Values
    <2>3. Named(g, objects)
      BY <2>1, <2>2, Putting
    <2>4. main' = [g EXCEPT !["__path"] = None]
      BY <1>1
    <2> HIDE DEF g
    <2>5. Named([g EXCEPT !["__path"] = None], objects)
      BY <2>2, <2>3, Putting
    <2> QED
      BY <1>1, <2>4, <2>5
  <1>6. Runs0(objects)'
    BY <1>2, <1>3 DEF Runs0
  <1>7. HeapInv'
    BY <1>1, <1>5, <1>6 DEF IInv, HeapInv, Modules0
  <1>8. FreedInv'
    BY <1>1 DEF IInv, FreedInv
  <1> QED
    BY <1>4, <1>7, <1>8 DEF IInv

(* jml_vm_free, before the objects.                                        *)
LEMMA KeepsVmFree ==
    ASSUME IInv, VmFree
    PROVE  IInv'
  <1>1. phase = "idle" /\ phase' = "freeing" /\ main' = NoGlobals
        /\ modules' = [m \in DOMAIN modules |-> 0]
        /\ UNCHANGED <<objects, runs, freed, current, exempt>>
    BY DEF VmFree
  <1>2. RunInv'
    BY <1>1 DEF IInv, RunInv, Chained, Counted
  <1>3. Named(main', objects')
    BY <1>1 DEF NoGlobals, Named, Globals, Values, Unbound
  <1>4. Modules0(objects)' /\ Runs0(objects)' /\ modules' \in [Modules \cup {Core} -> Nat]
    BY <1>1 DEF IInv, HeapInv, Modules0, Runs0
  <1>5. HeapInv'
    BY <1>1, <1>3, <1>4 DEF IInv, HeapInv
  <1>6. FreedInv'
    BY <1>1 DEF IInv, FreedInv
  <1> QED
    BY <1>2, <1>5, <1>6 DEF IInv

(* The newest of the objects that are left: the tail of what is freed      *)
(* grows by one.                                                           *)
LEMMA KeepsFreeObject ==
    ASSUME IInv, FreeObject
    PROVE  IInv'
  <1>1. phase = "freeing" /\ freed # DOMAIN objects
        /\ freed' = freed \cup {FreedFirst(DOMAIN objects \ freed)}
        /\ UNCHANGED <<objects, modules, main, runs, current, exempt, phase>>
    BY DEF FreeObject
  <1>2. DOMAIN objects = 1..Len(objects) /\ Len(objects) \in Nat
    BY DEF IInv, HeapInv, Good
  <1>3. PICK n \in 0..Len(objects) : freed = n + 1..Len(objects)
    BY DEF IInv, FreedInv
  <1>4. n # 0 /\ DOMAIN objects \ freed = 1..n /\ n \in Nat
    BY <1>1, <1>2, <1>3
  <1>5. FreedFirst(1..n) = n
    <2>1. n \in 1..n /\ \A y \in 1..n : n >= y
      BY <1>4
    <2>2. Max(1..n) \in 1..n /\ \A y \in 1..n : Max(1..n) >= y
      BY <2>1 DEF Max
    <2> QED
      BY <1>4, <2>1, <2>2 DEF FreedFirst
  <1>6. freed' = n..Len(objects) /\ n - 1 \in 0..Len(objects) /\ (n - 1) + 1 = n
    <2>1. freed' = (n + 1..Len(objects)) \cup {n}
      BY <1>1, <1>3, <1>4, <1>5
    <2>2. (n + 1..Len(objects)) \cup {n} = n..Len(objects)
      BY <1>2, <1>3, <1>4
    <2> QED
      BY <1>2, <1>3, <1>4, <2>1, <2>2
  <1>7. FreedInv'
    BY <1>1, <1>6 DEF FreedInv
  <1>8. RunInv' /\ HeapInv'
    BY <1>1 DEF IInv, RunInv, Chained, Counted, HeapInv, Modules0, Runs0
  <1> QED
    BY <1>7, <1>8 DEF IInv

(* Every step keeps all three.                                             *)
LEMMA ImportStep == IInv /\ [Next]_vars => IInv'
  <1> SUFFICES ASSUME IInv, [Next]_vars PROVE IInv'
    OBVIOUS
  <1>1. ASSUME NEW m \in Modules, NEW how \in Ways,
               ImportKnown(m, how) \/ ImportNative(m, how) \/ ImportText(m, how)
        PROVE  IInv'
    BY <1>1, KeepsImportKnown, KeepsImportNative, KeepsImportText
  <1>2. ASSUME NEW m \in Modules, ImportFails(m) PROVE IInv'
    BY <1>2, KeepsImportFails
  <1>3. ASSUME NEW k \in Names, Define(k) PROVE IInv'
    BY <1>3, KeepsDefine
  <1>4. CASE EndOfText
    BY <1>4, FirstRunEnds DEF EndOfText
  <1>5. CASE UNCHANGED vars
    BY <1>5 DEF vars, IInv, HeapInv, Modules0, Runs0, RunInv, Chained, Counted, FreedInv
  <1> QED
    BY <1>1, <1>2, <1>3, <1>4, <1>5, KeepsInstance, KeepsRuntimeError, KeepsEndOfModule, KeepsUnwind,
       KeepsInterpret, KeepsVmFree, KeepsFreeObject DEF Next

(* vm->current and the exempt stack.                                       *)
LEMMA InnermostIsCurrent ==
    ASSUME IInv
    PROVE  CurrentIsInnermost
  <1>1. phase = "run" => Top = runs[Len(runs)]
    BY ImporterIsThere
  <1> QED
    BY <1>1 DEF IInv, RunInv, Counted, CurrentIsInnermost

(* After any sequence of imports, errors and interpreted texts, vm->current *)
(* is the module whose top level runs innermost and the exempt stack holds  *)
(* two values for each nested import (jml_module_open, both paths out), for *)
(* any graph of imports, cycles included.                                   *)
THEOREM ImportsRestore == Spec => []CurrentIsInnermost
  BY ImportInit, ImportStep, InnermostIsCurrent, PTL DEF Spec

(* What is freed is the newest part of the heap.                           *)
LEMMA NewestFirst ==
    ASSUME IInv
    PROVE  DestructorsBeforeLibraries
  <1> SUFFICES ASSUME NEW i \in DOMAIN objects \ freed, objects[i].is = "instance"
               PROVE  objects[i].of \notin freed
    BY DEF DestructorsBeforeLibraries
  <1>1. objects \in Seq(Object) /\ Len(objects) \in Nat /\ i \in 1..Len(objects) /\ objects[i].of \in 1..i - 1
    BY DEF IInv, HeapInv, Good
  <1>2. PICK n \in 0..Len(objects) : freed = n + 1..Len(objects)
    BY DEF IInv, FreedInv
  <1> QED
    BY <1>1, <1>2

(* jml_vm_free frees every instance of a native class before it closes the  *)
(* library the destructor is in, whatever was imported and made, because    *)
(* what is freed is always the newest part of the heap (jml_gc_free_objs).  *)
THEOREM DestructorsFirst == Spec => []DestructorsBeforeLibraries
  BY ImportInit, ImportStep, NewestFirst, PTL DEF Spec

-------------------------------------------------------------------------------
(* What a statement changes of the objects: the globals of those in S.  No *)
(* object gets another name, and only what it was made with is a library.  *)
Changes(objs, more, S) ==
    /\ Len(objs) \in Nat /\ Len(more) \in Nat /\ Len(objs) <= Len(more)
    /\ \A i \in 1..Len(objs) : i \notin S => more[i] = objs[i]
    /\ \A i \in 1..Len(objs) : more[i].is = objs[i].is
    /\ \A i \in 1..Len(objs) : objs[i].is = "module" =>
          more[i].name = objs[i].name /\ more[i].handle = objs[i].handle

(* One change after another.                                               *)
LEMMA ChangesTwice ==
    ASSUME NEW a, NEW b, NEW c, NEW S, Changes(a, b, S), Changes(b, c, S)
    PROVE  Changes(a, c, S)
  BY SMTT(30) DEF Changes

(* Nothing changes, or an object is added.                                 *)
LEMMA ChangesAdd ==
    ASSUME NEW objs, Good(objs), NEW x \in Object, NEW S
    PROVE  Changes(objs, objs, S) /\ Changes(objs, Append(objs, x), S)
  <1>1. objs \in Seq(Object) /\ Len(objs) \in Nat
    BY DEF Good
  <1>2. Len(Append(objs, x)) = Len(objs) + 1 /\ \A i \in 1..Len(objs) : Append(objs, x)[i] = objs[i]
    BY <1>1
  <1> QED
    BY <1>1, <1>2 DEF Changes

(* Object o, unless it is main (0), has the globals g.                     *)
Rebound(objs, more, o, g) ==
    /\ Changes(objs, more, {o}) /\ Len(more) = Len(objs)
    /\ o # 0 => more[o].globals = g
    /\ o = 0 => more = objs

(* Other globals for the module o, if it is one and not main (0).          *)
LEMMA ChangesStored ==
    ASSUME NEW objs, Good(objs), NEW o, o = 0 \/ ModuleAt(o, objs), NEW g \in Globals,
           NEW more, more = Stored(o, g, objs)
    PROVE  Rebound(objs, more, o, g)
  <1>1. objs \in Seq(Object) /\ Len(objs) \in Nat
    BY DEF Good
  <1>2. CASE o = 0
    BY <1>1, <1>2 DEF Stored, Changes, Rebound
  <1>3. CASE o # 0
    <2>1. o \in 1..Len(objs) /\ objs[o] \in Object /\ objs[o].is = "module"
      BY <1>1, <1>3 DEF ModuleAt
    <2>2. objs[o] \in [is : {"module"}, name : Modules \cup {Core}, handle : BOOLEAN, globals : Globals]
      BY <2>1 DEF Object
    <2>3. PICK x : x = [objs[o] EXCEPT !.globals = g]
      OBVIOUS
    <2>4. x.is = "module" /\ x.name = objs[o].name /\ x.handle = objs[o].handle /\ x.globals = g
      BY <2>2, <2>3
    <2>5. more = [objs EXCEPT ![o] = x]
      BY <1>3, <2>3 DEF Stored
    <2>6. Len(more) = Len(objs) /\ more[o] = x /\ \A i \in 1..Len(objs) : i # o => more[i] = objs[i]
      BY <1>1, <2>1, <2>5
    <2>7. Changes(objs, more, {o})
      BY <1>1, <2>1, <2>4, <2>6 DEF Changes
    <2> QED
      BY <1>3, <2>4, <2>6, <2>7 DEF Rebound
  <1> QED
    BY <1>2, <1>3

(* Module v knows its own name, and its other globals are what they were.  *)
Told(objs, more, v, m) ==
    /\ Changes(objs, more, {v}) /\ Len(more) = Len(objs)
    /\ more[v].globals["__module"] = Text(m) /\ more[v].globals["__path"] = Text(m)
    /\ \A k \in Keys \ Self : more[v].globals[k] = objs[v].globals[k]

(* A module is told its own name, and its other globals stay.              *)
LEMMA ChangesKnown ==
    ASSUME NEW objs, Good(objs), NEW v, ModuleAt(v, objs), NEW m \in Modules
    PROVE  Told(objs, Known(objs, v, m), v, m)
  <1>1. Named(objs[v].globals, objs)
    BY DEF Good, ModuleAt
  <1>2. Text(m) \in Values /\ "__path" \in Keys /\ "__module" \in Keys
    BY DEF Text, Values, Keys, Self
  <1> DEFINE g == [objs[v].globals EXCEPT !["__path"] = Text(m)]
             h == [g EXCEPT !["__module"] = Text(m)]
  <1>3. g \in Globals /\ h \in Globals
    BY <1>1, <1>2 DEF Named, Globals
  <1>4. objs \in Seq(Object) /\ v \in 1..Len(objs) /\ v \in DOMAIN objs /\ objs[v].is = "module"
    BY DEF Good, ModuleAt
  <1>5. objs[v] \in [is : {"module"}, name : Modules \cup {Core}, handle : BOOLEAN, globals : Globals]
    BY <1>4 DEF Object
  <1>6. Known(objs, v, m) = [objs EXCEPT ![v].globals = h]
    BY <1>4, <1>5 DEF Known
  <1>7. v # 0
    BY <1>4
  <1>8. h["__module"] = Text(m) /\ h["__path"] = Text(m) /\ \A k \in Keys \ Self : h[k] = objs[v].globals[k]
    BY <1>1, <1>2, <1>3 DEF Named, Globals, Self
  <1>9. Known(objs, v, m) = Stored(v, h, objs)
    BY <1>6, <1>7 DEF Stored
  <1> HIDE DEF h
  <1>10. Rebound(objs, Known(objs, v, m), v, h)
    BY <1>3, <1>9, ChangesStored
  <1> QED
    BY <1>7, <1>8, <1>10 DEF Rebound, Told

(* The whole of Bind: the importer's globals, and no others.               *)
LEMMA ChangesBind ==
    ASSUME NEW objs, Good(objs), Named(main, objs), NEW o, o = 0 \/ ModuleAt(o, objs),
           NEW m \in Modules, NEW v, ModuleAt(v, objs), NEW how \in Ways, Bind(o, m, v, how, objs)
    PROVE  /\ Rebound(objs, objects', o, Bound(GlobalsOf(o, objs, main), m, v, how, objs))
           /\ Changes(objs, objects', {o})
  <1> DEFINE h == GlobalsOf(o, objs, main)
             g == Bound(h, m, v, how, objs)
  <1>1. Named(h, objs)
    BY DEF GlobalsOf, Good, ModuleAt
  <1>2. Named(g, objs)
    BY <1>1, Binding
  <1>3. objects' = Stored(o, g, objs) /\ main' = StoredMain(o, g, main)
    BY DEF Bind
  <1> HIDE DEF g, h
  <1>6. g \in Globals
    BY <1>2 DEF Named
  <1>7. Rebound(objs, objects', o, g)
    BY <1>3, <1>6, ChangesStored
  <1> QED
    BY <1>7 DEF Rebound, g, h

-------------------------------------------------------------------------------
(* What is in the table of modules is whole, and it is not being run.      *)
Whole(objs, v, m) ==
    /\ objs[v].name = m
    /\ objs[v].globals["__module"] = Text(m) /\ objs[v].globals["__path"] = Text(m)
    /\ objs[v].handle = TRUE => \A k \in Table : objs[v].globals[k] # Unbound

Entered(objs, mods, rs) ==
    \A m \in Modules : mods[m] # 0 => /\ Whole(objs, mods[m], m)
                                      /\ \A i \in 1..Len(rs) : rs[i].obj # mods[m]
Separate(rs) == \A i, j \in 1..Len(rs) : rs[i].obj = rs[j].obj => i = j
Texts(objs, rs) == \A i \in 1..Len(rs) : rs[i].obj # 0 => /\ objs[rs[i].obj].name = rs[i].name
                                                          /\ objs[rs[i].obj].handle = FALSE
WholeInv == Entered(objects, modules, runs) /\ Separate(runs) /\ Texts(objects, runs)

Fewer(new, old) == Len(new) \in Nat /\ Len(new) <= Len(old) /\ \A i \in 1..Len(new) : new[i] = old[i]

(* A run is of main (0) or of a module that is there.                      *)
LEMMA RunsAreThere ==
    ASSUME IInv, NEW i \in 1..Len(runs)
    PROVE  /\ runs[i] \in Frame
           /\ runs[i].obj = 0 \/ ModuleAt(runs[i].obj, objects)
           /\ runs[i].obj = 0 => i = 1
  <1>1. runs \in Seq(Frame) /\ Good(objects)
    BY DEF IInv, RunInv, HeapInv
  <1> QED
    BY <1>1 DEF IInv, HeapInv, Runs0, ModuleAt, Good

(* What touches only the modules that run leaves the others whole.         *)
LEMMA WholeKept ==
    ASSUME IInv, WholeInv, NEW S, Changes(objects, objects', S),
           \A s \in S : s = 0 \/ \E i \in 1..Len(runs) : runs[i].obj = s,
           modules' = modules, Fewer(runs', runs)
    PROVE  WholeInv'
  <1>1. Len(runs) \in Nat /\ \A i \in 1..Len(runs') : i \in 1..Len(runs)
    BY DEF IInv, RunInv, Fewer
  <1>2. ASSUME NEW m \in Modules, modules[m] # 0
        PROVE  Whole(objects', modules[m], m) /\ \A i \in 1..Len(runs') : runs'[i].obj # modules[m]
    <2>1. Whole(objects, modules[m], m) /\ \A i \in 1..Len(runs) : runs[i].obj # modules[m]
      BY <1>2 DEF WholeInv, Entered
    <2>2. ModuleAt(modules[m], objects)
      BY <1>2 DEF IInv, HeapInv, Modules0
    <2>3. objects'[modules[m]] = objects[modules[m]]
      BY <1>2, <2>1, <2>2 DEF Changes, ModuleAt
    <2> QED
      BY <1>1, <2>1, <2>3 DEF Whole, Fewer
  <1>3. Separate(runs')
    BY <1>1 DEF WholeInv, Separate, Fewer
  <1>4. Texts(objects', runs')
    <2> SUFFICES ASSUME NEW i \in 1..Len(runs'), runs'[i].obj # 0
                 PROVE  objects'[runs'[i].obj].name = runs'[i].name /\ objects'[runs'[i].obj].handle = FALSE
      BY DEF Texts
    <2>1. i \in 1..Len(runs) /\ runs'[i] = runs[i]
      BY <1>1 DEF Fewer
    <2>2. ModuleAt(runs[i].obj, objects)
      BY <2>1, RunsAreThere
    <2> QED
      BY <2>1, <2>2 DEF WholeInv, Texts, Changes, ModuleAt
  <1> QED
    BY <1>2, <1>3, <1>4 DEF WholeInv, Entered

(* What entering a module leaves.                                          *)
EnteredAs(objs, o, m, v) ==
    /\ Changes(objs, objects', {o, v}) /\ Whole(objects', v, m)
    /\ modules' = [modules EXCEPT ![m] = v]

(* Entering a module that has what it needs makes it whole.                *)
LEMMA EnteredIsWhole ==
    ASSUME NEW objs, Good(objs), Named(main, objs), NEW o, o = 0 \/ ModuleAt(o, objs),
           NEW m \in Modules, NEW v, ModuleAt(v, objs), NEW how \in Ways, Enter(o, m, v, how, objs),
           o # v, objs[v].name = m,
           objs[v].handle = TRUE => \A k \in Table : objs[v].globals[k] # Unbound
    PROVE  EnteredAs(objs, o, m, v)
  <1> DEFINE known == Known(objs, v, m)
  <1>1. Good(known) /\ Extends(objs, known)
    BY Knowing
  <1>2. ModuleAt(v, known) /\ (o = 0 \/ ModuleAt(o, known)) /\ Named(main, known)
    <2>1. ModuleAt(v, known) /\ (o = 0 \/ ModuleAt(o, known))
      BY <1>1 DEF ModuleAt, Extends
    <2> QED
      BY <2>1, <1>1, NamedStays
  <1>3. Bind(o, m, v, how, known) /\ modules' = [modules EXCEPT ![m] = v]
    BY DEF Enter
  <1>4. /\ Changes(objs, known, {v})
        /\ known[v].globals["__module"] = Text(m) /\ known[v].globals["__path"] = Text(m)
        /\ \A k \in Keys \ Self : known[v].globals[k] = objs[v].globals[k]
    <2>1. Told(objs, known, v, m)
      BY ChangesKnown
    <2> QED
      BY ONLY <2>1 DEF Told
  <1> HIDE DEF known
  <1>5. Changes(known, objects', {o})
    BY <1>1, <1>2, <1>3, ChangesBind
  <1>6. Changes(objs, known, {o, v}) /\ Changes(known, objects', {o, v})
    BY <1>4, <1>5 DEF Changes
  <1>7. v \in 1..Len(known) /\ objects'[v] = known[v]
    BY <1>2, <1>5 DEF Changes, ModuleAt
  <1>8. known[v].name = m /\ known[v].handle = objs[v].handle
    BY <1>4 DEF Changes, ModuleAt
  <1>9. ASSUME objs[v].handle = TRUE, NEW k \in Table PROVE known[v].globals[k] # Unbound
    <2>1. Text(m).is = "text" /\ Unbound.is = "unbound"
      BY DEF Text, Unbound
    <2>2. CASE k \in Self
      BY <1>4, <2>1, <2>2 DEF Self
    <2>3. CASE k \notin Self
      BY <1>4, <1>9, <2>3 DEF Keys
    <2> QED
      BY <2>2, <2>3
  <1> QED
    BY <1>3, <1>4, <1>6, <1>7, <1>8, <1>9, ChangesTwice DEF Whole, EnteredAs

(* The object of a library, filled from its table, as it is entered.       *)
Filled(more, v, m) ==
    /\ v = Len(objects) + 1 /\ v \in Nat /\ v # 0 /\ v \notin 1..Len(objects)
    /\ Good(more) /\ Extends(objects, more) /\ Changes(objects, more, {}) /\ Named(main, more)
    /\ ModuleAt(v, more) /\ more[v].name = m /\ more[v].handle = TRUE
    /\ \A k \in Keys : more[v].globals[k].is # "module"
NativeEnters(more, o, m, v, how) ==
    /\ o \in Nat /\ o # v /\ (o = 0 \/ ModuleAt(o, objects)) /\ (o = 0 \/ ModuleAt(o, more))
    /\ Enter(o, m, v, how, more) /\ EnteredAs(more, o, m, v)

(* A library is entered with all that its table defines.                   *)
LEMMA LibraryEntered ==
    ASSUME IInv, NEW m \in Modules, NEW how \in Ways, ImportNative(m, how)
    PROVE  \E more, v : Filled(more, v, m) /\ NativeEnters(more, Top.obj, m, v, how)
  <1> DEFINE v == Len(objects) + 1
             table == [k \in Keys |-> IF k \in Table THEN Data(v) ELSE Unbound]
             x == [NewModule(m, TRUE) EXCEPT !.globals = table]
             more == Append(objects, x)
             o == Top.obj
  <1>1. phase = "run" /\ Enter(o, m, v, how, more)
    BY DEF ImportNative, Statement
  <1>2. Good(objects) /\ Named(main, objects) /\ Len(objects) \in Nat /\ objects \in Seq(Object)
    BY DEF IInv, HeapInv, Good
  <1>3. /\ table \in Globals /\ \A k \in Keys : table[k].is # "module"
        /\ \A k \in Table : table[k] # Unbound
    BY <1>2 DEF Globals, Values, Data, Unbound, Keys
  <1> HIDE DEF table
  <1>4. x \in Object /\ x.is = "module" /\ x.globals = table
    BY <1>3, NewModuleIs
  <1>5. x.name = m /\ x.handle = TRUE
    BY DEF NewModule
  <1>6. Named(table, objects)
    BY <1>3 DEF Named
  <1> HIDE DEF x
  <1>7. Good(more) /\ Extends(objects, more) /\ Len(more) = v /\ more[v] = x
    BY <1>2, <1>4, <1>6, Appending
  <1>8. Changes(objects, more, {})
    BY <1>2, <1>4, ChangesAdd
  <1>9. (o = 0 \/ ModuleAt(o, objects)) /\ o \in Nat
    BY <1>1, ImporterIsThere DEF Frame
  <1> HIDE DEF more
  <1>10. ModuleAt(v, more) /\ (o = 0 \/ ModuleAt(o, more)) /\ o # v
    BY <1>2, <1>4, <1>7, <1>9 DEF ModuleAt, Extends
  <1>11. Named(main, more)
    BY <1>2, <1>7, NamedStays
  <1>12. /\ more[v].name = m /\ more[v].handle = TRUE
         /\ \A k \in Keys : more[v].globals[k].is # "module"
         /\ \A k \in Table : more[v].globals[k] # Unbound
    BY <1>3, <1>4, <1>5, <1>7
  <1>13. v = Len(objects) + 1 /\ v \in Nat /\ v # 0 /\ v \notin 1..Len(objects)
    BY <1>2
  <1> HIDE DEF v, o
  <1>14. EnteredAs(more, o, m, v)
    BY <1>1, <1>7, <1>10, <1>11, <1>12, EnteredIsWhole
  <1>15. Filled(more, v, m)
    BY <1>7, <1>8, <1>10, <1>11, <1>12, <1>13 DEF Filled
  <1>16. NativeEnters(more, o, m, v, how)
    BY <1>1, <1>9, <1>10, <1>14 DEF NativeEnters
  <1> QED
    BY <1>15, <1>16 DEF o

(* What was in the table stays whole beside it.                            *)
LEMMA WholeNative ==
    ASSUME IInv, WholeInv, NEW m \in Modules, NEW how \in Ways, ImportNative(m, how)
    PROVE  WholeInv'
  <1>1. phase = "run" /\ UNCHANGED runs
    BY DEF ImportNative, Statement, Took
  <1>2. Good(objects) /\ Named(main, objects) /\ Len(objects) \in Nat
        /\ modules \in [Modules \cup {Core} -> Nat] /\ objects \in Seq(Object)
    BY DEF IInv, HeapInv, Good
  <1>3. PICK o : o = Top.obj
    OBVIOUS
  <1>4. PICK more, v : Filled(more, v, m) /\ NativeEnters(more, o, m, v, how)
    BY <1>3, LibraryEntered
  <1>5. o # v /\ (o = 0 \/ ModuleAt(o, objects))
    BY <1>4 DEF NativeEnters
  <1>6. v \in Nat /\ v # 0 /\ v \notin 1..Len(objects)
    BY <1>4 DEF Filled
  <1>7. /\ Changes(more, objects', {o, v}) /\ Whole(objects', v, m)
         /\ modules' = [modules EXCEPT ![m] = v]
    BY <1>4 DEF NativeEnters, EnteredAs
  <1>8. Changes(objects, objects', {o, v})
    <2>1. Changes(objects, more, {o, v})
      BY <1>4 DEF Filled, Changes
    <2> QED
      BY <1>7, <2>1, ChangesTwice
  <1>9. Texts(objects', runs) /\ Separate(runs)
    <2> SUFFICES ASSUME NEW i \in 1..Len(runs), runs[i].obj # 0
                 PROVE  objects'[runs[i].obj].name = runs[i].name /\ objects'[runs[i].obj].handle = FALSE
      BY DEF Texts, WholeInv
    <2>1. ModuleAt(runs[i].obj, objects)
      BY RunsAreThere
    <2> QED
      BY <1>8, <2>1 DEF WholeInv, Texts, Changes, ModuleAt
  <1>10. ASSUME NEW n \in Modules, modules'[n] # 0
         PROVE  Whole(objects', modules'[n], n) /\ \A i \in 1..Len(runs) : runs[i].obj # modules'[n]
    <2>1. CASE n = m
      <3>1. modules'[n] = v
        BY <1>2, <1>7, <2>1
      <3>2. ASSUME NEW i \in 1..Len(runs) PROVE runs[i].obj # v
        BY <1>5, <1>6, RunsAreThere DEF ModuleAt
      <3> QED
        BY <1>7, <2>1, <3>1, <3>2
    <2>2. CASE n # m
      <3>1. modules'[n] = modules[n]
        BY <1>2, <1>7, <2>2
      <3>2. Whole(objects, modules[n], n) /\ \A i \in 1..Len(runs) : runs[i].obj # modules[n]
        BY <1>10, <3>1 DEF WholeInv, Entered
      <3>3. ModuleAt(modules[n], objects)
        BY <1>10, <3>1 DEF IInv, HeapInv, Modules0
      <3>4. modules[n] # v /\ modules[n] # o
        <4>1. \E i \in 1..Len(runs) : runs[i].obj = o
          <5>1. Len(runs) \in Nat \ {0} /\ Top = runs[Len(runs)]
            BY <1>1, ImporterIsThere
          <5> QED
            BY <1>3, <5>1
        <4> QED
          BY <1>6, <3>2, <3>3, <4>1 DEF ModuleAt
      <3>5. objects'[modules[n]] = objects[modules[n]]
        BY <1>8, <3>3, <3>4 DEF Changes, ModuleAt
      <3> QED
        BY <3>1, <3>2, <3>5 DEF Whole
    <2> QED
      BY <2>1, <2>2
  <1> QED
    BY <1>1, <1>9, <1>10 DEF WholeInv, Entered

(* A text is not in the table while its top level runs.                    *)
LEMMA WholeText ==
    ASSUME IInv, WholeInv, NEW m \in Modules, NEW how \in Ways, ImportText(m, how)
    PROVE  WholeInv'
  <1> DEFINE x == NewModule(m, FALSE)
             n == Len(objects) + 1
             r == Run(n, m, current, how)
  <1>1. /\ phase = "run" /\ objects' = Append(objects, x) /\ UNCHANGED <<modules, main>>
        /\ runs' = Append(runs, Run(Len(objects'), m, current, how))
    BY DEF ImportText, Statement
  <1>2. /\ Good(objects) /\ objects \in Seq(Object) /\ Len(objects) \in Nat
        /\ runs \in Seq(Frame) /\ Len(runs) \in Nat
    BY DEF IInv, HeapInv, Good, RunInv
  <1>3. x \in Object /\ x.name = m /\ x.handle = FALSE
    <2>1. NoGlobals \in Globals
      BY DEF NoGlobals, Globals, Values, Unbound
    <2> QED
      BY <2>1 DEF NewModule, Object
  <1> HIDE DEF x
  <1>4. Len(objects') = n /\ objects'[n] = x /\ \A i \in 1..Len(objects) : objects'[i] = objects[i]
    BY <1>1, <1>2, <1>3
  <1>5. r.obj = n /\ r.name = m
    BY DEF Run
  <1>6. runs' = Append(runs, r)
    BY <1>1, <1>4
  <1>7. n \in Nat /\ n # 0 /\ n \notin 1..Len(objects)
    BY <1>2
  <1> HIDE DEF r, n
  <1>8. Len(runs') = Len(runs) + 1 /\ runs'[Len(runs) + 1] = r /\ \A i \in 1..Len(runs) : runs'[i] = runs[i]
    BY <1>2, <1>6
  <1>9. \A i \in 1..Len(runs') : i \in 1..Len(runs) \/ i = Len(runs) + 1
    BY <1>2, <1>8
  <1>10. \A i \in 1..Len(runs) : runs[i].obj # n /\ (runs[i].obj # 0 => runs[i].obj \in 1..Len(objects))
    BY <1>7, RunsAreThere DEF ModuleAt
  <1>11. ASSUME NEW k \in Modules, modules[k] # 0
         PROVE  Whole(objects', modules[k], k) /\ \A i \in 1..Len(runs') : runs'[i].obj # modules[k]
    <2>1. Whole(objects, modules[k], k) /\ \A i \in 1..Len(runs) : runs[i].obj # modules[k]
      BY <1>11 DEF WholeInv, Entered
    <2>2. modules[k] \in 1..Len(objects)
      BY <1>11 DEF IInv, HeapInv, Modules0, ModuleAt
    <2> QED
      BY <1>4, <1>5, <1>7, <1>8, <1>9, <2>1, <2>2 DEF Whole
  <1>12. Separate(runs')
    BY <1>5, <1>8, <1>9, <1>10 DEF WholeInv, Separate
  <1>13. Texts(objects', runs')
    <2> SUFFICES ASSUME NEW i \in 1..Len(runs'), runs'[i].obj # 0
                 PROVE  objects'[runs'[i].obj].name = runs'[i].name /\ objects'[runs'[i].obj].handle = FALSE
      BY DEF Texts
    <2>1. CASE i = Len(runs) + 1
      BY <1>3, <1>4, <1>5, <1>8, <2>1
    <2>2. CASE i \in 1..Len(runs)
      <3>1. runs'[i] = runs[i] /\ runs[i].obj \in 1..Len(objects)
        BY <1>8, <1>10, <2>2
      <3> QED
        BY <1>4, <2>2, <3>1 DEF WholeInv, Texts
    <2> QED
      BY <1>9, <2>1, <2>2
  <1> QED
    BY <1>1, <1>11, <1>12, <1>13 DEF WholeInv, Entered

(* The innermost run and the one below it.                                 *)
LEMMA Innermost ==
    ASSUME IInv, phase \in {"run", "failing"}, Len(runs) > 1
    PROVE  /\ Top = runs[Len(runs)] /\ Len(runs) \in 1..Len(runs) /\ Len(runs) - 1 \in 1..Len(runs)
           /\ Last(Front(runs)) = runs[Len(runs) - 1] /\ Len(runs) - 1 # Len(runs)
           /\ Fewer(Front(runs), runs) /\ Len(Front(runs)) = Len(runs) - 1
  <1>1. runs \in Seq(Frame) /\ Len(runs) \in Nat
    BY DEF IInv, RunInv
  <1>2. /\ Front(runs) \in Seq(Frame) /\ Front(runs) # <<>> /\ Len(Front(runs)) = Len(runs) - 1
        /\ \A i \in 1..Len(runs) - 1 : Front(runs)[i] = runs[i]
    BY <1>1, RunLeft DEF IInv
  <1>3. Last(Front(runs)) = runs[Len(runs) - 1] /\ Top = runs[Len(runs)]
    BY <1>1, <1>2 DEF Last, Top
  <1> QED
    BY <1>1, <1>2, <1>3 DEF Fewer

(* A text is entered when its run is over.                                 *)
LEMMA WholeEndOfModule ==
    ASSUME IInv, WholeInv, EndOfModule
    PROVE  WholeInv'
  <1> DEFINE v == Top.obj
             m == Top.name
             o == Last(Front(runs)).obj
             L == Len(runs)
  <1>1. phase = "run" /\ L > 1 /\ runs' = Front(runs) /\ Enter(o, m, v, Top.how, objects)
    BY DEF EndOfModule
  <1>2. /\ Top = runs[L] /\ L \in 1..L /\ L - 1 \in 1..L /\ L - 1 # L /\ L \in Nat
        /\ o = runs[L - 1].obj /\ Fewer(runs', runs) /\ Len(runs') = L - 1
    BY <1>1, Innermost
  <1>3. m \in Modules /\ ModuleAt(v, objects) /\ Top.how \in Ways
    BY <1>1, ImporterIsThere DEF Frame
  <1>4. Good(objects) /\ Named(main, objects) /\ modules \in [Modules \cup {Core} -> Nat]
    BY DEF IInv, HeapInv
  <1>5. o = 0 \/ ModuleAt(o, objects)
    BY <1>2, RunsAreThere
  <1>6. v # 0 /\ v \in Nat
    BY <1>3, <1>4 DEF ModuleAt, Good
  <1>7. v # o /\ \A i \in 1..Len(runs') : runs'[i].obj # v /\ i \in 1..L /\ runs'[i] = runs[i]
    BY <1>2 DEF WholeInv, Separate, Fewer
  <1>8. objects[v].name = m /\ objects[v].handle = FALSE
    BY <1>2, <1>6 DEF WholeInv, Texts
  <1> HIDE DEF v, m, o, L
  <1>9. /\ Changes(objects, objects', {o, v}) /\ Whole(objects', v, m)
        /\ modules' = [modules EXCEPT ![m] = v]
    <2> DEFINE how == Top.how
    <2>1. Enter(o, m, v, how, objects) /\ how \in Ways
      BY <1>1, <1>3
    <2> HIDE DEF how
    <2>2. EnteredAs(objects, o, m, v)
      BY <1>3, <1>4, <1>5, <1>7, <1>8, <2>1, EnteredIsWhole
    <2> QED
      BY ONLY <2>2 DEF EnteredAs
  <1>10. ASSUME NEW n \in Modules, modules'[n] # 0
         PROVE  Whole(objects', modules'[n], n) /\ \A i \in 1..Len(runs') : runs'[i].obj # modules'[n]
    <2>1. CASE n = m
      BY <1>4, <1>7, <1>9, <2>1
    <2>2. CASE n # m
      <3>1. modules'[n] = modules[n]
        BY <1>4, <1>9, <2>2
      <3>2. Whole(objects, modules[n], n) /\ \A i \in 1..L : runs[i].obj # modules[n]
        BY <1>10, <3>1 DEF WholeInv, Entered, L
      <3>3. ModuleAt(modules[n], objects)
        BY <1>10, <3>1 DEF IInv, HeapInv, Modules0
      <3>4. modules[n] # v /\ modules[n] # o
        BY <1>2, <3>2 DEF v
      <3>5. objects'[modules[n]] = objects[modules[n]]
        BY <1>9, <3>3, <3>4 DEF Changes, ModuleAt
      <3> QED
        BY <1>7, <3>1, <3>2, <3>5 DEF Whole
    <2> QED
      BY <2>1, <2>2
  <1>11. Separate(runs')
    BY <1>7 DEF WholeInv, Separate, L
  <1>12. Texts(objects', runs')
    <2> SUFFICES ASSUME NEW i \in 1..Len(runs'), runs'[i].obj # 0
                 PROVE  objects'[runs'[i].obj].name = runs'[i].name /\ objects'[runs'[i].obj].handle = FALSE
      BY DEF Texts
    <2>1. i \in 1..Len(runs) /\ runs'[i] = runs[i]
      BY <1>7 DEF L
    <2>2. ModuleAt(runs[i].obj, objects)
      BY <2>1, RunsAreThere
    <2> QED
      BY <1>9, <2>1, <2>2 DEF WholeInv, Texts, Changes, ModuleAt
  <1> QED
    BY <1>10, <1>11, <1>12 DEF WholeInv, Entered

(* The steps that change the globals of the running module, or add an      *)
(* object.                                                                 *)
LEMMA StatementChanges ==
    ASSUME IInv,
           \/ \E m \in Modules, how \in Ways : ImportKnown(m, how)
           \/ \E m \in Modules : ImportFails(m)
           \/ \E k \in Names : Define(k)
           \/ Instance \/ RuntimeError
    PROVE  Changes(objects, objects', {Top.obj}) /\ UNCHANGED <<runs, modules>> /\ phase = "run"
  <1>1. UNCHANGED <<runs, modules>> /\ phase = "run"
    BY DEF ImportKnown, ImportFails, Define, Instance, RuntimeError, Statement, Took, FailAt
  <1>2. /\ Good(objects) /\ Named(main, objects) /\ Len(objects) \in Nat
        /\ Top \in Frame /\ (Top.obj = 0 \/ ModuleAt(Top.obj, objects))
    BY <1>1, ImporterIsThere DEF IInv, HeapInv, Good
  <1>3. ASSUME NEW m \in Modules, NEW how \in Ways, ImportKnown(m, how)
        PROVE  Changes(objects, objects', {Top.obj})
    <2>1. Bind(Top.obj, m, modules[m], how, objects) /\ modules[m] # 0
      BY <1>3 DEF ImportKnown
    <2>2. ModuleAt(modules[m], objects)
      BY <2>1 DEF IInv, HeapInv, Modules0
    <2>3. PICK o, v : o = Top.obj /\ v = modules[m]
      OBVIOUS
    <2>4. Bind(o, m, v, how, objects) /\ ModuleAt(v, objects) /\ (o = 0 \/ ModuleAt(o, objects))
      BY <1>2, <2>1, <2>2, <2>3
    <2>5. Changes(objects, objects', {o})
      BY <1>2, <2>4, ChangesBind
    <2> QED
      BY <2>3, <2>5
  <1>4. ASSUME NEW m \in Modules, ImportFails(m)
        PROVE  Changes(objects, objects', {Top.obj})
    <2>1. NoGlobals \in Globals
      BY DEF NoGlobals, Globals, Values, Unbound
    <2>2. NewModule(m, FALSE) \in Object
      BY <2>1 DEF NewModule, Object
    <2>3. objects' = Append(objects, NewModule(m, FALSE)) \/ objects' = objects
      BY <1>4 DEF ImportFails
    <2> QED
      BY <1>1, <1>2, <2>2, <2>3, ChangesAdd
  <1>5. ASSUME NEW k \in Names, Define(k)
        PROVE  Changes(objects, objects', {Top.obj})
    <2>1. PICK g : objects' = Stored(Top.obj, g, objects)
                   /\ g = [GlobalsOf(Top.obj, objects, main) EXCEPT ![k] = Data(Top.obj)]
      BY <1>5 DEF Define
    <2>2. GlobalsOf(Top.obj, objects, main) \in Globals
      BY <1>2 DEF GlobalsOf, Good, ModuleAt, Named
    <2>3. Data(Top.obj) \in Values
      BY <1>2 DEF Frame, Data, Values
    <2>4. g \in Globals
      BY <2>1, <2>2, <2>3 DEF Globals
    <2>5. Rebound(objects, objects', Top.obj, g)
      BY <1>2, <2>1, <2>4, ChangesStored
    <2> QED
      BY <2>5 DEF Rebound
  <1>6. CASE Instance
    <2>1. PICK v : objects' = Append(objects, [is |-> "instance", of |-> v])
      BY <1>6 DEF Instance
    <2>2. objects \in Seq(Object)
      BY <1>2 DEF Good
    <2>3. Len(objects') = Len(objects) + 1 /\ \A i \in 1..Len(objects) : objects'[i] = objects[i]
      BY <1>2, <2>1, <2>2
    <2> QED
      BY <1>1, <1>2, <2>3 DEF Changes
  <1>7. CASE RuntimeError
    BY <1>1, <1>2, <1>7 DEF RuntimeError, Changes
  <1> QED
    BY <1>1, <1>3, <1>4, <1>5, <1>6, <1>7

(* Every step keeps the table whole.                                       *)
LEMMA WholeStep ==
    ASSUME IInv, WholeInv, [Next]_vars
    PROVE  WholeInv'
  <1>0. /\ Len(objects) \in Nat /\ Len(runs) \in Nat /\ runs \in Seq(Frame) /\ Good(objects)
        /\ modules \in [Modules \cup {Core} -> Nat]
    BY DEF IInv, HeapInv, Good, RunInv
  <1>1. ASSUME NEW m \in Modules, NEW how \in Ways,
               ImportKnown(m, how) \/ ImportNative(m, how) \/ ImportText(m, how)
        PROVE  WholeInv'
    <2>1. CASE ImportKnown(m, how)
      <3>1. Changes(objects, objects', {Top.obj}) /\ UNCHANGED <<runs, modules>> /\ phase = "run"
        BY <2>1, StatementChanges
      <3>2. Len(runs) \in 1..Len(runs) /\ Top = runs[Len(runs)]
        BY <1>0, <3>1, ImporterIsThere
      <3>3. Fewer(runs', runs)
        BY <1>0, <3>1 DEF Fewer
      <3> QED
        BY <3>1, <3>2, <3>3, WholeKept
    <2> QED
      BY <1>1, <2>1, WholeNative, WholeText
  <1>2. ASSUME (\E m \in Modules : ImportFails(m)) \/ (\E k \in Names : Define(k)) \/ Instance \/ RuntimeError
        PROVE  WholeInv'
    <2>1. phase = "run" /\ UNCHANGED <<runs, modules>>
      BY <1>2 DEF ImportFails, Define, Instance, RuntimeError, Statement, Took, FailAt
    <2>2. Len(runs) \in 1..Len(runs) /\ Top = runs[Len(runs)]
      BY <2>1, ImporterIsThere
    <2>3. Changes(objects, objects', {Top.obj})
      BY <1>2, StatementChanges
    <2> QED
      BY <1>0, <2>1, <2>2, <2>3, WholeKept DEF Fewer
  <1>3. CASE EndOfModule
    BY <1>3, WholeEndOfModule
  <1>4. CASE EndOfText \/ Unwind \/ FreeObject \/ UNCHANGED vars
    <2>1. UNCHANGED <<objects, modules>>
      BY <1>4 DEF EndOfText, Unwind, FreeObject, vars
    <2>2. Changes(objects, objects', {})
      BY <1>0, <2>1 DEF Changes
    <2>3. Fewer(runs', runs)
      <3>1. CASE runs' = <<>> \/ runs' = runs
        BY <1>0, <3>1 DEF Fewer
      <3>2. CASE Unwind
        <4>1. runs' = Front(runs) /\ phase = "failing"
          BY <3>2 DEF Unwind
        <4>2. Len(runs) \in Nat \ {0}
          BY <4>1, ImporterIsThere
        <4>3. CASE Len(runs) > 1
          BY <4>1, <4>3, Innermost
        <4>4. CASE Len(runs) = 1
          <5>1. runs' = <<>>
            BY <1>0, <4>1, <4>4 DEF Front
          <5> QED
            BY <3>1, <5>1
        <4>5. Len(runs) > 1 \/ Len(runs) = 1
          <5>1. PICK n \in Nat \ {0} : n = Len(runs)
            BY <4>2
          <5>2. n > 1 \/ n = 1
            BY ONLY n \in Nat \ {0}
          <5> QED
            BY <5>1, <5>2
        <4> QED
          BY <4>3, <4>4, <4>5
      <3> QED
        BY <1>4, <3>1, <3>2 DEF EndOfText, FreeObject, vars
    <2> QED
      BY <2>1, <2>2, <2>3, WholeKept
  <1>5. CASE Interpret
    <2>1. phase = "idle" /\ UNCHANGED <<objects, modules>> /\ Len(runs') = 1 /\ runs'[1].obj = 0
      BY <1>5 DEF Interpret, Run
    <2>2. ASSUME NEW m \in Modules, modules[m] # 0 PROVE \A i \in 1..Len(runs') : runs'[i].obj # modules[m]
      BY <2>1, <2>2
    <2>3. Separate(runs') /\ Texts(objects', runs')
      BY <2>1 DEF Separate, Texts
    <2> QED
      BY <2>1, <2>2, <2>3 DEF WholeInv, Entered
  <1>6. CASE VmFree
    <2>1. runs' = runs /\ objects' = objects /\ \A m \in Modules : modules'[m] = 0
      BY <1>0, <1>6 DEF VmFree
    <2> QED
      BY <2>1 DEF WholeInv, Entered
  <1> QED
    BY <1>1, <1>2, <1>3, <1>4, <1>5, <1>6 DEF Next

(* Nothing is in the table at first but the core module.                   *)
LEMMA WholeInit ==
    ASSUME ImportAssumption, Init
    PROVE  WholeInv
  <1>1. runs = <<>> /\ \A m \in Modules : modules[m] = 0
    BY DEF Init, ImportAssumption
  <1> QED
    BY <1>1 DEF WholeInv, Entered, Separate, Texts

(* What is in the table is whole.                                          *)
LEMMA TableWhole ==
    ASSUME IInv, WholeInv
    PROVE  ModulesAreWhole
  <1> SUFFICES ASSUME NEW m \in Modules, modules[m] # 0
               PROVE  LET o == objects[modules[m]]
                      IN  /\ o.name = m /\ o.globals["__module"] = Text(m) /\ o.globals["__path"] = Text(m)
                          /\ modules[m] \notin {runs[i].obj : i \in DOMAIN runs}
                          /\ o.handle => \A k \in Table : o.globals[k] # Unbound
    BY DEF ModulesAreWhole
  <1>1. Whole(objects, modules[m], m) /\ \A i \in 1..Len(runs) : runs[i].obj # modules[m]
    BY DEF WholeInv, Entered
  <1>2. DOMAIN runs = 1..Len(runs)
    BY DEF IInv, RunInv
  <1>3. objects[modules[m]].handle \in BOOLEAN
    <2>1. objects \in Seq(Object) /\ ModuleAt(modules[m], objects)
      BY DEF IInv, HeapInv, Modules0, Good
    <2>2. objects[modules[m]] \in Object /\ objects[modules[m]].is = "module"
      BY <2>1 DEF ModuleAt
    <2> QED
      BY <2>2 DEF Object
  <1> QED
    BY <1>1, <1>2, <1>3 DEF Whole

(* A program finds in the table only modules that are whole, for any graph *)
(* of imports (jml_vm_module_import enters what jml_module_open returned). *)
THEOREM TableIsWhole ==
    ASSUME ImportAssumption
    PROVE  Spec => []ModulesAreWhole
  <1>1. IInv /\ WholeInv /\ [Next]_vars => WholeInv'
    BY WholeStep
  <1>2. Init => WholeInv
    BY WholeInit
  <1>3. IInv /\ WholeInv => ModulesAreWhole
    BY TableWhole
  <1> QED
    BY ImportInit, ImportStep, <1>1, <1>2, <1>3, PTL DEF Spec

-------------------------------------------------------------------------------
(* A module that a live global names is the one in the table.              *)
Home(g, objs, mods) == \A k \in Keys : g[k].is = "module" => mods[objs[g[k].of].name] = g[k].of
LiveHome(L, objs, mn, mods) == \A l \in L : Home(GlobalsOf(l, objs, mn), objs, mods)
There(L, objs) == \A l \in L : l = 0 \/ ModuleAt(l, objs)
Keeps(mods, more) == \A n \in Modules \cup {Core} : mods[n] # 0 => more[n] = mods[n]

(* It stays so while no module is given another name or another entry.     *)
LEMMA HomeStays ==
    ASSUME NEW objs, Good(objs), NEW more, NEW S, Changes(objs, more, S),
           NEW g, Named(g, objs), NEW mods, NEW mods2, Keeps(mods, mods2), Home(g, objs, mods)
    PROVE  Home(g, more, mods2)
  <1> SUFFICES ASSUME NEW k \in Keys, g[k].is = "module"
               PROVE  mods2[more[g[k].of].name] = g[k].of
    BY DEF Home
  <1>1. PICK v : v = g[k].of
    OBVIOUS
  <1>2. ModuleAt(v, objs) /\ mods[objs[v].name] = v
    BY <1>1 DEF Named, Home
  <1>3. objs \in Seq(Object) /\ v \in 1..Len(objs) /\ Len(objs) \in Nat /\ objs[v].is = "module"
    BY <1>2 DEF Good, ModuleAt
  <1>4. objs[v] \in Object /\ v # 0
    BY <1>3
  <1>5. objs[v].name \in Modules \cup {Core}
    BY <1>3, <1>4 DEF Object
  <1>6. more[v].name = objs[v].name
    BY <1>3 DEF Changes
  <1> QED
    BY <1>1, <1>2, <1>4, <1>5, <1>6 DEF Keeps

(* One global more that is no module, or one that is in the table.         *)
LEMMA HomePut ==
    ASSUME NEW objs, NEW g, Named(g, objs), NEW mods, Home(g, objs, mods), NEW k \in Keys, NEW x,
           x.is = "module" => mods[objs[x.of].name] = x.of
    PROVE  Home([g EXCEPT ![k] = x], objs, mods)
  BY DEF Home, Named, Globals

(* Each way of binding a module that is in the table.                      *)
LEMMA HomeBound ==
    ASSUME NEW objs, Good(objs), NEW g, Named(g, objs), NEW m \in Modules,
           NEW v, ModuleAt(v, objs), NEW how \in Ways, NEW mods, Home(g, objs, mods),
           Home(objs[v].globals, objs, mods), mods[objs[v].name] = v
    PROVE  Home(Bound(g, m, v, how, objs), objs, mods)
  <1> DEFINE s == Short[m]
  <1>1. s \in Keys /\ Names \subseteq Keys
    BY DEF Keys
  <1>2. Module(v).is = "module" /\ Module(v).of = v /\ Unbound.is # "module"
    BY DEF Module, Unbound
  <1>3. Unbound \in Values
    BY DEF Unbound, Values
  <1>4. Named([g EXCEPT ![s] = Unbound], objs) /\ Home([g EXCEPT ![s] = Unbound], objs, mods)
    BY <1>1, <1>2, <1>3, Putting, HomePut
  <1>5. CASE how.as = "name"
    <2>1. Bound(g, m, v, how, objs) = [g EXCEPT ![s] = Module(v)]
      BY <1>5 DEF Bound
    <2>2. Module(v).is = "module" => mods[objs[Module(v).of].name] = Module(v).of
      BY <1>2
    <2>3. Home([g EXCEPT ![s] = Module(v)], objs, mods)
      BY <1>1, <2>2, HomePut
    <2> QED
      BY <2>1, <2>3
  <1>6. CASE how.as = "drop"
    <2>1. Bound(g, m, v, how, objs) = [g EXCEPT ![s] = Unbound]
      BY <1>6 DEF Bound
    <2> QED
      BY <1>4, <2>1
  <1>7. CASE how.as = "wild"
    <2>1. Bound(g, m, v, how, objs) = Added(objs[v].globals, g)
      BY <1>7 DEF Bound
    <2>2. PICK f : f = objs[v].globals
      OBVIOUS
    <2>3. Home(f, objs, mods) /\ Bound(g, m, v, how, objs) = Added(f, g)
      BY <2>1, <2>2
    <2>4. Home(Added(f, g), objs, mods)
      <3>1. \A k \in Keys : Added(f, g)[k] = f[k] \/ Added(f, g)[k] = g[k]
        BY DEF Added
      <3> QED
        BY <2>3, <3>1 DEF Home
    <2> QED
      BY <2>3, <2>4
  <1>8. CASE how.as = "local"
    BY <1>8 DEF Bound
  <1>9. CASE how.as = "swap"
    <2>1. how.to \in Keys
      BY <1>1, <1>9 DEF Ways
    <2>2. Bound(g, m, v, how, objs) = [[g EXCEPT ![s] = Unbound] EXCEPT ![how.to] = Module(v)]
      BY <1>9 DEF Bound
    <2>3. Home([[g EXCEPT ![s] = Unbound] EXCEPT ![how.to] = Module(v)], objs, mods)
      BY <1>2, <1>4, <2>1, HomePut
    <2> QED
      BY <2>2, <2>3
  <1> QED
    BY <1>5, <1>6, <1>7, <1>8, <1>9 DEF Ways

(* The globals of one module, or of main, become g; the others stay.       *)
LEMMA HomeStored ==
    ASSUME NEW objs, Good(objs), Named(main, objs), NEW L, There(L, objs), NEW mods,
           LiveHome(L, objs, main, mods), NEW o \in L, NEW g, Named(g, objs), Home(g, objs, mods),
           objects' = Stored(o, g, objs), main' = StoredMain(o, g, main)
    PROVE  LiveHome(L, objects', main', mods)
  <1>1. o = 0 \/ ModuleAt(o, objs)
    BY DEF There
  <1>2. g \in Globals
    BY DEF Named
  <1>3. Rebound(objs, objects', o, g)
    BY <1>1, <1>2, ChangesStored
  <1>4. Changes(objs, objects', {o}) /\ (o # 0 => objects'[o].globals = g) /\ (o = 0 => objects' = objs)
    BY ONLY <1>3 DEF Rebound
  <1>5. Keeps(mods, mods)
    BY DEF Keeps
  <1> SUFFICES ASSUME NEW l \in L PROVE Home(GlobalsOf(l, objects', main'), objects', mods)
    BY DEF LiveHome
  <1>6. CASE l = o
    <2>1. GlobalsOf(l, objects', main') = g
      BY <1>4, <1>6 DEF GlobalsOf, StoredMain
    <2> QED
      BY <1>4, <1>5, <2>1, HomeStays
  <1>7. CASE l # o
    <2>1. GlobalsOf(l, objects', main') = GlobalsOf(l, objs, main)
      <3>1. CASE l = 0
        BY <1>7, <3>1 DEF GlobalsOf, StoredMain
      <3>2. CASE l # 0
        <4>1. l \in 1..Len(objs)
          BY <3>2 DEF There, ModuleAt
        <4> QED
          BY <1>4, <1>7, <3>2, <4>1 DEF GlobalsOf, Changes
      <3> QED
        BY <3>1, <3>2
    <2>2. Home(GlobalsOf(l, objs, main), objs, mods)
      BY DEF LiveHome
    <2>3. Named(GlobalsOf(l, objs, main), objs)
      BY DEF GlobalsOf, There, Good, ModuleAt
    <2> QED
      BY <1>4, <1>5, <2>1, <2>2, <2>3, HomeStays
  <1> QED
    BY <1>6, <1>7

(* The whole of Bind.                                                      *)
LEMMA HomeBind ==
    ASSUME NEW objs, Good(objs), Named(main, objs), NEW L, There(L, objs), NEW mods,
           LiveHome(L, objs, main, mods), NEW o \in L, NEW m \in Modules, NEW v \in L,
           ModuleAt(v, objs), NEW how \in Ways, mods[objs[v].name] = v, Bind(o, m, v, how, objs)
    PROVE  LiveHome(L, objects', main', mods)
  <1> DEFINE h == GlobalsOf(o, objs, main)
             g == Bound(h, m, v, how, objs)
  <1>1. Named(h, objs) /\ Home(h, objs, mods)
    BY DEF GlobalsOf, There, Good, ModuleAt, LiveHome
  <1>2. Home(objs[v].globals, objs, mods)
    <2>1. v # 0
      BY DEF ModuleAt, Good
    <2> QED
      BY <2>1 DEF LiveHome, GlobalsOf
  <1>3. objects' = Stored(o, g, objs) /\ main' = StoredMain(o, g, main)
    BY DEF Bind
  <1> HIDE DEF h
  <1>4. Named(g, objs)
    BY <1>1, Binding
  <1>5. Home(g, objs, mods)
    BY <1>1, <1>2, HomeBound
  <1> HIDE DEF g
  <1> QED
    BY <1>3, <1>4, <1>5, HomeStored

(* The whole of Enter, for a module the table has no entry of.             *)
LEMMA HomeEnter ==
    ASSUME NEW objs, Good(objs), Named(main, objs), NEW L, There(L, objs),
           LiveHome(L, objs, main, modules), NEW o \in L, NEW m \in Modules, NEW v \in L,
           ModuleAt(v, objs), NEW how \in Ways, Enter(o, m, v, how, objs), objs[v].name = m,
           modules \in [Modules \cup {Core} -> Nat], modules[m] = 0
    PROVE  LiveHome(L, objects', main', modules')
  <1> DEFINE known == Known(objs, v, m)
  <1>1. Good(known) /\ Extends(objs, known)
    BY Knowing
  <1>2. Bind(o, m, v, how, known) /\ modules' = [modules EXCEPT ![m] = v]
    BY DEF Enter
  <1>3. /\ Changes(objs, known, {v})
        /\ known[v].globals["__module"] = Text(m) /\ known[v].globals["__path"] = Text(m)
        /\ \A k \in Keys \ Self : known[v].globals[k] = objs[v].globals[k]
    <2>1. Told(objs, known, v, m)
      BY ChangesKnown
    <2> QED
      BY ONLY <2>1 DEF Told
  <1> HIDE DEF known
  <1>4. ModuleAt(v, known) /\ There(L, known) /\ Named(main, known)
    <2>1. ModuleAt(v, known) /\ There(L, known)
      BY <1>1, ModuleStays DEF There
    <2> QED
      BY <2>1, <1>1, NamedStays
  <1>5. Keeps(modules, modules') /\ modules'[m] = v
    BY <1>2 DEF Keeps
  <1>6. known[v].name = m
    BY <1>3 DEF Changes, ModuleAt
  <1>7. ASSUME NEW l \in L PROVE Home(GlobalsOf(l, known, main), known, modules')
    <2>1. Named(GlobalsOf(l, objs, main), objs) /\ Home(GlobalsOf(l, objs, main), objs, modules)
      BY DEF GlobalsOf, There, Good, ModuleAt, LiveHome
    <2>2. Home(GlobalsOf(l, objs, main), known, modules')
      BY <1>3, <1>5, <2>1, HomeStays
    <2>3. CASE l = v
      <3>1. v # 0
        BY DEF ModuleAt, Good
      <3>2. GlobalsOf(l, objs, main) = objs[v].globals /\ GlobalsOf(l, known, main) = known[v].globals
        BY <2>3, <3>1 DEF GlobalsOf
      <3>3. Text(m).is # "module"
        BY DEF Text
      <3> QED
        BY <1>3, <2>2, <3>2, <3>3 DEF Home, Self
    <2>4. CASE l # v
      <3>1. l # 0 => known[l] = objs[l]
        BY <1>3, <2>4 DEF There, ModuleAt, Changes
      <3>2. GlobalsOf(l, known, main) = GlobalsOf(l, objs, main)
        BY <3>1 DEF GlobalsOf
      <3> QED
        BY <2>2, <3>2
    <2> QED
      BY <2>3, <2>4
  <1>8. LiveHome(L, known, main, modules')
    BY <1>7 DEF LiveHome
  <1>9. PICK mods : mods = modules'
    OBVIOUS
  <1>10. LiveHome(L, known, main, mods) /\ mods[known[v].name] = v
    BY <1>5, <1>6, <1>8, <1>9
  <1>11. LiveHome(L, objects', main', mods)
    BY <1>1, <1>2, <1>4, <1>10, HomeBind
  <1> QED
    BY <1>9, <1>11

-------------------------------------------------------------------------------
(* What makes the loader run a text once, for imports without cycles: the  *)
(* runs descend in rank, so a text that runs is imported by none of those  *)
(* above it, and it is not in the table.                                   *)
Descending(rank, rs) == \A i, j \in 1..Len(rs) : i < j => rank[rs[j].name] < rank[rs[i].name]
Absent(mods, rs) == \A i \in 1..Len(rs) : rs[i].obj # 0 => mods[rs[i].name] = 0
Texted(m, objs, mods) == mods[m] # 0 /\ objs[mods[m]].handle = FALSE
RunOnce(objs, mods) == \A m \in Modules : ran[m] \in {0, 1} /\ (ran[m] = 1 <=> Texted(m, objs, mods))
OnceInv(rank) ==
    /\ Descending(rank, runs) /\ Absent(modules, runs)
    /\ ran \in [Modules -> Nat] /\ left \in 0..Statements
    /\ phase # "freeing" => RunOnce(objects, modules) /\ LiveHome(Live, objects, main, modules)

(* Who is live: main, what is in the table and what runs.                  *)
LEMMA LiveIs ==
    ASSUME IInv
    PROVE  /\ 0 \in Live /\ There(Live, objects)
           /\ \A i \in 1..Len(runs) : runs[i].obj \in Live
           /\ \A n \in Modules \cup {Core} : modules[n] # 0 => modules[n] \in Live
           /\ \A l \in Live : \/ l = 0 \/ \E i \in 1..Len(runs) : l = runs[i].obj
                              \/ \E n \in Modules \cup {Core} : l = modules[n]
  <1>1. DOMAIN runs = 1..Len(runs) /\ DOMAIN modules = Modules \cup {Core}
    BY DEF IInv, RunInv, HeapInv
  <1>2. \A n \in Modules \cup {Core} : modules[n] # 0 => ModuleAt(modules[n], objects)
    BY <1>1 DEF IInv, HeapInv, Modules0
  <1>3. \A i \in 1..Len(runs) : runs[i].obj = 0 \/ ModuleAt(runs[i].obj, objects)
    BY RunsAreThere
  <1> QED
    BY <1>1, <1>2, <1>3 DEF Live, There

(* Who is live after a step.                                               *)
LEMMA LiveWithin ==
    ASSUME IInv', NEW L, 0 \in L, \A i \in 1..Len(runs') : runs'[i].obj \in L,
           \A n \in Modules \cup {Core} : modules'[n] = 0 \/ modules'[n] \in L
    PROVE  Live' \subseteq L
  <1>1. DOMAIN runs' = 1..Len(runs') /\ DOMAIN modules' = Modules \cup {Core}
    BY DEF IInv, RunInv, HeapInv
  <1> QED
    BY <1>1 DEF Live

(* The modules in the table are at places of the heap, under their names.  *)
LEMMA TableIs ==
    ASSUME IInv, WholeInv, NEW m \in Modules, modules[m] # 0
    PROVE  /\ ModuleAt(modules[m], objects) /\ modules[m] \in 1..Len(objects)
           /\ objects[modules[m]].name = m /\ objects[modules[m]].handle \in BOOLEAN
  <1>1. ModuleAt(modules[m], objects) /\ objects \in Seq(Object)
    BY DEF IInv, HeapInv, Modules0, Good
  <1>2. objects[modules[m]] \in Object /\ objects[modules[m]].is = "module" /\ modules[m] \in 1..Len(objects)
    BY <1>1 DEF ModuleAt
  <1>3. objects[modules[m]].handle \in BOOLEAN
    BY <1>2 DEF Object
  <1> QED
    BY <1>1, <1>2, <1>3 DEF WholeInv, Entered, Whole

(* A step that changes neither table nor counts: what it leaves to show.   *)
LEMMA OnceKept ==
    ASSUME IInv, WholeInv, NEW rank, OnceInv(rank), NEW S, Changes(objects, objects', S),
           UNCHANGED <<modules, ran>>, phase # "freeing", left' \in 0..Statements,
           Descending(rank, runs'), Absent(modules, runs'), LiveHome(Live', objects', main', modules')
    PROVE  OnceInv(rank)'
  <1>1. ASSUME NEW m \in Modules PROVE Texted(m, objects', modules') <=> Texted(m, objects, modules)
    <2>1. modules[m] # 0 => objects'[modules[m]].handle = objects[modules[m]].handle
      BY TableIs DEF Changes, ModuleAt
    <2> QED
      BY <2>1 DEF Texted
  <1>2. RunOnce(objects, modules) /\ ran \in [Modules -> Nat]
    BY DEF OnceInv
  <1>3. RunOnce(objects, modules)'
    BY <1>1, <1>2 DEF RunOnce
  <1> QED
    BY <1>2, <1>3 DEF OnceInv

(* The runs stay and so does the table: it is the same that is live.       *)
LEMMA SameLive ==
    ASSUME UNCHANGED <<runs, modules>>
    PROVE  Live' = Live
  BY DEF Live

(* A step that changes no object's globals.                                *)
LEMMA HomeUnchanged ==
    ASSUME IInv, NEW L, There(L, objects), LiveHome(L, objects, main, modules),
           Changes(objects, objects', {}), UNCHANGED main, NEW mods, Keeps(modules, mods)
    PROVE  LiveHome(L, objects', main', mods)
  <1> SUFFICES ASSUME NEW l \in L PROVE Home(GlobalsOf(l, objects', main'), objects', mods)
    BY DEF LiveHome
  <1>1. GlobalsOf(l, objects', main') = GlobalsOf(l, objects, main)
    BY DEF GlobalsOf, There, ModuleAt, Changes
  <1>2. Good(objects) /\ Named(GlobalsOf(l, objects, main), objects) /\ Home(GlobalsOf(l, objects, main), objects, modules)
    BY DEF GlobalsOf, There, Good, ModuleAt, LiveHome, IInv, HeapInv
  <1> QED
    BY <1>1, <1>2, HomeStays

-------------------------------------------------------------------------------
(* A statement takes one of what is left.                                  *)
LEMMA LeftFalls ==
    ASSUME ImportAssumption, left \in 0..Statements, left > 0, left' = left - 1
    PROVE  left' \in 0..Statements
  BY DEF ImportAssumption

(* The actions, one by one.  First the statements that leave the table, the *)
(* runs and the counts alone.                                              *)
LEMMA OnceStatements ==
    ASSUME ImportAssumption, IInv, IInv', WholeInv, NEW rank, OnceInv(rank),
           \/ \E m \in Modules, how \in Ways : ImportKnown(m, how)
           \/ \E m \in Modules : ImportFails(m)
           \/ \E k \in Names : Define(k)
           \/ Instance \/ RuntimeError
    PROVE  OnceInv(rank)'
  <1>1. UNCHANGED <<runs, modules, ran>> /\ phase = "run" /\ left' \in 0..Statements
    <2>1. UNCHANGED <<runs, modules, ran>> /\ phase = "run" /\ left > 0 /\ left' = left - 1
      BY DEF ImportKnown, ImportFails, Define, Instance, RuntimeError, Statement, Took, FailAt
    <2> QED
      BY <2>1, LeftFalls DEF OnceInv
  <1>2. Changes(objects, objects', {Top.obj})
    BY StatementChanges
  <1>3. /\ Good(objects) /\ Named(main, objects) /\ Len(objects) \in Nat /\ Top \in Frame
        /\ objects \in Seq(Object)
    BY <1>1, ImporterIsThere DEF IInv, HeapInv, Good
  <1>4. There(Live, objects) /\ Live' = Live /\ Top.obj \in Live
    <2>1. Len(runs) \in 1..Len(runs) /\ Top = runs[Len(runs)]
      BY <1>1, ImporterIsThere
    <2>2. \A i \in 1..Len(runs) : runs[i].obj \in Live
      BY LiveIs
    <2>3. There(Live, objects)
      BY LiveIs
    <2> QED
      BY <1>1, <2>1, <2>2, <2>3, SameLive
  <1>5. PICK L, o : L = Live /\ o = Top.obj
    OBVIOUS
  <1>6. There(L, objects) /\ o \in L /\ LiveHome(L, objects, main, modules)
    BY <1>1, <1>4, <1>5 DEF OnceInv
  <1>7. ASSUME NEW m \in Modules, NEW how \in Ways, ImportKnown(m, how)
        PROVE  LiveHome(L, objects', main', modules)
    <2>1. PICK v : v = modules[m]
      OBVIOUS
    <2>2. Bind(o, m, v, how, objects) /\ v # 0
      BY <1>5, <1>7, <2>1 DEF ImportKnown
    <2>3. ModuleAt(v, objects) /\ modules[objects[v].name] = v
      BY <2>1, <2>2, TableIs
    <2>4. v \in L
      BY <1>5, <2>1, <2>2, LiveIs
    <2> QED
      BY <1>3, <1>6, <2>2, <2>3, <2>4, HomeBind
  <1>8. ASSUME NEW k \in Names, Define(k)
        PROVE  LiveHome(L, objects', main', modules)
    <2>1. PICK h : h = GlobalsOf(o, objects, main)
      OBVIOUS
    <2>2. PICK g : g = [h EXCEPT ![k] = Data(o)]
      OBVIOUS
    <2>3. objects' = Stored(o, g, objects) /\ main' = StoredMain(o, g, main)
      BY <1>5, <1>8, <2>1, <2>2 DEF Define
    <2>4. Named(h, objects) /\ Home(h, objects, modules)
      BY <1>3, <1>6, <2>1 DEF GlobalsOf, There, Good, ModuleAt, LiveHome
    <2>5. Data(o) \in Values /\ Data(o).is # "module" /\ k \in Keys
      BY <1>3, <1>5 DEF Frame, Data, Values, Keys
    <2>6. Named(g, objects) /\ Home(g, objects, modules)
      BY <2>2, <2>4, <2>5, Putting, HomePut
    <2> QED
      BY <1>3, <1>6, <2>3, <2>6, HomeStored
  <1>9. ASSUME (\E m \in Modules : ImportFails(m)) \/ Instance \/ RuntimeError
        PROVE  LiveHome(L, objects', main', modules)
    <2>1. main' = main
      BY <1>9 DEF ImportFails, Instance, RuntimeError
    <2>2. (\E x : objects' = Append(objects, x)) \/ objects' = objects
      BY <1>9 DEF ImportFails, Instance, RuntimeError
    <2>3. Changes(objects, objects', {})
      <3>1. CASE objects' = objects
        BY <1>3, <3>1 DEF Changes
      <3>2. ASSUME NEW x, objects' = Append(objects, x) PROVE Changes(objects, objects', {})
        <4>1. Len(objects') = Len(objects) + 1 /\ \A i \in 1..Len(objects) : objects'[i] = objects[i]
          BY <1>3, <3>2
        <4> QED
          BY <1>3, <4>1 DEF Changes
      <3> QED
        BY <2>2, <3>1, <3>2
    <2>4. Keeps(modules, modules)
      BY DEF Keeps
    <2> QED
      BY <1>6, <2>1, <2>3, <2>4, HomeUnchanged
  <1>10. LiveHome(L, objects', main', modules)
    BY <1>7, <1>8, <1>9
  <1>11. Descending(rank, runs') /\ Absent(modules, runs') /\ LiveHome(Live', objects', main', modules')
    BY <1>1, <1>4, <1>5, <1>10 DEF OnceInv
  <1> QED
    BY <1>1, <1>2, <1>11, OnceKept

(* A run's rank is above that of what it may import, and so are the ranks  *)
(* of all the runs outside it.                                             *)
LEMMA BelowAll ==
    ASSUME IInv, NEW rank, Ranked(rank), Descending(rank, runs), phase = "run",
           NEW m \in MayImport[Top.name], m \in Modules
    PROVE  /\ \A i \in 1..Len(runs) : rank[m] < rank[runs[i].name] /\ runs[i].name # m
           /\ rank[m] \in Nat /\ \A i \in 1..Len(runs) : rank[runs[i].name] \in Nat
  <1>1. Len(runs) \in Nat \ {0} /\ Top = runs[Len(runs)]
    BY ImporterIsThere
  <1>2. \A i \in 1..Len(runs) : runs[i].name \in Modules \cup {Main}
    BY RunsAreThere DEF Frame
  <1>3. \A n \in Modules \cup {Main} : rank[n] \in Nat
    BY DEF Ranked
  <1>4. PICK l : l = Len(runs)
    OBVIOUS
  <1>5. rank[m] < rank[runs[l].name]
    BY <1>1, <1>2, <1>4 DEF Ranked
  <1>6. ASSUME NEW i \in 1..Len(runs) PROVE rank[m] < rank[runs[i].name]
    <2>1. CASE i = l
      BY <1>5, <2>1
    <2>2. CASE i < l
      <3>1. rank[runs[l].name] < rank[runs[i].name]
        BY <1>1, <1>4, <2>2 DEF Descending
      <3>2. PICK a \in Nat, b \in Nat, c \in Nat :
                a = rank[m] /\ b = rank[runs[l].name] /\ c = rank[runs[i].name]
        BY <1>1, <1>2, <1>3, <1>4
      <3>3. a < c
        BY <1>5, <3>1, <3>2
      <3> QED
        BY <3>2, <3>3
    <2> QED
      BY <1>1, <1>4, <2>1, <2>2
  <1>7. ASSUME NEW i \in 1..Len(runs) PROVE runs[i].name # m
    <2>1. PICK a \in Nat : a = rank[m]
      BY <1>3
    <2> QED
      BY <1>6, <2>1
  <1> QED
    BY <1>2, <1>3, <1>6, <1>7

(* A library is entered under a name that had no entry and is not run.     *)
LEMMA OnceNative ==
    ASSUME ImportAssumption, IInv, IInv', WholeInv, NEW rank, Ranked(rank), OnceInv(rank),
           NEW m \in Modules, NEW how \in Ways, ImportNative(m, how)
    PROVE  OnceInv(rank)'
  <1>1. /\ phase = "run" /\ m \in MayImport[Top.name] /\ modules[m] = 0
        /\ UNCHANGED <<runs, ran, phase>> /\ left > 0 /\ left' = left - 1
    BY DEF ImportNative, Statement, Took
  <1>2. Good(objects) /\ Named(main, objects) /\ Len(objects) \in Nat
        /\ modules \in [Modules \cup {Core} -> Nat]
    BY DEF IInv, HeapInv, Good
  <1>3. PICK o : o = Top.obj
    OBVIOUS
  <1>4. PICK more, v : Filled(more, v, m) /\ NativeEnters(more, o, m, v, how)
    BY <1>3, LibraryEntered
  <1>5. /\ Good(more) /\ Extends(objects, more) /\ Changes(objects, more, {}) /\ Named(main, more)
        /\ ModuleAt(v, more) /\ more[v].name = m /\ more[v].handle = TRUE /\ v # 0
        /\ v \notin 1..Len(objects) /\ \A k \in Keys : more[v].globals[k].is # "module"
    BY <1>4 DEF Filled
  <1>6. /\ Enter(o, m, v, how, more) /\ Changes(more, objects', {o, v})
        /\ modules' = [modules EXCEPT ![m] = v]
    BY <1>4 DEF NativeEnters, EnteredAs
  <1>7. /\ 0 \in Live /\ There(Live, objects) /\ o \in Live /\ \A i \in 1..Len(runs) : runs[i].obj \in Live
        /\ \A n \in Modules \cup {Core} : modules[n] # 0 => modules[n] \in Live
    <2>1. Len(runs) \in 1..Len(runs) /\ Top = runs[Len(runs)]
      BY <1>1, ImporterIsThere
    <2> QED
      BY <1>3, <2>1, LiveIs
  <1>8. RunOnce(objects, modules) /\ LiveHome(Live, objects, main, modules)
        /\ Descending(rank, runs) /\ Absent(modules, runs) /\ ran \in [Modules -> Nat]
    BY <1>1 DEF OnceInv
  <1>9. PICK L : L = Live \cup {v}
    OBVIOUS
  <1>10. v \in L /\ o \in L /\ There(L, more)
    BY <1>5, <1>7, <1>9, ModuleStays DEF There
  <1>11. LiveHome(L, more, main, modules)
    <2> SUFFICES ASSUME NEW l \in L PROVE Home(GlobalsOf(l, more, main), more, modules)
      BY DEF LiveHome
    <2>1. CASE l = v
      BY <1>5, <2>1 DEF Home, GlobalsOf
    <2>2. CASE l # v
      <3>1. l \in Live
        BY <1>9, <2>2
      <3>2. GlobalsOf(l, more, main) = GlobalsOf(l, objects, main)
        BY <1>5, <1>7, <3>1 DEF GlobalsOf, There, ModuleAt, Changes
      <3>3. Named(GlobalsOf(l, objects, main), objects) /\ Home(GlobalsOf(l, objects, main), objects, modules)
        BY <1>2, <1>7, <1>8, <3>1 DEF GlobalsOf, There, Good, ModuleAt, LiveHome
      <3>4. Keeps(modules, modules)
        BY DEF Keeps
      <3> QED
        BY <1>2, <1>5, <3>2, <3>3, <3>4, HomeStays
    <2> QED
      BY <2>1, <2>2
  <1>12. LiveHome(L, objects', main', modules')
    BY <1>1, <1>2, <1>5, <1>6, <1>10, <1>11, HomeEnter
  <1>13. Live' \subseteq L
    <2>1. \A n \in Modules \cup {Core} : modules'[n] = modules[n] \/ modules'[n] = v
      BY <1>2, <1>6
    <2> QED
      BY <1>1, <1>7, <1>9, <2>1, LiveWithin
  <1>14. LiveHome(Live', objects', main', modules')
    BY <1>12, <1>13 DEF LiveHome
  <1>15. Absent(modules', runs')
    <2>1. \A i \in 1..Len(runs) : runs[i].name # m
      BY <1>1, <1>8, BelowAll
    <2>2. \A i \in 1..Len(runs) : runs[i].obj # 0 => runs[i].name \in Modules
      <3>1. Runs0(objects)
        BY DEF IInv, HeapInv
      <3> QED
        BY <3>1 DEF Runs0
    <2> QED
      BY <1>1, <1>2, <1>6, <1>8, <2>1, <2>2 DEF Absent
  <1>16. ASSUME NEW n \in Modules PROVE Texted(n, objects', modules') <=> Texted(n, objects, modules)
    <2>1. CASE n = m
      <3>1. objects'[v].handle = TRUE /\ modules'[m] = v
        BY <1>2, <1>5, <1>6 DEF Changes, ModuleAt
      <3> QED
        BY <1>1, <2>1, <3>1 DEF Texted
    <2>2. CASE n # m
      <3>1. modules'[n] = modules[n]
        BY <1>2, <1>6, <2>2
      <3>2. ASSUME modules[n] # 0 PROVE objects'[modules[n]].handle = objects[modules[n]].handle
        <4>1. ModuleAt(modules[n], objects)
          BY <3>2, TableIs
        <4>2. more[modules[n]].handle = objects[modules[n]].handle /\ ModuleAt(modules[n], more)
          BY <1>5, <4>1, ModuleStays DEF Changes, ModuleAt
        <4> QED
          BY <1>6, <4>2 DEF Changes, ModuleAt
      <3> QED
        BY <3>1, <3>2 DEF Texted
    <2> QED
      BY <2>1, <2>2
  <1>17. RunOnce(objects, modules)' /\ ran' \in [Modules -> Nat]
    BY <1>1, <1>8, <1>16 DEF RunOnce
  <1>18. left' \in 0..Statements
    BY <1>1, LeftFalls DEF OnceInv
  <1>19. Descending(rank, runs')
    BY <1>1, <1>8
  <1> QED
    BY <1>14, <1>15, <1>17, <1>18, <1>19 DEF OnceInv

(* A text that begins to run has a lower rank than all that run.           *)
LEMMA OnceText ==
    ASSUME ImportAssumption, IInv, IInv', WholeInv, NEW rank, Ranked(rank), OnceInv(rank),
           NEW m \in Modules, NEW how \in Ways, ImportText(m, how)
    PROVE  OnceInv(rank)'
  <1> DEFINE x == NewModule(m, FALSE)
             r == Run(Len(objects'), m, current, how)
  <1>1. /\ phase = "run" /\ m \in MayImport[Top.name] /\ modules[m] = 0
        /\ objects' = Append(objects, x) /\ runs' = Append(runs, r)
        /\ UNCHANGED <<modules, main, phase, ran>> /\ left > 0 /\ left' = left - 1
    BY DEF ImportText, Statement
  <1>2. /\ Good(objects) /\ objects \in Seq(Object) /\ Len(objects) \in Nat
        /\ runs \in Seq(Frame) /\ Len(runs) \in Nat
    BY DEF IInv, HeapInv, Good, RunInv
  <1>3. x \in Object /\ x.is = "module" /\ x.globals = NoGlobals
    <2>1. NoGlobals \in Globals
      BY DEF NoGlobals, Globals, Values, Unbound
    <2> QED
      BY <2>1 DEF NewModule, Object
  <1>4. r.name = m /\ r.obj = Len(objects')
    BY DEF Run
  <1> HIDE DEF x, r
  <1>5. PICK v : v = Len(objects) + 1
    OBVIOUS
  <1>6. Len(objects') = v /\ objects'[v] = x /\ v # 0
    BY <1>1, <1>2, <1>3, <1>5
  <1>7. Changes(objects, objects', {})
    BY <1>1, <1>2, <1>3, ChangesAdd
  <1>8. Len(runs') = Len(runs) + 1 /\ runs'[Len(runs) + 1] = r /\ \A i \in 1..Len(runs) : runs'[i] = runs[i]
    BY <1>1, <1>2
  <1>9. \A i \in 1..Len(runs') : i \in 1..Len(runs) \/ i = Len(runs) + 1
    BY <1>2, <1>8
  <1>10. RunOnce(objects, modules) /\ LiveHome(Live, objects, main, modules)
         /\ Descending(rank, runs) /\ Absent(modules, runs)
    BY <1>1 DEF OnceInv
  <1>11. Descending(rank, runs')
    <2> SUFFICES ASSUME NEW i \in 1..Len(runs'), NEW j \in 1..Len(runs'), i < j
                 PROVE  rank[runs'[j].name] < rank[runs'[i].name]
      BY DEF Descending
    <2>1. i \in 1..Len(runs)
      BY <1>2, <1>8
    <2>2. CASE j \in 1..Len(runs)
      BY <1>8, <1>10, <2>1, <2>2 DEF Descending
    <2>3. CASE j = Len(runs) + 1
      <3>1. rank[m] < rank[runs[i].name]
        BY <1>1, <1>10, <2>1, BelowAll
      <3> QED
        BY <1>4, <1>8, <2>1, <2>3, <3>1
    <2> QED
      BY <1>9, <2>2, <2>3
  <1>12. Absent(modules', runs')
    <2> SUFFICES ASSUME NEW i \in 1..Len(runs'), runs'[i].obj # 0
                 PROVE  modules[runs'[i].name] = 0
      BY <1>1 DEF Absent
    <2>1. CASE i \in 1..Len(runs)
      BY <1>8, <1>10, <2>1 DEF Absent
    <2>2. CASE i = Len(runs) + 1
      BY <1>1, <1>4, <1>8, <2>2
    <2> QED
      BY <1>9, <2>1, <2>2
  <1>13. There(Live, objects) /\ 0 \in Live /\ (\A i \in 1..Len(runs) : runs[i].obj \in Live)
         /\ \A n \in Modules \cup {Core} : modules[n] # 0 => modules[n] \in Live
    BY LiveIs
  <1>14. LiveHome(Live, objects', main', modules)
    <2>1. Keeps(modules, modules)
      BY DEF Keeps
    <2>2. PICK L : L = Live
      OBVIOUS
    <2>3. There(L, objects) /\ LiveHome(L, objects, main, modules)
      BY <1>10, <1>13, <2>2
    <2>4. LiveHome(L, objects', main', modules)
      BY <1>1, <1>7, <2>1, <2>3, HomeUnchanged
    <2> QED
      BY <2>2, <2>4
  <1>15. Home(GlobalsOf(v, objects', main'), objects', modules)
    <2>1. GlobalsOf(v, objects', main') = NoGlobals
      BY <1>3, <1>6 DEF GlobalsOf
    <2>2. \A k \in Keys : NoGlobals[k].is # "module"
      BY DEF NoGlobals, Unbound
    <2> QED
      BY <2>1, <2>2 DEF Home
  <1>16. Live' \subseteq Live \cup {v}
    <2>1. PICK L : L = Live \cup {v}
      OBVIOUS
    <2>2. \A i \in 1..Len(runs') : runs'[i].obj \in L
      BY <1>4, <1>6, <1>8, <1>9, <1>13, <2>1
    <2>3. 0 \in L /\ \A n \in Modules \cup {Core} : modules'[n] = 0 \/ modules'[n] \in L
      BY <1>1, <1>13, <2>1
    <2> QED
      BY <2>1, <2>2, <2>3, LiveWithin
  <1>17. LiveHome(Live', objects', main', modules')
    BY <1>1, <1>14, <1>15, <1>16 DEF LiveHome
  <1>18. left' \in 0..Statements
    BY <1>1, LeftFalls DEF OnceInv
  <1> QED
    BY <1>1, <1>7, <1>11, <1>12, <1>17, <1>18, OnceKept

(* A text is entered when its run is over: it has run once now.            *)
LEMMA OnceEndOfModule ==
    ASSUME IInv, IInv', WholeInv, NEW rank, Ranked(rank), OnceInv(rank), EndOfModule
    PROVE  OnceInv(rank)'
  <1>1. PICK v, m, o, how, n : /\ v = Top.obj /\ m = Top.name /\ o = Last(Front(runs)).obj /\ how = Top.how
                               /\ n = Len(runs)
    OBVIOUS
  <1>2. /\ phase = "run" /\ n > 1 /\ runs' = Front(runs) /\ Enter(o, m, v, how, objects)
        /\ ran' = [ran EXCEPT ![m] = @ + 1] /\ UNCHANGED <<phase, left>>
    BY <1>1 DEF EndOfModule
  <1>3. /\ Top = runs[n] /\ n \in 1..n /\ n - 1 \in 1..n /\ n - 1 # n /\ n \in Nat
        /\ o = runs[n - 1].obj /\ Fewer(runs', runs) /\ Len(runs') = n - 1
    BY <1>1, <1>2, Innermost
  <1>4. m \in Modules /\ ModuleAt(v, objects) /\ how \in Ways
    BY <1>1, <1>2, ImporterIsThere DEF Frame
  <1>5. Good(objects) /\ Named(main, objects) /\ modules \in [Modules \cup {Core} -> Nat]
    BY DEF IInv, HeapInv
  <1>6. v # 0 /\ v \in Nat /\ v # o
    <2>1. v # 0 /\ v \in Nat
      BY <1>4, <1>5 DEF ModuleAt, Good
    <2> QED
      BY <1>1, <1>3, <2>1 DEF WholeInv, Separate
  <1>7. objects[v].name = m /\ objects[v].handle = FALSE
    BY <1>1, <1>3, <1>6 DEF WholeInv, Texts
  <1>8. RunOnce(objects, modules) /\ LiveHome(Live, objects, main, modules)
        /\ Descending(rank, runs) /\ Absent(modules, runs) /\ ran \in [Modules -> Nat] /\ left \in 0..Statements
    BY <1>2 DEF OnceInv
  <1>9. modules[m] = 0 /\ ran[m] = 0
    <2>1. modules[m] = 0
      BY <1>1, <1>3, <1>6, <1>8 DEF Absent
    <2> QED
      BY <1>4, <1>8, <2>1 DEF RunOnce, Texted
  <1>10. /\ There(Live, objects) /\ 0 \in Live /\ v \in Live /\ o \in Live
         /\ \A i \in 1..Len(runs) : runs[i].obj \in Live
         /\ \A k \in Modules \cup {Core} : modules[k] # 0 => modules[k] \in Live
    <2>1. PICK L : L = Live
      OBVIOUS
    <2>2. \A i \in 1..Len(runs) : runs[i].obj \in L
      BY <2>1, LiveIs
    <2>3. v \in L /\ o \in L
      BY <1>1, <1>3, <2>2
    <2> QED
      BY <2>1, <2>2, <2>3, LiveIs
  <1>11. EnteredAs(objects, o, m, v)
    <2>1. o = 0 \/ ModuleAt(o, objects)
      BY <1>10 DEF There
    <2> QED
      BY <1>2, <1>4, <1>5, <1>6, <1>7, <2>1, EnteredIsWhole
  <1>12. Changes(objects, objects', {o, v}) /\ modules' = [modules EXCEPT ![m] = v]
    BY ONLY <1>11 DEF EnteredAs
  <1>13. PICK L : L = Live
    OBVIOUS
  <1>14. LiveHome(L, objects', main', modules')
    <2>1. There(L, objects) /\ LiveHome(L, objects, main, modules) /\ o \in L /\ v \in L
      BY <1>8, <1>10, <1>13
    <2> QED
      BY <1>2, <1>4, <1>5, <1>7, <1>9, <2>1, HomeEnter
  <1>15. Live' \subseteq L
    <2>1. \A i \in 1..Len(runs') : runs'[i].obj \in L
      BY <1>1, <1>3, <1>10, <1>13 DEF Fewer
    <2>2. \A k \in Modules \cup {Core} : modules'[k] = modules[k] \/ modules'[k] = v
      BY <1>5, <1>12
    <2> QED
      BY <1>10, <1>13, <2>1, <2>2, LiveWithin
  <1>16. LiveHome(Live', objects', main', modules')
    BY <1>14, <1>15 DEF LiveHome
  <1>17. \A i \in 1..Len(runs') : i \in 1..Len(runs) /\ i < n /\ runs'[i] = runs[i]
    BY <1>1, <1>3 DEF Fewer
  <1>18. Descending(rank, runs')
    BY <1>8, <1>17 DEF Descending
  <1>19. Absent(modules', runs')
    <2> SUFFICES ASSUME NEW i \in 1..Len(runs'), runs'[i].obj # 0
                 PROVE  modules'[runs'[i].name] = 0
      BY DEF Absent
    <2>1. i \in 1..Len(runs) /\ i < n /\ runs'[i] = runs[i]
      BY <1>17
    <2>2. modules[runs[i].name] = 0
      BY <1>8, <2>1 DEF Absent
    <2>3. runs[i].name \in Modules
      <3>1. Runs0(objects)
        BY DEF IInv, HeapInv
      <3> QED
        BY <2>1, <3>1 DEF Runs0
    <2>4. runs[i].name # m
      <3>1. rank[runs[n].name] < rank[runs[i].name]
        BY <1>1, <1>3, <1>8, <2>1 DEF Descending
      <3>2. PICK a \in Nat : a = rank[m]
        BY <1>4 DEF Ranked
      <3> QED
        BY <1>1, <1>3, <3>1, <3>2
    <2> QED
      BY <1>5, <1>12, <2>1, <2>2, <2>3, <2>4
  <1>20. ASSUME NEW k \in Modules, k # m
         PROVE  Texted(k, objects', modules') <=> Texted(k, objects, modules)
    <2>1. modules'[k] = modules[k]
      BY <1>5, <1>12, <1>20
    <2>2. modules[k] # 0 => objects'[modules[k]].handle = objects[modules[k]].handle
      BY <1>12, TableIs DEF Changes, ModuleAt
    <2> QED
      BY <2>1, <2>2 DEF Texted
  <1>21. Texted(m, objects', modules')
    <2>1. modules'[m] = v
      BY <1>4, <1>5, <1>12
    <2>2. objects'[v].handle = FALSE
      BY <1>4, <1>7, <1>12 DEF Changes, ModuleAt
    <2> QED
      BY <1>6, <2>1, <2>2 DEF Texted
  <1>22. RunOnce(objects, modules)' /\ ran' \in [Modules -> Nat]
    <2>1. ran'[m] = 1 /\ ran' \in [Modules -> Nat] /\ \A k \in Modules : k # m => ran'[k] = ran[k]
      BY <1>2, <1>4, <1>8, <1>9
    <2> QED
      BY <1>8, <1>20, <1>21, <2>1 DEF RunOnce
  <1> QED
    BY <1>2, <1>8, <1>16, <1>18, <1>19, <1>22 DEF OnceInv

(* Runs end, or the machine frees: nothing else changes.                   *)
LEMMA OnceRunsEnd ==
    ASSUME IInv, IInv', WholeInv, NEW rank, OnceInv(rank),
           EndOfText \/ Unwind \/ UNCHANGED vars
    PROVE  OnceInv(rank)'
  <1>1. UNCHANGED <<objects, main, modules, ran, left>>
    BY DEF EndOfText, Unwind, vars
  <1>2. Fewer(runs', runs) /\ Len(runs) \in Nat
    <2>1. runs \in Seq(Frame) /\ Len(runs) \in Nat
      BY DEF IInv, RunInv
    <2>2. CASE Unwind
      <3>1. runs' = Front(runs) /\ phase = "failing"
        BY <2>2 DEF Unwind
      <3>2. PICK n : n = Len(runs)
        OBVIOUS
      <3>3. n \in Nat \ {0}
        BY <3>1, <3>2, ImporterIsThere
      <3>4. CASE n > 1
        BY <2>1, <3>1, <3>2, <3>4, Innermost
      <3>5. CASE n = 1
        <4>1. runs' = <<>>
          BY <2>1, <3>1, <3>2, <3>5 DEF Front
        <4> QED
          BY <2>1, <4>1 DEF Fewer
      <3> QED
        BY <3>3, <3>4, <3>5
    <2>3. CASE runs' = <<>> \/ runs' = runs
      BY <2>1, <2>3 DEF Fewer
    <2> QED
      BY <2>1, <2>2, <2>3 DEF EndOfText, vars
  <1>3. \A i \in 1..Len(runs') : i \in 1..Len(runs) /\ runs'[i] = runs[i]
    BY <1>2 DEF Fewer
  <1>4. phase \in {"run", "failing", "idle", "freeing"} /\ (phase = "freeing" => phase' = "freeing")
    BY DEF IInv, RunInv, EndOfText, Unwind, vars
  <1>5. Live' \subseteq Live
    <2>1. PICK L : L = Live
      OBVIOUS
    <2>2. /\ 0 \in L /\ \A i \in 1..Len(runs) : runs[i].obj \in L
          /\ \A k \in Modules \cup {Core} : modules[k] # 0 => modules[k] \in L
      BY <2>1, LiveIs
    <2>3. \A i \in 1..Len(runs') : runs'[i].obj \in L
      BY <1>3, <2>2
    <2>4. \A k \in Modules \cup {Core} : modules'[k] = 0 \/ modules'[k] \in L
      BY <1>1, <2>2
    <2> QED
      BY <2>1, <2>2, <2>3, <2>4, LiveWithin
  <1>6. Descending(rank, runs') /\ Absent(modules', runs')
    BY <1>1, <1>3 DEF OnceInv, Descending, Absent
  <1>7. phase' # "freeing" => RunOnce(objects, modules)' /\ LiveHome(Live', objects', main', modules')
    BY <1>1, <1>4, <1>5 DEF OnceInv, RunOnce, LiveHome
  <1> QED
    BY <1>1, <1>6, <1>7 DEF OnceInv

(* A text is interpreted: main is told who it is.                          *)
LEMMA OnceInterpret ==
    ASSUME ImportAssumption, IInv, IInv', WholeInv, NEW rank, OnceInv(rank), Interpret
    PROVE  OnceInv(rank)'
  <1>1. /\ phase = "idle" /\ phase' = "run" /\ left > 0 /\ left' = left - 1
        /\ main' = [main EXCEPT !["__module"] = Text(Main), !["__path"] = None]
        /\ Len(runs') = 1 /\ runs'[1].obj = 0 /\ UNCHANGED <<objects, modules, ran>>
    BY DEF Interpret, Run
  <1>2. left' \in 0..Statements
    BY <1>1, LeftFalls DEF OnceInv
  <1>3. Descending(rank, runs') /\ Absent(modules', runs')
    BY <1>1 DEF Descending, Absent
  <1>4. RunOnce(objects, modules)' /\ LiveHome(Live, objects, main, modules)
    BY <1>1 DEF OnceInv, RunOnce, Texted
  <1>5. PICK L : L = Live
    OBVIOUS
  <1>6. /\ 0 \in L /\ There(L, objects) /\ \A k \in Modules \cup {Core} : modules[k] # 0 => modules[k] \in L
    BY <1>5, LiveIs
  <1>7. Live' \subseteq L
    <2>1. (\A i \in 1..Len(runs') : runs'[i].obj \in L)
          /\ \A k \in Modules \cup {Core} : modules'[k] = 0 \/ modules'[k] \in L
      BY <1>1, <1>6
    <2> QED
      BY <1>6, <2>1, LiveWithin
  <1>8. Home(main', objects, modules)
    <2>1. Named(main, objects) /\ Home(main, objects, modules)
      BY <1>4, <1>5, <1>6 DEF IInv, HeapInv, LiveHome, GlobalsOf
    <2>2. PICK g : g = [main EXCEPT !["__module"] = Text(Main)]
      OBVIOUS
    <2>3. /\ "__module" \in Keys /\ "__path" \in Keys /\ Text(Main) \in Values
          /\ Text(Main).is # "module" /\ None.is # "module"
      BY DEF Keys, Self, Text, None, Values
    <2>4. Named(g, objects) /\ Home(g, objects, modules)
      BY <2>1, <2>2, <2>3, Putting, HomePut
    <2>5. main' = [g EXCEPT !["__path"] = None]
      BY <1>1, <2>2
    <2>6. Home([g EXCEPT !["__path"] = None], objects, modules)
      BY <2>3, <2>4, HomePut
    <2> QED
      BY <2>5, <2>6
  <1>9. LiveHome(Live', objects', main', modules')
    <2> SUFFICES ASSUME NEW l \in L PROVE Home(GlobalsOf(l, objects', main'), objects', modules')
      BY <1>7 DEF LiveHome
    <2>1. CASE l = 0
      BY <1>1, <1>8, <2>1 DEF GlobalsOf
    <2>2. CASE l # 0
      <3>1. Home(GlobalsOf(l, objects, main), objects, modules)
        BY <1>4, <1>5 DEF LiveHome
      <3> QED
        BY <1>1, <2>2, <3>1 DEF GlobalsOf
    <2> QED
      BY <2>1, <2>2
  <1> QED
    BY <1>1, <1>2, <1>3, <1>4, <1>9 DEF OnceInv

(* jml_vm_free: the runs are over, and nothing more is loaded.             *)
LEMMA OnceFrees ==
    ASSUME IInv, IInv', NEW rank, OnceInv(rank), VmFree \/ FreeObject
    PROVE  OnceInv(rank)'
  <1>1. phase' = "freeing" /\ UNCHANGED <<runs, ran, left>> /\ phase \in {"idle", "freeing"}
    BY DEF VmFree, FreeObject
  <1>2. Len(runs) = 0
    BY <1>1 DEF IInv, RunInv, Counted
  <1> QED
    BY <1>1, <1>2 DEF OnceInv, Descending, Absent

(* At first there is the core module and nothing has run.                  *)
LEMMA OnceInit ==
    ASSUME ImportAssumption, Init, NEW rank
    PROVE  OnceInv(rank)
  <1> DEFINE core == [k \in Keys |-> IF k \in Builtins THEN Builtin ELSE Unbound]
             c == [NewModule(Core, FALSE) EXCEPT !.globals = core]
  <1>1. /\ objects = <<c>> /\ main = core /\ runs = <<>> /\ left = Statements
        /\ modules = [m \in Modules \cup {Core} |-> IF m = Core THEN 1 ELSE 0]
        /\ ran = [m \in Modules |-> 0]
    BY DEF Init
  <1>2. core \in Globals /\ \A k \in Keys : core[k].is # "module"
    BY DEF Globals, Values, Builtin, Unbound
  <1> HIDE DEF core
  <1>3. c.globals = core
    BY <1>2, NewModuleIs
  <1> HIDE DEF c
  <1>4. \A l \in Live : l = 0 \/ l = 1
    <2>1. DOMAIN runs = {} /\ DOMAIN modules = Modules \cup {Core}
      BY <1>1
    <2>2. \A m \in Modules \cup {Core} : modules[m] \in {0, 1}
      BY <1>1
    <2> QED
      BY <2>1, <2>2 DEF Live
  <1>5. LiveHome(Live, objects, main, modules)
    <2> SUFFICES ASSUME NEW l \in Live PROVE GlobalsOf(l, objects, main) = core
      BY <1>2 DEF LiveHome, Home
    <2>1. objects[1] = c
      BY <1>1
    <2> QED
      BY <1>1, <1>3, <1>4, <2>1 DEF GlobalsOf
  <1>6. \A m \in Modules : modules[m] = 0 /\ ran[m] = 0
    BY <1>1 DEF ImportAssumption
  <1>7. RunOnce(objects, modules) /\ ran \in [Modules -> Nat]
    BY <1>1, <1>6 DEF RunOnce, Texted
  <1>8. Len(runs) = 0
    BY <1>1
  <1>9. left \in 0..Statements
    BY <1>1 DEF ImportAssumption
  <1> QED
    BY <1>5, <1>7, <1>8, <1>9 DEF OnceInv, Descending, Absent

(* Every step keeps it.                                                    *)
LEMMA OnceStep ==
    ASSUME ImportAssumption, IInv, WholeInv, NEW rank, Ranked(rank), OnceInv(rank), [Next]_vars
    PROVE  OnceInv(rank)'
  <1>1. IInv'
    BY ImportStep
  <1>2. ASSUME NEW m \in Modules, NEW how \in Ways,
               ImportKnown(m, how) \/ ImportNative(m, how) \/ ImportText(m, how)
        PROVE  OnceInv(rank)'
    BY <1>1, <1>2, OnceStatements, OnceNative, OnceText
  <1>3. ASSUME (\E m \in Modules : ImportFails(m)) \/ (\E k \in Names : Define(k)) \/ Instance \/ RuntimeError
        PROVE  OnceInv(rank)'
    BY <1>1, <1>3, OnceStatements
  <1>4. CASE EndOfModule
    BY <1>1, <1>4, OnceEndOfModule
  <1>5. CASE EndOfText \/ Unwind \/ UNCHANGED vars
    BY <1>1, <1>5, OnceRunsEnd
  <1>6. CASE Interpret
    BY <1>1, <1>6, OnceInterpret
  <1>7. CASE VmFree \/ FreeObject
    BY <1>1, <1>7, OnceFrees
  <1> QED
    BY <1>2, <1>3, <1>4, <1>5, <1>6, <1>7 DEF Next

-------------------------------------------------------------------------------
(* All three invariants of the loader, and what follows from them.         *)
LoaderInv(rank) == IInv /\ WholeInv /\ OnceInv(rank)

(* It holds at first.                                                      *)
LEMMA LoaderInit ==
    ASSUME ImportAssumption, Init, NEW rank
    PROVE  LoaderInv(rank)
  BY ImportInit, WholeInit, OnceInit DEF LoaderInv

(* Every step keeps it.                                                    *)
LEMMA LoaderStep ==
    ASSUME ImportAssumption, NEW rank, Ranked(rank), LoaderInv(rank), [Next]_vars
    PROVE  LoaderInv(rank)'
  BY ImportStep, WholeStep, OnceStep DEF LoaderInv

(* What the three say of a program.                                        *)
LEMMA LoadedOnce ==
    ASSUME NEW rank, LoaderInv(rank)
    PROVE  RunsOnce /\ OneObjectPerModule
  <1>1. IInv /\ WholeInv /\ OnceInv(rank)
    BY DEF LoaderInv
  <1>2. ASSUME phase \in {"run", "idle", "failing"}, NEW m \in Modules
        PROVE  ran[m] <= 1 /\ (ran[m] = 1 <=> (modules[m] # 0 /\ ~objects[modules[m]].handle))
    <2>1. ran[m] \in {0, 1} /\ (ran[m] = 1 <=> Texted(m, objects, modules))
      BY <1>1, <1>2 DEF OnceInv, RunOnce
    <2>2. modules[m] # 0 => objects[modules[m]].handle \in BOOLEAN
      BY <1>1, TableIs
    <2> QED
      BY <2>1, <2>2 DEF Texted
  <1>3. ASSUME phase \in {"run", "idle"}, NEW o \in Live, NEW k \in Keys,
               GlobalsOf(o, objects, main)[k].is = "module"
        PROVE  GlobalsOf(o, objects, main)[k].of = modules[objects[GlobalsOf(o, objects, main)[k].of].name]
    BY <1>1, <1>3 DEF OnceInv, LiveHome, Home
  <1> QED
    BY <1>2, <1>3 DEF RunsOnce, OneObjectPerModule

(* Where no text imports itself, directly or through others, the top level *)
(* of each runs to its end once at most, and every module that a live      *)
(* global names is the one in the table, after failed and repeated imports *)
(* too (jml_vm_module_import, jml_module_open).                            *)
THEOREM ModulesRunOnce ==
    ASSUME ImportAssumption, NEW CONSTANT rank, Ranked(rank)
    PROVE  Spec => [](RunsOnce /\ OneObjectPerModule)
  <1>1. Init => LoaderInv(rank)
    BY LoaderInit
  <1>2. LoaderInv(rank) /\ [Next]_vars => LoaderInv(rank)'
    BY LoaderStep
  <1>3. LoaderInv(rank) => RunsOnce /\ OneObjectPerModule
    BY LoadedOnce
  <1> QED
    BY <1>1, <1>2, <1>3, PTL DEF Spec

-------------------------------------------------------------------------------
(* Types, cycles or none.                                                  *)
CountsInv == ran \in [Modules -> Nat] /\ left \in 0..Statements

(* How often each module ran, and what is left of the bound.               *)
LEMMA CountsStep ==
    ASSUME ImportAssumption, IInv, CountsInv, [Next]_vars
    PROVE  CountsInv'
  <1>1. ASSUME left > 0, left' = left - 1, UNCHANGED ran
        PROVE  CountsInv'
    BY <1>1 DEF CountsInv, ImportAssumption
  <1>2. ASSUME UNCHANGED <<left, ran>>
        PROVE  CountsInv'
    BY <1>2 DEF CountsInv
  <1>3. CASE EndOfModule
    <2>1. left' = left /\ ran' = [ran EXCEPT ![Top.name] = @ + 1] /\ phase = "run" /\ Len(runs) > 1
      BY <1>3 DEF EndOfModule
    <2>2. Top.name \in Modules
      BY <2>1, ImporterIsThere
    <2> QED
      BY <2>1, <2>2 DEF CountsInv
  <1>4. ASSUME NEW m \in Modules, NEW how \in Ways,
               ImportKnown(m, how) \/ ImportNative(m, how) \/ ImportText(m, how)
        PROVE  CountsInv'
    <2>1. left > 0 /\ left' = left - 1 /\ UNCHANGED ran
      BY <1>4 DEF ImportKnown, ImportNative, ImportText, Statement, Took
    <2> QED
      BY <1>1, <2>1
  <1>5. ASSUME (\E m \in Modules : ImportFails(m)) \/ (\E k \in Names : Define(k)) \/ Instance
               \/ RuntimeError \/ Interpret
        PROVE  CountsInv'
    <2>1. left > 0 /\ left' = left - 1 /\ UNCHANGED ran
      BY <1>5 DEF ImportFails, Define, Instance, RuntimeError, Interpret, Statement, FailAt, Took
    <2> QED
      BY <1>1, <2>1
  <1>6. CASE EndOfText \/ Unwind \/ VmFree \/ FreeObject \/ UNCHANGED vars
    <2>1. UNCHANGED <<left, ran>>
      BY <1>6 DEF EndOfText, Unwind, VmFree, FreeObject, vars
    <2> QED
      BY <1>2, <2>1
  <1> QED
    BY <1>3, <1>4, <1>5, <1>6 DEF Next

(* The types of the loader's state.                                        *)
LEMMA LoaderTypes ==
    ASSUME IInv, CountsInv
    PROVE  TypeOK
  <1>1. HeapInv /\ RunInv /\ FreedInv /\ ran \in [Modules -> Nat] /\ left \in 0..Statements
    BY DEF IInv, CountsInv
  <1>2. /\ Good(objects) /\ Named(main, objects) /\ objects \in Seq(Object) /\ Len(objects) \in Nat
        /\ modules \in [Modules \cup {Core} -> Nat] /\ Modules0(objects)
        /\ runs \in Seq(Frame) /\ Counted
    BY <1>1 DEF HeapInv, RunInv, Good
  <1>3. ASSUME NEW i \in DOMAIN objects
        PROVE  \/ objects[i].is = "instance" /\ objects[i].of \in 1..i - 1
               \/ objects[i].is = "module" /\ DOMAIN objects[i].globals = Keys
    <2>1. i \in 1..Len(objects) /\ objects[i] \in Object
      BY <1>2
    <2>2. objects[i].is = "instance" \/ objects[i].is = "module"
      BY <2>1 DEF Object
    <2>3. objects[i].is = "module" => DOMAIN objects[i].globals = Keys
      BY <1>2, <2>1 DEF Good, Named, Globals
    <2> QED
      BY <1>2, <2>1, <2>2, <2>3 DEF Good
  <1>4. modules \in [Modules \cup {Core} -> 0..Len(objects)]
    BY <1>2 DEF Modules0, ModuleAt
  <1>5. DOMAIN main = Keys
    BY <1>2 DEF Named, Globals
  <1>6. freed \subseteq DOMAIN objects
    <2>1. PICK n \in 0..Len(objects) : freed = n + 1..Len(objects)
      BY <1>1 DEF FreedInv
    <2> QED
      BY <1>2, <2>1
  <1>7. \A i \in DOMAIN runs : runs[i].how \in Ways
    <2>1. \A i \in DOMAIN runs : runs[i] \in Frame
      BY <1>2
    <2> QED
      BY <2>1 DEF Frame
  <1>8. phase \in {"idle", "run", "failing", "freeing"}
    BY <1>1 DEF RunInv
  <1>9. current \in 0..Len(objects) /\ exempt \in Nat
    <2>1. CASE phase \in {"idle", "freeing"}
      BY <1>2, <2>1 DEF Counted
    <2>2. CASE phase \in {"run", "failing"}
      <3>1. Len(runs) \in Nat \ {0} /\ Top = runs[Len(runs)] /\ (Top.obj = 0 \/ ModuleAt(Top.obj, objects))
        BY <1>1, <2>2, ImporterIsThere
      <3>2. current = runs[Len(runs)].obj /\ exempt = 2 * (Len(runs) - 1)
        BY <1>2, <2>2 DEF Counted
      <3> QED
        BY <1>2, <3>1, <3>2 DEF ModuleAt
    <2> QED
      BY <1>8, <2>1, <2>2
  <1> QED
    BY <1>1, <1>3, <1>4, <1>5, <1>6, <1>7, <1>8, <1>9 DEF TypeOK

(* The loader keeps its types, for any graph of imports: who is current and *)
(* how much is exempt among them, and an instance comes after the module of *)
(* its class.                                                              *)
THEOREM LoaderKeepsTypes ==
    ASSUME ImportAssumption
    PROVE  Spec => []TypeOK
  <1>1. Init => CountsInv
    BY DEF Init, CountsInv, ImportAssumption
  <1>2. IInv /\ CountsInv /\ [Next]_vars => CountsInv'
    BY CountsStep
  <1>3. IInv /\ CountsInv => TypeOK
    BY LoaderTypes
  <1> QED
    BY ImportInit, ImportStep, <1>1, <1>2, <1>3, PTL DEF Spec
=============================================================================
