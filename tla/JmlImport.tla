----------------------------- MODULE JmlImport -----------------------------
(***************************************************************************)
(* The module loader (jml_module.c) and what the interpreter does with it: *)
(* OP_IMPORT and OP_IMPORT_WILDCARD, the table vm->modules, vm->current    *)
(* and the nested run of a module's top level.                             *)
(*                                                                         *)
(* A program is any sequence of statements at the top level of main or of  *)
(* a module, at most `Statements` in all; which modules a text imports is  *)
(* `MayImport`.  An error ends every run that is nested: each C function   *)
(* on the way out restores what it saved.  The machine stays, and may      *)
(* interpret another text (jml_vm_interpret).                              *)
(***************************************************************************)
EXTENDS Integers, FiniteSets, SequencesExt

CONSTANTS
    Modules,        \* qualified names
    Short,          \* the last part of each
    Files,          \* which of Paths exist for each, under JML_PATH
    Sound,          \* modules whose file compiles, or loads
    MayImport,      \* the modules a text names in import statements
    Names,          \* names of ordinary globals
    Table,          \* names a native module defines
    Builtins,       \* names the core module defines
    Statements      \* bound: statements run and texts interpreted

Main == "main"
Core == "core"
Paths == {"so", "jml", "dir", "dir.so", "dir.jml"}
Self == {"__path", "__module"}
Keys == Names \cup Table \cup Builtins \cup Self \cup {Short[m] : m \in Modules}

ImportAssumption ==
    /\ Main \notin Modules /\ Core \notin Modules
    /\ Files \in [Modules -> SUBSET Paths] /\ Sound \subseteq Modules
    /\ MayImport \in [Modules \cup {Main} -> SUBSET Modules]
    /\ Statements \in Nat \ {0}
(* No text imports itself, directly or not: each has a rank above what it   *)
(* imports.  (The loader of a cycle calls itself until the C stack ends.)   *)
Ranked(rank) ==
    /\ rank \in [Modules \cup {Main} -> Nat]
    /\ \A m \in Modules \cup {Main} : \A n \in MayImport[m] : rank[n] < rank[m]

VARIABLES
    objects,    \* what was allocated, oldest first: modules and instances of native classes
    modules,    \* vm->modules
    main,       \* vm->globals
    runs,       \* the runs in progress, the innermost last
    freed,      \* the objects jml_vm_free has freed
    current,    \* vm->current: an object, 0 for NULL
    exempt,     \* how many values are on the exempt stack
    phase,      \* "idle", "run", "failing" or "freeing"
    left,       \* what remains of Statements
    ran         \* history: complete runs of each module's top level

vars == <<objects, modules, main, runs, freed, current, exempt, phase, left, ran>>

Unbound == [is |-> "unbound"]
Data(o)   == [is |-> "data", by |-> o]          \* a value the top level of o made
Module(o) == [is |-> "module", of |-> o]
Text(m)   == [is |-> "text", of |-> m]
Builtin   == [is |-> "builtin"]
None      == [is |-> "none"]
NoGlobals == [k \in Keys |-> Unbound]

NewModule(m, handle) == [is |-> "module", name |-> m, handle |-> handle, globals |-> NoGlobals]
Run(o, m, super, how) == [obj |-> o, name |-> m, super |-> super, how |-> how]
Top == Last(runs)

(* jml_core_register. *)
Init ==
    /\ LET core == [k \in Keys |-> IF k \in Builtins THEN Builtin ELSE Unbound]
       IN  /\ objects = <<[NewModule(Core, FALSE) EXCEPT !.globals = core]>>
           /\ main = core
    /\ modules = [m \in Modules \cup {Core} |-> IF m = Core THEN 1 ELSE 0]
    /\ runs = <<>> /\ freed = {} /\ current = 0 /\ exempt = 0 /\ phase = "idle" /\ left = Statements
    /\ ran = [m \in Modules |-> 0]

(* jml_module_resolve: a library before a text, a file before a directory. *)
Resolve(m) ==
    LET F == Files[m]
    IN  CASE "so" \in F                      -> "so"
          [] "so" \notin F /\ "jml" \in F    -> "jml"
          [] F \cap {"so", "jml"} = {} /\ {"dir", "dir.so"} \subseteq F -> "so"
          [] F \cap {"so", "jml", "dir.so"} = {} /\ {"dir", "dir.jml"} \subseteq F -> "jml"
          [] OTHER                           -> "none"

-----------------------------------------------------------------------------
(* Globals: main's are vm->globals, which the core module was copied into;
   a module sees the builtins before its own (jml_vm_global_get).          *)
GlobalsOf(o, objs, mn) == IF o = 0 THEN mn ELSE objs[o].globals
Lookup(o, k) == IF o # 0 /\ k \in Builtins THEN Builtin ELSE GlobalsOf(o, objects, main)[k]

(* Globals g stored as those of object o, in objects objs and main mn. *)
Stored(o, g, objs) == IF o = 0 THEN objs ELSE [objs EXCEPT ![o].globals = g]
StoredMain(o, g, mn) == IF o = 0 THEN g ELSE mn

(* jml_hashmap_add. *)
Added(from, to) == [k \in Keys |-> IF from[k] # Unbound THEN from[k] ELSE to[k]]

(* What an import statement does with module object v once it is there:
   the name itself, `->` to another name or to the wildcard, `._`, or a
   local variable of a function.                                           *)
Ways == [as : {"name", "drop", "wild", "local"}, to : {""}] \cup [as : {"swap"}, to : Names]
Bound(g, m, v, how, objs) ==
    LET s == Short[m]
    IN  CASE how.as = "name"  -> [g EXCEPT ![s] = Module(v)]
          [] how.as = "drop"  -> [g EXCEPT ![s] = Unbound]
          [] how.as = "wild"  -> Added(objs[v].globals, g)
          [] how.as = "local" -> g
          [] how.as = "swap"  -> [[g EXCEPT ![s] = Unbound] EXCEPT ![how.to] = Module(v)]
Bind(o, m, v, how, objs) ==
    LET g == Bound(GlobalsOf(o, objs, main), m, v, how, objs)
    IN  objects' = Stored(o, g, objs) /\ main' = StoredMain(o, g, main)

(* The interpreter's share, once jml_module_open has returned: the module
   is entered in the table and told its own name.  Mutant: only a library
   is entered.                                                             *)
Known(objs, v, m) == [objs EXCEPT ![v].globals["__path"] = Text(m), ![v].globals["__module"] = Text(m)]
EnterLibrary(o, m, v, how, objs) ==
    /\ modules' = IF objs[v].handle THEN [modules EXCEPT ![m] = v] ELSE modules
    /\ Bind(o, m, v, how, Known(objs, v, m))
Enter(o, m, v, how, objs) ==
    /\ modules' = [modules EXCEPT ![m] = v]
    /\ Bind(o, m, v, how, Known(objs, v, m))

Statement == phase = "run" /\ left > 0
Took == left' = left - 1 /\ UNCHANGED runs
FailAt == phase' = "failing" /\ Took

(* jml_vm_module_import: the module is in the table. *)
ImportKnown(m, how) ==
    /\ Statement /\ m \in MayImport[Top.name] /\ modules[m] # 0
    /\ Bind(Top.obj, m, modules[m], how, objects) /\ Took
    /\ UNCHANGED <<modules, current, exempt, phase, ran, freed>>

(* jml_module_open of a library: the object, its entry, then
   jml_module_initialize fills it from the library's table.                *)
ImportNative(m, how) ==
    /\ Statement /\ m \in MayImport[Top.name] /\ modules[m] = 0
    /\ Resolve(m) = "so" /\ m \in Sound
    /\ LET v     == Len(objects) + 1
           table == [k \in Keys |-> IF k \in Table THEN Data(v) ELSE Unbound]
       IN  Enter(Top.obj, m, v, how, Append(objects, [NewModule(m, TRUE) EXCEPT !.globals = table]))
    /\ Took
    /\ UNCHANGED <<current, exempt, phase, ran, freed>>

(* mutant: the table is not asked for a text. *)
ImportTextAgain(m, how) ==
    /\ Statement /\ m \in MayImport[Top.name]
    /\ Resolve(m) = "jml" /\ m \in Sound
    /\ objects' = Append(objects, NewModule(m, FALSE))
    /\ exempt' = exempt + 2
    /\ runs' = Append(runs, Run(Len(objects'), m, current, how))
    /\ current' = Len(objects') /\ left' = left - 1
    /\ UNCHANGED <<modules, main, phase, ran, freed>>

(* mutant: the module is entered in the table before its top level runs. *)
ImportTextEarly(m, how) ==
    /\ Statement /\ m \in MayImport[Top.name] /\ modules[m] = 0
    /\ Resolve(m) = "jml" /\ m \in Sound
    /\ objects' = Append(objects, NewModule(m, FALSE))
    /\ modules' = [modules EXCEPT ![m] = Len(objects')]
    /\ exempt' = exempt + 2
    /\ runs' = Append(runs, Run(Len(objects'), m, current, how))
    /\ current' = Len(objects') /\ left' = left - 1
    /\ UNCHANGED <<main, phase, ran, freed>>

(* jml_module_open of a text that compiles: its top level runs inside this
   statement, with the module and its function exempt.                     *)
ImportText(m, how) ==
    /\ Statement /\ m \in MayImport[Top.name] /\ modules[m] = 0
    /\ Resolve(m) = "jml" /\ m \in Sound
    /\ objects' = Append(objects, NewModule(m, FALSE))
    /\ exempt' = exempt + 2
    /\ runs' = Append(runs, Run(Len(objects'), m, current, how))
    /\ current' = Len(objects') /\ left' = left - 1
    /\ UNCHANGED <<modules, main, phase, ran, freed>>

(* Nothing found, a library that does not load, a text that does not
   compile (whose module object is then garbage).                          *)
ImportFails(m) ==
    /\ Statement /\ m \in MayImport[Top.name] /\ modules[m] = 0
    /\ Resolve(m) = "none" \/ m \notin Sound
    /\ objects' = IF Resolve(m) = "jml" THEN Append(objects, NewModule(m, FALSE)) ELSE objects
    /\ FailAt
    /\ UNCHANGED <<modules, main, current, exempt, ran, freed>>

-----------------------------------------------------------------------------
(* OP_DEF_GLOBAL; OP_SET_GLOBAL when the name exists in the module's own
   table (a builtin that is not there too is "undefined").                 *)
Define(k) ==
    /\ Statement
    /\ LET g == [GlobalsOf(Top.obj, objects, main) EXCEPT ![k] = Data(Top.obj)]
       IN  objects' = Stored(Top.obj, g, objects) /\ main' = StoredMain(Top.obj, g, main)
    /\ Took
    /\ UNCHANGED <<modules, current, exempt, phase, ran, freed>>

(* An instance of a class of a native module. *)
Instance ==
    /\ Statement
    /\ \E k \in Keys : /\ Lookup(Top.obj, k).is = "module"
                       /\ LET v == Lookup(Top.obj, k).of
                          IN  /\ objects[v].handle
                              /\ objects' = Append(objects, [is |-> "instance", of |-> v])
    /\ Took
    /\ UNCHANGED <<modules, main, current, exempt, phase, ran, freed>>

(* Any other error of a statement. *)
RuntimeError ==
    /\ Statement /\ FailAt
    /\ UNCHANGED <<objects, modules, main, current, exempt, ran, freed>>

(* A run of a module's top level ends: back in jml_module_open, then in
   jml_vm_module_import of the importer.                                   *)
EndOfModule ==
    /\ phase = "run" /\ Len(runs) > 1
    /\ runs' = Front(runs) /\ exempt' = exempt - 2 /\ current' = Top.super
    /\ Enter(Last(Front(runs)).obj, Top.name, Top.obj, Top.how, objects)
    /\ ran' = [ran EXCEPT ![Top.name] = @ + 1]
    /\ UNCHANGED <<phase, left, freed>>

EndOfText ==
    /\ phase = "run" /\ Len(runs) = 1
    /\ runs' = <<>> /\ phase' = "idle"
    /\ UNCHANGED <<objects, modules, main, current, exempt, left, ran, freed>>

(* mutant: the path of a failed import does not restore vm->current. *)
UnwindKeepsCurrent ==
    /\ phase = "failing"
    /\ runs' = Front(runs)
    /\ IF Len(runs) > 1
       THEN exempt' = exempt - 2 /\ phase' = phase
       ELSE phase' = "idle" /\ UNCHANGED exempt
    /\ UNCHANGED <<objects, modules, main, current, left, ran, freed>>

(* mutant: one value too many is popped. *)
UnwindPopsThree ==
    /\ phase = "failing"
    /\ runs' = Front(runs)
    /\ IF Len(runs) > 1
       THEN exempt' = exempt - 3 /\ current' = Top.super /\ phase' = phase
       ELSE phase' = "idle" /\ UNCHANGED <<exempt, current>>
    /\ UNCHANGED <<objects, modules, main, left, ran, freed>>

(* An error leaves one run: jml_module_open pops what it exempted and
   restores vm->current, and the importer's OP_IMPORT fails in turn.       *)
Unwind ==
    /\ phase = "failing"
    /\ runs' = Front(runs)
    /\ IF Len(runs) > 1
       THEN exempt' = exempt - 2 /\ current' = Top.super /\ phase' = phase
       ELSE phase' = "idle" /\ UNCHANGED <<exempt, current>>
    /\ UNCHANGED <<objects, modules, main, left, ran, freed>>

(* jml_vm_interpret. *)
Interpret ==
    /\ phase = "idle" /\ left > 0
    /\ phase' = "run" /\ left' = left - 1
    /\ main' = [main EXCEPT !["__module"] = Text(Main), !["__path"] = None]
    /\ runs' = <<Run(0, Main, 0, [as |-> "local", to |-> ""])>>
    /\ UNCHANGED <<objects, modules, freed, current, exempt, ran>>

(* mutant: jml_obj_allocate adds at the other end of the list. *)
FreedFirstOldest(rest) == Min(rest)

(* vm->objects has the newest object first. *)
FreedFirst(rest) == Max(rest)

(* jml_vm_free: the tables are dropped, then jml_gc_free_objs frees every
   object; a module closes its library, an instance calls its destructor.  *)
VmFree ==
    /\ phase = "idle" /\ phase' = "freeing"
    /\ modules' = [m \in DOMAIN modules |-> 0] /\ main' = NoGlobals
    /\ UNCHANGED <<objects, runs, freed, current, exempt, left, ran>>
FreeObject ==
    /\ phase = "freeing" /\ freed # DOMAIN objects
    /\ freed' = freed \cup {FreedFirst(DOMAIN objects \ freed)}
    /\ UNCHANGED <<objects, modules, main, runs, current, exempt, phase, left, ran>>

Next ==
    \/ \E m \in Modules, how \in Ways :
          ImportKnown(m, how) \/ ImportNative(m, how) \/ ImportText(m, how)
    \/ \E m \in Modules : ImportFails(m)
    \/ \E k \in Names : Define(k)
    \/ Instance \/ RuntimeError \/ EndOfModule \/ EndOfText \/ Unwind
    \/ Interpret \/ VmFree \/ FreeObject

Spec == Init /\ [][Next]_vars

-----------------------------------------------------------------------------
TypeOK ==
    /\ \A i \in DOMAIN objects :
          \/ objects[i].is = "instance" /\ objects[i].of \in 1..i - 1
          \/ objects[i].is = "module" /\ DOMAIN objects[i].globals = Keys
    /\ modules \in [Modules \cup {Core} -> 0..Len(objects)]
    /\ DOMAIN main = Keys /\ freed \subseteq DOMAIN objects
    /\ \A i \in DOMAIN runs : runs[i].how \in Ways
    /\ current \in 0..Len(objects) /\ exempt \in Nat /\ left \in 0..Statements
    /\ phase \in {"idle", "run", "failing", "freeing"} /\ ran \in [Modules -> Nat]

(* A program finds in the table only modules that are whole: the top level
   has run to its end or the library's table was entered, and the module
   knows its own name, also after a wildcard import copied another's over
   it (jml_module_open, jml_vm_module_import: entered after the run).      *)
ModulesAreWhole ==
    phase \in {"run", "idle"} =>
        \A m \in Modules : modules[m] # 0 =>
            LET o == objects[modules[m]]
            IN  /\ o.name = m /\ o.globals["__module"] = Text(m) /\ o.globals["__path"] = Text(m)
                /\ modules[m] \notin {runs[i].obj : i \in DOMAIN runs}
                /\ o.handle => \A k \in Table : o.globals[k] # Unbound

(* Whoever imports a module gets the same object: every module a live
   global names is the one in the table, also after imports that failed
   half way and were repeated by a later text (jml_vm_module_import).      *)
Live == {0} \cup ({modules[m] : m \in DOMAIN modules} \ {0}) \cup {runs[i].obj : i \in DOMAIN runs}
OneObjectPerModule ==
    phase \in {"run", "idle"} =>
        \A o \in Live, k \in Keys :
            LET v == GlobalsOf(o, objects, main)[k]
            IN  v.is = "module" => v.of = modules[objects[v.of].name]

(* A top level runs to its end once, however many import it, and then it is
   in the table; an import that failed may be tried again (jml_vm_module_import). *)
RunsOnce ==
    phase \in {"run", "idle", "failing"} =>
        \A m \in Modules : /\ ran[m] <= 1
                            /\ ran[m] = 1 <=> (modules[m] # 0 /\ ~objects[modules[m]].handle)

(* vm->current is the module whose top level runs innermost, and the exempt
   stack holds the two values of each nested import and nothing else: after
   a failure, at whatever depth, both are as they were before
   (jml_module_open's two paths out).                                      *)
CurrentIsInnermost ==
    /\ phase = "run" => current = Top.obj /\ exempt = 2 * (Len(runs) - 1)
    /\ phase = "idle" => current = 0 /\ exempt = 0

(* When jml_vm_free frees an instance of a native class, the library its
   destructor is in has not been closed (jml_gc_free_objs,
   jml_module_finalize).                                                   *)
DestructorsBeforeLibraries ==
    \A i \in DOMAIN objects \ freed : objects[i].is = "instance" => objects[i].of \notin freed
=============================================================================
