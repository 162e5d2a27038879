---------------------------- MODULE JmlSystemProofs ----------------------------
(***************************************************************************)
(* The theorems of the module loader (JmlImportProofs) for the system it   *)
(* is a part of.                                                           *)
(***************************************************************************)
EXTENDS JmlSystem, TLAPS

Loader == INSTANCE JmlImportProofs

-------------------------------------------------------------------------------
(* Import and Loader are instances of one module; what they define is the  *)
(* same.                                                                   *)
LEMMA SameInit == Import!Init => Loader!Init
  BY DEF Import!Init, Loader!Init, Import!NewModule, Loader!NewModule, Import!NoGlobals, Loader!NoGlobals,
     Import!Keys, Loader!Keys, Import!Self, Loader!Self, Import!Unbound, Loader!Unbound, Import!Builtin, Loader!Builtin,
     Import!Core, Loader!Core

(* The assumptions. *)
LEMMA SameAssumptions == Loader!ImportAssumption /\ Loader!Ranked(Rank)
  BY ImportsAreRanked DEF Import!ImportAssumption, Loader!ImportAssumption, Import!Ranked, Loader!Ranked,
     Import!Main, Loader!Main, Import!Core, Loader!Core, Import!Paths, Loader!Paths

(* A step of the one is a step of the other.                               *)
LEMMA SameNext == Import!Next => Loader!Next
  BY ONLY TRUE
  DEF Import!Next, Loader!Next, Import!ImportKnown, Loader!ImportKnown, Import!ImportNative, Loader!ImportNative,
     Import!ImportText, Loader!ImportText, Import!ImportFails, Loader!ImportFails, Import!Define, Loader!Define,
     Import!Instance, Loader!Instance, Import!RuntimeError, Loader!RuntimeError, Import!EndOfModule, Loader!EndOfModule,
     Import!EndOfText, Loader!EndOfText, Import!Unwind, Loader!Unwind, Import!Interpret, Loader!Interpret,
     Import!VmFree, Loader!VmFree, Import!FreeObject, Loader!FreeObject, Import!Statement, Loader!Statement,
     Import!Took, Loader!Took, Import!FailAt, Loader!FailAt, Import!Last, Loader!Last,
     Import!Front, Loader!Front, Import!Max, Loader!Max, Import!Top, Loader!Top,
     Import!Bind, Loader!Bind, Import!Bound, Loader!Bound, Import!Enter, Loader!Enter,
     Import!Known, Loader!Known, Import!Stored, Loader!Stored, Import!StoredMain, Loader!StoredMain,
     Import!GlobalsOf, Loader!GlobalsOf, Import!Lookup, Loader!Lookup, Import!Added, Loader!Added,
     Import!Resolve, Loader!Resolve, Import!Run, Loader!Run, Import!NewModule, Loader!NewModule,
     Import!NoGlobals, Loader!NoGlobals, Import!Keys, Loader!Keys, Import!Self, Loader!Self,
     Import!Unbound, Loader!Unbound, Import!Data, Loader!Data, Import!Module, Loader!Module,
     Import!Text, Loader!Text, Import!Builtin, Loader!Builtin, Import!None, Loader!None,
     Import!FreedFirst, Loader!FreedFirst, Import!Main, Loader!Main, Import!Core, Loader!Core,
     Import!Paths, Loader!Paths, Import!Ways, Loader!Ways

(* And so are their properties.                                            *)
LEMMA SameProperties ==
    /\ Loader!ModulesAreWhole => Import!ModulesAreWhole
    /\ Loader!OneObjectPerModule => Import!OneObjectPerModule
    /\ Loader!RunsOnce => Import!RunsOnce
    /\ Loader!TypeOK => Import!TypeOK
    /\ Loader!CurrentIsInnermost => Import!CurrentIsInnermost
    /\ Loader!DestructorsBeforeLibraries => Import!DestructorsBeforeLibraries
  BY ONLY TRUE
  DEF Import!ModulesAreWhole, Loader!ModulesAreWhole, Import!OneObjectPerModule, Loader!OneObjectPerModule, Import!RunsOnce, Loader!RunsOnce,
     Import!TypeOK, Loader!TypeOK, Import!CurrentIsInnermost, Loader!CurrentIsInnermost, Import!DestructorsBeforeLibraries, Loader!DestructorsBeforeLibraries,
     Import!Live, Loader!Live, Import!GlobalsOf, Loader!GlobalsOf, Import!Text, Loader!Text,
     Import!Keys, Loader!Keys, Import!Self, Loader!Self, Import!Ways, Loader!Ways,
     Import!Unbound, Loader!Unbound, Import!Core, Loader!Core, Import!Top, Loader!Top, Import!Last, Loader!Last

-------------------------------------------------------------------------------
(* The loader's invariants, in the system.                                 *)
SystemInv == Loader!LoaderInv(Rank) /\ Loader!CountsInv

(* They hold at first.                                                     *)
LEMMA SystemStarts == SystemInit => SystemInv
  <1> SUFFICES ASSUME SystemInit PROVE SystemInv
    OBVIOUS
  <1>1. Loader!Init
    BY SameInit DEF SystemInit
  <1>2. Loader!LoaderInv(Rank)
    BY <1>1, SameAssumptions, Loader!LoaderInit
  <1>3. Loader!CountsInv
    BY <1>1, SameAssumptions DEF Loader!Init, Loader!CountsInv, Loader!ImportAssumption
  <1> QED
    BY <1>2, <1>3 DEF SystemInv

(* A step of the system is one of the loader, or leaves its state alone.   *)
LEMMA SystemSteps ==
    SystemInv /\ [Interrupted \/ Imports \/ Saves]_<<part, vars, imports, saving>> => SystemInv'
  <1> SUFFICES ASSUME SystemInv, [Interrupted \/ Imports \/ Saves]_<<part, vars, imports, saving>>
               PROVE  SystemInv'
    OBVIOUS
  <1>1. Import!Next \/ UNCHANGED imports
    BY DEF Interrupted, Imports, Saves
  <1>2. [Loader!Next]_(Loader!vars)
    BY <1>1, SameNext DEF imports, Loader!vars
  <1>3. Loader!LoaderInv(Rank)'
    BY <1>2, SameAssumptions, Loader!LoaderStep DEF SystemInv
  <1>4. Loader!CountsInv'
    BY <1>2, SameAssumptions, Loader!CountsStep DEF SystemInv, Loader!LoaderInv
  <1> QED
    BY <1>3, <1>4 DEF SystemInv

(* The table of modules holds only whole modules, a text runs to its end   *)
(* once, and everyone who imports a module has the same object, also after *)
(* imports that failed (jml_vm_module_import, jml_module_open).            *)
THEOREM ModulesAreLoadedOnce == SystemSpec => []ModulesLoadOnce
  <1>1. SystemInv => ModulesLoadOnce
    <2> SUFFICES ASSUME SystemInv PROVE ModulesLoadOnce
      OBVIOUS
    <2>1. Loader!LoaderInv(Rank)
      BY DEF SystemInv
    <2>2. Loader!RunsOnce /\ Loader!OneObjectPerModule
      BY <2>1, Loader!LoadedOnce
    <2>3. Loader!ModulesAreWhole
      BY <2>1, Loader!TableWhole DEF Loader!LoaderInv
    <2> QED
      BY <2>2, <2>3, SameProperties DEF ModulesLoadOnce
  <1> QED
    BY SystemStarts, SystemSteps, <1>1, PTL DEF SystemSpec

(* After an import, also one that failed, the current module is that of the *)
(* innermost run and the exempt stack holds two values for each nested run *)
(* (jml_module_open, both paths out).                                      *)
THEOREM ErrorsAlwaysRestore == SystemSpec => []ErrorsRestore
  <1>1. SystemInv => ErrorsRestore
    <2> SUFFICES ASSUME SystemInv PROVE ErrorsRestore
      OBVIOUS
    <2>1. Loader!IInv /\ Loader!CountsInv
      BY DEF SystemInv, Loader!LoaderInv
    <2>2. Loader!TypeOK /\ Loader!CurrentIsInnermost
      BY <2>1, Loader!LoaderTypes, Loader!InnermostIsCurrent
    <2> QED
      BY <2>2, SameProperties DEF ErrorsRestore
  <1> QED
    BY SystemStarts, SystemSteps, <1>1, PTL DEF SystemSpec

(* jml_vm_free runs the destructor of every instance of a native class     *)
(* before it closes the library with that destructor (jml_gc_free_objs).   *)
THEOREM DestructorsRunFirst == SystemSpec => []DestructorsBeforeLibraries
  <1>1. SystemInv => DestructorsBeforeLibraries
    <2> SUFFICES ASSUME SystemInv PROVE DestructorsBeforeLibraries
      OBVIOUS
    <2>1. Loader!IInv
      BY DEF SystemInv, Loader!LoaderInv
    <2>2. Loader!DestructorsBeforeLibraries
      BY <2>1, Loader!NewestFirst
    <2> QED
      BY <2>2, SameProperties DEF DestructorsBeforeLibraries
  <1> QED
    BY SystemStarts, SystemSteps, <1>1, PTL DEF SystemSpec
================================================================================
