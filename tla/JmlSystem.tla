------------------------------ MODULE JmlSystem ------------------------------
(***************************************************************************)
(* What the interpreter shares with the system it runs on: signals         *)
(* (JmlSignal), the files of modules (JmlImport) and saved bytecode        *)
(* (JmlSerial).  A run is of one of them; the others stay where they start.*)
(***************************************************************************)
EXTENDS JmlSignal

CONSTANTS
    Modules, Short, Files, Sound, MayImport, Names, Table, Builtins, Statements,     \* of JmlImport
    MaxCode, MaxConstants, SerialMin, LongBytes, DoubleBytes,                        \* of JmlSerial
    Rank        \* of each module: above that of what it imports

VARIABLES
    part,       \* "signals", "modules" or "bytecode"
    objects, modules, main, runs, freed, current, exempt, phase, left, ran,
    program, todo, buf, size, live, ptr, stale, file, state
imports == <<objects, modules, main, runs, freed, current, exempt, phase, left, ran>>
saving == <<program, todo, buf, size, live, ptr, stale, file, state>>

Import == INSTANCE JmlImport
Serial == INSTANCE JmlSerial
ASSUME ImportsAreRanked == Import!ImportAssumption /\ Import!Ranked(Rank)
ASSUME SavingAssumption == Serial!SerialAssumption

SystemInit ==
    /\ part \in {"signals", "modules", "bytecode"}
    /\ Init /\ (part # "signals" => ~ resets)
    /\ Import!Init
    /\ Serial!Init /\ (part # "bytecode" => program = [code |-> 1, constants |-> <<>>])
Interrupted == part = "signals" /\ Next /\ UNCHANGED <<part, imports, saving>>
Imports == part = "modules" /\ Import!Next /\ UNCHANGED <<part, vars, saving>>
Saves == part = "bytecode" /\ Serial!Next /\ UNCHANGED <<part, vars, imports>>
SystemSpec == SystemInit /\ [][Interrupted \/ Imports \/ Saves]_<<part, vars, imports, saving>>

(* The table of modules holds only modules whose top level has run to its  *)
(* end, once, and that know their own name; a name has one object          *)
(* (jml_module_open, jml_vm_module_import).                                *)
ModulesLoadOnce == Import!ModulesAreWhole /\ Import!OneObjectPerModule /\ Import!RunsOnce
(* Behind an import, also one that failed, vm->current is the module of    *)
(* the innermost run and the exempt stack has two values per run           *)
(* (jml_module_open, jml_vm_module_import).                                *)
ErrorsRestore == Import!TypeOK /\ Import!CurrentIsInnermost
(* jml_vm_free frees the instances of native classes before the library    *)
(* that has their destructors is closed.                                   *)
DestructorsBeforeLibraries == Import!DestructorsBeforeLibraries

(* A saved program is read back as it was, or not at all when a function   *)
(* is among its constants; a file cut anywhere is refused                  *)
(* (jml_serialize_bytecode_file, jml_deserialize_bytecode_file).           *)
SavedIsReadBack == Serial!TypeOK /\ Serial!ReadIsWritten /\ Serial!TruncatedIsRefused
================================================================================
