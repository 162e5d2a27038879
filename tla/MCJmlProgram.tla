----------------------------- MODULE MCJmlProgram -----------------------------
(***************************************************************************)
(* What a program names: classes and their methods (JmlClass), variables   *)
(* and upvalues (JmlScope).  A run is of one of the two; the other stays   *)
(* where it starts.                                                        *)
(***************************************************************************)
EXTENDS JmlClass

VARIABLES
    part,       \* "classes" or "scope"
    fns, blocks, next, taken, pending, gone, state
variables == <<fns, blocks, next, taken, pending, gone, state>>

Scope == INSTANCE JmlScope WITH
    Names <- {"x", "y"}, MaxFunctions <- 3, MaxLocals <- 3, MaxVariables <- 3, MaxBlocks <- 4, Forms <- {"uscore"}
ASSUME Scope!ScopeAssumption

MCInit == part \in {"classes", "scope"} /\ Init /\ Scope!Init
Runs == part = "classes" /\ Next /\ UNCHANGED <<part, variables>>
Resolves == part = "scope" /\ Scope!Next /\ UNCHANGED <<part, vars>>
MCSpec == MCInit /\ [][Runs \/ Resolves]_<<part, variables, vars>>

(* A name means the variable its place in the text says, through any       *)
(* nesting of functions, but not inside its own initializer; what a        *)
(* function has taken up leaves by OP_CLOSE_UPVALUE (jml_local_resolve,    *)
(* jml_upvalue_resolve, jml_scope_end).                                    *)
NamesAreResolved == Scope!TypeOK /\ Scope!NamesAreLexical /\ Scope!UnreadyIsRefused /\ Scope!TakenAreClosed
===============================================================================
