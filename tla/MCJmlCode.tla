------------------------------ MODULE MCJmlCode ------------------------------
(***************************************************************************)
(* JmlCode for three kinds of programs, a run is of one of them.  "free":  *)
(* declarations may leave the stack other than the compiler counts         *)
(* ("slots"), where the code must still be in step.  "tries" and           *)
(* "closures": none of the forms the code mishandles, more statements, and *)
(* calls that are tried, or functions that capture locals.                 *)
(***************************************************************************)
EXTENDS JmlCode

CONSTANTS PlainTypes, PlainStatements, PlainOpen, PlainHeight

VARIABLE part

TryCalls == INSTANCE JmlCode WITH Types <- PlainTypes, Exprs <- {"try_call"}, Admitted <- {},
    MaxStatements <- PlainStatements, MaxOpen <- PlainOpen, MaxHeight <- PlainHeight
Capturing == INSTANCE JmlCode WITH Types <- PlainTypes, Exprs <- {"closure"}, Admitted <- {},
    MaxStatements <- PlainStatements, MaxOpen <- PlainOpen, MaxHeight <- PlainHeight

MCInit == \/ part = "free" /\ Init
          \/ part = "tries" /\ TryCalls!Init
          \/ part = "closures" /\ Capturing!Init
MCNext == /\ \/ part = "free" /\ Next
             \/ part = "tries" /\ TryCalls!Next
             \/ part = "closures" /\ Capturing!Next
          /\ UNCHANGED part
MCSpec == MCInit /\ [][MCNext]_<<part, vars>>

(* In programs of any kind, every jump fits its operand and the run        *)
(* decodes the instructions the compiler emitted (jml_bytecode_patch_jump, *)
(* jml_bytecode_emit_loop, jml_bytecode_instruction_offset).               *)
InStep == /\ OnInstructions
          /\ CASE part = "free" -> TypeOK [] part = "tries" -> TryCalls!TypeOK [] OTHER -> Capturing!TypeOK

(* Without the forms the code mishandles, at a statement the stack of the  *)
(* run holds exactly the locals the compiler counts there (jml_scope_end,  *)
(* jml_try, jml_bytecode_emit_return).                                     *)
PlainStackIsLocals == part # "free" => StackIsLocals

(* Nor does what rewrites emitted code ever edit an operand: only a jump's *)
(* open operand and first bytes change (jml_bytecode_patch_jump,           *)
(* jml_loop_end, jml_bytecode_emit_return).                                *)
PlainOperandsAreKept == [][part # "free" => OperandsKept]_vars
=============================================================================
