------------------------------- MODULE JmlOps -------------------------------
(***************************************************************************)
(* The instruction set of the interpreter: the numbers of the opcodes, the *)
(* table jml_vm_run dispatches through in the builds with computed gotos,  *)
(* and the length of an instruction, once as                               *)
(* jml_bytecode_instruction_offset counts it for the compiler's own scan   *)
(* and once as the handlers of jml_vm_run read it.  The two lengths and    *)
(* the two orders are four hand-written lists of the same 86 names.        *)
(***************************************************************************)
EXTENDS Integers, Sequences

(* The enumerators of jml_bytecode_op, in order, from 0. *)
Opcodes == <<
    "NOP", "POP", "POP_TWO", "ROT", "SAVE", "CONST", "CONST_EXTENDED", "NONE", "TRUE", "FALSE", "BOOL",
    "ADD", "SUB", "MUL", "POW", "DIV", "MOD", "NOT", "NEG", "EQUAL", "GREATER", "GREATEREQ", "LESS",
    "LESSEQ", "NOTEQ", "CONCAT", "CONTAIN", "JUMP", "JUMP_IF_FALSE", "LOOP", "CALL", "TRY_CALL",
    "INVOKE", "INVOKE_EXTENDED", "TRY_INVOKE", "TRY_INVOKE_EXTENDED",
    "TRY_SUPER_INVOKE", "TRY_SUPER_INVOKE_EXTENDED", "SUPER_INVOKE", "SUPER_INVOKE_EXTENDED",
    "CLOSURE", "CLOSURE_EXTENDED", "RETURN", "SPREAD", "CLASS", "CLASS_EXTENDED",
    "CLASS_FIELD", "CLASS_FIELD_EXTENDED", "INHERIT", "SET_LOCAL", "SET_LOCAL_EXTENDED",
    "GET_LOCAL", "GET_LOCAL_EXTENDED", "SET_UPVALUE", "SET_UPVALUE_EXTENDED",
    "GET_UPVALUE", "GET_UPVALUE_EXTENDED", "CLOSE_UPVALUE", "SET_GLOBAL", "SET_GLOBAL_EXTENDED",
    "GET_GLOBAL", "GET_GLOBAL_EXTENDED", "DEF_GLOBAL", "DEF_GLOBAL_EXTENDED",
    "DEL_GLOBAL", "DEL_GLOBAL_EXTENDED", "SET_MEMBER", "SET_MEMBER_EXTENDED",
    "GET_MEMBER", "GET_MEMBER_EXTENDED", "SET_INDEX", "GET_INDEX", "SWAP_GLOBAL",
    "SWAP_GLOBAL_EXTENDED", "SWAP_LOCAL", "SUPER", "SUPER_EXTENDED", "ARRAY", "ARRAY_EXTENDED",
    "MAP", "MAP_EXTENDED", "IMPORT", "IMPORT_EXTENDED", "IMPORT_WILDCARD",
    "IMPORT_WILDCARD_EXTENDED", "END" >>

OpEnd       == Len(Opcodes) - 1
Placeholder == 127                  \* UINT8_MAX >> 1, a `break` not yet patched

OpNumber == [name \in {Opcodes[i] : i \in DOMAIN Opcodes} |->
                CHOOSE n \in 0..OpEnd : Opcodes[n + 1] = name]
Op(name) == OpNumber[name]

(* The handler the dispatch table holds at a number: the table follows the
   enumeration except that the invocations of a superclass come before
   their `try` forms.                                                      *)
Dispatched(n) ==
    CASE n = Op("TRY_SUPER_INVOKE")          -> "SUPER_INVOKE"
      [] n = Op("TRY_SUPER_INVOKE_EXTENDED") -> "SUPER_INVOKE_EXTENDED"
      [] n = Op("SUPER_INVOKE")              -> "TRY_SUPER_INVOKE"
      [] n = Op("SUPER_INVOKE_EXTENDED")     -> "TRY_SUPER_INVOKE_EXTENDED"
      [] OTHER                               -> Opcodes[n + 1]

(***************************************************************************)
(* The cases of jml_bytecode_instruction_offset, but for the two closure   *)
(* instructions, whose length depends on a constant.                       *)
(***************************************************************************)
ScanTwo   == {"CONST", "CLASS", "CLASS_FIELD", "SET_MEMBER", "GET_MEMBER", "SUPER", "CALL", "SET_LOCAL",
              "GET_LOCAL", "SET_UPVALUE", "GET_UPVALUE", "ARRAY", "MAP"}
ScanThree == {"SET_GLOBAL", "GET_GLOBAL", "DEF_GLOBAL", "DEL_GLOBAL", "TRY_INVOKE", "TRY_SUPER_INVOKE",
              "IMPORT", "JUMP", "JUMP_IF_FALSE", "LOOP", "TRY_CALL", "INVOKE", "SUPER_INVOKE",
              "CONST_EXTENDED", "CLASS_EXTENDED", "CLASS_FIELD_EXTENDED", "SET_MEMBER_EXTENDED",
              "GET_MEMBER_EXTENDED", "SUPER_EXTENDED", "SET_LOCAL_EXTENDED", "GET_LOCAL_EXTENDED",
              "SET_UPVALUE_EXTENDED", "GET_UPVALUE_EXTENDED", "ARRAY_EXTENDED", "MAP_EXTENDED"}
ScanFour  == {"SWAP_GLOBAL", "SWAP_LOCAL", "IMPORT_WILDCARD"}
ScanFive  == {"SET_GLOBAL_EXTENDED", "GET_GLOBAL_EXTENDED", "DEF_GLOBAL_EXTENDED", "DEL_GLOBAL_EXTENDED",
              "INVOKE_EXTENDED", "SUPER_INVOKE_EXTENDED", "IMPORT_EXTENDED", "TRY_INVOKE_EXTENDED",
              "TRY_SUPER_INVOKE_EXTENDED"}
ScanSeven == {"SWAP_GLOBAL_EXTENDED", "IMPORT_WILDCARD_EXTENDED"}

ScanFixed(name) ==
    CASE name \in ScanTwo   -> 2
      [] name \in ScanThree -> 3
      [] name \in ScanFour  -> 4
      [] name \in ScanFive  -> 5
      [] name \in ScanSeven -> 7
      [] OTHER              -> 1

(* The bytes a handler of jml_vm_run reads, itself included, for an
   instruction that makes no closure: `try` invocations skip one byte more
   than the scan counts, and SWAP_LOCAL reads none.                        *)
HandlerLength(name) ==
    CASE name \in {"TRY_INVOKE", "TRY_SUPER_INVOKE"}                   -> 4
      [] name \in {"TRY_INVOKE_EXTENDED", "TRY_SUPER_INVOKE_EXTENDED"} -> 6
      [] name = "SWAP_LOCAL"                                           -> 1
      [] OTHER                                                         -> ScanFixed(name)
=============================================================================
