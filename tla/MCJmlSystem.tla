------------------------------ MODULE MCJmlSystem ------------------------------
(***************************************************************************)
(* Main imports all modules; a imports b and the library n; b imports n    *)
(* and x, whose text does not compile.  b is a directory with an entry     *)
(* module.                                                                 *)
(***************************************************************************)
EXTENDS JmlSystem

MCModules   == {"a", "b", "n", "x"}
MCShort     == [m \in MCModules |-> m]
MCFiles     == [m \in MCModules |-> CASE m = "a" -> {"jml", "dir", "dir.so"} [] m = "b" -> {"dir", "dir.jml"}
                                      [] m = "n" -> {"so", "jml"} [] m = "x" -> {"jml"}]
MCSound     == {"a", "b", "n"}
MCMayImport == [m \in MCModules \cup {"main"} |->
                  CASE m = "main" -> {"a", "b", "n"} [] m = "a" -> {"b", "n"}
                    [] m = "b" -> {"n", "x"} [] OTHER -> {}]
MCRank      == [m \in MCModules \cup {"main"} |->
                  CASE m = "main" -> 3 [] m = "a" -> 2 [] m = "b" -> 1 [] OTHER -> 0]
================================================================================
