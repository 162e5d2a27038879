------------------------------ MODULE JmlSerial ------------------------------
(***************************************************************************)
(* Saving the bytecode of a program to a file and reading it back          *)
(* (jml_serialization.c).  The writer fills a buffer that the macro        *)
(* REALLOC doubles on demand; every function of the writer has a copy of   *)
(* the pointer to it, and the macro changes the copy of the function that  *)
(* uses it only: a caller that goes on may use a freed block.  Nothing is  *)
(* said of a run after that.  The process may stop while the file is       *)
(* written.                                                                *)
(*                                                                         *)
(* Bytes are numbers, of the widths given by the constants; a constant of  *)
(* the program is a number, a string (one or two characters), none, a      *)
(* truth value or a function.                                              *)
(***************************************************************************)
EXTENDS Integers, FiniteSets, SequencesExt

CONSTANTS
    MaxCode,        \* bound: bytes of code
    MaxConstants,   \* bound: constants of a program
    SerialMin,      \* SERIAL_MIN: the first size of the buffer
    LongBytes,      \* the width of a count
    DoubleBytes     \* the width of a number

LineBytes == 2
Shebang == <<35, 33>>
Magic == <<106, 1>>

SerialAssumption ==
    /\ MaxCode \in Nat \ {0} /\ MaxConstants \in Nat
    /\ LongBytes \in Nat \ {0} /\ DoubleBytes \in Nat \ {0}
    /\ SerialMin \in Nat /\ SerialMin > Len(Shebang) + Len(Magic)

Num == 78
Obj == 79
String == 83
None == 124
True == 60
False == 62

Constants == {"num", "a", "ab", "none", "true", "false", "fn"}
Chars(v) == IF v = "a" THEN <<97>> ELSE <<97, 98>>
Programs == [code : 1..MaxCode, constants : UNION {[1..n -> Constants] : n \in 0..MaxConstants}]

VARIABLES
    program,        \* what is saved: the length of its code, its constants
    todo,           \* the writes to come
    buf, size,      \* the live buffer, what of it is written, and its size
    live,           \* which block of memory it is
    ptr,            \* the pointer each depth of calls has
    stale,          \* whether a freed block was used
    file,           \* the file: its bytes
    state           \* "writing", "saving", "written", "stopped"

vars == <<program, todo, buf, size, live, ptr, stale, file, state>>

-----------------------------------------------------------------------------
Digit(n, k) == (n \div 256 ^ k) % 256
Long(n) == [i \in 1..LongBytes |-> Digit(n, LongBytes - i)]
Double == [i \in 1..DoubleBytes |-> 63]
Code(n) == [i \in 1..n |-> i]
Lines(n) == [i \in 1..n * LineBytes |-> 200 + i]

(* A write: by the function at depth d, which was called from depth "from";
   need is what REALLOC is asked for beyond pos, 0 where it is not used.    *)
W(from, d, need, bytes) == [from |-> from, d |-> d, need |-> need, bytes |-> bytes]
ValueWrites(v) ==
    CASE v = "num"  -> <<W(1, 2, 1, <<Num>>), W(2, 3, DoubleBytes, Double)>>
      [] v \in {"a", "ab"} -> <<W(1, 3, 2, <<Obj, String>>), W(3, 5, LongBytes, Long(Len(Chars(v)))),
                                W(3, 4, Len(Chars(v)) + 1, Chars(v))>>
      [] v = "none" -> <<W(1, 2, 1, <<None>>)>>
      [] v \in {"true", "false"} -> <<W(1, 2, 1, <<IF v = "true" THEN True ELSE False>>)>>
      [] v = "fn"   -> <<>>
AllValues(vs) == FlattenSeq([i \in DOMAIN vs |-> ValueWrites(vs[i])])

(* mutant: functions, of which nothing is written, are not counted. *)
CountWritten(p) == Len(SelectSeq(p.constants, LAMBDA v : v # "fn"))

Count(p) == Len(p.constants)
Writes(p) ==
    <<W(0, 0, 0, Shebang), W(0, 0, 0, Magic),
      W(1, 2, LongBytes, Long(Count(p))), W(1, 2, LongBytes, Long(p.code * (LineBytes + 1))),
      W(1, 1, p.code, Code(p.code)), W(1, 1, p.code * LineBytes, Lines(p.code))>>
    \o AllValues(p.constants)

Depths == 0..5
Init ==
    /\ program \in Programs
    /\ todo = Writes(program)
    /\ buf = <<>> /\ size = SerialMin /\ live = 1 /\ ptr = [d \in Depths |-> 1]
    /\ stale = FALSE /\ file = <<>> /\ state = "writing"

(* mutant: the buffer is doubled once, and not when it is just full. *)
GrowOnce(n, need) == IF n < need THEN 2 * n ELSE n

(* REALLOC: double until larger than what is needed. *)
Grow[n \in Nat \ {0}, need \in Nat] == IF n <= need THEN Grow[2 * n, need] ELSE n
GrowTo(n, need) == Grow[n, need]

Called(w) == IF w.from = w.d THEN ptr ELSE [k \in Depths |-> IF k > w.from THEN ptr[w.from] ELSE ptr[k]]
Put(w, moves) ==
    LET p == Called(w)
        n == GrowTo(size, IF w.need = 0 THEN 0 ELSE Len(buf) + w.need)
        grows == n # size
    IN /\ moves => grows
       /\ size' = n
       /\ live' = IF moves THEN live + 1 ELSE live
       /\ ptr' = [p EXCEPT ![w.d] = IF moves THEN live + 1 ELSE @]
       /\ stale' = (stale \/ p[w.d] # live)
       /\ buf' = buf \o w.bytes

Write ==
    /\ state = "writing" /\ todo # <<>> /\ ~stale
    /\ \E moves \in BOOLEAN : Put(Head(todo), moves)
    /\ todo' = Tail(todo)
    /\ UNCHANGED <<program, file, state>>

(* fwrite of the whole buffer, with the pointer the caller has. *)
Save ==
    /\ state = "writing" /\ todo = <<>> /\ ~stale
    /\ stale' = (ptr[0] # live)
    /\ state' = "saving"
    /\ UNCHANGED <<program, todo, buf, size, live, ptr, file>>
Reaches ==
    /\ state = "saving" /\ ~stale /\ Len(file) < Len(buf)
    /\ file' = Append(file, buf[Len(file) + 1])
    /\ UNCHANGED <<program, todo, buf, size, live, ptr, stale, state>>
Written ==
    /\ state = "saving" /\ ~stale /\ file = buf
    /\ state' = "written"
    /\ UNCHANGED <<program, todo, buf, size, live, ptr, stale, file>>
Stop ==
    /\ state \in {"writing", "saving"} /\ state' = "stopped"
    /\ UNCHANGED <<program, todo, buf, size, live, ptr, stale, file>>

Next == Write \/ Save \/ Reaches \/ Written \/ Stop
Spec == Init /\ [][Next]_vars

-----------------------------------------------------------------------------
(* The reader, a function of the file: what it makes of length bytes. *)
Refused == [ok |-> FALSE]
Number(f, pos, n) == FoldLeft(LAMBDA number, byte : number * 256 + byte, 0, SubSeq(f, pos + 1, pos + n))
Fits(f, pos, n) == Len(f) >= pos + n

(* mutant: the code is taken without a look at how much is left. *)
CodeFitsAny(f, pos, n) == n >= 0

CodeFits(f, pos, n) == Fits(f, pos, n)

(* jml_deserialize_value: [ok, pos, value]. *)
StringAt(f, pos) ==
    IF ~Fits(f, pos, LongBytes) THEN Refused
    ELSE LET n == Number(f, pos, LongBytes)  q == pos + LongBytes
         IN IF Fits(f, q, n) THEN [ok |-> TRUE, pos |-> q + n, value |-> IF n = 1 THEN "a" ELSE "ab"]
            ELSE Refused
ValueAt(f, pos) ==
    IF Len(f) <= pos THEN Refused
    ELSE LET c == f[pos + 1]
             is(v) == [ok |-> TRUE, pos |-> pos + 1, value |-> v]
         IN CASE c = Num -> IF Fits(f, pos + 1, DoubleBytes) THEN [is("num") EXCEPT !.pos = @ + DoubleBytes]
                            ELSE Refused
              [] c = Obj -> IF Len(f) > pos + 1 /\ f[pos + 2] = String THEN StringAt(f, pos + 2) ELSE Refused
              [] c = None -> is("none")
              [] c = True -> is("true")
              [] c = False -> is("false")
              [] OTHER -> Refused
ValuesAt(f, pos, n) ==
    LET OneMore(before) == LET v == ValueAt(f, before.pos)
                         IN IF v.ok THEN [v EXCEPT !.value = Append(before.value, @)] ELSE Refused
        read[k \in 0..n] == IF k = 0 THEN [ok |-> TRUE, pos |-> pos, value |-> <<>>]
                            ELSE IF read[k - 1].ok THEN OneMore(read[k - 1]) ELSE Refused
    IN read[n]

(* jml_deserialize_bytecode. *)
BytecodeAt(f, pos) ==
    IF ~Fits(f, pos, 2 * LongBytes) THEN Refused
    ELSE LET n == Number(f, pos, LongBytes)
             offset == Number(f, pos + LongBytes, LongBytes)
             at == pos + 2 * LongBytes
             vs == ValuesAt(f, at + offset, n)
         IN IF ~CodeFits(f, at, offset) \/ ~vs.ok THEN Refused
            ELSE [ok |-> TRUE, code |-> offset \div (LineBytes + 1), constants |-> vs.value]

(* jml_deserialize_bytecode_file: more than the magic bytes must be left. *)
Starts(f, pos, s, n) == Len(f) - pos > n /\ SubSeq(f, pos + 1, pos + Len(s)) = s
Read(f) ==
    LET pos == IF Starts(f, 0, Shebang, Len(Shebang)) THEN Len(Shebang) ELSE 0
    IN IF Starts(f, pos, Magic, Len(Magic)) THEN BytecodeAt(f, pos + Len(Magic)) ELSE Refused

-----------------------------------------------------------------------------
(* Types; what was written is within the buffer, the terminator that
   snprintf puts behind a tag included.                                    *)
TypeOK ==
    /\ program \in Programs /\ state \in {"writing", "saving", "written", "stopped"}
    /\ stale \in BOOLEAN /\ ptr \in [Depths -> 1..live]
    /\ Len(buf) < size
    /\ file = SubSeq(buf, 1, Len(file))

(* What is read back from a complete file is the program that was saved, or
   nothing: a program with a function among its constants is refused, never
   run with other constants.                                               *)
ReadIsWritten ==
    state = "written" =>
        LET r == Read(file) IN
        IF "fn" \in {program.constants[i] : i \in 1..Len(program.constants)} THEN ~r.ok
        ELSE r = [ok |-> TRUE, code |-> program.code, constants |-> program.constants]

(* Wherever the process stopped before the end, the file that is left is
   refused, and the reader looks at no byte beyond it.                     *)
TruncatedIsRefused ==
    state # "written" /\ Len(file) < Len(buf) => ~Read(file).ok
=============================================================================
