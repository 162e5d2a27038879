------------------------------- MODULE JmlSignal -------------------------------
(***************************************************************************)
(* The standard module `signal` (src/std/signal.c): the table of C         *)
(* functions jml_signal_handlers, the function signal(), and the C handler *)
(* jml_signal_handler that a signal interrupts the program with.           *)
(*                                                                         *)
(* A signal arrives between any two writes.  The program goes on when the  *)
(* handlers that interrupted it have returned; a handler is interrupted by *)
(* other signals.  What signal(2) does at a delivery is the platform's: it *)
(* blocks the signal until the handler returns, or resets its disposition  *)
(* and blocks nothing (`resets`).                                          *)
(***************************************************************************)
EXTENDS Integers, SequencesExt

CONSTANTS
    Size,           \* entries of jml_signal_handlers
    Catchable,      \* the signals signal(2) accepts
    Fatal,          \* those whose default ends the process
    Functions,      \* C functions other than SIG_DFL and SIG_IGN
    Null, Dfl, Ign, \* no handler; the placeholders of the module
    Other,          \* a value that is no number
    Calls,          \* bound: calls of signal()
    Arrivals        \* bound: signals that arrive

ASSUME SignalAssumption ==
    /\ Size \in Nat \ {0} /\ Catchable \cup Fatal \subseteq 0 .. Size - 1
    /\ {Null, Dfl, Ign} \cap Functions = {}
    /\ Dfl # Ign /\ "caught" \notin {Dfl, Ign} /\ Other \notin Int
    /\ {"object", "plain"} \cap (Functions \cup {Dfl, Ign}) = {}
    /\ Calls \in Nat /\ Arrivals \in Nat

VARIABLES
    slot,       \* jml_signal_handlers, and the word after it
    disp,       \* the disposition of each signal
    resets,     \* whether a delivery resets it
    pending,    \* signals that arrived and are not delivered
    frames,     \* jml_signal_handler's activations, the innermost last
    call,       \* signal() between its two writes: the signal, -1 outside
    answer,     \* the last call of signal(): its arguments and what it returned
    dead,       \* the signal that ended the process, -1 while it runs
    calls, arrivals,    \* what remains of Calls and Arrivals
    asked       \* history: what the program last asked for each signal

vars == <<slot, disp, resets, pending, frames, call, answer, dead, calls, arrivals, asked>>

Signals == 0 .. Size - 1
Words == 0 .. Size
Caught == "caught"      \* the disposition jml_signal_handler
Frame == [sig : Signals, pc : {"reinstall", "read", "run"}, runs : Functions \cup {Null}]

(* The results of signal(): none, and the exceptions it returns. *)
None == "none"
Results == {None, "DiffTypes", "WrongValue", "NotImplemented"}

(* What a call passes: a number (out of the table's range too) or another  *)
(* value, and a C function, another object or no object.                   *)
First == (-1 .. Size + 1) \cup {Other}
Second == Functions \cup {Dfl, Ign, "object", "plain"}

Init ==
    /\ slot = [w \in Words |-> Null]
    /\ disp = [s \in Signals |-> Dfl] /\ asked = [s \in Signals |-> Dfl]
    /\ resets \in BOOLEAN
    /\ pending = {} /\ frames = <<>> /\ call = -1 /\ dead = -1
    /\ answer = [first |-> 0, second |-> Dfl, gives |-> None]
    /\ calls = Calls /\ arrivals = Arrivals

(* The program runs: no handler interrupts it, no signal ended it. *)
Running == frames = <<>> /\ dead = -1
InProgram == Running /\ call = -1 /\ calls > 0
Called(f, g, r) == /\ answer' = [first |-> f, second |-> g, gives |-> r]
                   /\ calls' = calls - 1

(* (int)AS_NUM of a value that is no number: the bits of a NaN, whose      *)
(* conversion gives a negative number or zero.                             *)
ToInt(f) == IF f = Other THEN {-1, 0} ELSE {f}

Mistyped(f, g) == f = Other /\ g = "plain"
OutOfRange(n) == n < 0 \/ n > Size

(* The calls that return an exception and change nothing. *)
SignalRefused(f, g) ==
    /\ InProgram
    /\ \/ Mistyped(f, g) /\ Called(f, g, "DiffTypes")
       \/ ~ Mistyped(f, g) /\ \E n \in ToInt(f) : OutOfRange(n) /\ Called(f, g, "WrongValue")
       \/ /\ ~ Mistyped(f, g) /\ \E n \in ToInt(f) : ~ OutOfRange(n)
          /\ g \in {"object", "plain"}
          /\ Called(f, g, "NotImplemented")
    /\ UNCHANGED <<slot, disp, resets, pending, frames, call, dead, arrivals, asked>>

(* signal(2): the result is not looked at. *)
Disposed(s, a) == IF s \in Catchable THEN [disp EXCEPT ![s] = a] ELSE disp
Asked(s, a) == IF s \in Catchable THEN [asked EXCEPT ![s] = a] ELSE asked

(* SIG_DFL and SIG_IGN leave the slot as it is. *)
SignalPlaceholder(f, g) ==
    /\ InProgram /\ g \in {Dfl, Ign}
    /\ \E n \in ToInt(f) :
        /\ ~ OutOfRange(n)
        /\ disp' = Disposed(n, g) /\ asked' = Asked(n, g)
    /\ Called(f, g, None)
    /\ UNCHANGED <<slot, resets, pending, frames, call, dead, arrivals>>

(* A handler: first the slot, then the disposition. *)
Slotted(n, g) == [slot EXCEPT ![n] = g]
SignalSlot(f, g) ==
    /\ InProgram /\ g \in Functions
    /\ \E n \in ToInt(f) : ~ OutOfRange(n) /\ slot' = Slotted(n, g) /\ call' = n
    /\ Called(f, g, None)
    /\ UNCHANGED <<disp, resets, pending, frames, dead, arrivals, asked>>

SignalInstall ==
    /\ Running /\ call # -1
    /\ disp' = Disposed(call, Caught) /\ asked' = Asked(call, Caught)
    /\ call' = -1
    /\ UNCHANGED <<slot, resets, pending, frames, answer, dead, calls, arrivals>>

Arrive(s) ==
    /\ dead = -1 /\ arrivals > 0
    /\ pending' = pending \cup {s} /\ arrivals' = arrivals - 1
    /\ UNCHANGED <<slot, disp, resets, frames, call, answer, dead, calls, asked>>

Blocked(s) == ~ resets /\ \E i \in DOMAIN frames : frames[i].sig = s

(* The kernel delivers a signal: it is ignored, ends the process or starts *)
(* jml_signal_handler.                                                     *)
Deliver(s) ==
    /\ dead = -1 /\ s \in pending /\ ~ Blocked(s)
    /\ pending' = pending \ {s}
    /\ \/ disp[s] = Ign /\ UNCHANGED <<disp, frames, dead>>
       \/ disp[s] = Dfl /\ dead' = (IF s \in Fatal THEN s ELSE -1) /\ UNCHANGED <<disp, frames>>
       \/ /\ disp[s] = Caught
          /\ frames' = Append(frames, [sig |-> s, pc |-> "reinstall", runs |-> Null])
          /\ disp' = IF resets THEN [disp EXCEPT ![s] = Dfl] ELSE disp
          /\ UNCHANGED dead
    /\ UNCHANGED <<slot, resets, call, answer, calls, arrivals, asked>>

Top == frames[Len(frames)]
Handling(pc) == dead = -1 /\ frames # <<>> /\ Top.pc = pc
TopAt(pc, h) == [frames EXCEPT ![Len(frames)] = [sig |-> Top.sig, pc |-> pc, runs |-> h]]
Popped == SubSeq(frames, 1, Len(frames) - 1)

(* jml_signal_handler: signal(2) again, for a platform that resets; *)
ReinstalledNot == disp
ReinstalledDefault == [disp EXCEPT ![Top.sig] = Dfl]
Reinstalled == [disp EXCEPT ![Top.sig] = Caught]
HandlerReinstall ==
    /\ Handling("reinstall")
    /\ disp' = Reinstalled /\ frames' = TopAt("read", Null)
    /\ UNCHANGED <<slot, resets, pending, call, answer, dead, calls, arrivals, asked>>

HandlerReadOnce ==
    /\ Handling("read")
    /\ frames' = IF slot[Top.sig] = Null THEN Popped ELSE TopAt("run", slot[Top.sig])
    /\ slot' = [slot EXCEPT ![Top.sig] = Null]
    /\ UNCHANGED <<disp, resets, pending, call, answer, dead, calls, arrivals, asked>>

(* the slot is read and its function called, *)
HandlerRead ==
    /\ Handling("read")
    /\ frames' = IF slot[Top.sig] = Null THEN Popped ELSE TopAt("run", slot[Top.sig])
    /\ UNCHANGED <<slot, disp, resets, pending, call, answer, dead, calls, arrivals, asked>>

(* and when it returns, its value dropped, what was interrupted goes on. *)
HandlerReturn ==
    /\ Handling("run")
    /\ frames' = Popped
    /\ UNCHANGED <<slot, disp, resets, pending, call, answer, dead, calls, arrivals, asked>>

Program == \/ \E f \in First, g \in Second :
                SignalRefused(f, g) \/ SignalPlaceholder(f, g) \/ SignalSlot(f, g)
           \/ SignalInstall
Interrupts == \/ \E s \in Signals : Arrive(s) \/ Deliver(s)
              \/ HandlerReinstall \/ HandlerRead \/ HandlerReturn
Next == Program \/ Interrupts
Spec == Init /\ [][Next]_vars

-------------------------------------------------------------------------------
(* Between the delivery and the second signal(2) of the handler. *)
Resetting(s) == resets /\ \E i \in DOMAIN frames : frames[i].sig = s /\ frames[i].pc = "reinstall"

TypeOK ==
    /\ slot \in [Words -> Functions \cup {Null}]
    /\ disp \in [Signals -> {Dfl, Ign, Caught}] /\ asked \in [Signals -> {Dfl, Ign, Caught}]
    /\ resets \in BOOLEAN /\ pending \subseteq Signals
    /\ frames \in Seq(Frame)
    /\ call \in -1 .. Size /\ dead \in -1 .. Size - 1
    /\ answer \in [first : First, second : Second, gives : Results]
    /\ calls \in 0 .. Calls /\ arrivals \in 0 .. Arrivals

(* A caught signal has its handler: whenever the kernel may start          *)
(* jml_signal_handler, and while one has yet to read the slot, the slot    *)
(* holds a function (the slot is written before the disposition, and the   *)
(* placeholders do not clear it).                                          *)
CaughtHasHandler ==
    /\ \A s \in Signals : disp[s] = Caught => slot[s] # Null
    /\ \A i \in DOMAIN frames : slot[frames[i].sig] # Null

(* Outside the first step of a handler, which a reset precedes, what       *)
(* the program asked of a signal is in force, however the signals nested.  *)
InForce == \A s \in Signals : ~ Resetting(s) => disp[s] = asked[s]

(* Where signal(2) blocks, a signal ends the process only if the program   *)
(* left its default: no delivery, registration or nesting opens a window.  *)
Survives == ~ resets /\ dead # -1 => asked[dead] = Dfl

(* jml_std_signal_signal checks its number against the table before it     *)
(* writes: the word after the table is never written.                      *)
WritesInTable == slot[Size] = Null

(* jml_std_signal_signal asks for a number and a handler, and returns      *)
(* DiffTypes for anything else.                                            *)
TypesAreChecked == answer.first = Other \/ answer.second = "plain" => answer.gives = "DiffTypes"
===============================================================================
