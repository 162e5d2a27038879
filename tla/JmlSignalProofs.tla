---------------------------- MODULE JmlSignalProofs ----------------------------
(***************************************************************************)
(* The module `signal` for a table of any size, any set of C functions and *)
(* any number of calls and signals: a caught signal has its handler and    *)
(* what the program asked for is in force, on both kinds of platform.      *)
(***************************************************************************)
EXTENDS JmlSignal, TLAPS

(* What makes it inductive: a call between its writes has written the      *)
(* slot, and handlers interrupt one another only while the program asks    *)
(* for the signals they handle.                                            *)
CallHasSlot == call # -1 => slot[call] # Null
CaughtAsked == \A s \in Signals : disp[s] = Caught => asked[s] = Caught
FramesAsked == \A i \in DOMAIN frames : asked[frames[i].sig] = Caught

IInv == /\ TypeOK /\ CaughtHasHandler /\ InForce /\ Survives
        /\ CallHasSlot /\ CaughtAsked /\ FramesAsked

USE SignalAssumption DEF Signals, Words, Caught

(* Every result of ToInt that passes the range check indexes the slots. *)
LEMMA InRange ==
    ASSUME NEW f \in First, NEW n \in ToInt(f), ~ OutOfRange(n)
    PROVE  n \in Words
  BY DEF ToInt, OutOfRange, First

LEMMA TopFrame ==
    ASSUME TypeOK, frames # <<>>
    PROVE  /\ Len(frames) \in DOMAIN frames /\ Top \in Frame
           /\ DOMAIN Popped = 1 .. Len(frames) - 1 /\ Popped \in Seq(Frame)
           /\ \A i \in DOMAIN Popped : i \in DOMAIN frames /\ Popped[i] = frames[i]
  <1>1. frames \in Seq(Frame)
    BY DEF TypeOK
  <1>2. Len(frames) \in DOMAIN frames
    BY <1>1
  <1>3. Top \in Frame
    BY <1>1, <1>2 DEF Top
  <1> QED
    BY <1>1, <1>2, <1>3 DEF Popped

LEMMA TopChanged ==
    ASSUME TypeOK, frames # <<>>, NEW pc \in {"reinstall", "read", "run"}, NEW h \in Functions \cup {Null}
    PROVE  /\ TopAt(pc, h) \in Seq(Frame) /\ DOMAIN TopAt(pc, h) = DOMAIN frames
           /\ \A i \in DOMAIN frames : TopAt(pc, h)[i].sig = frames[i].sig
           /\ \A i \in DOMAIN frames : i # Len(frames) => TopAt(pc, h)[i] = frames[i]
           /\ TopAt(pc, h)[Len(frames)].pc = pc
  <1>1. frames \in Seq(Frame) /\ Len(frames) \in DOMAIN frames /\ Top \in Frame
    BY TopFrame DEF TypeOK
  <1>2. [sig |-> Top.sig, pc |-> pc, runs |-> h] \in Frame
    BY <1>1 DEF Frame
  <1> QED
    BY <1>1, <1>2 DEF TopAt, Top

THEOREM InitInv == Init => IInv
  <1> SUFFICES ASSUME Init PROVE IInv
    OBVIOUS
  <1>1. TypeOK
    BY DEF Init, TypeOK, First, Second, Results, None
  <1> QED
    BY <1>1 DEF Init, IInv, CaughtHasHandler, InForce, Survives, CallHasSlot, CaughtAsked, FramesAsked

(* The program's steps: no handler is active. *)
LEMMA RefusedKeeps ==
    ASSUME IInv, NEW f \in First, NEW g \in Second, SignalRefused(f, g)
    PROVE  IInv'
  <1>1. TypeOK'
    <2>1. /\ calls > 0 /\ calls' = calls - 1
          /\ answer' \in [first : First, second : Second, gives : Results]
      BY DEF SignalRefused, InProgram, Called, Results
    <2> QED
      BY <2>1 DEF IInv, TypeOK, SignalRefused
  <1> QED
    BY <1>1 DEF IInv, SignalRefused, CaughtHasHandler, InForce, Resetting, Survives, CallHasSlot, CaughtAsked, FramesAsked

LEMMA PlaceholderKeeps ==
    ASSUME IInv, NEW f \in First, NEW g \in Second, SignalPlaceholder(f, g)
    PROVE  IInv'
  <1>1. /\ frames = <<>> /\ frames' = <<>> /\ dead' = -1 /\ call' = -1 /\ slot' = slot /\ resets' = resets
        /\ calls > 0 /\ calls' = calls - 1 /\ g \in {Dfl, Ign}
        /\ answer' \in [first : First, second : Second, gives : Results]
    BY DEF SignalPlaceholder, InProgram, Running, Called, Results, None
  <1>2. PICK n \in ToInt(f) : ~ OutOfRange(n) /\ disp' = Disposed(n, g) /\ asked' = Asked(n, g)
    BY DEF SignalPlaceholder
  <1>3. /\ disp' \in [Signals -> {Dfl, Ign, Caught}] /\ asked' \in [Signals -> {Dfl, Ign, Caught}]
        /\ \A s \in Signals : disp'[s] = Caught => disp[s] = Caught
        /\ \A s \in Signals : disp[s] = asked[s] => disp'[s] = asked'[s]
    BY <1>1, <1>2 DEF IInv, TypeOK, Disposed, Asked
  <1>4. \A s \in Signals : disp[s] = asked[s]
    BY <1>1 DEF IInv, InForce, Resetting
  <1>5. TypeOK'
    BY <1>1, <1>3 DEF IInv, TypeOK, SignalPlaceholder
  <1>6. CaughtHasHandler' /\ FramesAsked'
    BY <1>1, <1>3 DEF IInv, CaughtHasHandler, FramesAsked
  <1>7. InForce' /\ CaughtAsked'
    BY <1>3, <1>4 DEF InForce, CaughtAsked
  <1>8. Survives' /\ CallHasSlot'
    BY <1>1 DEF Survives, CallHasSlot
  <1> QED
    BY <1>5, <1>6, <1>7, <1>8 DEF IInv

LEMMA SlotKeeps ==
    ASSUME IInv, NEW f \in First, NEW g \in Second, SignalSlot(f, g)
    PROVE  IInv'
  <1>1. /\ frames = <<>> /\ frames' = <<>> /\ dead' = -1
        /\ calls > 0 /\ calls' = calls - 1 /\ g \in Functions
        /\ UNCHANGED <<disp, asked, resets, pending, arrivals>>
        /\ answer' \in [first : First, second : Second, gives : Results]
    BY DEF SignalSlot, InProgram, Running, Called, Results, None
  <1>2. PICK n \in ToInt(f) : ~ OutOfRange(n) /\ slot' = Slotted(n, g) /\ call' = n
    BY DEF SignalSlot
  <1>3. n \in Words
    BY <1>2, InRange
  <1>4. /\ slot' \in [Words -> Functions \cup {Null}] /\ slot'[call'] # Null
        /\ \A w \in Words : slot[w] # Null => slot'[w] # Null
    BY <1>1, <1>2, <1>3 DEF IInv, TypeOK, Slotted
  <1>5. TypeOK'
    BY <1>1, <1>2, <1>3, <1>4 DEF IInv, TypeOK
  <1>6. CaughtHasHandler'
    BY <1>1, <1>4 DEF IInv, CaughtHasHandler
  <1>7. InForce' /\ CaughtAsked' /\ FramesAsked' /\ Survives'
    BY <1>1 DEF IInv, InForce, Resetting, CaughtAsked, FramesAsked, Survives
  <1>8. CallHasSlot'
    BY <1>4 DEF CallHasSlot
  <1> QED
    BY <1>5, <1>6, <1>7, <1>8 DEF IInv

LEMMA InstallKeeps ==
    ASSUME IInv, SignalInstall
    PROVE  IInv'
  <1>1. /\ frames = <<>> /\ frames' = <<>> /\ dead' = -1 /\ call # -1 /\ call' = -1
        /\ UNCHANGED <<slot, resets, pending, answer, calls, arrivals>>
        /\ disp' = Disposed(call, Caught) /\ asked' = Asked(call, Caught)
    BY DEF SignalInstall, Running
  <1>2. /\ disp' \in [Signals -> {Dfl, Ign, Caught}] /\ asked' \in [Signals -> {Dfl, Ign, Caught}]
        /\ \A s \in Signals : disp'[s] = Caught => disp[s] = Caught \/ s = call
        /\ \A s \in Signals : disp[s] = asked[s] => disp'[s] = asked'[s]
    BY <1>1 DEF IInv, TypeOK, Disposed, Asked
  <1>3. \A s \in Signals : disp[s] = asked[s]
    BY <1>1 DEF IInv, InForce, Resetting
  <1>4. TypeOK'
    BY <1>1, <1>2 DEF IInv, TypeOK
  <1>5. CaughtHasHandler' /\ FramesAsked'
    BY <1>1, <1>2 DEF IInv, CaughtHasHandler, FramesAsked, CallHasSlot
  <1>6. InForce' /\ CaughtAsked'
    BY <1>2, <1>3 DEF InForce, CaughtAsked
  <1>7. Survives' /\ CallHasSlot'
    BY <1>1 DEF Survives, CallHasSlot
  <1> QED
    BY <1>4, <1>5, <1>6, <1>7 DEF IInv

(* The steps that interrupt it. *)
LEMMA ArriveKeeps ==
    ASSUME IInv, NEW s \in Signals, Arrive(s)
    PROVE  IInv'
  <1>1. TypeOK'
    BY DEF IInv, TypeOK, Arrive
  <1> QED
    BY <1>1 DEF IInv, Arrive, CaughtHasHandler, InForce, Resetting, Survives, CallHasSlot, CaughtAsked, FramesAsked

LEMMA DeliverKeeps ==
    ASSUME IInv, NEW s \in Signals, Deliver(s)
    PROVE  IInv'
  <1> USE DEF IInv
  <1>1. /\ UNCHANGED <<slot, resets, call, answer, calls, arrivals, asked>>
        /\ dead = -1 /\ pending' \subseteq Signals
    BY DEF Deliver, TypeOK
  <1>2. CASE disp[s] = Ign /\ UNCHANGED <<disp, frames, dead>>
    BY <1>1, <1>2 DEF TypeOK, CaughtHasHandler, InForce, Resetting, Survives, CallHasSlot, CaughtAsked, FramesAsked
  <1>3. CASE disp[s] = Dfl /\ dead' = (IF s \in Fatal THEN s ELSE -1) /\ UNCHANGED <<disp, frames>>
    <2>1. TypeOK' /\ CaughtHasHandler' /\ InForce' /\ CallHasSlot' /\ CaughtAsked' /\ FramesAsked'
      BY <1>1, <1>3 DEF TypeOK, CaughtHasHandler, InForce, Resetting, CallHasSlot, CaughtAsked, FramesAsked
    <2>2. ~ resets => asked[s] = Dfl
      BY <1>3 DEF InForce, Resetting
    <2> QED
      BY <1>1, <1>3, <2>1, <2>2 DEF Survives
  <1>4. CASE /\ disp[s] = Caught
             /\ frames' = Append(frames, [sig |-> s, pc |-> "reinstall", runs |-> Null])
             /\ disp' = IF resets THEN [disp EXCEPT ![s] = Dfl] ELSE disp
             /\ UNCHANGED dead
    <2>1. [sig |-> s, pc |-> "reinstall", runs |-> Null] \in Frame /\ frames \in Seq(Frame)
      BY DEF Frame, TypeOK
    <2>2. /\ frames' \in Seq(Frame) /\ DOMAIN frames' = DOMAIN frames \cup {Len(frames) + 1}
          /\ \A i \in DOMAIN frames : frames'[i] = frames[i]
          /\ frames'[Len(frames) + 1].sig = s /\ frames'[Len(frames) + 1].pc = "reinstall"
      BY <1>4, <2>1
    <2>3. /\ disp' \in [Signals -> {Dfl, Ign, Caught}]
          /\ \A t \in Signals : disp'[t] = Caught => disp[t] = Caught
          /\ \A t \in Signals : t # s \/ ~ resets => disp'[t] = disp[t]
      BY <1>4 DEF TypeOK
    <2>4. TypeOK'
      BY <1>1, <1>4, <2>2, <2>3 DEF TypeOK
    <2>5. CaughtHasHandler'
      BY <1>1, <1>4, <2>2, <2>3 DEF CaughtHasHandler
    <2>6. InForce'
      <3>1. \A t \in Signals : ~ Resetting(t)' => ~ Resetting(t)
        BY <1>1, <2>2 DEF Resetting
      <3>2. resets => Resetting(s)'
        BY <1>1, <2>2 DEF Resetting
      <3> QED
        BY <1>1, <2>3, <3>1, <3>2 DEF InForce
    <2>7. CallHasSlot' /\ CaughtAsked' /\ FramesAsked' /\ Survives'
      BY <1>1, <1>4, <2>2, <2>3 DEF CallHasSlot, CaughtAsked, FramesAsked, Survives
    <2> QED
      BY <2>4, <2>5, <2>6, <2>7
  <1> QED
    BY <1>2, <1>3, <1>4 DEF Deliver

LEMMA ReinstallKeeps ==
    ASSUME IInv, HandlerReinstall
    PROVE  IInv'
  <1> USE DEF IInv
  <1>1. /\ frames # <<>> /\ Top.pc = "reinstall" /\ dead = -1
        /\ disp' = [disp EXCEPT ![Top.sig] = Caught] /\ frames' = TopAt("read", Null)
        /\ UNCHANGED <<slot, resets, pending, call, answer, dead, calls, arrivals, asked>>
    BY DEF HandlerReinstall, Handling, Reinstalled
  <1>2. /\ Len(frames) \in DOMAIN frames /\ Top \in Frame /\ Top.sig \in Signals
        /\ Top.sig = frames[Len(frames)].sig
    BY <1>1, TopFrame DEF Frame, Top
  <1>3. /\ frames' \in Seq(Frame) /\ DOMAIN frames' = DOMAIN frames
        /\ \A i \in DOMAIN frames : frames'[i].sig = frames[i].sig
        /\ \A i \in DOMAIN frames : i # Len(frames) => frames'[i] = frames[i]
    BY <1>1, TopChanged
  <1>4. /\ disp' \in [Signals -> {Dfl, Ign, Caught}] /\ disp'[Top.sig] = Caught
        /\ \A t \in Signals : t # Top.sig => disp'[t] = disp[t]
    BY <1>1, <1>2 DEF TypeOK
  <1>5. asked[Top.sig] = Caught /\ slot[Top.sig] # Null
    BY <1>2 DEF FramesAsked, CaughtHasHandler
  <1>6. TypeOK'
    BY <1>1, <1>3, <1>4 DEF TypeOK
  <1>7. CaughtHasHandler' /\ CaughtAsked' /\ FramesAsked'
    BY <1>1, <1>3, <1>4, <1>5 DEF CaughtHasHandler, CaughtAsked, FramesAsked
  <1>8. InForce'
    <2>1. \A t \in Signals : t # Top.sig /\ ~ Resetting(t)' => ~ Resetting(t)
      BY <1>1, <1>2, <1>3 DEF Resetting
    <2> QED
      BY <1>1, <1>4, <1>5, <2>1 DEF InForce
  <1>9. CallHasSlot' /\ Survives'
    BY <1>1 DEF CallHasSlot, Survives
  <1> QED
    BY <1>6, <1>7, <1>8, <1>9

LEMMA ReadKeeps ==
    ASSUME IInv, HandlerRead
    PROVE  IInv'
  <1> USE DEF IInv
  <1>1. /\ frames # <<>> /\ Top.pc = "read" /\ dead = -1
        /\ UNCHANGED <<slot, disp, resets, pending, call, answer, dead, calls, arrivals, asked>>
    BY DEF HandlerRead, Handling
  <1>2. Len(frames) \in DOMAIN frames /\ Top.sig = frames[Len(frames)].sig /\ Top.sig \in Signals
    BY <1>1, TopFrame DEF Frame, Top
  <1>3. slot[Top.sig] # Null /\ slot[Top.sig] \in Functions
    BY <1>2 DEF CaughtHasHandler, TypeOK
  <1>4. frames' = TopAt("run", slot[Top.sig])
    BY <1>3 DEF HandlerRead
  <1>5. /\ frames' \in Seq(Frame) /\ DOMAIN frames' = DOMAIN frames
        /\ \A i \in DOMAIN frames : frames'[i].sig = frames[i].sig
        /\ \A i \in DOMAIN frames : i # Len(frames) => frames'[i] = frames[i]
    BY <1>1, <1>3, <1>4, TopChanged
  <1>6. TypeOK'
    BY <1>1, <1>5 DEF TypeOK
  <1>7. CaughtHasHandler' /\ CaughtAsked' /\ FramesAsked' /\ CallHasSlot' /\ Survives'
    BY <1>1, <1>5 DEF CaughtHasHandler, CaughtAsked, FramesAsked, CallHasSlot, Survives
  <1>8. \A t \in Signals : ~ Resetting(t)' => ~ Resetting(t)
    BY <1>1, <1>5 DEF Resetting, Top
  <1> QED
    BY <1>1, <1>6, <1>7, <1>8 DEF InForce

LEMMA ReturnKeeps ==
    ASSUME IInv, HandlerReturn
    PROVE  IInv'
  <1> USE DEF IInv
  <1>1. /\ frames # <<>> /\ Top.pc = "run" /\ dead = -1 /\ frames' = Popped
        /\ UNCHANGED <<slot, disp, resets, pending, call, answer, dead, calls, arrivals, asked>>
    BY DEF HandlerReturn, Handling
  <1>2. /\ frames \in Seq(Frame) /\ frames' \in Seq(Frame) /\ DOMAIN frames' = 1 .. Len(frames) - 1
        /\ \A i \in DOMAIN frames' : i \in DOMAIN frames /\ frames'[i] = frames[i]
    BY <1>1, TopFrame DEF TypeOK
  <1>3. TypeOK'
    BY <1>1, <1>2 DEF TypeOK
  <1>4. CaughtHasHandler' /\ CaughtAsked' /\ FramesAsked' /\ CallHasSlot' /\ Survives'
    BY <1>1, <1>2 DEF CaughtHasHandler, CaughtAsked, FramesAsked, CallHasSlot, Survives
  <1>5. \A t \in Signals : ~ Resetting(t)' => ~ Resetting(t)
    <2>1. \A i \in DOMAIN frames : i \in DOMAIN frames' \/ i = Len(frames)
      BY <1>2
    <2> QED
      BY <1>1, <1>2, <2>1 DEF Resetting, Top
  <1> QED
    BY <1>1, <1>3, <1>4, <1>5 DEF InForce

THEOREM NextInv == IInv /\ [Next]_vars => IInv'
  <1> SUFFICES ASSUME IInv, [Next]_vars PROVE IInv'
    OBVIOUS
  <1>1. CASE Program
    BY <1>1, RefusedKeeps, PlaceholderKeeps, SlotKeeps, InstallKeeps DEF Program
  <1>2. CASE Interrupts
    BY <1>2, ArriveKeeps, DeliverKeeps, ReinstallKeeps, ReadKeeps, ReturnKeeps DEF Interrupts
  <1>3. CASE UNCHANGED vars
    BY <1>3 DEF vars, IInv, TypeOK, CaughtHasHandler, InForce, Resetting, Survives, CallHasSlot, CaughtAsked, FramesAsked
  <1> QED
    BY <1>1, <1>2, <1>3 DEF Next

(* Every state the module reaches is inductive-invariant. *)
THEOREM SignalInvariant == Spec => []IInv
  BY InitInv, NextInv, PTL DEF Spec

(* The state of the module has its type: the checks of signal() keep every *)
(* write within the table or the word after it.                            *)
THEOREM SignalTypes == Spec => []TypeOK
  BY SignalInvariant, PTL DEF IInv

(* jml_signal_handler never finds an empty slot. *)
THEOREM CaughtSignalsHaveHandlers == Spec => []CaughtHasHandler
  BY SignalInvariant, PTL DEF IInv

(* What the program last asked of a signal is in force, but for the first  *)
(* step of a handler on a platform that resets.                            *)
THEOREM AskedIsInForce == Spec => []InForce
  BY SignalInvariant, PTL DEF IInv

(* On a platform that blocks, only a signal left at its default ends the   *)
(* process.                                                                *)
THEOREM CaughtSignalsDoNotEnd == Spec => []Survives
  BY SignalInvariant, PTL DEF IInv
===============================================================================
