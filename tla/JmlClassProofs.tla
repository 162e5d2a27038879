---------------------------- MODULE JmlClassProofs ----------------------------
(***************************************************************************)
(* Theorems about JmlClass, for programs that use none of the forms the    *)
(* code mishandles (Forms = {}): a method runs with an instance of its     *)
(* class as self (SelfFits), a class has what its body wrote and what its  *)
(* superclass has, `super` is the superclass (ClassesInPlace), and         *)
(* invoking is reading and calling (InvokeIsGetThenCall).                  *)
(***************************************************************************)
EXTENDS JmlClass, TLAPS, FiniteSetTheorems, SequenceTheorems

(* The values a program can hold, and what a class can have as a member. *)
Fns     == [is : {"fn"}, home : Nat, name : Keys, cell : Nat]
CFns    == [is : {"native"}, home : {1}, name : Keys]
Selves  == [is : {"inst"}, i : Nat]
Values  == {None} \cup Selves \cup [is : {"class"}, c : Nat] \cup [is : {"bound"}, self : Selves, fn : Fns]
Members == Values \cup Fns \cup CFns \cup {Unset}

ClassType == [super : Nat, own : [Keys -> Members], statics : [Keys -> Members]]
InstType  == [klass : Nat, fields : [Keys -> Values \cup {Unset}]]
FrameType == [fn : Fns, base : Nat, kind : {"call", "init", "hook"}]
CellType  == [at : {0, 1}, value : Values]
BodyType  == [class : Nat, super : {0, 1}]
MachineType ==
    [mem : [Places -> Values], top : Nat, insts : Seq(InstType), x : Values, frames : Seq(FrameType),
     native : {Unset} \cup [fn : CFns, self : Values], failed : BOOLEAN]

-------------------------------------------------------------------------------
(* What the values mean, in a world of classes cl, instances is and values *)
(* cv of the upvalues of `super`.                                          *)
Desc(cl, c, d) == \A S \in SUBSET (1..Len(cl)) :
    c \in S /\ (\A k \in S : cl[k].super \in S \cup {0}) => d \in S
Suits(cl, is, fn, v) == v.is = "inst" /\ v.i \in 1..Len(is) /\ Desc(cl, is[v.i].klass, fn.home)
FnOK(cl, cv, f) ==
    /\ f.home \in 1..Len(cl)
    /\ f.cell # 0 => /\ f.cell \in DOMAIN cv /\ cl[f.home].super # 0
                     /\ cv[f.cell] = Class(cl[f.home].super)
ValueOK(cl, is, cv, v) ==
    /\ v.is = "class" => v.c \in 1..Len(cl)
    /\ v.is = "inst" => v.i \in 1..Len(is)
    /\ v.is = "bound" => FnOK(cl, cv, v.fn) /\ Suits(cl, is, v.fn, v.self)
StaticOK(cl, is, cv, c, k, s) ==
    /\ s.is # "inst" /\ ValueOK(cl, is, cv, s)
    /\ s.is = "fn" => FnOK(cl, cv, s) /\ Desc(cl, c, s.home) /\ (k = "__inherit" => s.cell = 0)
    /\ s.is = "native" => Desc(cl, c, s.home)

(* The classes: their members come from themselves or their superclass. *)
ClassesOK(cl, is, cv) ==
    /\ cl \in Seq(ClassType) /\ Len(cl) \in 1..MaxClasses
    /\ \A c \in 1..Len(cl) : cl[c].super < c
    /\ \A c \in 1..Len(cl), k \in Keys : StaticOK(cl, is, cv, c, k, cl[c].statics[k])
OwnOrInherited(cl) ==
    \A c \in 2..Len(cl), k \in Keys :
        cl[c].statics[k] = IF cl[c].own[k] # Unset \/ cl[c].super = 0 THEN cl[c].own[k]
                           ELSE cl[cl[c].super].statics[k]

Height == 3 * (MaxClasses + MaxFrames)

(* The machine: a frame has two places, slot 0 and x, above the ground. *)
Ground(m) == IF m.frames = <<>> THEN m.top ELSE m.frames[1].base - 1
FrameOK(m, cl, cv, i) ==
    LET f == m.frames[i] IN
    /\ f.base = Ground(m) + 2 * i - 1
    /\ FnOK(cl, cv, f.fn)
    /\ IF f.kind = "hook" THEN i = 1 /\ f.fn.cell = 0 ELSE Suits(cl, m.insts, f.fn, m.mem[f.base])
MachineOK(m, cl, cv) ==
    /\ m \in MachineType
    /\ \A p \in Places : ValueOK(cl, m.insts, cv, m.mem[p])
    /\ ValueOK(cl, m.insts, cv, m.x)
    /\ \A i \in 1..Len(m.insts) : /\ m.insts[i].klass \in 1..Len(cl)
                                  /\ \A k \in Keys : ValueOK(cl, m.insts, cv, m.insts[i].fields[k])
    /\ m.native # Unset => Suits(cl, m.insts, m.native.fn, m.native.self)
    /\ Ground(m) \in Nat /\ m.top = Ground(m) + 2 * Len(m.frames) /\ m.top <= Height
    /\ \A i \in 1..Len(m.frames) : FrameOK(m, cl, cv, i)

Held(m, cs) == [c \in DOMAIN cs |-> IF cs[c].at = 0 THEN cs[c].value ELSE m.mem[cs[c].at]]
Open(cs) == \E c \in DOMAIN cs : cs[c].at = 1

(* What is on the stack below the frames, while the program goes on.  Plain:
   the classes whose bodies are open, none with a superclass, and at most one
   superclass that an earlier class left there.  Deriving: the superclass, the
   class and the class again.  Hooked: what __inherit returned, or runs on. *)
Plain ==
    /\ slots = 0 /\ \A i \in 1..Len(bodies) : bodies[i].super = 0
    /\ machine.frames # <<>> => bodies = <<>> /\ machine.frames[1].kind # "hook"
    /\ Ground(machine) \in Len(bodies)..Len(bodies) + 1
    /\ Open(cells) => Ground(machine) = Len(bodies) + 1
    /\ machine.frames = <<>> =>
          \A i \in 1..Len(bodies) : machine.mem[machine.top - Len(bodies) + i] = Class(bodies[i].class)
InDerived == Len(bodies) = 1 /\ bodies[1].super = 1 /\ slots = 1 /\ classes[bodies[1].class].super # 0
Deriving ==
    /\ InDerived /\ machine.frames = <<>> /\ machine.top = 3
    /\ machine.mem[1] = Class(classes[bodies[1].class].super) /\ machine.mem[3] = Class(bodies[1].class)
Hooked ==
    /\ InDerived /\ ~Open(cells)
    /\ classes[classes[bodies[1].class].super].statics["__inherit"] # Unset
    /\ IF machine.frames = <<>> THEN machine.top = 2 /\ machine.mem[2] = Class(bodies[1].class)
       ELSE machine.frames[1].kind = "hook" /\ Ground(machine) = 0

BodiesOK ==
    /\ bodies \in Seq(BodyType) /\ Len(bodies) < Len(classes)
    /\ \A i \in 1..Len(bodies) : bodies[i].class \in 2..Len(classes)
    /\ \A i, j \in 1..Len(bodies) : bodies[i].class = bodies[j].class => i = j
    /\ \A i \in 1..Len(bodies), c \in 1..Len(classes) : classes[c].super # bodies[i].class
    /\ bodies = <<>> => slots = 0
IInv ==
    /\ ClassesOK(classes, machine.insts, Held(machine, cells)) /\ OwnOrInherited(classes)
    /\ MachineOK(machine, classes, Held(machine, cells))
    /\ cells \in Seq(CellType)
    /\ BodiesOK /\ (Open(cells) => machine.top >= 1 \/ bodies = <<>>)
    /\ ~machine.failed => Plain \/ Deriving \/ Hooked


-------------------------------------------------------------------------------
(* Descent. *)
LEMMA DescGrows ==
    ASSUME NEW cl, NEW more, Len(cl) \in Nat, Len(more) \in Nat, Len(cl) <= Len(more),
           \A c \in 1..Len(cl) : more[c].super = cl[c].super /\ cl[c].super \in 0..Len(cl),
           NEW c \in 1..Len(cl), NEW d, Desc(cl, c, d)
    PROVE  Desc(more, c, d)
<1> SUFFICES ASSUME NEW S \in SUBSET (1..Len(more)), c \in S, \A k \in S : more[k].super \in S \cup {0}
             PROVE  d \in S
  BY DEF Desc
<1> DEFINE T == S \cap (1..Len(cl))
<1>1. T \in SUBSET (1..Len(cl)) /\ c \in T
  OBVIOUS
<1>2. ASSUME NEW k \in T PROVE cl[k].super \in T \cup {0}
  BY <1>2
<1>3. d \in T
  BY <1>1, <1>2 DEF Desc
<1> QED  BY <1>3

(* A class descends from what its superclass descends from. *)
LEMMA DescOver ==
    ASSUME NEW cl, NEW c, NEW h \in 1..Len(cl), NEW d, Desc(cl, c, h), cl[h].super # 0, Desc(cl, cl[h].super, d)
    PROVE  Desc(cl, c, d)
<1> SUFFICES ASSUME NEW S \in SUBSET (1..Len(cl)), c \in S, \A k \in S : cl[k].super \in S \cup {0}
             PROVE  d \in S
  BY DEF Desc
<1>1. h \in S
  BY DEF Desc
<1>2. cl[h].super \in S
  BY <1>1
<1> QED  BY <1>2 DEF Desc

(* And from itself. *)
LEMMA DescSelf == \A cl, c : Desc(cl, c, c)
  BY DEF Desc

(* The world grows: more classes, instances and upvalues, the old ones as
   they were but for what the classes and instances have as members.       *)
Grows(cl, is, cv, cl2, is2, cv2) ==
    /\ Len(cl) \in Nat /\ Len(cl2) \in Nat /\ Len(is) \in Nat /\ Len(is2) \in Nat
    /\ Len(cl) <= Len(cl2) /\ Len(is) <= Len(is2)
    /\ \A c \in 1..Len(cl) : cl2[c].super = cl[c].super /\ cl[c].super \in 0..Len(cl)
    /\ \A i \in 1..Len(is) : is2[i].klass = is[i].klass /\ is[i].klass \in 1..Len(cl)
    /\ \A c \in DOMAIN cv : c \in DOMAIN cv2 /\ cv2[c] = cv[c]

(* What a value is stays true of it. *)
LEMMA WorldGrows ==
    ASSUME NEW cl, NEW is, NEW cv, NEW cl2, NEW is2, NEW cv2, Grows(cl, is, cv, cl2, is2, cv2)
    PROVE  /\ \A f : FnOK(cl, cv, f) => FnOK(cl2, cv2, f)
           /\ \A f, v : Suits(cl, is, f, v) => Suits(cl2, is2, f, v)
           /\ \A v : ValueOK(cl, is, cv, v) => ValueOK(cl2, is2, cv2, v)
           /\ \A k, s : \A c \in 1..Len(cl) : StaticOK(cl, is, cv, c, k, s) => StaticOK(cl2, is2, cv2, c, k, s)
<1>1. ASSUME NEW f, FnOK(cl, cv, f) PROVE FnOK(cl2, cv2, f)
  <2>1. f.home \in 1..Len(cl2) /\ cl2[f.home].super = cl[f.home].super
    BY <1>1 DEF FnOK, Grows
  <2> QED  BY <1>1, <2>1 DEF FnOK, Grows
<1>2. ASSUME NEW c \in 1..Len(cl), NEW d, Desc(cl, c, d) PROVE Desc(cl2, c, d)
  BY <1>2, DescGrows DEF Grows
<1>3. ASSUME NEW f, NEW v, Suits(cl, is, f, v) PROVE Suits(cl2, is2, f, v)
  <2>1. v.i \in 1..Len(is2) /\ is2[v.i].klass = is[v.i].klass /\ is[v.i].klass \in 1..Len(cl)
    BY <1>3 DEF Suits, Grows
  <2> QED  BY <1>2, <1>3, <2>1 DEF Suits
<1>4. ASSUME NEW v, ValueOK(cl, is, cv, v) PROVE ValueOK(cl2, is2, cv2, v)
  <2>1. \A c \in 1..Len(cl) : c \in 1..Len(cl2)
    BY DEF Grows
  <2>2. \A i \in 1..Len(is) : i \in 1..Len(is2)
    BY DEF Grows
  <2> QED  BY <1>1, <1>3, <1>4, <2>1, <2>2 DEF ValueOK
<1>5. ASSUME NEW c \in 1..Len(cl), NEW k, NEW s, StaticOK(cl, is, cv, c, k, s)
      PROVE  StaticOK(cl2, is2, cv2, c, k, s)
  BY <1>1, <1>2, <1>4, <1>5 DEF StaticOK
<1> QED  BY <1>1, <1>3, <1>4, <1>5


-------------------------------------------------------------------------------
(* What a statement leaves of the machine: the ground and what is below it,
   the instances' classes, the kind of the first frame.                    *)
Keeps(m, n) ==
    /\ Ground(n) = Ground(m)
    /\ \A p \in Places : p <= Ground(m) => n.mem[p] = m.mem[p]
    /\ Len(m.insts) <= Len(n.insts) /\ \A i \in 1..Len(m.insts) : n.insts[i].klass = m.insts[i].klass
    /\ IF m.frames = <<>> THEN n.frames # <<>> => n.frames[1].kind # "hook"
       ELSE n.frames # <<>> /\ n.frames[1].kind = m.frames[1].kind
    /\ Len(n.frames) <= Len(m.frames) + 1

(* Only values, and only above the stack. *)
Near(m, n) ==
    /\ n.frames = m.frames /\ n.top = m.top /\ n.failed = m.failed
    /\ \A p \in Places : p <= m.top => n.mem[p] = m.mem[p]
    /\ Len(m.insts) <= Len(n.insts) /\ \A i \in 1..Len(m.insts) : n.insts[i].klass = m.insts[i].klass

LEMMA MachineFacts ==
    ASSUME NEW m, NEW cl, NEW cv, MachineOK(m, cl, cv)
    PROVE  /\ m.mem \in [Places -> Values] /\ m.top \in Nat /\ m.x \in Values
           /\ m.insts \in Seq(InstType) /\ Len(m.insts) \in Nat
           /\ m.frames \in Seq(FrameType) /\ Len(m.frames) \in Nat
           /\ Ground(m) \in Nat /\ m.top = Ground(m) + 2 * Len(m.frames) /\ m.top <= Height
           /\ m.frames = <<>> <=> Len(m.frames) = 0
           /\ Places = 1..Height /\ Height \in Nat
<1>1. Places = 1..Height /\ Height \in Nat
  BY ClassAssumption DEF Places, Height
<1> QED  BY <1>1 DEF MachineOK, MachineType

(* A frame's two places are on the stack, those of the last one on top. *)
LEMMA FramePlaces ==
    ASSUME NEW m, NEW cl, NEW cv, MachineOK(m, cl, cv), NEW i \in 1..Len(m.frames)
    PROVE  /\ m.frames[i] \in FrameType /\ m.frames[i].base = Ground(m) + 2 * i - 1
           /\ m.frames[i].base \in Nat /\ m.frames[i].base > Ground(m) /\ m.frames[i].base < m.top
           /\ i = Len(m.frames) => m.frames[i].base + 1 = m.top
           /\ m.frames[i].base \in Places /\ m.frames[i].base + 1 \in Places
<1>1. m.frames[i] \in FrameType /\ m.frames[i].base = Ground(m) + 2 * i - 1
  BY DEF MachineOK, MachineType, FrameOK
<1>2. Ground(m) \in Nat /\ m.top = Ground(m) + 2 * Len(m.frames) /\ Len(m.frames) \in Nat
      /\ m.top <= Height /\ Places = 1..Height /\ Height \in Nat
  BY MachineFacts
<1>3. \A g, l, t, h, j \in Nat : j \in 1..l /\ t = g + 2 * l /\ t <= h =>
          /\ g + 2 * j - 1 \in Nat /\ g + 2 * j - 1 > g /\ g + 2 * j - 1 < t
          /\ j = l => g + 2 * j - 1 + 1 = t
          /\ g + 2 * j - 1 \in 1..h /\ g + 2 * j - 1 + 1 \in 1..h
  OBVIOUS
<1>4. m.top \in Nat
  BY MachineFacts
<1> QED  BY <1>1, <1>2, <1>3, <1>4, SMTT(30)

LEMMA NearKeeps ==
    ASSUME NEW m, NEW cl, NEW cv, MachineOK(m, cl, cv), NEW a, Near(m, a), NEW n, Keeps(a, n)
    PROVE  Keeps(m, n)
<1>1. Ground(a) = Ground(m) /\ Ground(m) <= m.top
  BY MachineFacts DEF Near, Ground
<1>2. \A p \in Places : p <= Ground(m) => p <= m.top
  BY <1>1, MachineFacts
<1>3. \A i \in 1..Len(m.insts) : i \in 1..Len(a.insts)
  BY MachineFacts DEF Near, Keeps
<1>4. Len(m.insts) <= Len(n.insts)
  BY MachineFacts DEF Near, Keeps
<1> QED  BY <1>1, <1>2, <1>3, <1>4 DEF Near, Keeps

LEMMA NearIsKept ==
    ASSUME NEW m, NEW cl, NEW cv, MachineOK(m, cl, cv), NEW n, Near(m, n)
    PROVE  Keeps(m, n)
<1>1. Ground(n) = Ground(m) /\ Ground(m) <= m.top
  BY MachineFacts DEF Near, Ground
<1>2. \A p \in Places : p <= Ground(m) => p <= m.top
  BY <1>1, MachineFacts
<1>3. Len(n.frames) <= Len(m.frames) + 1
  BY MachineFacts DEF Near
<1> QED  BY <1>1, <1>2, <1>3 DEF Near, Keeps


(* A value is put above the stack. *)
Put(m, p, v) == [m EXCEPT !.mem[p] = v]

LEMMA PutKeeps ==
    ASSUME NEW m, NEW cl, NEW cv, MachineOK(m, cl, cv), NEW p \in Nat, p > m.top,
           NEW v \in Values, ValueOK(cl, m.insts, cv, v), NEW n, n = Put(m, p, v)
    PROVE  /\ MachineOK(n, cl, cv) /\ Near(m, n) /\ n.insts = m.insts
           /\ p \in Places => n.mem[p] = v
<1>1. /\ n \in MachineType /\ n.frames = m.frames /\ n.top = m.top /\ n.failed = m.failed /\ n.insts = m.insts
      /\ n.x = m.x /\ n.native = m.native /\ n.mem = [m.mem EXCEPT ![p] = v]
  <2>1. m \in MachineType
    BY DEF MachineOK
  <2> QED  BY <2>1 DEF MachineType, Put
<1>2. \A q \in Places : n.mem[q] = IF q = p THEN v ELSE m.mem[q]
  BY <1>1, MachineFacts
<1>3. Near(m, n) /\ Ground(n) = Ground(m)
  <2>1. \A q \in Places : q <= m.top => q # p
    BY MachineFacts
  <2>2. Len(m.insts) <= Len(n.insts)
    BY <1>1, MachineFacts
  <2> QED  BY <1>1, <1>2, <2>1, <2>2 DEF Near, Ground
<1>4. \A q \in Places : ValueOK(cl, n.insts, cv, n.mem[q])
  BY <1>1, <1>2 DEF MachineOK
<1>5. ASSUME NEW i \in 1..Len(n.frames) PROVE FrameOK(n, cl, cv, i)
  <2>1. FrameOK(m, cl, cv, i) /\ i \in 1..Len(m.frames)
    BY <1>1 DEF MachineOK
  <2>2. n.mem[m.frames[i].base] = m.mem[m.frames[i].base]
    <3>1. m.frames[i].base \in Nat /\ m.frames[i].base < m.top /\ m.frames[i].base \in Places
      BY <2>1, FramePlaces
    <3>2. m.top \in Nat /\ m.mem \in [Places -> Values]
      BY MachineFacts
    <3>3. m.frames[i].base # p
      BY <3>1, <3>2
    <3> QED  BY <1>1, <3>1, <3>2, <3>3
  <2> QED  BY <1>1, <1>3, <2>1, <2>2 DEF FrameOK
<1>6. MachineOK(n, cl, cv)
  BY <1>1, <1>3, <1>4, <1>5 DEF MachineOK
<1> QED  BY <1>1, <1>2, <1>3, <1>6

(* An instance is made. *)
LEMMA InstanceKeeps ==
    ASSUME NEW m, NEW cl, NEW cv, MachineOK(m, cl, cv), NEW c \in 1..Len(cl), Len(cl) \in Nat,
           \A k \in 1..Len(cl) : cl[k].super \in 0..Len(cl),
           NEW n, n = [m EXCEPT !.insts = Append(@, [klass |-> c, fields |-> NoStatics])]
    PROVE  /\ MachineOK(n, cl, cv) /\ Near(m, n) /\ Len(n.insts) = Len(m.insts) + 1
           /\ n.insts[Len(m.insts) + 1].klass = c
<1> DEFINE i == [klass |-> c, fields |-> NoStatics]
<1>1. /\ n.insts = Append(m.insts, i) /\ n.frames = m.frames /\ n.top = m.top /\ n.failed = m.failed
      /\ n.x = m.x /\ n.native = m.native /\ n.mem = m.mem
  BY DEF MachineOK, MachineType
<1>2. i \in InstType /\ i.klass = c /\ \A k \in Keys : i.fields[k] = Unset
  BY DEF InstType, NoStatics
<1> HIDE DEF i
<1>3. n \in MachineType
  <2>1. Append(m.insts, i) \in Seq(InstType)
    BY <1>2, MachineFacts
  <2>2. m \in MachineType
    BY DEF MachineOK
  <2> QED  BY <1>1, <2>1, <2>2 DEF MachineType
<1>4. /\ Len(n.insts) = Len(m.insts) + 1 /\ n.insts[Len(m.insts) + 1] = i
      /\ \A j \in 1..Len(m.insts) : n.insts[j] = m.insts[j]
  BY <1>1, <1>2, MachineFacts, AppendProperties
<1>5. Grows(cl, m.insts, cv, cl, n.insts, cv)
  BY <1>4, MachineFacts DEF Grows, MachineOK
<1>6. Near(m, n) /\ Ground(n) = Ground(m)
  BY <1>1, <1>4, MachineFacts DEF Near, Ground
<1>7. \A j \in 1..Len(n.insts) : /\ n.insts[j].klass \in 1..Len(cl)
                                 /\ \A k \in Keys : ValueOK(cl, n.insts, cv, n.insts[j].fields[k])
  <2>1. ASSUME NEW j \in 1..Len(m.insts), NEW k \in Keys
        PROVE  ValueOK(cl, n.insts, cv, n.insts[j].fields[k])
    BY <1>4, <1>5, WorldGrows DEF MachineOK
  <2>2. \A k \in Keys : ValueOK(cl, n.insts, cv, Unset)
    BY DEF ValueOK, Unset
  <2>3. \A j \in 1..Len(n.insts) : j \in 1..Len(m.insts) \/ j = Len(m.insts) + 1
    BY <1>4, MachineFacts
  <2> QED  BY <1>2, <1>4, <2>1, <2>2, <2>3 DEF MachineOK
<1>8. \A p \in Places : ValueOK(cl, n.insts, cv, n.mem[p])
  BY <1>1, <1>5, WorldGrows DEF MachineOK
<1>9. ValueOK(cl, n.insts, cv, n.x) /\ (n.native # Unset => Suits(cl, n.insts, n.native.fn, n.native.self))
  BY <1>1, <1>5, WorldGrows DEF MachineOK
<1>10. ASSUME NEW j \in 1..Len(n.frames) PROVE FrameOK(n, cl, cv, j)
  <2>1. FrameOK(m, cl, cv, j)
    BY <1>1 DEF MachineOK
  <2>2. Suits(cl, m.insts, m.frames[j].fn, m.mem[m.frames[j].base])
          => Suits(cl, n.insts, m.frames[j].fn, m.mem[m.frames[j].base])
    BY <1>5, WorldGrows
  <2> QED  BY <1>1, <1>6, <2>1, <2>2 DEF FrameOK
<1>11. MachineOK(n, cl, cv)
  BY <1>1, <1>3, <1>6, <1>7, <1>8, <1>9, <1>10 DEF MachineOK
<1> QED  BY <1>2, <1>4, <1>6, <1>11

LEMMA NotEmpty == \A s : Len(s) # 0 => s # <<>>
  OBVIOUS

(* A function is entered, its slot 0 being at base. *)
LEMMA EnteredKeeps ==
    ASSUME NEW m, NEW cl, NEW cv, MachineOK(m, cl, cv), NEW base \in Nat, base = m.top + 1, base + 1 \in Places,
           NEW f \in Fns, FnOK(cl, cv, f), Suits(cl, m.insts, f, m.mem[base]), NEW kind \in {"call", "init"},
           NEW n, n = Entered(m, f, base, kind)
    PROVE  /\ MachineOK(n, cl, cv) /\ Keeps(m, n) /\ Len(n.frames) = Len(m.frames) + 1
<1>0. /\ m.mem \in [Places -> Values] /\ m.top \in Nat /\ m.insts \in Seq(InstType) /\ Len(m.insts) \in Nat
      /\ m.frames \in Seq(FrameType) /\ Len(m.frames) \in Nat /\ Ground(m) \in Nat
      /\ m.top = Ground(m) + 2 * Len(m.frames) /\ (m.frames = <<>> <=> Len(m.frames) = 0)
      /\ m.top <= Height /\ Places = 1..Height /\ Height \in Nat
  BY MachineFacts
<1>p. PICK l \in Nat : l = Len(m.frames)
  BY <1>0
<1>g. PICK g : g = [fn |-> f, base |-> base, kind |-> kind]
  OBVIOUS
<1>1. /\ n.frames = Append(m.frames, g) /\ n.top = base + 1 /\ n.mem = [m.mem EXCEPT ![base + 1] = None]
      /\ n.insts = m.insts /\ n.x = m.x /\ n.native = m.native /\ n.failed = m.failed
  BY <1>g DEF MachineOK, MachineType, Entered
<1>2. g \in FrameType /\ g.fn = f /\ g.base = base /\ g.kind = kind
  BY <1>g DEF FrameType
<1>4. /\ Len(n.frames) = l + 1 /\ n.frames[l + 1] = g /\ \A i \in 1..l : n.frames[i] = m.frames[i]
      /\ n.frames \in Seq(FrameType) /\ n.frames # <<>>
  <2>1. /\ Append(m.frames, g) \in Seq(FrameType) /\ Len(Append(m.frames, g)) = l + 1
        /\ Append(m.frames, g)[l + 1] = g /\ \A i \in 1..l : Append(m.frames, g)[i] = m.frames[i]
    BY ONLY <1>0, <1>2, <1>p, AppendProperties
  <2>2. Append(m.frames, g) # <<>>
    <3>1. l + 1 # 0
      OBVIOUS
    <3> QED  BY ONLY <2>1, <3>1, NotEmpty, Zenon
  <2> QED  BY ONLY <1>1, <2>1, <2>2
<1>3. n \in MachineType
  <2>1. m \in MachineType /\ None \in Values
    BY DEF MachineOK, Values
  <2>2. [m.mem EXCEPT ![base + 1] = None] \in [Places -> Values] /\ base + 1 \in Nat
    BY <1>0, <2>1
  <2>3. n = [m EXCEPT !.frames = n.frames, !.top = n.top, !.mem = n.mem]
    BY <1>1, <1>g, <2>1 DEF Entered, MachineType
  <2> QED  BY ONLY <1>1, <1>4, <2>1, <2>2, <2>3 DEF MachineType
<1>5. Ground(n) = Ground(m)
  <2>1. CASE l = 0
    <3>1. n.frames[1].base = m.top + 1 /\ m.frames = <<>>
      BY <1>0, <1>p, <1>2, <1>4, <2>1
    <3> QED  BY ONLY <1>0, <1>4, <3>1 DEF Ground
  <2>2. CASE l # 0
    <3>1. 1 \in 1..l /\ m.frames # <<>>
      BY <1>0, <1>p, <2>2
    <3>2. n.frames[1] = m.frames[1]
      BY ONLY <1>4, <3>1
    <3> QED  BY ONLY <1>4, <3>1, <3>2 DEF Ground
  <2> QED  BY <2>1, <2>2
<1>6. \A q \in Places : n.mem[q] = IF q = base + 1 THEN None ELSE m.mem[q]
  BY ONLY <1>1, <1>0
<1>7. Keeps(m, n)
  <2>1. \A q \in Places : q <= Ground(m) => q # base + 1
    BY <1>0
  <2>2. m.frames = <<>> => n.frames[1].kind # "hook"
    BY <1>0, <1>p, <1>2, <1>4
  <2>3. m.frames # <<>> => n.frames[1].kind = m.frames[1].kind
    <3>1. m.frames # <<>> => 1 \in 1..l
      BY ONLY <1>0, <1>p
    <3> QED  BY ONLY <1>4, <3>1
  <2>4. Len(m.insts) <= Len(n.insts) /\ Len(n.frames) <= Len(m.frames) + 1
    BY ONLY <1>1, <1>4, <1>0, <1>p
  <2> QED  BY ONLY <1>1, <1>4, <1>5, <1>6, <2>1, <2>2, <2>3, <2>4 DEF Keeps
<1>8. \A q \in Places : ValueOK(cl, n.insts, cv, n.mem[q])
  <2>1. ValueOK(cl, m.insts, cv, None)
    BY DEF ValueOK, None
  <2> QED  BY <1>1, <1>6, <2>1 DEF MachineOK
<1>9. ASSUME NEW i \in 1..l PROVE FrameOK(n, cl, cv, i)
  <2>1. FrameOK(m, cl, cv, i) /\ n.frames[i] = m.frames[i]
    BY <1>4, <1>p DEF MachineOK
  <2>2. n.mem[m.frames[i].base] = m.mem[m.frames[i].base]
    <3>1. m.frames[i].base \in Nat /\ m.frames[i].base < m.top /\ m.frames[i].base \in Places
      BY <1>p, FramePlaces
    <3>2. m.frames[i].base # base + 1
      BY <1>0, <3>1
    <3> QED  BY ONLY <1>6, <3>1, <3>2
  <2> QED  BY <1>1, <1>5, <2>1, <2>2 DEF FrameOK
<1>10. FrameOK(n, cl, cv, l + 1)
  <2>1. base = Ground(n) + 2 * (l + 1) - 1
    BY <1>5, <1>0, <1>p
  <2>2. n.mem[base] = m.mem[base]
    <3>1. base \in Places /\ base # base + 1
      BY <1>0, SMTT(30)
    <3> QED  BY ONLY <1>6, <3>1
  <2> QED  BY <1>1, <1>2, <1>4, <2>1, <2>2 DEF FrameOK
<1>11. n.top = Ground(n) + 2 * Len(n.frames) /\ Ground(n) \in Nat /\ n.top <= Height
  <2>1. base + 1 <= Height
    BY <1>0
  <2>2. base + 1 = Ground(m) + 2 * (l + 1)
    BY <1>0, <1>p
  <2> QED  BY ONLY <1>0, <1>1, <1>4, <1>5, <2>1, <2>2
<1>12. \A i \in 1..Len(n.frames) : FrameOK(n, cl, cv, i)
  <2>1. \A i \in 1..Len(n.frames) : i \in 1..l \/ i = l + 1
    BY <1>4
  <2> QED  BY <1>9, <1>10, <2>1
<1>13. MachineOK(n, cl, cv)
  BY <1>1, <1>3, <1>8, <1>11, <1>12 DEF MachineOK
<1> QED  BY <1>4, <1>7, <1>13, <1>p

(* A statement's result goes to x: of the text, or of the last frame. *)
LEMMA YieldsKeeps ==
    ASSUME NEW m, NEW cl, NEW cv, MachineOK(m, cl, cv), NEW v \in Values, ValueOK(cl, m.insts, cv, v),
           NEW n, n = Yields(m, v)
    PROVE  /\ MachineOK(n, cl, cv) /\ Keeps(m, n)
           /\ n.frames = m.frames /\ n.top = m.top /\ n.failed = m.failed /\ n.insts = m.insts
<1>0. /\ m \in MachineType /\ m.mem \in [Places -> Values] /\ m.top \in Nat /\ Len(m.insts) \in Nat
      /\ m.frames \in Seq(FrameType) /\ Len(m.frames) \in Nat /\ Ground(m) \in Nat
      /\ (m.frames = <<>> <=> Len(m.frames) = 0)
      /\ Len(m.insts) <= Len(m.insts) /\ Len(m.frames) <= Len(m.frames) + 1
  <2>1. Len(m.frames) \in Nat /\ Len(m.insts) \in Nat
    BY MachineFacts
  <2>2. Len(m.insts) <= Len(m.insts) /\ Len(m.frames) <= Len(m.frames) + 1
    BY ONLY <2>1
  <2> QED  BY <2>2, MachineFacts DEF MachineOK
<1>1. CASE m.frames = <<>>
  <2>1. /\ n \in MachineType /\ n.frames = m.frames /\ n.top = m.top /\ n.failed = m.failed /\ n.insts = m.insts
        /\ n.x = v /\ n.native = m.native /\ n.mem = m.mem
    BY <1>0, <1>1 DEF MachineType, Yields
  <2>2. Ground(n) = Ground(m)
    BY <2>1 DEF Ground
  <2>3. Keeps(m, n)
    BY <1>0, <2>1, <2>2 DEF Keeps
  <2>4. MachineOK(n, cl, cv)
    BY <2>1, <2>2 DEF MachineOK, FrameOK
  <2> QED  BY <2>1, <2>3, <2>4
<1>2. CASE m.frames # <<>>
  <2>p. PICK p : p = Frame(m).base + 1
    OBVIOUS
  <2>0. /\ Len(m.frames) \in 1..Len(m.frames) /\ Frame(m) = m.frames[Len(m.frames)]
    BY <1>0, <1>2 DEF Frame
  <2>1. /\ Frame(m).base \in Nat /\ Frame(m).base > Ground(m)
        /\ p = m.top /\ p \in Places /\ p > Ground(m)
    <3>1. /\ Frame(m).base \in Nat /\ Frame(m).base > Ground(m) /\ p = m.top /\ p \in Places
      BY <2>0, <2>p, FramePlaces
    <3> QED  BY ONLY <1>0, <2>p, <3>1
  <2>2. /\ n \in MachineType /\ n.frames = m.frames /\ n.top = m.top /\ n.failed = m.failed /\ n.insts = m.insts
        /\ n.x = m.x /\ n.native = m.native /\ n.mem = [m.mem EXCEPT ![p] = v]
    BY <1>0, <1>2, <2>p DEF MachineType, Yields
  <2>3. \A q \in Places : n.mem[q] = IF q = p THEN v ELSE m.mem[q]
    BY <1>0, <2>2
  <2>4. Ground(n) = Ground(m)
    BY <2>2 DEF Ground
  <2>5. Keeps(m, n)
    <3>1. \A q \in Places : q <= Ground(m) => q # p
      BY ONLY <1>0, <2>1, MachineFacts, MachineOK(m, cl, cv)
    <3> QED  BY <1>0, <2>2, <2>3, <2>4, <3>1 DEF Keeps
  <2>6. \A q \in Places : ValueOK(cl, n.insts, cv, n.mem[q])
    BY <2>2, <2>3 DEF MachineOK
  <2>7. ASSUME NEW i \in 1..Len(n.frames) PROVE FrameOK(n, cl, cv, i)
    <3>1. FrameOK(m, cl, cv, i) /\ i \in 1..Len(m.frames)
      BY <2>2 DEF MachineOK
    <3>2. n.mem[m.frames[i].base] = m.mem[m.frames[i].base]
      <4>1. m.frames[i].base \in Nat /\ m.frames[i].base < m.top /\ m.frames[i].base \in Places
        BY <3>1, FramePlaces
      <4>2. m.frames[i].base # p
        BY ONLY <1>0, <2>1, <4>1
      <4> QED  BY <2>3, <4>1, <4>2
    <3> QED  BY <2>2, <2>4, <3>1, <3>2 DEF FrameOK
  <2>8. MachineOK(n, cl, cv)
    BY <2>2, <2>4, <2>6, <2>7 DEF MachineOK
  <2> QED  BY <2>2, <2>5, <2>8
<1> QED  BY <1>1, <1>2

(* A C function runs. *)
LEMMA RanKeeps ==
    ASSUME NEW m, NEW cl, NEW cv, MachineOK(m, cl, cv), NEW v \in Values, ValueOK(cl, m.insts, cv, v),
           NEW f \in CFns, NEW s \in Values, Suits(cl, m.insts, f, s), NEW n, n = Ran(m, f, s, v)
    PROVE  /\ MachineOK(n, cl, cv) /\ Keeps(m, n)
           /\ n.frames = m.frames /\ n.top = m.top /\ n.failed = m.failed /\ n.insts = m.insts
<1>p. PICK r : r = [m EXCEPT !.native = [fn |-> f, self |-> s]]
  OBVIOUS
<1>1. /\ r \in MachineType /\ r.frames = m.frames /\ r.top = m.top /\ r.failed = m.failed /\ r.insts = m.insts
      /\ r.x = m.x /\ r.native.fn = f /\ r.native.self = s /\ r.mem = m.mem
  BY <1>p DEF MachineType, MachineOK
<1>2. Ground(r) = Ground(m)
  BY <1>1 DEF Ground
<1>3. MachineOK(r, cl, cv)
  BY <1>1, <1>2 DEF MachineOK, FrameOK
<1>4. n = Yields(r, v) /\ ValueOK(cl, r.insts, cv, v)
  BY <1>1, <1>p DEF Ran
<1>5. /\ MachineOK(n, cl, cv) /\ Keeps(r, n)
      /\ n.frames = r.frames /\ n.top = r.top /\ n.failed = r.failed /\ n.insts = r.insts
  BY ONLY <1>3, <1>4, v \in Values, YieldsKeeps
<1>6. Keeps(m, n)
  BY <1>1, <1>2, <1>5 DEF Keeps
<1> QED  BY <1>1, <1>5, <1>6

(* An error ends the program. *)
LEMMA FailsKeeps ==
    ASSUME NEW m, NEW cl, NEW cv, MachineOK(m, cl, cv), NEW n, n = Fails(m)
    PROVE  MachineOK(n, cl, cv) /\ Keeps(m, n) /\ n.insts = m.insts
<1>1. /\ n \in MachineType /\ n.frames = m.frames /\ n.top = m.top /\ n.insts = m.insts
      /\ n.x = m.x /\ n.native = m.native /\ n.mem = m.mem
  BY DEF MachineType, MachineOK, Fails
<1>2. Ground(n) = Ground(m)
  BY <1>1 DEF Ground
<1>3. MachineOK(n, cl, cv)
  BY <1>1, <1>2 DEF MachineOK, FrameOK
<1>4. Keeps(m, n)
  BY <1>1, <1>2, MachineFacts DEF Keeps
<1> QED  BY <1>1, <1>3, <1>4

-------------------------------------------------------------------------------
(* Calls. *)
LEMMA ValueKinds ==
    /\ \A v \in Values : /\ v \in Members /\ v # Unset
                         /\ v.is \in {"none", "inst", "class", "bound"}
                         /\ v.is = "inst" => v.i \in Nat /\ v = Inst(v.i)
                         /\ v.is = "class" => v.c \in Nat /\ v = Class(v.c)
                         /\ v.is = "bound" => v.self \in Selves /\ v.self \in Values /\ v.fn \in Fns
    /\ \A s \in Members : /\ s.is = "fn" => s \in Fns
                          /\ s.is = "native" => s \in CFns
                          /\ s.is = "unset" <=> s = Unset
                          /\ s.is \notin {"fn", "native", "unset"} => s \in Values
    /\ None \in Values /\ \A i \in Nat : Inst(i) \in Values /\ Inst(i).i = i /\ Inst(i).is = "inst"
    /\ \A c \in Nat : Class(c) \in Values /\ Class(c).c = c /\ Class(c).is = "class"
<1>1. \A v \in Values : /\ v \in Members /\ v # Unset
                        /\ v.is \in {"none", "inst", "class", "bound"}
                        /\ v.is = "inst" => v.i \in Nat /\ v = Inst(v.i)
                        /\ v.is = "class" => v.c \in Nat /\ v = Class(v.c)
                        /\ v.is = "bound" => v.self \in Selves /\ v.self \in Values /\ v.fn \in Fns
  BY DEF Values, Members, None, Unset, Inst, Class, Selves
<1>2. \A s \in Members : /\ s.is = "fn" => s \in Fns
                         /\ s.is = "native" => s \in CFns
                         /\ s.is = "unset" <=> s = Unset
                         /\ s.is \notin {"fn", "native", "unset"} => s \in Values
  BY <1>1 DEF Members, Unset, Fns, CFns
<1>3. /\ None \in Values /\ \A i \in Nat : Inst(i) \in Values /\ Inst(i).i = i /\ Inst(i).is = "inst"
      /\ \A c \in Nat : Class(c) \in Values /\ Class(c).c = c /\ Class(c).is = "class"
  BY DEF Values, None, Inst, Class, Selves
<1> QED  BY <1>1, <1>2, <1>3

LEMMA StaticFacts ==
    ASSUME NEW cl, NEW is, NEW cv, ClassesOK(cl, is, cv), NEW c \in 1..Len(cl), NEW k \in Keys
    PROVE  /\ cl[c].statics[k] \in Members /\ StaticOK(cl, is, cv, c, k, cl[c].statics[k])
           /\ cl[c] \in ClassType /\ Len(cl) \in Nat /\ \A b \in 1..Len(cl) : cl[b].super \in 0..Len(cl)
<1>1. cl[c] \in ClassType /\ Len(cl) \in Nat
  BY DEF ClassesOK
<1>2. cl[c].statics[k] \in Members
  BY <1>1 DEF ClassType
<1>3. ASSUME NEW b \in 1..Len(cl) PROVE cl[b].super \in 0..Len(cl)
  <2>1. cl[b] \in ClassType /\ cl[b].super < b
    BY DEF ClassesOK
  <2>2. cl[b].super \in Nat
    BY <2>1 DEF ClassType
  <2> QED  BY <1>1, <2>1, <2>2
<1> QED  BY <1>1, <1>2, <1>3 DEF ClassesOK

(* A statement from m reaches n. *)
Reaches(m, n, cv) == MachineOK(n, classes, cv) /\ Keeps(m, n)

(* A class is called: an instance is made, its initializer runs. *)
LEMMA NewKeeps ==
    ASSUME NEW m, NEW cv, MachineOK(m, classes, cv), ClassesOK(classes, m.insts, cv), NEW c \in 1..Len(classes),
           NEW base \in Nat, base = m.top + 1, base + 1 \in Places
    PROVE  Reaches(m, New(m, c, base), cv)
<1>0. /\ Len(classes) \in Nat /\ \A b \in 1..Len(classes) : classes[b].super \in 0..Len(classes)
      /\ classes[c].statics["__init"] \in Members /\ "__init" \in Keys
      /\ StaticOK(classes, m.insts, cv, c, "__init", classes[c].statics["__init"])
  <2>1. "__init" \in Keys
    BY DEF Keys, Hooks
  <2> QED  BY <2>1, StaticFacts
<1>m. /\ m.mem \in [Places -> Values] /\ m.top \in Nat /\ Len(m.insts) \in Nat /\ m \in MachineType
      /\ base \in Places /\ base > m.top
  <2>1. m.top \in Nat /\ Places = 1..Height /\ Height \in Nat
    BY MachineFacts
  <2>2. base \in Places /\ base > m.top
    BY <2>1
  <2> QED  BY <2>2, MachineFacts DEF MachineOK
<1>p. PICK i \in Nat : i = Len(m.insts) + 1
  BY <1>m
<1>q. PICK a : a = [m EXCEPT !.insts = Append(@, [klass |-> c, fields |-> NoStatics])]
  OBVIOUS
<1>1. /\ MachineOK(a, classes, cv) /\ Near(m, a) /\ Len(a.insts) = i
      /\ a.insts[i].klass = c
  BY ONLY <1>0, <1>p, <1>q, MachineOK(m, classes, cv), c \in 1..Len(classes), InstanceKeeps
<1>2. a.top = m.top /\ a.frames = m.frames /\ a.failed = m.failed
  BY <1>1 DEF Near
<1>r. PICK n : n = Put(a, base, Inst(i))
  OBVIOUS
<1>3. /\ MachineOK(n, classes, cv) /\ Near(a, n) /\ n.insts = a.insts /\ n.mem[base] = Inst(i)
  <2>1. Inst(i) \in Values /\ ValueOK(classes, a.insts, cv, Inst(i))
    BY <1>1, <1>p, ValueKinds DEF ValueOK
  <2>2. base > a.top /\ base \in Places
    BY <1>m, <1>2
  <2> QED  BY ONLY <1>1, <1>r, <2>1, <2>2, base \in Nat, PutKeeps
<1>4. Near(m, n)
  <2>1. Len(m.insts) <= Len(n.insts)
    BY <1>1, <1>3, <1>p, <1>m
  <2>2. \A j \in 1..Len(m.insts) : n.insts[j].klass = m.insts[j].klass
    BY <1>1, <1>3 DEF Near
  <2> QED  BY <1>1, <1>3, <2>1, <2>2 DEF Near
<1>5. n = [m EXCEPT !.insts = Append(@, [klass |-> c, fields |-> NoStatics]), !.mem[base] = Inst(i)]
  BY <1>q, <1>r, <1>m DEF MachineType, Put
<1> DEFINE f == classes[c].statics["__init"]
<1>6. New(m, c, base) = CASE f.is = "fn"     -> Entered(n, f, base, "init")
                          [] f.is = "native" -> Ran(n, f, Inst(i), Inst(i))
                          [] OTHER           -> Yields(n, Inst(i))
  BY <1>5, <1>p DEF New
<1>7. /\ Inst(i) \in Values /\ ValueOK(classes, n.insts, cv, Inst(i)) /\ Inst(i).i = i /\ Inst(i).is = "inst"
      /\ i \in 1..Len(n.insts) /\ n.insts[i].klass = c
  BY <1>1, <1>3, <1>p, ValueKinds DEF ValueOK
<1>8. Desc(classes, c, f.home) => Suits(classes, n.insts, f, Inst(i))
  BY <1>7 DEF Suits
<1>9. CASE f.is = "fn"
  <2>1. f \in Fns /\ FnOK(classes, cv, f) /\ Suits(classes, n.insts, f, n.mem[base])
    BY <1>0, <1>3, <1>8, <1>9, ValueKinds DEF StaticOK
  <2>2. New(m, c, base) = Entered(n, f, base, "init") /\ base = n.top + 1
    BY <1>4, <1>6, <1>9 DEF Near
  <2> HIDE DEF f
  <2>3. Reaches(n, New(m, c, base), cv)
    BY ONLY <1>3, <2>1, <2>2, base \in Nat, base + 1 \in Places, EnteredKeeps DEF Reaches
  <2> QED  BY <1>4, <2>3, NearKeeps DEF Reaches
<1>10. CASE f.is = "native"
  <2>1. f \in CFns /\ Suits(classes, n.insts, f, Inst(i))
    BY <1>0, <1>8, <1>10, ValueKinds DEF StaticOK
  <2>2. New(m, c, base) = Ran(n, f, Inst(i), Inst(i))
    BY <1>6, <1>10
  <2> HIDE DEF f
  <2>3. Reaches(n, New(m, c, base), cv)
    BY ONLY <1>3, <1>7, <2>1, <2>2, RanKeeps DEF Reaches
  <2> QED  BY <1>4, <2>3, NearKeeps DEF Reaches
<1>11. CASE f.is # "fn" /\ f.is # "native"
  <2>2. New(m, c, base) = Yields(n, Inst(i))
    BY <1>6, <1>11
  <2>3. Reaches(n, New(m, c, base), cv)
    BY ONLY <1>3, <1>7, <2>2, YieldsKeeps DEF Reaches
  <2> QED  BY <1>4, <2>3, NearKeeps DEF Reaches
<1> QED  BY <1>9, <1>10, <1>11

(* A value is called, itself or what is called in its place in slot 0. *)
LEMMA CallValueKeeps ==
    ASSUME NEW m, NEW cv, MachineOK(m, classes, cv), ClassesOK(classes, m.insts, cv),
           NEW base \in Nat, base = m.top + 1, base + 1 \in Places,
           NEW v \in Values \cup {Unset}, ValueOK(classes, m.insts, cv, v), v.is = "inst" => m.mem[base] = v
    PROVE  Reaches(m, CallValue(m, v, base), cv)
<1>0. /\ m.mem \in [Places -> Values] /\ m.top \in Nat /\ base > m.top /\ m \in MachineType
      /\ m.insts \in Seq(InstType)
  <2>1. m.top \in Nat
    BY MachineFacts
  <2>2. base > m.top
    BY <2>1
  <2> QED  BY <2>2, MachineFacts DEF MachineOK
<1>1. CASE v.is = "bound"
  <2>1. v.self \in Values /\ v.fn \in Fns /\ FnOK(classes, cv, v.fn) /\ Suits(classes, m.insts, v.fn, v.self)
        /\ v.self \in Selves
    BY <1>1, ValueKinds DEF ValueOK, Unset
  <2>2. ValueOK(classes, m.insts, cv, v.self)
    BY <2>1 DEF ValueOK, Suits, Selves
  <2>p. PICK a : a = Put(m, base, v.self)
    OBVIOUS
  <2>3. MachineOK(a, classes, cv) /\ Near(m, a) /\ a.insts = m.insts /\ a.mem[base] = v.self
    <3>1. /\ MachineOK(a, classes, cv) /\ Near(m, a) /\ a.insts = m.insts
          /\ base \in Places => a.mem[base] = v.self
      BY ONLY <2>1, <2>2, <2>p, <1>0, MachineOK(m, classes, cv), base \in Nat, PutKeeps
    <3>2. base \in Places
      BY <1>0, MachineFacts
    <3> QED  BY <3>1, <3>2
  <2>4. CallValue(m, v, base) = Entered(a, v.fn, base, "call") /\ base = a.top + 1
    BY <1>1, <2>3, <2>p DEF CallValue, Put, Near
  <2>5. Suits(classes, a.insts, v.fn, a.mem[base])
    BY <2>1, <2>3
  <2>6. Reaches(a, CallValue(m, v, base), cv)
    BY ONLY <2>1, <2>3, <2>4, <2>5, base \in Nat, base + 1 \in Places, EnteredKeeps DEF Reaches
  <2> QED  BY <2>3, <2>6, NearKeeps DEF Reaches
<1>2. CASE v.is = "class"
  <2>1. CallValue(m, v, base) = New(m, v.c, base) /\ v.c \in 1..Len(classes)
    BY <1>2 DEF CallValue, ValueOK
  <2> QED  BY <2>1, NewKeeps
<1>3. CASE v.is = "inst"
  <2>1. v.i \in 1..Len(m.insts) /\ m.insts[v.i].klass \in 1..Len(classes) /\ v \in Values
    BY <1>3 DEF ValueOK, MachineOK, Unset
  <2>p. PICK f : f = classes[m.insts[v.i].klass].statics["__call"]
    OBVIOUS
  <2>2. f \in Members /\ StaticOK(classes, m.insts, cv, m.insts[v.i].klass, "__call", f)
    <3>1. "__call" \in Keys
      BY DEF Keys, Hooks
    <3> QED  BY <2>1, <2>p, <3>1, StaticFacts
  <2>3. CallValue(m, v, base) = CASE f.is = "fn"     -> Entered(m, f, base, "call")
                                  [] f.is = "native" -> Ran(m, f, v, None)
                                  [] OTHER           -> Fails(m)
    BY <1>3, <2>p DEF CallValue
  <2>4. CASE f.is = "fn"
    <3>1. f \in Fns /\ FnOK(classes, cv, f) /\ Suits(classes, m.insts, f, m.mem[base])
      BY <1>3, <2>1, <2>2, <2>4, ValueKinds DEF StaticOK, Suits
    <3>2. CallValue(m, v, base) = Entered(m, f, base, "call")
      BY <2>3, <2>4
    <3> QED  BY ONLY <3>1, <3>2, MachineOK(m, classes, cv), base = m.top + 1, base \in Nat, base + 1 \in Places,
                     EnteredKeeps DEF Reaches
  <2>5. CASE f.is = "native"
    <3>1. f \in CFns /\ Suits(classes, m.insts, f, v)
      BY <1>3, <2>1, <2>2, <2>5, ValueKinds DEF StaticOK, Suits
    <3>2. CallValue(m, v, base) = Ran(m, f, v, None)
      BY <2>3, <2>5
    <3>3. None \in Values /\ ValueOK(classes, m.insts, cv, None)
      BY ValueKinds DEF ValueOK, None
    <3> QED  BY ONLY <2>1, <3>1, <3>2, <3>3, MachineOK(m, classes, cv), RanKeeps DEF Reaches
  <2>6. CASE f.is # "fn" /\ f.is # "native"
    BY <2>3, <2>6, FailsKeeps DEF Reaches
  <2> QED  BY <2>4, <2>5, <2>6
<1>4. CASE v.is \notin {"bound", "class", "inst"}
  <2>1. v.is # "fn" /\ v.is # "native"
    BY ValueKinds DEF Unset
  <2>2. CallValue(m, v, base) = Fails(m)
    BY <1>4, <2>1 DEF CallValue
  <2> QED  BY <2>2, FailsKeeps DEF Reaches
<1> QED  BY <1>1, <1>2, <1>3, <1>4

(* A static of class c is called with an instance of it in slot 0. *)
LEMMA InvokeStaticKeeps ==
    ASSUME NEW m, NEW cv, MachineOK(m, classes, cv), ClassesOK(classes, m.insts, cv),
           NEW base \in Nat, base = m.top + 1, base + 1 \in Places,
           NEW c \in 1..Len(classes), NEW k \in Keys, NEW self \in Values,
           self.is = "inst", self.i \in 1..Len(m.insts), m.mem[base] = self,
           \A d : Desc(classes, c, d) => Desc(classes, m.insts[self.i].klass, d)
    PROVE  Reaches(m, InvokeStatic(m, classes[c].statics[k], base, self), cv)
<1>p. PICK s : s = classes[c].statics[k]
  OBVIOUS
<1>1. s \in Members /\ StaticOK(classes, m.insts, cv, c, k, s)
  BY <1>p, StaticFacts
<1>2. Desc(classes, c, s.home) => Suits(classes, m.insts, s, self)
  BY DEF Suits
<1>3. CASE s.is = "fn"
  <2>1. s \in Fns /\ FnOK(classes, cv, s) /\ Suits(classes, m.insts, s, m.mem[base])
    BY <1>1, <1>2, <1>3, ValueKinds DEF StaticOK
  <2>2. InvokeStatic(m, s, base, self) = Entered(m, s, base, "call")
    BY <1>3 DEF InvokeStatic
  <2> QED  BY ONLY <1>p, <2>1, <2>2, MachineOK(m, classes, cv), base = m.top + 1, base \in Nat,
                   base + 1 \in Places, EnteredKeeps DEF Reaches
<1>4. CASE s.is = "native"
  <2>1. s \in CFns /\ Suits(classes, m.insts, s, self)
    BY <1>1, <1>2, <1>4, ValueKinds DEF StaticOK
  <2>2. InvokeStatic(m, s, base, self) = Ran(m, s, self, None)
    BY <1>4 DEF InvokeStatic
  <2>3. None \in Values /\ ValueOK(classes, m.insts, cv, None)
    BY ValueKinds DEF ValueOK, None
  <2> QED  BY ONLY <1>p, <2>1, <2>2, <2>3, self \in Values, MachineOK(m, classes, cv), RanKeeps DEF Reaches
<1>5. CASE s.is # "fn" /\ s.is # "native"
  <2>1. s \in Values \cup {Unset} /\ ValueOK(classes, m.insts, cv, s) /\ s.is # "inst"
    BY <1>1, <1>5, ValueKinds DEF StaticOK
  <2>2. InvokeStatic(m, s, base, self) = CallValue(m, s, base)
    BY <1>5 DEF InvokeStatic
  <2> QED  BY <1>p, <2>1, <2>2, CallValueKeeps
<1> QED  BY <1>3, <1>4, <1>5

-------------------------------------------------------------------------------
(* Statements. *)
Hooking(m) == m.frames # <<>> /\ m.frames[1].kind = "hook"
Kept(m, n) ==
    /\ Ground(n) = Ground(m)
    /\ \A p \in Places : p <= Ground(m) => n.mem[p] = m.mem[p]
    /\ Len(m.insts) <= Len(n.insts) /\ \A i \in 1..Len(m.insts) : n.insts[i].klass = m.insts[i].klass
    /\ Hooking(n) <=> Hooking(m)

LEMMA KeepsIsKept ==
    ASSUME NEW m, NEW n, Keeps(m, n)
    PROVE  Kept(m, n)
  BY DEF Keeps, Kept, Hooking

(* The upvalues have the values they had, unless one is open and its place
   of the stack is written.                                                *)
LEMMA HeldKept ==
    ASSUME NEW m, NEW n, NEW cs, cs \in Seq(CellType), Open(cs) => n.mem[1] = m.mem[1]
    PROVE  Held(n, cs) = Held(m, cs)
<1>1. \A c \in DOMAIN cs : cs[c].at = 0 \/ cs[c].at = 1
  <2>1. \A c \in DOMAIN cs : cs[c] \in CellType
    OBVIOUS
  <2> QED  BY <2>1 DEF CellType
<1>2. \A c \in DOMAIN cs : cs[c].at = 1 => n.mem[1] = m.mem[1]
  BY DEF Open
<1> QED  BY <1>1, <1>2 DEF Held

(* When a statement can run, no derived class is being declared, unless its
   hook runs; the stack has room for a call.                               *)
LEMMA StatementFacts ==
    ASSUME IInv, Statement
    PROVE  /\ MachineOK(machine, classes, Held(machine, cells))
           /\ ClassesOK(classes, machine.insts, Held(machine, cells))
           /\ \/ Plain /\ bodies = <<>> /\ ~Hooking(machine)
              \/ Hooked /\ Hooking(machine)
           /\ Ground(machine) <= MaxClasses
           /\ Open(cells) => Ground(machine) = 1
           /\ HasRoom => machine.top + 1 + 1 \in Places
<1>1. /\ MachineOK(machine, classes, Held(machine, cells)) /\ BodiesOK
      /\ ClassesOK(classes, machine.insts, Held(machine, cells))
  BY DEF IInv
<1>2. /\ Ground(machine) \in Nat /\ machine.top = Ground(machine) + 2 * Len(machine.frames)
      /\ Places = 1..Height /\ Len(machine.frames) \in Nat
  BY <1>1, MachineFacts
<1>3. Len(bodies) \in Nat /\ Len(classes) \in Nat /\ Len(bodies) < Len(classes) /\ Len(classes) <= MaxClasses
      /\ MaxClasses \in Nat /\ MaxFrames \in Nat /\ (bodies = <<>> => Len(bodies) = 0)
      /\ (Len(bodies) = 1 => bodies # <<>>)
  <2>1. Len(bodies) \in Nat /\ Len(bodies) < Len(classes)
    BY <1>1 DEF BodiesOK
  <2>2. Len(classes) \in Nat /\ Len(classes) <= MaxClasses /\ MaxClasses \in Nat /\ MaxFrames \in Nat
    BY <1>1, ClassAssumption DEF ClassesOK
  <2> QED  BY <2>1, <2>2
<1>4. /\ \/ Plain /\ bodies = <<>> /\ ~Hooking(machine)
         \/ Hooked /\ Hooking(machine)
      /\ Ground(machine) <= MaxClasses
      /\ Open(cells) => Ground(machine) = 1
  <2>1. CASE Plain
    <3>1. bodies = <<>> /\ ~Hooking(machine)
      BY <2>1 DEF Plain, Statement, Hooking
    <3>2. Len(bodies) = 0 /\ Ground(machine) \in 0..1 /\ (Open(cells) => Ground(machine) = 1)
      BY <1>3, <2>1, <3>1 DEF Plain
    <3> QED  BY <1>2, <1>3, <2>1, <3>1, <3>2
  <2>2. CASE Deriving
    BY <1>3, <2>2 DEF Deriving, InDerived, Statement
  <2>3. CASE Hooked
    <3>1. Hooking(machine) /\ Ground(machine) = 0 /\ ~Open(cells)
      BY <1>3, <2>3 DEF Hooked, InDerived, Statement, Hooking
    <3> QED  BY <1>3, <2>3, <3>1
  <2> QED  BY <2>1, <2>2, <2>3 DEF IInv, Statement
<1>5. HasRoom => machine.top + 1 + 1 \in Places
  <2> SUFFICES ASSUME Len(machine.frames) < MaxFrames
               PROVE  machine.top + 1 + 1 \in Places
    BY DEF HasRoom
  <2> QED  BY <1>2, <1>3, <1>4, SMTT(30) DEF Height
<1> QED  BY <1>1, <1>4, <1>5

LEMMA StatementKeeps ==
    ASSUME IInv, Statement, UNCHANGED <<classes, bodies, slots, cells>>,
           MachineOK(machine', classes, Held(machine, cells)), Kept(machine, machine')
    PROVE  IInv'
<1>f. /\ MachineOK(machine, classes, Held(machine, cells)) /\ cells \in Seq(CellType)
      /\ ClassesOK(classes, machine.insts, Held(machine, cells)) /\ OwnOrInherited(classes)
      /\ \/ Plain /\ bodies = <<>> /\ ~Hooking(machine)
         \/ Hooked /\ Hooking(machine)
      /\ Open(cells) => Ground(machine) = 1
      /\ BodiesOK
  BY StatementFacts DEF IInv
<1>1. Held(machine', cells) = Held(machine, cells)
  <2>1. 1 \in Places
    BY <1>f, MachineFacts, ClassAssumption DEF Height
  <2>2. Open(cells) => (machine').mem[1] = machine.mem[1]
    BY <1>f, <2>1 DEF Kept
  <2> QED  BY <1>f, <2>2, HeldKept
<1>2. ClassesOK(classes, (machine').insts, Held(machine, cells))
  <2>1. Grows(classes, machine.insts, Held(machine, cells), classes, (machine').insts, Held(machine, cells))
    <3>1. Len(classes) \in Nat /\ Len(classes) <= Len(classes)
      BY <1>f DEF ClassesOK
    <3>2. \A c \in 1..Len(classes) : classes[c].super \in 0..Len(classes)
      <4>1. "__init" \in Keys
        BY DEF Keys, Hooks
      <4> QED  BY <1>f, <4>1, StaticFacts
    <3>3. /\ Len(machine.insts) \in Nat /\ Len((machine').insts) \in Nat
          /\ \A i \in 1..Len(machine.insts) : machine.insts[i].klass \in 1..Len(classes)
      BY <1>f, MachineFacts DEF MachineOK
    <3> QED  BY <3>1, <3>2, <3>3 DEF Grows, Kept
  <2> QED  BY <1>f, <2>1, WorldGrows DEF ClassesOK
<1>3. BodiesOK' /\ Open(cells)' = Open(cells)
  BY <1>f DEF BodiesOK, Open
<1>4. (Open(cells) => machine.top >= 1 \/ bodies = <<>>)'
  BY <1>f, <1>3 DEF Hooked
<1>5. (Plain \/ Deriving \/ Hooked)'
  <2>1. CASE Plain /\ bodies = <<>> /\ ~Hooking(machine)
    <3>1. Ground(machine') \in Len(bodies)..Len(bodies) + 1 /\ (Open(cells) => Ground(machine') = Len(bodies) + 1)
      BY <2>1 DEF Plain, Kept
    <3>2. ~Hooking(machine')
      BY <2>1 DEF Kept
    <3> QED  BY <1>3, <2>1, <3>1, <3>2 DEF Plain, Hooking
  <2>2. CASE Hooked /\ Hooking(machine)
    <3>1. Hooking(machine') /\ Ground(machine') = 0
      BY <2>2 DEF Kept, Hooked, Hooking
    <3> QED  BY <1>3, <2>2, <3>1 DEF Hooked, InDerived, Hooking
  <2> QED  BY <1>f, <2>1, <2>2
<1> QED  BY <1>f, <1>1, <1>2, <1>3, <1>4, <1>5 DEF IInv

LEMMA StatementReaches ==
    ASSUME IInv, Statement, Took, Reaches(machine, machine', Held(machine, cells))
    PROVE  IInv'
  BY StatementKeeps, KeepsIsKept DEF Took, Reaches

LEMMA FromNear ==
    ASSUME NEW m, NEW a, NEW n, NEW cv, MachineOK(m, classes, cv), Near(m, a), Reaches(a, n, cv)
    PROVE  Reaches(m, n, cv)
  BY NearKeeps DEF Reaches

LEMMA AtKeeps ==
    ASSUME NEW m, NEW cl, NEW cv, MachineOK(m, cl, cv), m.top + 1 + 1 \in Places,
           NEW v \in Values, ValueOK(cl, m.insts, cv, v)
    PROVE  /\ MachineOK(At(m, v), cl, cv) /\ Near(m, At(m, v)) /\ At(m, v).insts = m.insts
           /\ At(m, v).top = m.top /\ At(m, v).mem[m.top + 1] = v
           /\ m.top + 1 \in Nat
<1>1. At(m, v) = Put(m, m.top + 1, v)
  BY DEF At, Put
<1>2. m.top + 1 \in Nat /\ m.top + 1 > m.top /\ m.top + 1 \in Places
  <2>1. m.top \in Nat /\ Places = 1..Height /\ Height \in Nat
    BY MachineFacts
  <2> QED  BY <2>1
<1>3. /\ MachineOK(At(m, v), cl, cv) /\ Near(m, At(m, v)) /\ At(m, v).insts = m.insts
      /\ m.top + 1 \in Places => At(m, v).mem[m.top + 1] = v
  BY ONLY <1>1, <1>2, MachineOK(m, cl, cv), v \in Values, ValueOK(cl, m.insts, cv, v), PutKeeps
<1> QED  BY <1>2, <1>3 DEF Near

(* The frame that runs: its function fits slot 0, or is a hook. *)
LEMMA RunningFacts ==
    ASSUME NEW m, NEW cl, NEW cv, MachineOK(m, cl, cv), m.frames # <<>>
    PROVE  /\ Frame(m) \in FrameType /\ Frame(m).base \in Places /\ Frame(m).base + 1 \in Places
           /\ Self(m) \in Values /\ ValueOK(cl, m.insts, cv, Self(m))
           /\ FnOK(cl, cv, Frame(m).fn)
           /\ Frame(m).kind = "hook" => Frame(m).fn.cell = 0 /\ Len(m.frames) = 1
           /\ Frame(m).kind # "hook" => Suits(cl, m.insts, Frame(m).fn, Self(m))
           /\ Frame(m).base + 1 = m.top /\ Frame(m).base = Ground(m) + 2 * Len(m.frames) - 1
<1>1. Len(m.frames) \in 1..Len(m.frames) /\ m.mem \in [Places -> Values]
  BY MachineFacts
<1>2. /\ Frame(m) \in FrameType /\ Frame(m).base \in Places /\ Frame(m).base + 1 \in Places
      /\ Frame(m).base + 1 = m.top /\ Frame(m).base = Ground(m) + 2 * Len(m.frames) - 1
  BY <1>1, FramePlaces DEF Frame
<1>3. Self(m) \in Values /\ ValueOK(cl, m.insts, cv, Self(m))
  BY <1>1, <1>2 DEF Self, MachineOK
<1>4. FrameOK(m, cl, cv, Len(m.frames))
  BY <1>1 DEF MachineOK
<1> QED  BY <1>2, <1>3, <1>4 DEF FrameOK, Frame, Self

LEMMA OperandFacts ==
    ASSUME NEW cv, MachineOK(machine, classes, cv), ClassesOK(classes, machine.insts, cv), NEW r \in Operands
    PROVE  r \in Values /\ ValueOK(classes, machine.insts, cv, r)
<1>1. CASE r = X(machine)
  <2>1. CASE machine.frames = <<>>
    BY <1>1, <2>1, MachineFacts DEF X, MachineOK
  <2>2. CASE machine.frames # <<>>
    <3>1. X(machine) = machine.mem[Frame(machine).base + 1] /\ Frame(machine).base + 1 \in Places
      BY <2>2, RunningFacts DEF X
    <3> QED  BY <1>1, <3>1, MachineFacts DEF MachineOK
  <2> QED  BY <2>1, <2>2
<1>2. ASSUME NEW c \in DOMAIN classes, r = Class(c)
      PROVE  r \in Values /\ ValueOK(classes, machine.insts, cv, r)
  <2>1. c \in 1..Len(classes) /\ c \in Nat
    BY DEF ClassesOK
  <2> QED  BY <1>2, <2>1, ValueKinds DEF ValueOK
<1>3. CASE machine.frames # <<>> /\ r = Self(machine)
  BY <1>3, RunningFacts
<1> QED  BY <1>1, <1>2, <1>3 DEF Operands

LEMMA CallStep ==
    ASSUME IInv, NEW r \in Operands, Call(r)
    PROVE  IInv'
<1>p. PICK cv : cv = Held(machine, cells)
  OBVIOUS
<1>1. /\ Statement /\ HasRoom /\ Took /\ machine' = CallValue(At(machine, r), r, machine.top + 1)
      /\ MachineOK(machine, classes, cv) /\ ClassesOK(classes, machine.insts, cv)
      /\ machine.top + 1 + 1 \in Places
  BY <1>p, StatementFacts DEF Call
<1>2. r \in Values /\ ValueOK(classes, machine.insts, cv, r)
  BY <1>1, OperandFacts
<1>3. /\ MachineOK(At(machine, r), classes, cv) /\ Near(machine, At(machine, r))
      /\ At(machine, r).insts = machine.insts /\ At(machine, r).top = machine.top
      /\ At(machine, r).mem[machine.top + 1] = r /\ machine.top + 1 \in Nat
  BY ONLY <1>1, <1>2, AtKeeps
<1>4. Reaches(At(machine, r), machine', cv)
  BY ONLY <1>1, <1>2, <1>3, CallValueKeeps
<1> QED  BY <1>p, <1>1, <1>3, <1>4, FromNear, StatementReaches

LEMMA MemberFacts ==
    ASSUME NEW cv, MachineOK(machine, classes, cv), NEW i \in 1..Len(machine.insts), NEW k \in Keys
    PROVE  /\ machine.insts[i].fields[k] \in Values \cup {Unset}
           /\ ValueOK(classes, machine.insts, cv, machine.insts[i].fields[k])
           /\ machine.insts[i].klass \in 1..Len(classes)
<1>1. machine.insts[i] \in InstType
  BY MachineFacts
<1> QED  BY <1>1 DEF InstType, MachineOK

LEMMA InvokeStep ==
    ASSUME IInv, NEW r \in Operands, NEW n \in Names, Invoke(r, n)
    PROVE  IInv'
<1>p. PICK cv : cv = Held(machine, cells)
  OBVIOUS
<1>1. /\ Statement /\ HasRoom /\ Took
      /\ MachineOK(machine, classes, cv) /\ ClassesOK(classes, machine.insts, cv)
      /\ machine.top + 1 + 1 \in Places /\ n \in Keys
  BY <1>p, StatementFacts DEF Invoke, Keys
<1>2. r \in Values /\ ValueOK(classes, machine.insts, cv, r)
  BY <1>1, OperandFacts
<1>3. CASE r.is = "inst"
  <2>1. r.i \in 1..Len(machine.insts)
    BY <1>2, <1>3 DEF ValueOK
  <2>p. PICK f, s, c : /\ f = machine.insts[r.i].fields[n] /\ c = machine.insts[r.i].klass
                       /\ s = classes[c].statics[n]
    OBVIOUS
  <2>2. /\ f \in Values \cup {Unset} /\ ValueOK(classes, machine.insts, cv, f) /\ c \in 1..Len(classes)
    BY <1>1, <2>1, <2>p, MemberFacts
  <2>3. machine' = CASE f # Unset -> CallValue(At(machine, f), f, machine.top + 1)
                     [] f = Unset /\ s # Unset -> InvokeStatic(At(machine, r), s, machine.top + 1, r)
                     [] OTHER -> Fails(machine)
    BY <1>3, <2>p DEF Invoke, InvokeInstance
  <2>4. CASE f # Unset
    <3>1. /\ MachineOK(At(machine, f), classes, cv) /\ Near(machine, At(machine, f))
          /\ At(machine, f).insts = machine.insts /\ At(machine, f).top = machine.top
          /\ At(machine, f).mem[machine.top + 1] = f /\ machine.top + 1 \in Nat
      BY ONLY <1>1, <2>2, <2>4, AtKeeps
    <3>2. machine' = CallValue(At(machine, f), f, machine.top + 1)
      BY <2>3, <2>4
    <3>3. Reaches(At(machine, f), machine', cv)
      BY ONLY <1>1, <2>2, <3>1, <3>2, CallValueKeeps
    <3> QED  BY <1>p, <1>1, <3>1, <3>3, FromNear, StatementReaches
  <2>5. CASE f = Unset /\ s # Unset
    <3>1. /\ MachineOK(At(machine, r), classes, cv) /\ Near(machine, At(machine, r))
          /\ At(machine, r).insts = machine.insts /\ At(machine, r).top = machine.top
          /\ At(machine, r).mem[machine.top + 1] = r /\ machine.top + 1 \in Nat
      BY ONLY <1>1, <1>2, AtKeeps
    <3>2. machine' = InvokeStatic(At(machine, r), classes[c].statics[n], machine.top + 1, r)
      BY <2>3, <2>5, <2>p
    <3>3. \A d : Desc(classes, c, d) => Desc(classes, At(machine, r).insts[r.i].klass, d)
      BY <2>p, <3>1
    <3>4. Reaches(At(machine, r), machine', cv)
      BY ONLY <1>1, <1>2, <1>3, <2>1, <2>2, <3>1, <3>2, <3>3, InvokeStaticKeeps
    <3> QED  BY <1>p, <1>1, <3>1, <3>4, FromNear, StatementReaches
  <2>6. CASE f = Unset /\ s = Unset
    <3>1. machine' = Fails(machine)
      BY <2>3, <2>6
    <3> QED  BY <1>p, <1>1, <3>1, FailsKeeps, StatementReaches DEF Reaches
  <2> QED  BY <2>4, <2>5, <2>6
<1>4. CASE r.is = "class"
  <2>p. PICK s : s = classes[r.c].statics[n]
    OBVIOUS
  <2>1. s \in Members /\ StaticOK(classes, machine.insts, cv, r.c, n, s)
    BY <1>1, <1>2, <1>4, <2>p, StaticFacts DEF ValueOK
  <2>2. machine' = IF s.is \in {"unset", "fn", "native", "bound"} THEN Fails(machine)
                   ELSE CallValue(At(machine, r), s, machine.top + 1)
    BY <1>4, <2>p DEF Invoke, InvokeClass
  <2>3. CASE s.is \in {"unset", "fn", "native", "bound"}
    <3>1. machine' = Fails(machine)
      BY <2>2, <2>3
    <3> QED  BY <1>p, <1>1, <3>1, FailsKeeps, StatementReaches DEF Reaches
  <2>4. CASE s.is \notin {"unset", "fn", "native", "bound"}
    <3>1. s \in Values /\ ValueOK(classes, machine.insts, cv, s) /\ s.is # "inst"
      BY <2>1, <2>4, ValueKinds DEF StaticOK
    <3>2. /\ MachineOK(At(machine, r), classes, cv) /\ Near(machine, At(machine, r))
          /\ At(machine, r).insts = machine.insts /\ At(machine, r).top = machine.top
          /\ At(machine, r).mem[machine.top + 1] = r /\ machine.top + 1 \in Nat
      BY ONLY <1>1, <1>2, AtKeeps
    <3>3. machine' = CallValue(At(machine, r), s, machine.top + 1)
      BY <2>2, <2>4
    <3>4. Reaches(At(machine, r), machine', cv)
      BY ONLY <1>1, <3>1, <3>2, <3>3, CallValueKeeps
    <3> QED  BY <1>p, <1>1, <3>2, <3>4, FromNear, StatementReaches
  <2> QED  BY <2>3, <2>4
<1>5. CASE r.is \notin {"inst", "class"}
  <2>1. machine' = Fails(machine)
    BY <1>5 DEF Invoke
  <2> QED  BY <1>p, <1>1, <2>1, FailsKeeps, StatementReaches DEF Reaches
<1> QED  BY <1>3, <1>4, <1>5

(* What a statement assigns. *)
LEMMA YieldStep ==
    ASSUME IInv, Statement, Took, NEW v \in Values, ValueOK(classes, machine.insts, Held(machine, cells), v),
           machine' = Yields(machine, v)
    PROVE  IInv'
  BY StatementFacts, YieldsKeeps, StatementReaches DEF Reaches

LEMMA FailStep ==
    ASSUME IInv, Statement, Took, machine' = Fails(machine)
    PROVE  IInv'
  BY StatementFacts, FailsKeeps, StatementReaches DEF Reaches

(* A static of the class c, or of one that instance i descends from, as a
   member of i.                                                            *)
LEMMA BoundStaticOK ==
    ASSUME NEW cv, ClassesOK(classes, machine.insts, cv), NEW c \in 1..Len(classes), NEW k \in Keys,
           NEW i \in 1..Len(machine.insts), Len(machine.insts) \in Nat,
           \A d : Desc(classes, c, d) => Desc(classes, machine.insts[i].klass, d),
           NEW v, v = BoundStatic(i, classes[c].statics[k]), v.is # "native"
    PROVE  v \in Values \cup {Unset} /\ ValueOK(classes, machine.insts, cv, v)
<1>p. PICK s : s = classes[c].statics[k]
  OBVIOUS
<1>1. s \in Members /\ StaticOK(classes, machine.insts, cv, c, k, s)
  BY <1>p, StaticFacts
<1>2. CASE s.is = "fn"
  <2>1. v = [is |-> "bound", self |-> Inst(i), fn |-> s]
    BY <1>p, <1>2 DEF BoundStatic, Bound
  <2>2. s \in Fns /\ FnOK(classes, cv, s) /\ i \in Nat /\ Inst(i) \in Selves
    BY <1>1, <1>2, ValueKinds DEF StaticOK, Selves, Inst
  <2>3. Suits(classes, machine.insts, s, Inst(i))
    BY <1>1, <1>2, <2>2, ValueKinds DEF StaticOK, Suits
  <2> QED  BY <2>1, <2>2, <2>3 DEF Values, ValueOK
<1>3. CASE s.is # "fn"
  BY <1>1, <1>3, <1>p, ValueKinds DEF StaticOK, BoundStatic
<1> QED  BY <1>2, <1>3

LEMMA GetMemberStep ==
    ASSUME IInv, Forms = {}, NEW r \in Operands, NEW n \in Names, GetMember(r, n)
    PROVE  IInv'
<1>p. PICK cv : cv = Held(machine, cells)
  OBVIOUS
<1>v. PICK v : v = Member(machine, r, n)
  OBVIOUS
<1>1. /\ Statement /\ Took /\ MachineOK(machine, classes, cv) /\ ClassesOK(classes, machine.insts, cv)
      /\ n \in Keys /\ Len(machine.insts) \in Nat
  BY <1>p, StatementFacts, MachineFacts DEF GetMember, Keys
<1>2. r \in Values /\ ValueOK(classes, machine.insts, cv, r)
  BY <1>1, OperandFacts
<1>3. /\ v.is # "native" /\ (r.is = "class" => v.is # "fn")
      /\ machine' = IF v = Unset THEN Fails(machine) ELSE Yields(machine, v)
  BY <1>v DEF GetMember, Fetched
<1>4. v \in Values \cup {Unset} /\ ValueOK(classes, machine.insts, cv, v)
  <2>1. CASE r.is = "inst"
    <3>1. r.i \in 1..Len(machine.insts)
      BY <1>2, <2>1 DEF ValueOK
    <3>2. /\ machine.insts[r.i].fields[n] \in Values \cup {Unset}
          /\ ValueOK(classes, machine.insts, cv, machine.insts[r.i].fields[n])
          /\ machine.insts[r.i].klass \in 1..Len(classes)
      BY <1>1, <3>1, MemberFacts
    <3>3. CASE machine.insts[r.i].fields[n] # Unset
      BY <1>v, <2>1, <3>2, <3>3 DEF Member
    <3>4. CASE machine.insts[r.i].fields[n] = Unset
      <4>1. v = BoundStatic(r.i, classes[machine.insts[r.i].klass].statics[n])
        BY <1>v, <2>1, <3>4 DEF Member
      <4> QED  BY ONLY <1>1, <1>3, <3>1, <3>2, <4>1, BoundStaticOK
    <3> QED  BY <3>3, <3>4
  <2>2. CASE r.is = "class"
    <3>1. v = classes[r.c].statics[n] /\ r.c \in 1..Len(classes)
      BY <1>2, <1>v, <2>2 DEF Member, ValueOK
    <3>2. v \in Members /\ StaticOK(classes, machine.insts, cv, r.c, n, v)
      BY <1>1, <3>1, StaticFacts
    <3> QED  BY <1>3, <2>2, <3>2, ValueKinds DEF StaticOK
  <2>3. CASE r.is \notin {"inst", "class"}
    <3>1. v = Unset
      BY <1>v, <2>3 DEF Member
    <3> QED  BY <3>1 DEF ValueOK, Unset
  <2> QED  BY <2>1, <2>2, <2>3
<1>5. CASE v = Unset
  BY <1>1, <1>3, <1>5, FailStep
<1>6. CASE v # Unset
  BY <1>p, <1>1, <1>3, <1>4, <1>6, YieldStep
<1> QED  BY <1>5, <1>6

(* The upvalue a running method reads is the superclass of its class, from
   which self descends.                                                    *)
LEMMA SuperFacts ==
    ASSUME IInv, InSuper, NEW cv, cv = Held(machine, cells)
    PROVE  /\ TheSuper.c \in 1..Len(classes)
           /\ Self(machine).is = "inst" /\ Self(machine).i \in 1..Len(machine.insts)
           /\ \A d : Desc(classes, TheSuper.c, d) => Desc(classes, machine.insts[Self(machine).i].klass, d)
<1>p. PICK f : f = Frame(machine).fn
  OBVIOUS
<1>1. /\ MachineOK(machine, classes, cv) /\ ClassesOK(classes, machine.insts, cv)
      /\ machine.frames # <<>> /\ f.cell # 0
  BY <1>p, StatementFacts DEF InSuper
<1>2. FnOK(classes, cv, f) /\ Suits(classes, machine.insts, f, Self(machine))
  BY <1>1, <1>p, RunningFacts
<1>3. TheSuper = Class(classes[f.home].super) /\ classes[f.home].super # 0 /\ f.home \in 1..Len(classes)
  <2>1. f.cell \in DOMAIN cells
    BY <1>1, <1>2 DEF FnOK, Held
  <2>2. cv[f.cell] = CellValue(machine, f.cell)
    BY <2>1 DEF Held, CellValue
  <2> QED  BY <1>1, <1>2, <1>p, <2>2 DEF FnOK, TheSuper
<1>4. classes[f.home].super \in 1..Len(classes)
  <2>1. classes[f.home].super \in 0..Len(classes)
    <3>1. "__init" \in Keys
      BY DEF Keys, Hooks
    <3> QED  BY <1>1, <1>3, <3>1, StaticFacts
  <2>2. Len(classes) \in Nat
    BY <1>1 DEF ClassesOK
  <2> QED  BY <1>3, <2>1, <2>2
<1>5. TheSuper.c = classes[f.home].super
  BY <1>3 DEF Class
<1>6. ASSUME NEW d, Desc(classes, classes[f.home].super, d)
      PROVE  Desc(classes, machine.insts[Self(machine).i].klass, d)
  BY <1>2, <1>3, <1>6, DescOver DEF Suits
<1> QED  BY <1>2, <1>4, <1>5, <1>6 DEF Suits

LEMMA SuperInvokeStep ==
    ASSUME IInv, NEW n \in Names, SuperInvoke(n)
    PROVE  IInv'
<1>p. PICK cv, self, c : cv = Held(machine, cells) /\ self = Self(machine) /\ c = TheSuper.c
  OBVIOUS
<1>1. /\ Statement /\ HasRoom /\ Took /\ InSuper /\ machine.frames # <<>>
      /\ MachineOK(machine, classes, cv) /\ ClassesOK(classes, machine.insts, cv)
      /\ machine.top + 1 + 1 \in Places /\ n \in Keys
  BY <1>p, StatementFacts DEF SuperInvoke, InSuper, Keys
<1>2. self \in Values /\ ValueOK(classes, machine.insts, cv, self)
  BY <1>1, <1>p, RunningFacts
<1>3. /\ c \in 1..Len(classes) /\ self.is = "inst" /\ self.i \in 1..Len(machine.insts)
      /\ \A d : Desc(classes, c, d) => Desc(classes, machine.insts[self.i].klass, d)
  BY <1>1, <1>p, SuperFacts
<1>4. machine' = IF classes[c].statics[n] = Unset THEN Fails(machine)
                 ELSE InvokeStatic(At(machine, self), classes[c].statics[n], machine.top + 1, self)
  BY <1>p DEF SuperInvoke
<1>5. CASE classes[c].statics[n] = Unset
  <2>1. machine' = Fails(machine)
    BY <1>4, <1>5
  <2> QED  BY <1>1, <2>1, FailStep
<1>6. CASE classes[c].statics[n] # Unset
  <2>1. /\ MachineOK(At(machine, self), classes, cv) /\ Near(machine, At(machine, self))
        /\ At(machine, self).insts = machine.insts /\ At(machine, self).top = machine.top
        /\ At(machine, self).mem[machine.top + 1] = self /\ machine.top + 1 \in Nat
    BY ONLY <1>1, <1>2, AtKeeps
  <2>2. machine' = InvokeStatic(At(machine, self), classes[c].statics[n], machine.top + 1, self)
    BY <1>4, <1>6
  <2>3. \A d : Desc(classes, c, d) => Desc(classes, At(machine, self).insts[self.i].klass, d)
    BY <1>3, <2>1
  <2>4. Reaches(At(machine, self), machine', cv)
    BY ONLY <1>1, <1>2, <1>3, <2>1, <2>2, <2>3, InvokeStaticKeeps
  <2> QED  BY <1>p, <1>1, <2>1, <2>4, FromNear, StatementReaches
<1> QED  BY <1>5, <1>6

LEMMA SuperGetStep ==
    ASSUME IInv, Forms = {}, NEW n \in Names, SuperGet(n)
    PROVE  IInv'
<1>p. PICK cv, i, c, s : /\ cv = Held(machine, cells) /\ i = Self(machine).i /\ c = TheSuper.c
                         /\ s = classes[TheSuper.c].statics[n]
  OBVIOUS
<1>1. /\ Statement /\ Took /\ InSuper /\ machine.frames # <<>>
      /\ MachineOK(machine, classes, cv) /\ ClassesOK(classes, machine.insts, cv)
      /\ n \in Keys /\ Len(machine.insts) \in Nat
  BY <1>p, StatementFacts, MachineFacts DEF SuperGet, InSuper, Keys
<1>2. /\ c \in 1..Len(classes) /\ i \in 1..Len(machine.insts)
      /\ \A d : Desc(classes, c, d) => Desc(classes, machine.insts[i].klass, d)
  BY <1>1, <1>p, SuperFacts
<1>3. /\ s.is # "native" /\ s = classes[c].statics[n]
      /\ machine' = IF s = Unset THEN Fails(machine) ELSE Yields(machine, BoundStatic(i, s))
  BY <1>p DEF SuperGet, Fetched
<1>4. CASE s = Unset
  BY <1>1, <1>3, <1>4, FailStep
<1>5. CASE s # Unset
  <2>v. PICK v : v = BoundStatic(i, classes[c].statics[n])
    OBVIOUS
  <2>1. v.is # "native"
    BY <1>3, <2>v DEF BoundStatic, Bound
  <2>2. v \in Values \cup {Unset} /\ ValueOK(classes, machine.insts, cv, v)
    BY ONLY <1>1, <1>2, <2>1, <2>v, BoundStaticOK
  <2>3. v # Unset /\ machine' = Yields(machine, v)
    BY <1>3, <1>5, <2>v DEF BoundStatic, Bound, Unset
  <2> QED  BY <1>1, <1>p, <2>2, <2>3, YieldStep
<1> QED  BY <1>4, <1>5

(* A field is set. *)
LEMMA FieldKeeps ==
    ASSUME NEW m, NEW cl, NEW cv, MachineOK(m, cl, cv), Len(cl) \in Nat,
           \A k \in 1..Len(cl) : cl[k].super \in 0..Len(cl),
           NEW i \in 1..Len(m.insts), NEW k \in Keys, NEW v \in Values, ValueOK(cl, m.insts, cv, v),
           NEW n, n = [m EXCEPT !.insts[i].fields[k] = v]
    PROVE  MachineOK(n, cl, cv) /\ Near(m, n) /\ ValueOK(cl, n.insts, cv, v)
<1>p. PICK is : is = [m.insts EXCEPT ![i].fields[k] = v]
  OBVIOUS
<1>1. /\ n.insts = is /\ n.frames = m.frames /\ n.top = m.top /\ n.failed = m.failed
      /\ n.x = m.x /\ n.native = m.native /\ n.mem = m.mem
      /\ n = [m EXCEPT !.insts = is] /\ m \in MachineType
  BY <1>p DEF MachineOK, MachineType
<1>2. m.insts \in Seq(InstType) /\ Len(m.insts) \in Nat
  BY MachineFacts
<1>3. m.insts[i] \in InstType /\ m.insts[i].fields \in [Keys -> Values \cup {Unset}]
  <2>1. m.insts[i] \in InstType
    BY <1>2
  <2> QED  BY <2>1 DEF InstType
<1>q. PICK o : o = [m.insts[i] EXCEPT !.fields[k] = v]
  OBVIOUS
<1>4. /\ o \in InstType /\ o.klass = m.insts[i].klass
      /\ \A j \in Keys : o.fields[j] = IF j = k THEN v ELSE m.insts[i].fields[j]
  BY <1>3, <1>q DEF InstType
<1>5. is = [m.insts EXCEPT ![i] = o]
  BY <1>p, <1>q
<1>6. /\ is \in Seq(InstType) /\ Len(is) = Len(m.insts)
      /\ is[i] = o /\ \A j \in 1..Len(m.insts) : j # i => is[j] = m.insts[j]
  BY ONLY <1>2, <1>4, <1>5, i \in 1..Len(m.insts)
<1>7. n \in MachineType
  BY <1>1, <1>6 DEF MachineType
<1>8. Near(m, n) /\ Ground(n) = Ground(m)
  <2>1. Len(m.insts) <= Len(n.insts)
    BY <1>1, <1>2, <1>6
  <2> QED  BY <1>1, <1>4, <1>6, <2>1 DEF Near, Ground
<1>9. Grows(cl, m.insts, cv, cl, n.insts, cv)
  <2>1. Len(n.insts) \in Nat /\ Len(m.insts) <= Len(n.insts) /\ Len(cl) <= Len(cl)
    BY <1>1, <1>2, <1>6
  <2> QED  BY <1>1, <1>2, <1>4, <1>6, <2>1 DEF Grows, MachineOK
<1>10. /\ \A u : ValueOK(cl, m.insts, cv, u) => ValueOK(cl, n.insts, cv, u)
       /\ \A f, u : Suits(cl, m.insts, f, u) => Suits(cl, n.insts, f, u)
  BY <1>9, WorldGrows
<1>11. \A j \in 1..Len(n.insts) : /\ n.insts[j].klass \in 1..Len(cl)
                                  /\ \A c \in Keys : ValueOK(cl, n.insts, cv, n.insts[j].fields[c])
  <2>1. ASSUME NEW j \in 1..Len(n.insts), j # i
        PROVE  /\ n.insts[j].klass \in 1..Len(cl)
               /\ \A c \in Keys : ValueOK(cl, n.insts, cv, n.insts[j].fields[c])
    BY <1>1, <1>6, <1>10, <2>1 DEF MachineOK
  <2>2. /\ n.insts[i].klass \in 1..Len(cl)
        /\ \A c \in Keys : ValueOK(cl, n.insts, cv, n.insts[i].fields[c])
    <3>1. n.insts[i] = o /\ m.insts[i].klass \in 1..Len(cl)
      BY <1>1, <1>6 DEF MachineOK
    <3>2. \A c \in Keys : ValueOK(cl, m.insts, cv, m.insts[i].fields[c])
      BY DEF MachineOK
    <3>3. \A c \in Keys : ValueOK(cl, n.insts, cv, o.fields[c])
      BY <1>4, <1>10, <3>2
    <3> QED  BY <1>4, <3>1, <3>3
  <2> QED  BY <2>1, <2>2
<1>12. /\ \A p \in Places : ValueOK(cl, n.insts, cv, n.mem[p])
       /\ ValueOK(cl, n.insts, cv, n.x)
       /\ n.native # Unset => Suits(cl, n.insts, n.native.fn, n.native.self)
  BY <1>1, <1>10 DEF MachineOK
<1>13. ASSUME NEW j \in 1..Len(n.frames) PROVE FrameOK(n, cl, cv, j)
  <2>1. FrameOK(m, cl, cv, j)
    BY <1>1 DEF MachineOK
  <2> QED  BY <1>1, <1>8, <1>10, <2>1 DEF FrameOK
<1>14. MachineOK(n, cl, cv)
  BY <1>1, <1>7, <1>8, <1>11, <1>12, <1>13 DEF MachineOK
<1> QED  BY <1>8, <1>10, <1>14

LEMMA SetMemberStep ==
    ASSUME IInv, NEW r \in Operands, NEW v \in Operands, NEW n \in Names, SetMember(r, n, v)
    PROVE  IInv'
<1>p. PICK cv : cv = Held(machine, cells)
  OBVIOUS
<1>1. /\ Statement /\ Took /\ MachineOK(machine, classes, cv) /\ ClassesOK(classes, machine.insts, cv)
      /\ n \in Keys
  BY <1>p, StatementFacts DEF SetMember, Keys
<1>2. /\ r \in Values /\ ValueOK(classes, machine.insts, cv, r)
      /\ v \in Values /\ ValueOK(classes, machine.insts, cv, v)
  BY <1>1, OperandFacts
<1>3. CASE r.is = "inst"
  <2>p. PICK a : a = [machine EXCEPT !.insts[r.i].fields[n] = v]
    OBVIOUS
  <2>1. r.i \in 1..Len(machine.insts) /\ machine' = Yields(a, v)
    BY <1>2, <1>3, <2>p DEF ValueOK, SetMember
  <2>2. Len(classes) \in Nat /\ \A k \in 1..Len(classes) : classes[k].super \in 0..Len(classes)
    <3>1. Len(classes) \in Nat /\ Len(classes) >= 1
      BY <1>1 DEF ClassesOK
    <3>2. 1 \in 1..Len(classes)
      BY <3>1
    <3> QED  BY <1>1, <3>2, StaticFacts
  <2>3. MachineOK(a, classes, cv) /\ Near(machine, a) /\ ValueOK(classes, a.insts, cv, v)
    BY ONLY <1>1, <1>2, <2>p, <2>1, <2>2, FieldKeeps
  <2>4. Reaches(a, machine', cv)
    BY ONLY <1>2, <2>1, <2>3, YieldsKeeps DEF Reaches
  <2> QED  BY <1>p, <1>1, <2>3, <2>4, FromNear, StatementReaches
<1>4. CASE r.is # "inst"
  <2>1. machine' = Fails(machine)
    BY <1>4 DEF SetMember
  <2> QED  BY <1>1, <2>1, FailStep
<1> QED  BY <1>3, <1>4

(* A frame is left. *)
LEMMA PopKeeps ==
    ASSUME NEW m, NEW cl, NEW cv, MachineOK(m, cl, cv), m.frames # <<>>,
           NEW n, n = [m EXCEPT !.frames = SubSeq(@, 1, Len(@) - 1), !.top = Frame(m).base - 1]
    PROVE  /\ MachineOK(n, cl, cv) /\ n.insts = m.insts /\ n.mem = m.mem /\ Len(n.frames) = Len(m.frames) - 1
           /\ n.failed = m.failed
           /\ Frame(m).kind # "hook" => Kept(m, n)
<1>0. /\ m.mem \in [Places -> Values] /\ m.top \in Nat /\ m.insts \in Seq(InstType) /\ Len(m.insts) \in Nat
      /\ m.frames \in Seq(FrameType) /\ Len(m.frames) \in Nat /\ Ground(m) \in Nat
      /\ m.top = Ground(m) + 2 * Len(m.frames) /\ (m.frames = <<>> <=> Len(m.frames) = 0)
      /\ m.top <= Height /\ Height \in Nat /\ m \in MachineType
  BY MachineFacts DEF MachineOK
<1>p. PICK l \in Nat : l = Len(m.frames) - 1
  <2>1. Len(m.frames) - 1 \in Nat
    BY <1>0
  <2> QED  BY <2>1
<1>q. PICK fs, t : fs = SubSeq(m.frames, 1, l) /\ t = Frame(m).base - 1
  OBVIOUS
<1>1. /\ n.frames = fs /\ n.top = t /\ n.failed = m.failed /\ n.insts = m.insts
      /\ n.x = m.x /\ n.native = m.native /\ n.mem = m.mem
      /\ n = [m EXCEPT !.frames = fs, !.top = t]
  BY <1>0, <1>p, <1>q DEF MachineType
<1>2. /\ fs \in Seq(FrameType) /\ Len(fs) = l /\ \A i \in 1..l : fs[i] = m.frames[i]
  <2>1. l <= Len(m.frames)
    BY <1>0, <1>p
  <2> QED  BY ONLY <1>0, <1>q, <2>1, l \in Nat
<1>3. t = Ground(m) + 2 * l /\ t \in Nat /\ t <= m.top
  <2>1. Frame(m).base = Ground(m) + 2 * Len(m.frames) - 1
    BY RunningFacts
  <2>2. t = Ground(m) + 2 * l
    BY <1>0, <1>p, <1>q, <2>1
  <2> QED  BY <1>0, <1>p, <2>2
<1>4. n \in MachineType
  BY <1>0, <1>1, <1>2, <1>3 DEF MachineType
<1>5. Ground(n) = Ground(m)
  <2>1. CASE l = 0
    <3>1. n.frames = <<>>
      BY <1>1, <1>2, <2>1
    <3> QED  BY <1>0, <1>1, <1>3, <2>1, <3>1 DEF Ground
  <2>2. CASE l # 0
    <3>1. n.frames[1] = m.frames[1] /\ n.frames # <<>>
      <4>1. 1 \in 1..l
        BY <2>2
      <4> QED  BY <1>1, <1>2, <2>2, <4>1, NotEmpty
    <3> QED  BY <3>1 DEF Ground
  <2> QED  BY <2>1, <2>2
<1>6. ASSUME NEW i \in 1..Len(n.frames) PROVE FrameOK(n, cl, cv, i)
  <2>1. i \in 1..l /\ i \in 1..Len(m.frames)
    BY <1>0, <1>1, <1>2, <1>p
  <2>2. FrameOK(m, cl, cv, i) /\ n.frames[i] = m.frames[i]
    BY <1>1, <1>2, <2>1 DEF MachineOK
  <2> QED  BY <1>1, <1>5, <2>2 DEF FrameOK
<1>7. MachineOK(n, cl, cv)
  <2>1. n.top = Ground(n) + 2 * Len(n.frames) /\ n.top <= Height
    <3>1. t <= Height
      BY ONLY <1>0, <1>3
    <3> QED  BY ONLY <1>1, <1>2, <1>3, <1>5, <3>1
  <2> QED  BY <1>0, <1>1, <1>4, <1>5, <1>6, <2>1 DEF MachineOK
<1>8. ASSUME Frame(m).kind # "hook" PROVE Kept(m, n)
  <2>1. m.frames[1].kind # "hook" => n.frames = <<>> \/ n.frames[1].kind # "hook"
    <3>1. n.frames = <<>> \/ 1 \in 1..l
      BY <1>1, <1>2
    <3> QED  BY <1>1, <1>2, <3>1
  <2>2. m.frames[1].kind = "hook" => n.frames # <<>> /\ n.frames[1].kind = "hook"
    <3>1. m.frames[1].kind = "hook" => Len(m.frames) # 1
      BY <1>8 DEF Frame
    <3>2. l # 0 => 1 \in 1..l /\ Len(n.frames) # 0
      BY ONLY <1>1, <1>2, l \in Nat
    <3>3. l = 0 => Len(m.frames) = 1
      BY ONLY <1>0, <1>p
    <3> QED  BY ONLY <1>1, <1>2, <3>1, <3>2, <3>3, NotEmpty
  <2>3. Len(m.insts) <= Len(n.insts)
    BY <1>0, <1>1
  <2> QED  BY <1>1, <1>5, <2>1, <2>2, <2>3 DEF Kept, Hooking
<1> QED  BY <1>1, <1>2, <1>7, <1>8, <1>p

(* The hook returns: the class is on the stack again. *)
LEMMA HookReturns ==
    ASSUME IInv, Statement, Took, machine.frames # <<>>, Frame(machine).kind = "hook",
           NEW v \in Values, ValueOK(classes, machine.insts, Held(machine, cells), v),
           NEW m, m = [machine EXCEPT !.frames = SubSeq(@, 1, Len(@) - 1), !.top = Frame(machine).base - 1],
           machine' = [m EXCEPT !.top = Frame(machine).base + 1, !.mem[Frame(machine).base] = v,
                                !.mem[Frame(machine).base + 1] = Class(Body.class)]
    PROVE  IInv'
<1>p. PICK cv : cv = Held(machine, cells)
  OBVIOUS
<1>1. /\ MachineOK(machine, classes, cv) /\ ClassesOK(classes, machine.insts, cv)
      /\ UNCHANGED <<classes, bodies, slots, cells>>
  BY <1>p, StatementFacts DEF Took
<1>2. Frame(machine).base + 1 = machine.top /\ Len(machine.frames) = 1
      /\ Frame(machine).base = Ground(machine) + 2 * Len(machine.frames) - 1
  BY <1>1, RunningFacts
<1>3. Hooked /\ Ground(machine) = 0 /\ ~Open(cells) /\ InDerived
  <2>1. Hooking(machine)
    BY <1>2 DEF Hooking, Frame
  <2> QED  BY <2>1, StatementFacts DEF Hooked
<1>4. Frame(machine).base = 1 /\ Body.class \in 1..Len(classes) /\ Body = bodies[1]
  <2>1. Frame(machine).base = 1
    BY <1>2, <1>3
  <2>2. Body = bodies[1] /\ 1 \in 1..Len(bodies)
    BY <1>3 DEF Body, InDerived
  <2>3. bodies[1].class \in 2..Len(classes) /\ Len(classes) \in Nat
    BY <1>1, <2>2 DEF IInv, BodiesOK, ClassesOK
  <2>4. bodies[1].class \in 1..Len(classes)
    BY <2>3
  <2> QED  BY <2>1, <2>2, <2>4
<1>5. MachineOK(m, classes, cv) /\ m.insts = machine.insts /\ m.frames = <<>>
  <2>1. MachineOK(m, classes, cv) /\ m.insts = machine.insts /\ Len(m.frames) = Len(machine.frames) - 1
    BY ONLY <1>1, machine.frames # <<>>, PopKeeps,
            m = [machine EXCEPT !.frames = SubSeq(@, 1, Len(@) - 1), !.top = Frame(machine).base - 1]
  <2>2. Len(m.frames) = 0
    BY ONLY <1>2, <2>1
  <2> QED  BY <2>1, <2>2, MachineFacts
<1>q. PICK n : n = machine'
  OBVIOUS
<1>c. PICK c : c = Class(Body.class)
  OBVIOUS
<1>6. c \in Values /\ ValueOK(classes, machine.insts, cv, c)
  <2>1. Body.class \in Nat
    BY <1>4
  <2> QED  BY <1>4, <1>c, <2>1, ValueKinds DEF ValueOK
<1>7. /\ n \in MachineType /\ n.frames = <<>> /\ n.top = 2 /\ n.insts = m.insts
      /\ n.x = m.x /\ n.native = m.native /\ n.mem = [m.mem EXCEPT ![1] = v, ![2] = c]
  <2>1. m \in MachineType
    BY <1>5 DEF MachineOK
  <2>2. n = [m EXCEPT !.top = 2, !.mem = [m.mem EXCEPT ![1] = v, ![2] = c]]
    <3>1. Frame(machine).base + 1 = 2 /\ Frame(machine).base = 1
      BY ONLY <1>4
    <3>3. n = [m EXCEPT !.top = Frame(machine).base + 1, !.mem[Frame(machine).base] = v,
                        !.mem[Frame(machine).base + 1] = Class(Body.class)]
      BY <1>q, Zenon
    <3>2. n = [m EXCEPT !.top = 2, !.mem[1] = v, !.mem[2] = c]
      BY ONLY <1>c, <3>1, <3>3, Zenon
    <3> QED  BY ONLY <2>1, <3>2 DEF MachineType
  <2> QED  BY <1>5, <1>6, <2>1, <2>2 DEF MachineType
<1>8. Height \in Nat /\ Height >= 2 /\ Places = 1..Height
  <2>1. machine.top = 2 /\ machine.top <= Height /\ Places = 1..Height /\ Height \in Nat
    BY <1>1, <1>2, <1>4, MachineFacts
  <2> QED  BY <2>1
<1>9. /\ \A p \in Places : n.mem[p] = IF p = 2 THEN c ELSE IF p = 1 THEN v ELSE m.mem[p]
      /\ n.mem[2] = c
  <2>1. m.mem \in [Places -> Values] /\ 2 \in Places /\ 1 \in Places
    <3>1. 1 \in 1..Height /\ 2 \in 1..Height
      BY ONLY <1>8
    <3> QED  BY <1>5, <1>8, <3>1, MachineFacts
  <2> QED  BY <1>7, <2>1
<1>10. MachineOK(n, classes, cv)
  <2>1. Ground(n) = 2 /\ Len(n.frames) = 0
    BY <1>7 DEF Ground
  <2>2. \A p \in Places : ValueOK(classes, n.insts, cv, n.mem[p])
    BY <1>5, <1>6, <1>7, <1>9, <1>p DEF MachineOK
  <2> QED  BY <1>5, <1>7, <1>8, <2>1, <2>2 DEF MachineOK
<1>11. Held(n, cells) = cv
  BY <1>3, <1>p, HeldKept DEF IInv
<1>12. BodiesOK' /\ Open(cells)' = Open(cells) /\ InDerived'
  BY <1>1, <1>3 DEF BodiesOK, Open, InDerived, IInv
<1>13. Hooked'
  BY <1>1, <1>3, <1>4, <1>7, <1>9, <1>12, <1>c, <1>q DEF Hooked
<1> QED  BY <1>1, <1>3, <1>5, <1>7, <1>10, <1>11, <1>12, <1>13, <1>q, <1>p DEF IInv

LEMMA ReturnStep ==
    ASSUME IInv, NEW v \in Operands, Return(v)
    PROVE  IInv'
<1>p. PICK cv, m, f : /\ cv = Held(machine, cells) /\ f = Frame(machine)
                      /\ m = [machine EXCEPT !.frames = SubSeq(@, 1, Len(@) - 1), !.top = Frame(machine).base - 1]
  OBVIOUS
<1>1. /\ Statement /\ Took /\ MachineOK(machine, classes, cv) /\ ClassesOK(classes, machine.insts, cv)
      /\ machine.frames # <<>>
  BY <1>p, StatementFacts DEF Return
<1>2. v \in Values /\ ValueOK(classes, machine.insts, cv, v)
  BY <1>1, OperandFacts
<1>3. /\ f \in FrameType /\ f.base \in Places /\ Self(machine) \in Values
      /\ ValueOK(classes, machine.insts, cv, Self(machine)) /\ f.kind \in {"call", "init", "hook"}
  BY <1>1, <1>p, RunningFacts DEF FrameType
<1>4. /\ MachineOK(m, classes, cv) /\ m.insts = machine.insts /\ (f.kind # "hook" => Kept(machine, m))
  BY ONLY <1>1, <1>p, PopKeeps
<1>5. machine' = CASE f.kind = "init" -> Yields(m, Self(machine))
                   [] f.kind = "call" -> Yields(m, v)
                   [] f.kind = "hook" -> [m EXCEPT !.top = f.base + 1, !.mem[f.base] = v,
                                                   !.mem[f.base + 1] = Class(Body.class)]
  BY <1>p DEF Return, Self
<1>6. ASSUME f.kind # "hook", NEW u \in Values, ValueOK(classes, machine.insts, cv, u), machine' = Yields(m, u)
      PROVE  IInv'
  <2>1. MachineOK(machine', classes, cv) /\ Keeps(m, machine')
    BY ONLY <1>4, <1>6, YieldsKeeps
  <2>2. Kept(m, machine') /\ Kept(machine, m)
    BY <1>4, <1>6, <2>1, KeepsIsKept
  <2>3. Kept(machine, machine')
    BY <1>4, <2>2 DEF Kept
  <2> QED  BY <1>1, <1>p, <2>1, <2>3, StatementKeeps DEF Took
<1>7. CASE f.kind = "init"
  BY <1>3, <1>5, <1>6, <1>7
<1>8. CASE f.kind = "call"
  BY <1>2, <1>5, <1>6, <1>8
<1>9. CASE f.kind = "hook"
  <2>1. machine' = [m EXCEPT !.top = Frame(machine).base + 1, !.mem[Frame(machine).base] = v,
                             !.mem[Frame(machine).base + 1] = Class(Body.class)]
    BY <1>5, <1>9, <1>p
  <2> QED  BY <1>1, <1>2, <1>9, <1>p, <2>1, HookReturns
<1> QED  BY <1>3, <1>7, <1>8, <1>9

-------------------------------------------------------------------------------
(* Declarations. *)
LEMMA DeclaringFacts ==
    ASSUME IInv, Declaring
    PROVE  /\ MachineOK(machine, classes, Held(machine, cells))
           /\ ClassesOK(classes, machine.insts, Held(machine, cells))
           /\ Plain \/ Deriving \/ Hooked
           /\ machine.frames = <<>> /\ ~machine.failed /\ Ground(machine) = machine.top
           /\ Len(bodies) \in Nat /\ (bodies = <<>> <=> Len(bodies) = 0)
           /\ Len(classes) \in Nat /\ Len(bodies) < Len(classes)
           /\ bodies # <<>> => /\ Body \in BodyType /\ Body = bodies[Len(bodies)] /\ Len(bodies) \in 1..Len(bodies)
                               /\ Body.class \in 2..Len(classes) /\ Body.class \in 1..Len(classes)
                               /\ machine.mem[machine.top] = Class(Body.class)
<1>1. /\ MachineOK(machine, classes, Held(machine, cells)) /\ BodiesOK
      /\ ClassesOK(classes, machine.insts, Held(machine, cells))
      /\ Plain \/ Deriving \/ Hooked
      /\ machine.frames = <<>> /\ ~machine.failed /\ Ground(machine) = machine.top
  BY DEF IInv, Declaring, Ground
<1>2. /\ Len(bodies) \in Nat /\ (bodies = <<>> <=> Len(bodies) = 0)
      /\ Len(classes) \in Nat /\ Len(bodies) < Len(classes) /\ bodies \in Seq(BodyType)
  BY <1>1 DEF BodiesOK, ClassesOK
<1>3. ASSUME bodies # <<>>
      PROVE  /\ Body \in BodyType /\ Body = bodies[Len(bodies)] /\ Len(bodies) \in 1..Len(bodies)
             /\ Body.class \in 2..Len(classes) /\ Body.class \in 1..Len(classes)
             /\ machine.mem[machine.top] = Class(Body.class)
  <2>1. Len(bodies) \in 1..Len(bodies)
    BY <1>2, <1>3
  <2>2. Body \in BodyType /\ Body = bodies[Len(bodies)]
    BY <1>2, <2>1 DEF Body
  <2>3. Body.class \in 2..Len(classes)
    BY <1>1, <2>1, <2>2 DEF BodiesOK
  <2>4. Body.class \in 1..Len(classes)
    BY <1>2, <2>3
  <2>5. CASE Plain
    <3>1. machine.mem[machine.top - Len(bodies) + Len(bodies)] = Class(bodies[Len(bodies)].class)
      BY <1>1, <2>1, <2>5 DEF Plain
    <3>2. machine.top - Len(bodies) + Len(bodies) = machine.top
      BY <1>1, <1>2, MachineFacts
    <3> QED  BY <2>1, <2>2, <2>3, <2>4, <3>1, <3>2
  <2>6. CASE Deriving
    BY <2>1, <2>2, <2>3, <2>4, <2>6 DEF Deriving, InDerived
  <2>7. CASE Hooked
    BY <1>1, <2>1, <2>2, <2>3, <2>4, <2>7 DEF Hooked, InDerived
  <2> QED  BY <1>1, <2>5, <2>6, <2>7
<1> QED  BY <1>1, <1>2, <1>3

LEMMA DepthFacts ==
    ASSUME IInv, Depth = 0
    PROVE  /\ \A i \in 1..Len(bodies) : bodies[i].super = 0
           /\ ~Deriving /\ ~Hooked
<1>1. bodies \in Seq(BodyType) /\ Len(bodies) \in Nat /\ DOMAIN bodies = 1..Len(bodies)
  BY DEF IInv, BodiesOK
<1> DEFINE D == {i \in DOMAIN bodies : bodies[i].super # 0}
<1>2. IsFiniteSet(D)
  <2>1. IsFiniteSet(1..Len(bodies))
    BY <1>1, FS_Interval
  <2> QED  BY <1>1, <2>1, FS_Subset
<1>3. D = {}
  BY <1>2, FS_EmptySet DEF Depth
<1>4. \A i \in 1..Len(bodies) : bodies[i].super = 0
  BY <1>1, <1>3
<1>5. ~InDerived
  BY <1>4 DEF InDerived
<1> QED  BY <1>4, <1>5 DEF Deriving, Hooked

(* A member is written to class b, which is the superclass of none. *)
Wrote(cl, b, k, v) ==
    [cl EXCEPT ![b] = [super |-> cl[b].super, own |-> [cl[b].own EXCEPT ![k] = v],
                       statics |-> [cl[b].statics EXCEPT ![k] = v]]]

HaveClasses(cl, is) == Len(is) \in Nat /\ \A i \in 1..Len(is) : is[i].klass \in 1..Len(cl)
Extends(cv, cv2) == \A c \in DOMAIN cv : c \in DOMAIN cv2 /\ cv2[c] = cv[c]

LEMMA WroteFacts ==
    ASSUME NEW cl, NEW is, NEW cv, ClassesOK(cl, is, cv), OwnOrInherited(cl), HaveClasses(cl, is),
           NEW b \in 1..Len(cl), \A c \in 1..Len(cl) : cl[c].super # b,
           NEW k \in Keys, NEW v \in Members, v # Unset, NEW cv2, Extends(cv, cv2),
           StaticOK(cl, is, cv2, b, k, v), NEW cl2, cl2 = Wrote(cl, b, k, v)
    PROVE  /\ ClassesOK(cl2, is, cv2) /\ OwnOrInherited(cl2) /\ Grows(cl, is, cv, cl2, is, cv2)
           /\ Len(cl2) = Len(cl) /\ \A c \in 1..Len(cl) : cl2[c].super = cl[c].super
           /\ \A c \in 1..Len(cl) : c # b => cl2[c] = cl[c]
<1>0. cl \in Seq(ClassType) /\ Len(cl) \in 1..MaxClasses /\ Len(cl) \in Nat /\ cl[b] \in ClassType
  <2>1. cl \in Seq(ClassType) /\ Len(cl) \in 1..MaxClasses /\ Len(cl) \in Nat
    BY DEF ClassesOK
  <2> QED  BY <2>1
<1>p. PICK d : d = [super |-> cl[b].super, own |-> [cl[b].own EXCEPT ![k] = v],
                    statics |-> [cl[b].statics EXCEPT ![k] = v]]
  OBVIOUS
<1>1. /\ d \in ClassType /\ d.super = cl[b].super
      /\ \A j \in Keys : d.own[j] = IF j = k THEN v ELSE cl[b].own[j]
      /\ \A j \in Keys : d.statics[j] = IF j = k THEN v ELSE cl[b].statics[j]
  BY <1>0, <1>p DEF ClassType
<1>2. /\ cl2 \in Seq(ClassType) /\ Len(cl2) = Len(cl) /\ cl2[b] = d
      /\ \A c \in 1..Len(cl) : c # b => cl2[c] = cl[c]
  <2>1. cl2 = [cl EXCEPT ![b] = d]
    BY <1>p DEF Wrote
  <2> QED  BY ONLY <1>0, <1>1, <2>1, b \in 1..Len(cl)
<1>3. \A c \in 1..Len(cl) : cl2[c].super = cl[c].super
  BY <1>1, <1>2
<1>4. Grows(cl, is, cv, cl2, is, cv2) /\ Grows(cl, is, cv2, cl2, is, cv2)
  <2>1. Len(cl) <= Len(cl2) /\ Len(cl2) \in Nat /\ Len(is) <= Len(is)
    BY <1>0, <1>2 DEF HaveClasses
  <2>2. \A c \in 1..Len(cl) : cl[c].super \in 0..Len(cl)
    BY StaticFacts
  <2> QED  BY <1>0, <1>3, <2>1, <2>2 DEF Grows, Extends, HaveClasses
<1>5. ASSUME NEW c \in 1..Len(cl), NEW j \in Keys
      PROVE  StaticOK(cl2, is, cv2, c, j, cl2[c].statics[j])
  <2>1. CASE c = b /\ j = k
    <3>1. StaticOK(cl2, is, cv2, b, k, v)
      BY <1>4, WorldGrows
    <3> QED  BY <1>1, <1>2, <2>1, <3>1
  <2>2. CASE ~(c = b /\ j = k)
    <3>1. cl2[c].statics[j] = cl[c].statics[j]
      BY <1>1, <1>2, <2>2
    <3>2. StaticOK(cl, is, cv, c, j, cl[c].statics[j])
      BY DEF ClassesOK
    <3> QED  BY <1>4, <3>1, <3>2, WorldGrows
  <2> QED  BY <2>1, <2>2
<1>6. ClassesOK(cl2, is, cv2)
  BY <1>0, <1>2, <1>3, <1>5 DEF ClassesOK
<1>7. ASSUME NEW c \in 2..Len(cl2), NEW j \in Keys
      PROVE  cl2[c].statics[j] = IF cl2[c].own[j] # Unset \/ cl2[c].super = 0 THEN cl2[c].own[j]
                                 ELSE cl2[cl2[c].super].statics[j]
  <2>1. c \in 1..Len(cl) /\ c \in 2..Len(cl)
    BY <1>0, <1>2
  <2>2. cl[c].statics[j] = IF cl[c].own[j] # Unset \/ cl[c].super = 0 THEN cl[c].own[j]
                           ELSE cl[cl[c].super].statics[j]
    BY <2>1 DEF OwnOrInherited
  <2>3. cl[c].super # 0 => cl2[cl[c].super] = cl[cl[c].super]
    <3>1. cl[c].super \in 0..Len(cl) /\ cl[c].super # b
      BY <2>1, StaticFacts
    <3>2. cl[c].super # 0 => cl[c].super \in 1..Len(cl)
      BY <1>0, <3>1
    <3> QED  BY <1>2, <3>1, <3>2
  <2>4. CASE c = b
    BY <1>1, <1>2, <2>2, <2>3, <2>4
  <2>5. CASE c # b
    BY <1>2, <2>1, <2>2, <2>3, <2>5
  <2> QED  BY <2>4, <2>5
<1> QED  BY <1>2, <1>3, <1>4, <1>6, <1>7 DEF OwnOrInherited

(* What is true of a machine stays true in a larger world. *)
LEMMA MachineGrows ==
    ASSUME NEW m, NEW cl, NEW cv, MachineOK(m, cl, cv), NEW cl2, NEW cv2,
           Grows(cl, m.insts, cv, cl2, m.insts, cv2)
    PROVE  MachineOK(m, cl2, cv2)
<1>1. /\ \A f : FnOK(cl, cv, f) => FnOK(cl2, cv2, f)
      /\ \A f, u : Suits(cl, m.insts, f, u) => Suits(cl2, m.insts, f, u)
      /\ \A u : ValueOK(cl, m.insts, cv, u) => ValueOK(cl2, m.insts, cv2, u)
  BY WorldGrows
<1>2. \A i \in 1..Len(m.insts) : m.insts[i].klass \in 1..Len(cl2)
  BY DEF Grows, MachineOK
<1>3. ASSUME NEW i \in 1..Len(m.frames) PROVE FrameOK(m, cl2, cv2, i)
  <2>1. FrameOK(m, cl, cv, i)
    BY DEF MachineOK
  <2> QED  BY <1>1, <2>1 DEF FrameOK
<1> QED  BY <1>1, <1>2, <1>3 DEF MachineOK

LEMMA WrittenIs ==
    ASSUME classes \in Seq(ClassType), NEW b \in 1..Len(classes), NEW at, machine.mem[at] = Class(b),
           NEW k \in Keys, NEW v
    PROVE  [Stored(k, v, at) EXCEPT ![b].own[k] = v] = Wrote(classes, b, k, v)
<1>1. /\ classes[b] \in ClassType /\ b \in DOMAIN classes /\ DOMAIN Stored(k, v, at) = DOMAIN classes
      /\ classes = [c \in DOMAIN classes |-> classes[c]]
  BY DEF Stored
<1>2. \A c \in DOMAIN classes : Stored(k, v, at)[c] = IF c = b THEN [classes[c] EXCEPT !.statics[k] = v]
                                                      ELSE classes[c]
  BY DEF Stored, Class
<1>p. PICK st : st = Stored(k, v, at)
  OBVIOUS
<1>3. [st EXCEPT ![b].own[k] = v] = [c \in DOMAIN classes |-> IF c = b THEN [st[b] EXCEPT !.own[k] = v] ELSE st[c]]
  BY <1>1, <1>p DEF Stored
<1>4. [st[b] EXCEPT !.own[k] = v] = [super |-> classes[b].super, own |-> [classes[b].own EXCEPT ![k] = v],
                                     statics |-> [classes[b].statics EXCEPT ![k] = v]]
  <2>1. st[b] = [classes[b] EXCEPT !.statics[k] = v]
    BY <1>1, <1>2, <1>p
  <2>p. PICK d : d = classes[b]
    OBVIOUS
  <2>2. st[b] = [super |-> d.super, own |-> d.own, statics |-> [d.statics EXCEPT ![k] = v]]
    BY ONLY <1>1, <2>1, <2>p DEF ClassType
  <2> QED  BY ONLY <2>2, <2>p
<1>5. \A c \in DOMAIN classes : c # b => st[c] = classes[c]
  BY <1>2, <1>p
<1> QED  BY <1>1, <1>3, <1>4, <1>5, <1>p DEF Wrote

(* What a step may not do: the statics of a class that is not open stay. *)
ClosedKept == \A c \in DOMAIN classes : ~IsOpen(c) => classes'[c].statics = classes[c].statics

LEMMA MemberStep ==
    ASSUME IInv, InBody, NEW k \in Keys, NEW v \in Members, v # Unset,
           classes' = Written(k, v, machine.top), UNCHANGED <<bodies, slots, machine>>,
           cells' \in Seq(CellType), Open(cells') => Open(cells) \/ Deriving,
           NEW cv2, cv2 = Held(machine, cells'),
           \A c \in DOMAIN cells : c \in DOMAIN cv2 /\ cv2[c] = Held(machine, cells)[c],
           StaticOK(classes, machine.insts, cv2, Body.class, k, v)
    PROVE  IInv' /\ ClosedKept
<1>p. PICK cv, b, cs : cv = Held(machine, cells) /\ b = Body.class /\ cs = cells'
  OBVIOUS
<1>q. PICK cl : cl = classes'
  OBVIOUS
<1>1. /\ MachineOK(machine, classes, cv) /\ ClassesOK(classes, machine.insts, cv) /\ OwnOrInherited(classes)
      /\ Plain \/ Deriving \/ Hooked
      /\ Len(classes) \in Nat /\ classes \in Seq(ClassType) /\ b \in 1..Len(classes)
      /\ machine.mem[machine.top] = Class(b) /\ BodiesOK /\ bodies # <<>> /\ machine.top \in Nat
      /\ Len(bodies) \in 1..Len(bodies) /\ b = bodies[Len(bodies)].class
  BY <1>p, DeclaringFacts, MachineFacts DEF IInv, InBody, ClassesOK
<1>2. cl = Wrote(classes, b, k, v)
  <2>1. Written(k, v, machine.top) = [Stored(k, v, machine.top) EXCEPT ![b].own[k] = v]
    BY <1>p DEF Written
  <2>2. [Stored(k, v, machine.top) EXCEPT ![b].own[k] = v] = Wrote(classes, b, k, v)
    BY ONLY <1>1, k \in Keys, WrittenIs
  <2> QED  BY <1>q, <2>1, <2>2
<1>3. /\ Extends(cv, cv2)
      /\ \A c \in 1..Len(classes) : classes[c].super # b
      /\ HaveClasses(classes, machine.insts)
      /\ StaticOK(classes, machine.insts, cv2, b, k, v)
  <2>1. \A c \in 1..Len(classes) : classes[c].super # b
    BY <1>1 DEF BodiesOK
  <2>2. Extends(cv, cv2)
    BY <1>p DEF Held, Extends
  <2> QED  BY <1>1, <1>p, <2>1, <2>2, MachineFacts DEF MachineOK, HaveClasses
<1>4. /\ ClassesOK(cl, machine.insts, cv2) /\ OwnOrInherited(cl)
      /\ Grows(classes, machine.insts, cv, cl, machine.insts, cv2)
      /\ Len(cl) = Len(classes) /\ \A c \in 1..Len(classes) : cl[c].super = classes[c].super
      /\ \A c \in 1..Len(classes) : c # b => cl[c] = classes[c]
  BY ONLY <1>1, <1>2, <1>3, k \in Keys, v \in Members, v # Unset, WroteFacts
<1>5. MachineOK(machine, cl, cv2)
  BY <1>1, <1>4, MachineGrows
<1>6. BodiesOK'
  BY <1>1, <1>4, <1>q DEF BodiesOK
<1>7. Open(cs) => machine.top >= 1 \/ bodies = <<>>
  BY <1>p DEF IInv, Deriving
<1>8. \A i \in 1..Len(bodies) : bodies[i].class \in 1..Len(classes) /\ cl[bodies[i].class].super = classes[bodies[i].class].super
  <2>1. \A i \in 1..Len(bodies) : bodies[i].class \in 2..Len(classes)
    BY <1>1 DEF BodiesOK
  <2>2. \A i \in 1..Len(bodies) : bodies[i].class \in 1..Len(classes)
    BY <1>1, <2>1
  <2> QED  BY <1>4, <2>2
<1>9. ASSUME Plain PROVE IInv'
  <2>1. Open(cs) => Open(cells)
    BY <1>9, <1>p, <1>1, <1>8 DEF Plain, Deriving, InDerived
  <2>2. Plain'
    BY <1>9, <1>p, <2>1 DEF Plain
  <2> QED  BY <1>1, <1>4, <1>5, <1>6, <1>7, <1>p, <1>q, <2>2 DEF IInv
<1>10. ASSUME Deriving PROVE IInv'
  <2>1. Deriving'
    BY <1>8, <1>10, <1>q DEF Deriving, InDerived
  <2> QED  BY <1>1, <1>4, <1>5, <1>6, <1>7, <1>p, <1>q, <2>1 DEF IInv
<1>11. ASSUME Hooked PROVE IInv'
  <2>0. ~Deriving
    BY <1>1, <1>11 DEF Hooked, Deriving, InBody, Declaring
  <2>1. ~Open(cs) /\ Len(bodies) = 1 /\ b = bodies[1].class
    BY <1>1, <1>11, <1>p, <2>0 DEF Hooked, InDerived
  <2>2. cl[classes[b].super] = classes[classes[b].super]
    <3>1. classes[b].super \in 0..Len(classes) /\ classes[b].super # 0
      BY <1>1, <1>11, <2>1, StaticFacts DEF Hooked, InDerived
    <3>2. classes[b].super \in 1..Len(classes)
      BY <1>1, <3>1
    <3> QED  BY <1>3, <1>4, <1>1, <3>2
  <2>3. Hooked'
    <3>1. cl[b].super = classes[b].super
      BY <1>1, <1>4
    <3> QED  BY <1>11, <1>p, <1>q, <2>1, <2>2, <3>1 DEF Hooked, InDerived
  <2> QED  BY <1>1, <1>4, <1>5, <1>6, <1>7, <1>p, <1>q, <2>3 DEF IInv
<1>12. ClosedKept
  BY <1>1, <1>4, <1>q DEF ClosedKept, IsOpen
<1> QED  BY <1>1, <1>9, <1>10, <1>11, <1>12

LEMMA FieldStep ==
    ASSUME IInv, Forms = {}, NEW n \in Names, Field(n)
    PROVE  IInv' /\ ClosedKept
<1>p. PICK cv, v : cv = Held(machine, cells) /\ v = machine.x
  OBVIOUS
<1>1. /\ InBody /\ n \in Keys /\ classes' = Written(n, v, machine.top)
      /\ UNCHANGED <<bodies, slots, cells, machine>> /\ v.is # "inst" /\ bodies # <<>>
  BY <1>p DEF Field, NewMember, Keys, InBody
<1>2. /\ MachineOK(machine, classes, cv) /\ ClassesOK(classes, machine.insts, cv)
      /\ cells \in Seq(CellType)
  BY <1>1, <1>p, DeclaringFacts DEF InBody, IInv
<1>3. v \in Values /\ ValueOK(classes, machine.insts, cv, v)
  BY <1>2, <1>p, MachineFacts DEF MachineOK
<1>4. v \in Members /\ v # Unset /\ StaticOK(classes, machine.insts, cv, Body.class, n, v)
  BY <1>1, <1>3, ValueKinds DEF StaticOK
<1>5. /\ cells' \in Seq(CellType) /\ (Open(cells') => Open(cells) \/ Deriving) /\ cv = Held(machine, cells')
      /\ \A c \in DOMAIN cells : c \in DOMAIN cv /\ cv[c] = Held(machine, cells)[c]
  BY <1>1, <1>2, <1>p DEF Held
<1> QED  BY <1>1, <1>4, <1>5, MemberStep

(* The upvalue that a method captures is the superclass. *)
LEMMA MethodStep ==
    ASSUME IInv, Forms = {}, NEW k \in Names \cup Hooks, NEW uses \in BOOLEAN, Method(k, uses)
    PROVE  IInv' /\ ClosedKept
<1>p. PICK cv, b, open, cell, v :
        /\ cv = Held(machine, cells) /\ b = Body.class
        /\ open = {c \in DOMAIN cells : cells[c].at = Body.super}
        /\ cell = IF ~uses THEN 0 ELSE IF open = {} THEN Len(cells) + 1 ELSE CHOOSE c \in open : TRUE
        /\ v = Fn(b, k, cell)
  OBVIOUS
<1>1. /\ InBody /\ k \in Keys /\ classes' = Written(k, v, machine.top) /\ bodies # <<>>
      /\ UNCHANGED <<bodies, slots, machine>>
      /\ cells' = IF cell = Len(cells) + 1 THEN Append(cells, [at |-> Body.super, value |-> None]) ELSE cells
      /\ uses => Body.super # 0 /\ k # "__inherit"
                 /\ classes[classes[b].super].statics["__inherit"] = Unset
  BY <1>p DEF Method, NewMember, Keys, InBody
<1>2. /\ MachineOK(machine, classes, cv) /\ ClassesOK(classes, machine.insts, cv)
      /\ cells \in Seq(CellType) /\ Len(cells) \in Nat /\ b \in 1..Len(classes) /\ b \in Nat
      /\ Plain \/ Deriving \/ Hooked
      /\ Body = bodies[Len(bodies)] /\ Len(bodies) \in 1..Len(bodies)
  <2>1. cells \in Seq(CellType) /\ Len(cells) \in Nat
    BY DEF IInv
  <2>2. b \in 1..Len(classes)
    BY <1>1, <1>p, DeclaringFacts DEF InBody
  <2>3. b \in Nat
    BY <2>2
  <2> QED  BY <1>1, <1>p, <2>1, <2>2, <2>3, DeclaringFacts DEF InBody
<1>d. \A d : Desc(classes, b, b)
  BY DescSelf
<1>3. CASE ~uses
  <2>1. cell = 0 /\ cells' = cells
    BY <1>1, <1>2, <1>3, <1>p
  <2>2. v \in Fns /\ v \in Members /\ v # Unset /\ v.cell = 0 /\ v.home = b /\ v.is = "fn"
    BY <1>1, <1>2, <1>p, <2>1 DEF Fn, Fns, Members, Unset
  <2>3. StaticOK(classes, machine.insts, cv, b, k, v)
    BY <1>2, <1>d, <2>2 DEF StaticOK, FnOK, ValueOK
  <2>4. /\ cells' \in Seq(CellType) /\ (Open(cells') => Open(cells) \/ Deriving) /\ cv = Held(machine, cells')
        /\ \A c \in DOMAIN cells : c \in DOMAIN cv /\ cv[c] = Held(machine, cells)[c]
    BY <1>2, <1>p, <2>1 DEF Held
  <2> QED  BY <1>1, <1>p, <2>2, <2>3, <2>4, MemberStep
<1>4. CASE uses
  <2>1. Deriving /\ Body = bodies[1] /\ Body.super = 1
    <3>1. ~Plain
      BY <1>1, <1>2, <1>4 DEF Plain
    <3>2. ~Hooked
      BY <1>1, <1>2, <1>4, <1>p DEF Hooked, InDerived
    <3> QED  BY <1>2, <3>1, <3>2 DEF Deriving, InDerived
  <2>2. machine.mem[1] = Class(classes[b].super) /\ classes[b].super # 0
    BY <1>p, <2>1 DEF Deriving, InDerived
  <2>p. PICK cs, cv2 : cs = cells' /\ cv2 = Held(machine, cells')
    OBVIOUS
  <2>3. /\ cs \in Seq(CellType) /\ cell \in 1..Len(cs) /\ cs[cell].at = 1 /\ cell # 0 /\ cell \in Nat
        /\ \A c \in DOMAIN cells : c \in DOMAIN cs /\ cs[c] = cells[c]
    <3>1. CASE open = {}
      <4>p. PICK e : e = [at |-> 1, value |-> None]
        OBVIOUS
      <4>1. cell = Len(cells) + 1 /\ cs = Append(cells, e) /\ e.at = 1
        BY <1>1, <1>4, <1>p, <2>1, <2>p, <3>1, <4>p
      <4>2. e \in CellType
        BY <4>p, ValueKinds DEF CellType
      <4>3. /\ cs \in Seq(CellType) /\ Len(cs) = Len(cells) + 1 /\ cs[Len(cells) + 1] = e
            /\ \A c \in 1..Len(cells) : cs[c] = cells[c]
        BY ONLY <1>2, <4>1, <4>2, AppendProperties
      <4>4. DOMAIN cells = 1..Len(cells) /\ DOMAIN cs = 1..Len(cs)
        BY <1>2, <4>3
      <4> QED  BY <1>2, <4>1, <4>3, <4>4
    <3>2. CASE open # {}
      <4>1. cell \in open
        BY <1>4, <1>p, <3>2
      <4>2. cell \in DOMAIN cells /\ cells[cell].at = 1 /\ cell # Len(cells) + 1
        BY <1>2, <1>p, <2>1, <4>1
      <4>3. cs = cells
        BY <1>1, <2>p, <4>2
      <4> QED  BY <1>2, <4>2, <4>3
    <3> QED  BY <3>1, <3>2
  <2>4. /\ cell \in DOMAIN cv2 /\ cv2[cell] = Class(classes[b].super)
        /\ \A c \in DOMAIN cells : c \in DOMAIN cv2 /\ cv2[c] = cv[c]
    <3>1. cell \in DOMAIN cs
      BY <2>3
    <3> QED  BY <1>p, <2>2, <2>3, <2>p, <3>1 DEF Held
  <2>5. v \in Fns /\ v \in Members /\ v # Unset /\ v.cell = cell /\ v.home = b /\ v.is = "fn"
    BY <1>1, <1>2, <1>p, <2>3 DEF Fn, Fns, Members, Unset
  <2>6. FnOK(classes, cv2, v)
    BY <1>2, <2>2, <2>4, <2>5 DEF FnOK
  <2>7. StaticOK(classes, machine.insts, cv2, b, k, v)
    BY <1>1, <1>4, <1>d, <2>5, <2>6 DEF StaticOK, ValueOK
  <2>8. /\ cells' \in Seq(CellType) /\ (Open(cells') => Open(cells) \/ Deriving) /\ cv2 = Held(machine, cells')
        /\ \A c \in DOMAIN cells : c \in DOMAIN cv2 /\ cv2[c] = Held(machine, cells)[c]
    BY <1>p, <2>1, <2>3, <2>4, <2>p
  <2> QED  BY ONLY <1>1, <1>p, <2>5, <2>7, <2>8, IInv, MemberStep
<1> QED  BY <1>3, <1>4

(* The top of the stack moves, no frame being on it. *)
LEMMA TopKeeps ==
    ASSUME NEW m, NEW cl, NEW cv, MachineOK(m, cl, cv), m.frames = <<>>, NEW t \in Nat, t <= m.top,
           NEW n, n = [m EXCEPT !.top = t]
    PROVE  MachineOK(n, cl, cv) /\ n.insts = m.insts /\ n.mem = m.mem /\ n.frames = <<>> /\ n.top = t
<1>1. /\ n \in MachineType /\ n.frames = m.frames /\ n.top = t /\ n.insts = m.insts
      /\ n.x = m.x /\ n.native = m.native /\ n.mem = m.mem
  BY DEF MachineType, MachineOK
<1>2. Ground(n) = t /\ Len(n.frames) = 0
  BY <1>1 DEF Ground
<1>3. t <= Height /\ t = t + 2 * 0
  <2>1. m.top \in Nat /\ Height \in Nat /\ m.top <= Height
    BY MachineFacts
  <2> QED  BY <2>1
<1>4. MachineOK(n, cl, cv)
  BY <1>1, <1>2, <1>3 DEF MachineOK
<1> QED  BY <1>1, <1>4

(* A body that is not in another ends. *)
LEMMA LastBodyEnds ==
    ASSUME IInv, InBody, Len(bodies) = 1, UNCHANGED <<classes, cells>>, bodies' = <<>>, slots' = 0,
           NEW t \in Nat, t \in 0..1, t <= machine.top, Open(cells) => t = 1,
           machine' = [machine EXCEPT !.top = t]
    PROVE  IInv'
<1>p. PICK cv, m : cv = Held(machine, cells) /\ m = machine'
  OBVIOUS
<1>1. /\ MachineOK(machine, classes, cv) /\ machine.frames = <<>> /\ Len(classes) \in Nat /\ Len(bodies) < Len(classes)
      /\ ClassesOK(classes, machine.insts, cv) /\ OwnOrInherited(classes) /\ cells \in Seq(CellType)
  BY <1>p, DeclaringFacts DEF InBody, IInv
<1>2. MachineOK(m, classes, cv) /\ m.insts = machine.insts /\ m.mem = machine.mem /\ m.frames = <<>> /\ m.top = t
  BY <1>1, <1>p, TopKeeps
<1>3. Held(m, cells) = cv
  BY <1>2, <1>p DEF Held
<1>4. BodiesOK'
  <2>1. Len(<<>>) = 0 /\ <<>> \in Seq(BodyType) /\ 0 < Len(classes)
    BY <1>1
  <2> QED  BY <1>1, <2>1 DEF BodiesOK
<1>5. Plain'
  <2>1. Ground(m) = t /\ Len(<<>>) = 0 /\ Open(cells)' = Open(cells)
    BY <1>2 DEF Ground, Open
  <2>2. Ground(m) \in Len(<<>>)..Len(<<>>) + 1 /\ (Open(cells)' => Ground(m) = Len(<<>>) + 1)
    BY <2>1
  <2> QED  BY <1>2, <1>p, <2>2 DEF Plain
<1> QED  BY <1>1, <1>2, <1>3, <1>4, <1>5, <1>p DEF IInv

LEMMA ClassCloseStep ==
    ASSUME IInv, ClassClose
    PROVE  IInv' /\ ClosedKept
<1>p. PICK cv, l : cv = Held(machine, cells) /\ l = Len(bodies)
  OBVIOUS
<1>1. /\ InBody /\ bodies # <<>> /\ Declaring
      /\ bodies' = SubSeq(bodies, 1, l - 1) /\ slots' = (IF Body.super = 0 THEN slots ELSE slots - 1)
  BY <1>p DEF ClassClose, InBody, ScopeEnd
<1>2. /\ MachineOK(machine, classes, cv) /\ ClassesOK(classes, machine.insts, cv) /\ OwnOrInherited(classes)
      /\ Plain \/ Deriving \/ Hooked
      /\ machine.frames = <<>> /\ Ground(machine) = machine.top /\ machine.top \in Nat /\ l \in Nat
      /\ Len(classes) \in Nat /\ l < Len(classes) /\ l \in 1..l
      /\ Body = bodies[l] /\ Body.class \in 1..Len(classes) /\ machine.mem[machine.top] = Class(Body.class)
      /\ cells \in Seq(CellType) /\ BodiesOK /\ bodies \in Seq(BodyType) /\ classes \in Seq(ClassType)
  BY <1>1, <1>p, DeclaringFacts, MachineFacts DEF IInv, BodiesOK, ClassesOK
<1>3. \A at \in Nat : at > 1 => Closed(at, machine) = cells
  <2> SUFFICES ASSUME NEW at \in Nat, at > 1 PROVE Closed(at, machine) = cells
    OBVIOUS
  <2>1. \A c \in DOMAIN cells : cells[c].at \in {0, 1}
    <3>1. \A c \in DOMAIN cells : cells[c] \in CellType
      BY <1>2
    <3> QED  BY <3>1 DEF CellType
  <2>2. \A c \in DOMAIN cells : ~(cells[c].at >= at)
    BY <2>1
  <2>3. cells = [c \in DOMAIN cells |-> cells[c]]
    BY <1>2
  <2> QED  BY <2>2, <2>3 DEF Closed
<1>4. CASE Deriving
  <2>1. l = 1 /\ Body.super = 1 /\ slots = 1 /\ machine.top = 3
    BY <1>2, <1>4, <1>p DEF Deriving, InDerived
  <2>2. bodies' = <<>> /\ slots' = 0
    BY <1>1, <1>2, <2>1
  <2>3. cells' = cells
    <3>1. cells' = Closed(3, machine)
      BY <2>1 DEF ClassClose
    <3> QED  BY <1>3, <3>1
  <2>4. classes' = classes /\ machine' = [machine EXCEPT !.top = 1]
    <3>1. 3 - 1 - 1 = 1
      OBVIOUS
    <3> QED  BY <2>1, <2>2, <3>1 DEF ClassClose
  <2>5. ClosedKept
    BY ONLY <2>4 DEF ClosedKept
  <2>6. IInv'
    BY <1>1, <1>p, <2>1, <2>2, <2>3, <2>4, LastBodyEnds, SMTT(30)
  <2> QED  BY ONLY <2>5, <2>6
<1>5. CASE Hooked
  <2>1. l = 1 /\ Body.super = 1 /\ slots = 1 /\ machine.top = 2 /\ ~Open(cells)
    BY <1>2, <1>5, <1>p DEF Hooked, InDerived
  <2>2. bodies' = <<>> /\ slots' = 0
    BY <1>1, <1>2, <2>1
  <2>3. cells' = cells
    <3>1. cells' = Closed(2, machine)
      BY <2>1 DEF ClassClose
    <3> QED  BY <1>3, <3>1
  <2>4. classes' = classes /\ machine' = [machine EXCEPT !.top = 0]
    <3>1. 2 - 1 - 1 = 0
      OBVIOUS
    <3> QED  BY <2>1, <2>2, <3>1 DEF ClassClose
  <2>5. ClosedKept
    BY ONLY <2>4 DEF ClosedKept
  <2>6. IInv'
    BY <1>1, <1>p, <2>1, <2>2, <2>3, <2>4, LastBodyEnds
  <2> QED  BY ONLY <2>5, <2>6
<1>6. CASE Plain
  <2>1. Body.super = 0 /\ slots' = 0 /\ cells' = cells
        /\ Ground(machine) \in l..l + 1 /\ (Open(cells) => Ground(machine) = l + 1)
    BY <1>1, <1>2, <1>6, <1>p DEF Plain, ClassClose
  <2>p. PICK t : t = machine.top - 1
    OBVIOUS
  <2>2. t \in Nat /\ t <= machine.top /\ t \in l - 1 .. l /\ (Open(cells) => t = l)
    BY ONLY <1>2, <2>1, <2>p
  <2>3. machine' = [machine EXCEPT !.top = t]
    <3>1. machine.top - 0 = machine.top
      BY <1>2
    <3> QED  BY <2>1, <2>p, <3>1 DEF ClassClose
  <2>4. CASE l = 1
    <3>1. bodies' = <<>>
      BY <1>1, <1>2, <2>4
    <3>2. classes' = classes
      BY <3>1 DEF ClassClose
    <3>3. ClosedKept
      BY ONLY <3>2 DEF ClosedKept
    <3>4. IInv'
      BY <1>1, <1>p, <2>1, <2>2, <2>3, <2>4, <3>1, <3>2, LastBodyEnds
    <3> QED  BY ONLY <3>3, <3>4
  <2>5. CASE l # 1
    <3>p. PICK m, bs, b, o : /\ m = machine' /\ bs = bodies' /\ b = bodies[l - 1].class /\ o = Class(Body.class)
      OBVIOUS
    <3>1. /\ l - 1 \in 1..l /\ l - 1 \in Nat /\ l - 1 < l
          /\ bs \in Seq(BodyType) /\ Len(bs) = l - 1 /\ bs # <<>> /\ \A i \in 1..l - 1 : bs[i] = bodies[i]
      <4>1. l - 1 \in 1..l /\ l - 1 \in Nat /\ l - 1 # 0 /\ l - 1 < l
        BY <1>2, <2>5
      <4>2. bs \in Seq(BodyType) /\ Len(bs) = l - 1 /\ \A i \in 1..l - 1 : bs[i] = bodies[i]
        BY ONLY <1>1, <1>2, <1>p, <3>p, <4>1
      <4> QED  BY <4>1, <4>2, NotEmpty
    <3>2. b \in 1..Len(classes) /\ bs[Len(bs)].class = b /\ \A c \in 1..Len(classes) : classes[c].super # b
      <4>1. b \in 2..Len(classes) /\ \A c \in 1..Len(classes) : classes[c].super # b
        BY <1>2, <1>p, <3>1, <3>p DEF BodiesOK
      <4>2. l - 1 \in 1..l - 1
        BY <1>2, <2>5
      <4>3. b \in 1..Len(classes)
        BY <1>2, <4>1
      <4> QED  BY <3>1, <3>p, <4>1, <4>2, <4>3
    <3>3. machine.mem[t] = Class(b)
      <4>1. machine.mem[machine.top - l + (l - 1)] = Class(b)
        BY <1>2, <1>6, <1>p, <3>1, <3>p DEF Plain
      <4>2. machine.top - l + (l - 1) = t
        BY <1>2, <2>p
      <4> QED  BY <4>1, <4>2
    <3>q. PICK cl : cl = classes'
      OBVIOUS
    <3>4. cl = Wrote(classes, b, "inner", o)
      <4>1. classes' = [Stored("inner", o, t) EXCEPT ![b].own["inner"] = o]
        <5>1. machine.top - 0 = machine.top /\ machine.top - 0 - 1 = t
          BY <1>2, <2>p
        <5> QED  BY <1>2, <2>1, <3>1, <3>2, <3>p, <5>1 DEF ClassClose
      <4>2. "inner" \in Keys
        BY DEF Keys
      <4>3. [Stored("inner", o, t) EXCEPT ![b].own["inner"] = o] = Wrote(classes, b, "inner", o)
        BY ONLY <1>2, <3>2, <3>3, <4>2, WrittenIs
      <4> QED  BY <3>q, <4>1, <4>3
    <3>5. /\ o \in Members /\ o # Unset /\ StaticOK(classes, machine.insts, cv, b, "inner", o) /\ "inner" \in Keys
      <4>1. Body.class \in Nat
        BY <1>2
      <4> QED  BY <1>2, <3>p, <4>1, ValueKinds DEF StaticOK, ValueOK, Keys
    <3>6. HaveClasses(classes, machine.insts) /\ Extends(cv, cv)
      BY <1>2, MachineFacts DEF MachineOK, HaveClasses, Extends
    <3>7. /\ ClassesOK(cl, machine.insts, cv) /\ OwnOrInherited(cl)
          /\ Grows(classes, machine.insts, cv, cl, machine.insts, cv)
          /\ Len(cl) = Len(classes) /\ \A c \in 1..Len(classes) : cl[c].super = classes[c].super
          /\ \A c \in 1..Len(classes) : c # b => cl[c] = classes[c]
      BY ONLY <1>2, <3>2, <3>4, <3>5, <3>6, WroteFacts, SMTT(60)
    <3>8. /\ MachineOK(m, cl, cv) /\ m.insts = machine.insts /\ m.mem = machine.mem /\ m.frames = <<>> /\ m.top = t
      <4>1. MachineOK(machine, cl, cv)
        BY <1>2, <3>7, MachineGrows
      <4> QED  BY <1>2, <2>2, <2>3, <3>p, <4>1, TopKeeps
    <3>9. Held(m, cells) = cv
      BY <1>p, <3>8 DEF Held
    <3>10. BodiesOK'
      <4>1. \A i \in 1..Len(bs) : i \in 1..l /\ bs[i] = bodies[i]
        BY <1>2, <3>1
      <4>2. Len(bs) < Len(classes)
        BY <1>2, <3>1
      <4>3. /\ \A i \in 1..Len(bodies) : bodies[i].class \in 2..Len(classes)
            /\ \A i, j \in 1..Len(bodies) : bodies[i].class = bodies[j].class => i = j
            /\ \A i \in 1..Len(bodies), c \in 1..Len(classes) : classes[c].super # bodies[i].class
        BY <1>2 DEF BodiesOK
      <4>4. \A i \in 1..Len(bs) : bs[i].class \in 2..Len(cl)
        BY <1>p, <3>7, <4>1, <4>3
      <4>5. \A i, j \in 1..Len(bs) : bs[i].class = bs[j].class => i = j
        BY <1>p, <4>1, <4>3
      <4>6. \A i \in 1..Len(bs), c \in 1..Len(cl) : cl[c].super # bs[i].class
        BY <1>p, <3>7, <4>1, <4>3
      <4> QED  BY ONLY <2>1, <3>1, <3>7, <3>p, <3>q, <4>2, <4>4, <4>5, <4>6 DEF BodiesOK
    <3>11. Open(cells)' = Open(cells) /\ Ground(m) = t
      BY <2>1, <3>8 DEF Open, Ground
    <3>12. Plain'
      <4>1. t \in Len(bs)..Len(bs) + 1 /\ (Open(cells) => t = Len(bs) + 1)
        BY <1>2, <2>2, <3>1
      <4>2. \A i \in 1..Len(bs) : bs[i].super = 0
        BY <1>6, <1>p, <1>2, <3>1, SMTT(30) DEF Plain
      <4>3. \A i \in 1..Len(bs) : m.mem[t - Len(bs) + i] = Class(bs[i].class)
        <5> SUFFICES ASSUME NEW i \in 1..Len(bs) PROVE m.mem[t - Len(bs) + i] = Class(bs[i].class)
          OBVIOUS
        <5>1. t - Len(bs) + i = machine.top - l + i
          BY <1>2, <2>p, <3>1
        <5>2. i \in 1..l /\ bs[i] = bodies[i]
          BY <1>2, <3>1
        <5>3. machine.mem[machine.top - l + i] = Class(bodies[i].class)
          BY <1>2, <1>6, <1>p, <5>2 DEF Plain
        <5> QED  BY <3>8, <5>1, <5>2, <5>3
      <4> QED  BY <2>1, <3>8, <3>11, <3>p, <4>1, <4>2, <4>3 DEF Plain
    <3>13. Open(cells) => t >= 1
      BY <1>2, <2>2
    <3>14. IInv'
      BY <1>2, <2>1, <3>7, <3>8, <3>9, <3>10, <3>11, <3>12, <3>13, <3>p, <3>q DEF IInv
    <3>15. ClosedKept
      <4>1. IsOpen(b)
        <5>1. l - 1 \in DOMAIN bodies
          BY <1>2, <1>p, <3>1
        <5> QED  BY ONLY <3>p, <5>1 DEF IsOpen
      <4> QED  BY <1>2, <3>7, <3>q, <4>1 DEF ClosedKept
    <3> QED  BY ONLY <3>14, <3>15
  <2> QED  BY <2>4, <2>5
<1> QED  BY <1>2, <1>4, <1>5, <1>6

LEMMA NextTextStep ==
    ASSUME IInv, NextText
    PROVE  IInv'
<1>p. PICK cv, m, cs : cv = Held(machine, cells) /\ m = machine' /\ cs = cells'
  OBVIOUS
<1>1. /\ Declaring /\ bodies = <<>> /\ UNCHANGED <<classes, bodies, slots>>
      /\ m = [machine EXCEPT !.top = 0, !.mem = [p \in Places |-> None]] /\ cs = Closed(1, machine)
  BY <1>p DEF NextText
<1>2. /\ MachineOK(machine, classes, cv) /\ ClassesOK(classes, machine.insts, cv) /\ OwnOrInherited(classes)
      /\ machine.frames = <<>> /\ cells \in Seq(CellType) /\ BodiesOK /\ slots = 0
      /\ machine.mem \in [Places -> Values] /\ 1 \in Places
  <2>1. 1 \in Places
    BY MachineFacts, DeclaringFacts, <1>1, ClassAssumption DEF Height
  <2> QED  BY <1>1, <1>p, <2>1, DeclaringFacts, MachineFacts DEF IInv, BodiesOK
<1>3. /\ m \in MachineType /\ m.frames = <<>> /\ m.top = 0 /\ m.insts = machine.insts
      /\ m.x = machine.x /\ m.native = machine.native /\ \A p \in Places : m.mem[p] = None
  <2>1. machine \in MachineType /\ None \in Values
    BY <1>2, ValueKinds DEF MachineOK
  <2> QED  BY <1>1, <1>2, <2>1 DEF MachineType
<1>4. MachineOK(m, classes, cv)
  <2>1. Ground(m) = 0 /\ 0 + 2 * Len(<<>>) = 0 /\ Len(<<>>) = 0 /\ 0 <= Height
    BY <1>2, <1>3, MachineFacts DEF Ground
  <2>2. \A p \in Places : ValueOK(classes, m.insts, cv, m.mem[p])
    BY <1>3 DEF ValueOK, None
  <2> QED  BY <1>2, <1>3, <2>1, <2>2 DEF MachineOK
<1>5. \A c \in DOMAIN cells : cells[c] \in CellType /\ cells[c].at \in {0, 1} /\ cells[c].value \in Values
  <2>1. \A c \in DOMAIN cells : cells[c] \in CellType
    BY <1>2
  <2> QED  BY <2>1 DEF CellType
<1>6. /\ DOMAIN cs = DOMAIN cells
      /\ \A c \in DOMAIN cells : cs[c].at = 0 /\ cs[c].value = cv[c] /\ cs[c] \in CellType
  <2>1. \A c \in DOMAIN cells : cs[c] = IF cells[c].at = 1 THEN [at |-> 0, value |-> machine.mem[1]] ELSE cells[c]
    BY <1>1, <1>5 DEF Closed
  <2>2. \A c \in DOMAIN cells : cv[c] = IF cells[c].at = 0 THEN cells[c].value ELSE machine.mem[1]
    BY <1>5, <1>p DEF Held
  <2>3. DOMAIN cs = DOMAIN cells
    BY <1>1 DEF Closed
  <2> QED  BY <1>2, <1>5, <2>1, <2>2, <2>3 DEF CellType
<1>7. cs \in Seq(CellType)
  <2>1. cs = [c \in 1..Len(cells) |-> cs[c]] /\ Len(cells) \in Nat /\ DOMAIN cells = 1..Len(cells)
    BY <1>1, <1>2 DEF Closed
  <2> QED  BY <1>6, <2>1
<1>8. Held(m, cs) = cv /\ ~Open(cs)
  BY <1>6, <1>p DEF Held, Open
<1>9. BodiesOK'
  BY <1>1, <1>2 DEF BodiesOK
<1>10. Plain'
  <2>1. Ground(m) \in Len(<<>>)..Len(<<>>) + 1 /\ \A i \in 1..Len(<<>>) : FALSE
    BY <1>3 DEF Ground
  <2>2. bodies' = <<>> /\ slots' = 0
    BY <1>1, <1>2
  <2> QED  BY ONLY <1>3, <1>8, <1>p, <2>1, <2>2 DEF Plain
<1> QED  BY <1>1, <1>2, <1>3, <1>4, <1>7, <1>8, <1>9, <1>10, <1>p DEF IInv

-------------------------------------------------------------------------------
(* A class is made: it is empty, or has what its superclass has. *)
Made(cl, s) == [super |-> s, own |-> NoStatics, statics |-> IF s = 0 THEN NoStatics ELSE cl[s].statics]
WithMade(cl, s) == Append(cl, Made(cl, s))

LEMMA MadeFacts ==
    ASSUME NEW cl, NEW is, NEW cv, ClassesOK(cl, is, cv), OwnOrInherited(cl), HaveClasses(cl, is),
           Len(cl) < MaxClasses, NEW s \in 0..Len(cl),
           NEW cl2, cl2 = WithMade(cl, s)
    PROVE  /\ ClassesOK(cl2, is, cv) /\ OwnOrInherited(cl2) /\ Grows(cl, is, cv, cl2, is, cv)
           /\ Len(cl2) = Len(cl) + 1 /\ \A c \in 1..Len(cl) : cl2[c] = cl[c]
           /\ cl2[Len(cl) + 1] = Made(cl, s)
<1>0. cl \in Seq(ClassType) /\ Len(cl) \in 1..MaxClasses /\ Len(cl) \in Nat /\ MaxClasses \in Nat
      /\ (s # 0 => s \in 1..Len(cl))
  BY ClassAssumption DEF ClassesOK
<1>p. PICK d, l : d = Made(cl, s) /\ l = Len(cl) + 1
  OBVIOUS
<1>1. d \in ClassType /\ d.super = s /\ d.own = NoStatics /\ d.statics = (IF s = 0 THEN NoStatics ELSE cl[s].statics)
  <2>1. NoStatics \in [Keys -> Members]
    BY DEF NoStatics, Members
  <2>2. s # 0 => cl[s].statics \in [Keys -> Members]
    <3>1. s # 0 => cl[s] \in ClassType
      BY <1>0
    <3> QED  BY <3>1 DEF ClassType
  <2> QED  BY <1>p, <1>0, <2>1, <2>2 DEF Made, ClassType
<1>2. /\ cl2 \in Seq(ClassType) /\ Len(cl2) = l /\ cl2[l] = d
      /\ \A c \in 1..Len(cl) : cl2[c] = cl[c]
  BY ONLY <1>0, <1>1, <1>p, AppendProperties, cl2 = WithMade(cl, s) DEF WithMade
<1>3. /\ \A c \in 1..l : c \in 1..Len(cl) \/ c = l
      /\ l \in 1..MaxClasses /\ l \in Nat /\ Len(cl) <= l
  BY <1>0, <1>p
<1>4. Grows(cl, is, cv, cl2, is, cv)
  <2>1. Len(is) <= Len(is)
    BY DEF HaveClasses
  <2>2. \A c \in 1..Len(cl) : cl[c].super \in 0..Len(cl)
    <3>1. "inner" \in Keys
      BY DEF Keys
    <3> QED  BY <3>1, StaticFacts
  <2> QED  BY <1>0, <1>2, <1>3, <2>1, <2>2 DEF Grows, HaveClasses
<1>5. ASSUME NEW c \in 1..Len(cl), NEW k \in Keys
      PROVE  StaticOK(cl2, is, cv, c, k, cl2[c].statics[k])
  <2>1. StaticOK(cl, is, cv, c, k, cl[c].statics[k])
    BY DEF ClassesOK
  <2> QED  BY <1>2, <1>4, <2>1, WorldGrows
<1>6. ASSUME NEW k \in Keys PROVE StaticOK(cl2, is, cv, l, k, d.statics[k])
  <2>1. CASE s = 0
    BY <1>1, <2>1 DEF StaticOK, ValueOK, NoStatics, Unset
  <2>2. CASE s # 0
    <3>1. StaticOK(cl2, is, cv, s, k, d.statics[k])
      BY <1>0, <1>1, <1>2, <1>5, <2>2
    <3>2. \A e : Desc(cl2, s, e) => Desc(cl2, l, e)
      <4>1. l \in 1..Len(cl2) /\ cl2[l].super = s /\ Desc(cl2, l, l)
        BY <1>1, <1>2, <1>3, DescSelf
      <4> QED  BY <2>2, <4>1, DescOver
    <3> QED  BY <3>1, <3>2 DEF StaticOK
  <2> QED  BY <2>1, <2>2
<1>7. ClassesOK(cl2, is, cv)
  <2>1. \A c \in 1..Len(cl2), k \in Keys : StaticOK(cl2, is, cv, c, k, cl2[c].statics[k])
    BY <1>2, <1>3, <1>5, <1>6
  <2>2. \A c \in 1..Len(cl2) : cl2[c].super < c
    <3>1. \A c \in 1..Len(cl) : cl2[c].super < c
      BY <1>2 DEF ClassesOK
    <3>2. s < l
      BY <1>0, <1>p
    <3> QED  BY <1>1, <1>2, <1>3, <3>1, <3>2
  <2> QED  BY <1>2, <1>3, <2>1, <2>2 DEF ClassesOK
<1>8. ASSUME NEW c \in 2..Len(cl2), NEW k \in Keys
      PROVE  cl2[c].statics[k] = IF cl2[c].own[k] # Unset \/ cl2[c].super = 0 THEN cl2[c].own[k]
                                 ELSE cl2[cl2[c].super].statics[k]
  <2>1. CASE c = l
    <3>1. s # 0 => cl2[s] = cl[s]
      BY <1>0, <1>2
    <3>2. NoStatics[k] = Unset
      BY DEF NoStatics
    <3> QED  BY <1>1, <1>2, <2>1, <3>1, <3>2
  <2>2. CASE c # l
    <3>1. c \in 2..Len(cl) /\ c \in 1..Len(cl)
      BY <1>0, <1>2, <1>p, <2>2
    <3>2. cl[c].super # 0 => cl2[cl[c].super] = cl[cl[c].super]
      <4>1. cl[c].super \in 0..Len(cl)
        BY <3>1, StaticFacts
      <4>2. cl[c].super # 0 => cl[c].super \in 1..Len(cl)
        BY <1>0, <4>1
      <4> QED  BY <1>2, <4>2
    <3>3. cl[c].statics[k] = IF cl[c].own[k] # Unset \/ cl[c].super = 0 THEN cl[c].own[k]
                             ELSE cl[cl[c].super].statics[k]
      BY <3>1 DEF OwnOrInherited
    <3> QED  BY <1>2, <3>1, <3>2, <3>3
  <2> QED  BY <2>1, <2>2
<1> QED  BY <1>2, <1>4, <1>7, <1>8, <1>p DEF OwnOrInherited

(* A value is pushed, no frame being on the stack. *)
LEMMA UnderKeeps ==
    ASSUME NEW m, NEW cl, NEW cv, MachineOK(m, cl, cv), m.frames = <<>>, m.top + 1 <= Height,
           NEW v \in Values, ValueOK(cl, m.insts, cv, v), NEW n, n = Under(m, v)
    PROVE  /\ MachineOK(n, cl, cv) /\ n.insts = m.insts /\ n.frames = <<>> /\ n.top = m.top + 1
           /\ n.failed = m.failed /\ \A p \in Places : n.mem[p] = IF p = m.top + 1 THEN v ELSE m.mem[p]
<1>p. PICK t : t = m.top + 1
  OBVIOUS
<1>0. /\ m \in MachineType /\ m.mem \in [Places -> Values] /\ t \in Nat /\ t \in Places /\ t <= Height
  <2>1. m.top \in Nat /\ Places = 1..Height /\ Height \in Nat
    BY MachineFacts
  <2>2. t \in Nat /\ t \in Places /\ t <= Height
    BY <1>p, <2>1
  <2> QED  BY <2>2, MachineFacts DEF MachineOK
<1>1. n = [m EXCEPT !.top = t, !.mem = [m.mem EXCEPT ![t] = v]]
  BY <1>0, <1>p DEF Under, MachineType
<1>2. /\ n \in MachineType /\ n.frames = <<>> /\ n.top = t /\ n.insts = m.insts
      /\ n.x = m.x /\ n.native = m.native /\ n.failed = m.failed
      /\ n.mem = [m.mem EXCEPT ![t] = v]
  BY <1>0, <1>1 DEF MachineType
<1>3. \A p \in Places : n.mem[p] = IF p = t THEN v ELSE m.mem[p]
  BY <1>0, <1>2
<1>4. MachineOK(n, cl, cv)
  <2>1. Ground(n) = t /\ Len(n.frames) = 0 /\ t = t + 2 * 0
    BY <1>0, <1>2 DEF Ground
  <2>2. \A p \in Places : ValueOK(cl, n.insts, cv, n.mem[p])
    BY <1>2, <1>3 DEF MachineOK
  <2> QED  BY <1>0, <1>2, <2>1, <2>2 DEF MachineOK
<1> QED  BY <1>2, <1>3, <1>4, <1>p

(* The classes, bodies and upvalues once a class is declared. *)
WithBody(sup) == Append(bodies, [class |-> Len(classes) + 1, super |-> sup])

LEMMA OpenFacts ==
    ASSUME IInv, Declaring, Depth = 0, Len(classes) + 1 <= MaxClasses, NEW s \in 0..Len(classes),
           ~IsOpen(s),
           NEW cv, cv = Held(machine, cells), NEW cl, cl = WithMade(classes, s),
           NEW sup \in {0, 1}, NEW bs, bs = WithBody(sup)
    PROVE  /\ ClassesOK(cl, machine.insts, cv) /\ OwnOrInherited(cl) /\ MachineOK(machine, cl, cv)
           /\ Len(cl) = Len(classes) + 1 /\ \A c \in 1..Len(classes) : cl[c] = classes[c]
           /\ cl[Len(classes) + 1] = Made(classes, s)
           /\ bs \in Seq(BodyType) /\ Len(bs) = Len(bodies) + 1 /\ \A i \in 1..Len(bodies) : bs[i] = bodies[i]
           /\ bs[Len(bodies) + 1] = [class |-> Len(classes) + 1, super |-> sup]
           /\ Len(bs) < Len(cl)
           /\ \A i \in 1..Len(bs) : bs[i].class \in 2..Len(cl)
           /\ \A i, j \in 1..Len(bs) : bs[i].class = bs[j].class => i = j
           /\ \A i \in 1..Len(bs), c \in 1..Len(cl) : cl[c].super # bs[i].class
<1>0. ClassesOK(classes, machine.insts, cv) /\ OwnOrInherited(classes)
  BY DeclaringFacts DEF IInv
<1>1. /\ MachineOK(machine, classes, cv)
      /\ BodiesOK /\ Len(bodies) \in Nat /\ Len(classes) \in Nat /\ Len(classes) >= 1 /\ Len(bodies) < Len(classes)
      /\ bodies \in Seq(BodyType)
  BY DeclaringFacts DEF IInv, ClassesOK, BodiesOK
<1>2. Len(classes) < MaxClasses /\ HaveClasses(classes, machine.insts)
  <2>1. Len(classes) < MaxClasses
    BY <1>1, ClassAssumption
  <2> QED  BY <1>1, <2>1, MachineFacts DEF MachineOK, HaveClasses
<1>3. /\ ClassesOK(cl, machine.insts, cv) /\ OwnOrInherited(cl)
      /\ Grows(classes, machine.insts, cv, cl, machine.insts, cv)
      /\ Len(cl) = Len(classes) + 1 /\ \A c \in 1..Len(classes) : cl[c] = classes[c]
      /\ cl[Len(classes) + 1] = Made(classes, s)
  BY ONLY <1>0, <1>2, s \in 0..Len(classes), cl = WithMade(classes, s), MadeFacts
<1>4. MachineOK(machine, cl, cv)
  BY <1>1, <1>3, MachineGrows
<1>p. PICK e : e = [class |-> Len(classes) + 1, super |-> sup]
  OBVIOUS
<1>5. e \in BodyType /\ e.class = Len(classes) + 1
  BY <1>1, <1>p DEF BodyType
<1>6. /\ bs \in Seq(BodyType) /\ Len(bs) = Len(bodies) + 1 /\ \A i \in 1..Len(bodies) : bs[i] = bodies[i]
      /\ bs[Len(bodies) + 1] = e
  BY ONLY <1>1, <1>5, <1>p, AppendProperties, bs = WithBody(sup)
         DEF WithBody
<1>7. \A i \in 1..Len(bs) : i \in 1..Len(bodies) \/ i = Len(bodies) + 1
  BY <1>1, <1>6
<1>8. \A i \in 1..Len(bodies) : bs[i].class \in 2..Len(classes)
  BY <1>1, <1>6 DEF BodiesOK
<1>9. \A i \in 1..Len(bs) : bs[i].class \in 2..Len(cl)
  <2>1. \A i \in 1..Len(bodies) : bs[i].class \in 2..Len(cl)
    BY <1>1, <1>3, <1>8
  <2>2. Len(classes) + 1 \in 2..Len(cl)
    BY <1>1, <1>3
  <2> QED  BY <1>5, <1>6, <1>7, <2>1, <2>2
<1>10. ASSUME NEW i \in 1..Len(bs), NEW j \in 1..Len(bs), bs[i].class = bs[j].class PROVE i = j
  <2>1. \A h \in 1..Len(bodies) : bs[h].class # Len(classes) + 1
    BY <1>1, <1>8
  <2>2. i \in 1..Len(bodies) /\ j \in 1..Len(bodies) => i = j
    BY <1>1, <1>6, <1>10 DEF BodiesOK
  <2> QED  BY <1>5, <1>6, <1>7, <1>10, <2>1, <2>2
<1>11. ASSUME NEW i \in 1..Len(bs), NEW c \in 1..Len(cl) PROVE cl[c].super # bs[i].class
  <2>1. cl[c].super \in Nat /\ cl[c].super < c
    <3>1. cl[c] \in ClassType
      BY <1>3 DEF ClassesOK
    <3> QED  BY <1>3, <3>1 DEF ClassesOK, ClassType
  <2>2. CASE i = Len(bodies) + 1
    <3>1. bs[i].class = Len(classes) + 1 /\ c <= Len(classes) + 1
      BY <1>1, <1>3, <1>5, <1>6, <2>2
    <3> QED  BY <1>1, <2>1, <3>1
  <2>3. CASE i \in 1..Len(bodies) /\ c \in 1..Len(classes)
    BY <1>1, <1>3, <1>6, <2>3 DEF BodiesOK
  <2>4. CASE i \in 1..Len(bodies) /\ c = Len(classes) + 1
    <3>1. cl[c].super = s /\ bs[i].class = bodies[i].class /\ i \in DOMAIN bodies
      BY <1>1, <1>3, <1>6, <2>4 DEF Made
    <3> QED  BY <3>1 DEF IsOpen
  <2>5. c \in 1..Len(classes) \/ c = Len(classes) + 1
    BY <1>1, <1>3
  <2> QED  BY <1>7, <2>2, <2>3, <2>4, <2>5
<1>12. Len(bs) < Len(cl)
  BY <1>1, <1>3, <1>6
<1> QED  BY ONLY <1>3, <1>4, <1>6, <1>9, <1>10, <1>11, <1>12, <1>p

LEMMA BaseOpenStep ==
    ASSUME IInv, NEW nested \in BOOLEAN, ClassOpen(0, nested)
    PROVE  IInv'
<1>p. PICK cv, c, cl, bs, m :
        /\ cv = Held(machine, cells) /\ c = Len(classes) + 1 /\ cl = WithMade(classes, 0)
        /\ bs = WithBody(0) /\ m = machine'
  OBVIOUS
<1>1. /\ Declaring /\ Depth = 0 /\ Len(classes) + 1 <= MaxClasses /\ 0 \in 0..Len(classes)
      /\ ~IsOpen(0)
      /\ classes' = cl /\ bodies' = bs /\ m = Under(machine, Class(c)) /\ slots' = slots /\ cells' = cells
  BY <1>p DEF ClassOpen, WithMade, Made, WithBody, IsOpen
<1>2. /\ MachineOK(machine, classes, cv) /\ machine.frames = <<>> /\ Ground(machine) = machine.top /\ Plain
      /\ machine.top \in Nat /\ Len(bodies) \in Nat /\ Len(classes) \in Nat /\ Len(bodies) < Len(classes)
      /\ cells \in Seq(CellType) /\ Places = 1..Height /\ Height \in Nat /\ Len(classes) >= 1
  <2>1. MachineOK(machine, classes, cv)
    BY <1>1, <1>p, DeclaringFacts
  <2>2. Len(classes) \in Nat /\ Len(classes) >= 1
    BY <1>1, DeclaringFacts DEF ClassesOK
  <2> QED  BY <1>1, <2>1, <2>2, DeclaringFacts, DepthFacts, MachineFacts DEF IInv
<1>3. /\ ClassesOK(cl, machine.insts, cv) /\ OwnOrInherited(cl) /\ MachineOK(machine, cl, cv)
      /\ Len(cl) = Len(classes) + 1
      /\ bs \in Seq(BodyType) /\ Len(bs) = Len(bodies) + 1 /\ \A i \in 1..Len(bodies) : bs[i] = bodies[i]
      /\ bs[Len(bodies) + 1] = [class |-> Len(classes) + 1, super |-> 0]
      /\ Len(bs) < Len(cl)
      /\ \A i \in 1..Len(bs) : bs[i].class \in 2..Len(cl)
      /\ \A i, j \in 1..Len(bs) : bs[i].class = bs[j].class => i = j
      /\ \A i \in 1..Len(bs), k \in 1..Len(cl) : cl[k].super # bs[i].class
  BY ONLY <1>1, <1>p, IInv, 0 \in {0, 1}, OpenFacts
<1>t. PICK t : t = machine.top
  OBVIOUS
<1>4. /\ t \in Len(bodies)..Len(bodies) + 1 /\ (Open(cells) => t = Len(bodies) + 1)
      /\ slots = 0 /\ t + 1 <= Height /\ t \in Nat
  <2>1. /\ t \in Len(bodies)..Len(bodies) + 1 /\ (Open(cells) => t = Len(bodies) + 1) /\ slots = 0
    BY <1>2, <1>t DEF Plain
  <2>2. MaxClasses \in Nat /\ MaxFrames \in Nat
    BY ClassAssumption
  <2>3. t <= MaxClasses - 1 /\ t \in Nat
    BY <1>1, <1>2, <2>1, <2>2
  <2>4. t + 1 <= Height
    BY <2>2, <2>3 DEF Height
  <2> QED  BY <2>1, <2>3, <2>4
<1>5. Class(c) \in Values /\ ValueOK(cl, machine.insts, cv, Class(c))
  <2>1. c \in 1..Len(cl) /\ c \in Nat
    BY <1>2, <1>3, <1>p
  <2> QED  BY <2>1, ValueKinds DEF ValueOK
<1>6. /\ MachineOK(m, cl, cv) /\ m.insts = machine.insts /\ m.frames = <<>> /\ m.top = t + 1
      /\ \A p \in Places : m.mem[p] = IF p = t + 1 THEN Class(c) ELSE machine.mem[p]
  BY ONLY <1>1, <1>2, <1>3, <1>4, <1>5, <1>t, UnderKeeps
<1>7. Held(m, cells) = cv
  <2>1. Open(cells) => m.mem[1] = machine.mem[1]
    <3>1. Open(cells) => 1 # t + 1 /\ 1 \in 1..Height
      BY <1>2, <1>4
    <3> QED  BY <1>2, <1>6, <3>1
  <2> QED  BY <1>2, <1>p, <2>1, HeldKept
<1>8. BodiesOK'
  <2>1. bs # <<>>
    <3>1. Len(bs) # 0
      BY <1>2, <1>3
    <3> QED  BY <3>1, NotEmpty
  <2> QED  BY ONLY <1>1, <1>3, <2>1 DEF BodiesOK
<1>9. Open(cells)' = Open(cells) /\ (Open(cells) => t + 1 >= 1)
  BY <1>1, <1>4 DEF Open
<1>10. Plain'
  <2>1. t + 1 \in Len(bs)..Len(bs) + 1 /\ (Open(cells) => t + 1 = Len(bs) + 1) /\ Ground(m) = t + 1
    BY <1>2, <1>3, <1>4, <1>6 DEF Ground
  <2>2. \A i \in 1..Len(bs) : i \in 1..Len(bodies) \/ i = Len(bodies) + 1
    BY <1>2, <1>3
  <2>3. \A i \in 1..Len(bs) : bs[i].super = 0
    <3>1. \A i \in 1..Len(bodies) : bs[i].super = 0
      BY <1>2, <1>3 DEF Plain
    <3>2. bs[Len(bodies) + 1].super = 0
      BY ONLY <1>3
    <3> QED  BY ONLY <2>2, <3>1, <3>2
  <2>4. \A i \in 1..Len(bs) : m.mem[t + 1 - Len(bs) + i] = Class(bs[i].class)
    <3> SUFFICES ASSUME NEW i \in 1..Len(bs) PROVE m.mem[t + 1 - Len(bs) + i] = Class(bs[i].class)
      OBVIOUS
    <3>1. t + 1 - Len(bs) + i = t - Len(bodies) + i
      BY <1>2, <1>3, <1>4
    <3>2. CASE i = Len(bodies) + 1
      <4>1. t - Len(bodies) + i = t + 1 /\ t + 1 \in Places
        BY <1>2, <1>4, <3>2
      <4> QED  BY <1>3, <1>6, <1>p, <3>1, <3>2, <4>1
    <3>3. CASE i \in 1..Len(bodies)
      <4>1. t - Len(bodies) + i # t + 1 /\ t - Len(bodies) + i \in Places
        BY <1>2, <1>4, <3>3
      <4>2. machine.mem[t - Len(bodies) + i] = Class(bodies[i].class)
        BY <1>2, <1>t, <3>3 DEF Plain
      <4> QED  BY <1>3, <1>6, <3>1, <3>3, <4>1, <4>2
    <3> QED  BY <2>2, <3>2, <3>3
  <2> QED  BY ONLY <1>1, <1>4, <1>6, <1>9, <1>p, <2>1, <2>3, <2>4 DEF Plain
<1> QED  BY ONLY <1>1, <1>2, <1>3, <1>4, <1>6, <1>7, <1>8, <1>9, <1>10, <1>p DEF IInv

(* The hook of the superclass is entered, its two classes under it. *)
HookEntered(m, f) == [Entered(m, f, 1, "hook") EXCEPT !.mem = m.mem]

LEMMA HookKeeps ==
    ASSUME NEW m, NEW cl, NEW cv, MachineOK(m, cl, cv), m.frames = <<>>, m.top = 2,
           NEW f \in Fns, FnOK(cl, cv, f), f.cell = 0,
           NEW n, n = HookEntered(m, f)
    PROVE  /\ MachineOK(n, cl, cv) /\ n.insts = m.insts /\ n.mem = m.mem /\ n.top = 2
           /\ n.frames # <<>> /\ n.frames[1].kind = "hook" /\ Ground(n) = 0
<1>p. PICK g : g = [fn |-> f, base |-> 1, kind |-> "hook"]
  OBVIOUS
<1>q. PICK fs : fs = Append(<<>>, g)
  OBVIOUS
<1>0. m \in MachineType
  BY DEF MachineOK
<1>1. /\ n.frames = fs /\ n.top = 2 /\ n.insts = m.insts /\ n.x = m.x /\ n.native = m.native
      /\ n.mem = m.mem /\ n = [m EXCEPT !.frames = fs, !.top = 2, !.mem = m.mem]
  <2>1. Entered(m, f, 1, "hook") = [m EXCEPT !.frames = fs, !.top = 1 + 1, !.mem[1 + 1] = None]
    BY <1>p, <1>q DEF Entered
  <2>2. 1 + 1 = 2
    OBVIOUS
  <2>3. n = [m EXCEPT !.frames = fs, !.top = 2, !.mem = m.mem]
    BY <1>0, <2>1, <2>2 DEF MachineType, HookEntered
  <2> QED  BY <1>0, <2>3 DEF MachineType
<1>2. g \in FrameType /\ g.fn = f /\ g.base = 1 /\ g.kind = "hook"
  BY <1>p DEF FrameType
<1>3. /\ n.frames \in Seq(FrameType) /\ Len(n.frames) = 1 /\ n.frames[1] = g /\ n.frames # <<>>
  <2>1. <<>> \in Seq(FrameType) /\ Len(<<>>) = 0
    OBVIOUS
  <2>2. fs \in Seq(FrameType) /\ Len(fs) = 0 + 1 /\ fs[0 + 1] = g
    BY ONLY <1>2, <1>q, <2>1, AppendProperties
  <2>3. fs \in Seq(FrameType) /\ Len(fs) = 1 /\ fs[1] = g /\ Len(fs) # 0
    BY ONLY <2>2
  <2> QED  BY <1>1, <2>3, NotEmpty
<1>4. n \in MachineType
  <2>1. m.mem \in [Places -> Values] /\ fs \in Seq(FrameType) /\ 2 \in Nat
    BY <1>1, <1>3, MachineFacts
  <2> QED  BY ONLY <1>1, <1>0, <2>1 DEF MachineType
<1>5. Ground(n) = 0
  BY <1>2, <1>3 DEF Ground
<1>6. \A i \in 1..Len(n.frames) : FrameOK(n, cl, cv, i)
  <2>1. \A i \in 1..Len(n.frames) : i = 1
    BY ONLY <1>3
  <2>2. FrameOK(n, cl, cv, 1)
    BY <1>2, <1>3, <1>5 DEF FrameOK
  <2> QED  BY <2>1, <2>2
<1>7. n.top = Ground(n) + 2 * Len(n.frames) /\ n.top <= Height
  <2>1. 2 <= Height
    <3>1. m.top <= Height
      BY DEF MachineOK
    <3> QED  BY ONLY <3>1, m.top = 2
  <2>2. 2 = 0 + 2 * 1
    OBVIOUS
  <2> QED  BY ONLY <1>1, <1>3, <1>5, <2>1, <2>2
<1>8. MachineOK(n, cl, cv)
  BY <1>1, <1>4, <1>5, <1>6, <1>7 DEF MachineOK
<1> QED  BY <1>1, <1>2, <1>3, <1>5, <1>8


(* A class with a superclass is declared first in its text: the stack is
   empty, so `super` is where the compiler counts it.                      *)
LEMMA DerivedOpenStep ==
    ASSUME IInv, Forms = {}, NEW s \in 1..Len(classes), NEW nested \in BOOLEAN, ClassOpen(s, nested)
    PROVE  IInv'
<1>0. /\ Declaring /\ Depth = 0 /\ Len(classes) + 1 <= MaxClasses /\ s \in 0..Len(classes) /\ s # 0
      /\ ~IsOpen(s) /\ bodies = <<>> /\ machine.top = slots /\ cells' = cells
  BY DEF ClassOpen, IsOpen
<1>1. /\ MachineOK(machine, classes, Held(machine, cells)) /\ machine.frames = <<>> /\ ~machine.failed
      /\ ClassesOK(classes, machine.insts, Held(machine, cells))
      /\ Ground(machine) = machine.top /\ Plain /\ slots = 0 /\ machine.top = 0 /\ Len(bodies) = 0
      /\ Len(classes) \in Nat /\ cells \in Seq(CellType) /\ Places = 1..Height /\ Height \in Nat
      /\ Len(classes) >= 1
  <2>1. /\ MachineOK(machine, classes, Held(machine, cells)) /\ machine.frames = <<>> /\ ~machine.failed
        /\ ClassesOK(classes, machine.insts, Held(machine, cells))
        /\ Ground(machine) = machine.top /\ Len(classes) \in Nat /\ Len(bodies) = 0
        /\ (Plain \/ Deriving \/ Hooked)
    BY <1>0, DeclaringFacts
  <2>2. ~Deriving /\ ~Hooked
    BY <1>0, DepthFacts
  <2>3. slots = 0 /\ cells \in Seq(CellType) /\ Len(classes) >= 1
    BY <1>0, <2>1 DEF IInv, BodiesOK, ClassesOK
  <2> QED  BY <1>0, <2>1, <2>2, <2>3, MachineFacts
<1>2. ~Open(cells)
  BY <1>1 DEF Plain
<1>3. Height >= 3
  <2>1. MaxClasses \in Nat /\ MaxFrames \in Nat /\ MaxClasses >= 1
    BY ClassAssumption
  <2> QED  BY <2>1 DEF Height
<1>p. PICK cv, c, cl, bs, f, a, m :
        /\ cv = Held(machine, cells) /\ c = Len(classes) + 1 /\ cl = WithMade(classes, s) /\ bs = WithBody(1)
        /\ f = classes[s].statics["__inherit"] /\ a = Under(machine, Class(s)) /\ m = Under(a, Class(c))
  OBVIOUS
<1>4. /\ classes' = cl /\ bodies' = bs /\ slots' = 1
      /\ \/ machine' = Fails(machine)
         \/ f.is = "fn" /\ machine' = HookEntered(m, f)
         \/ machine' = Under(m, Class(c))
  <2>1. slots + 1 = 1 /\ machine.top + 1 = 1
    BY <1>1
  <2>2. /\ classes' = cl /\ bodies' = bs /\ slots' = 1
        /\ machine' = CASE s = 1 /\ ~Inheritable -> Fails(machine)
                        [] f.is = "fn" -> HookEntered(m, f)
                        [] OTHER -> Under(m, Class(c))
    BY <1>0, <1>p, <2>1 DEF ClassOpen, WithMade, Made, WithBody, Inherit, HookEntered
  <2> QED  BY ONLY <2>2
<1>5. /\ ClassesOK(cl, machine.insts, cv) /\ OwnOrInherited(cl) /\ MachineOK(machine, cl, cv)
      /\ Len(cl) = Len(classes) + 1 /\ \A d \in 1..Len(classes) : cl[d] = classes[d]
      /\ cl[Len(classes) + 1] = Made(classes, s)
      /\ bs \in Seq(BodyType) /\ Len(bs) = Len(bodies) + 1
      /\ bs[Len(bodies) + 1] = [class |-> Len(classes) + 1, super |-> 1]
      /\ Len(bs) < Len(cl)
      /\ \A i \in 1..Len(bs) : bs[i].class \in 2..Len(cl)
      /\ \A i, j \in 1..Len(bs) : bs[i].class = bs[j].class => i = j
      /\ \A i \in 1..Len(bs), k \in 1..Len(cl) : cl[k].super # bs[i].class
  BY ONLY <1>0, <1>p, IInv, 1 \in {0, 1}, OpenFacts
<1>6. /\ Len(bs) = 1 /\ bs # <<>> /\ bs[1].class = c /\ bs[1].super = 1 /\ cl[c].super = s
      /\ c \in 1..Len(cl) /\ c \in Nat /\ cl[s] = classes[s] /\ s \in 1..Len(cl) /\ s \in Nat
  <2>1. Len(bs) = 1 /\ bs[1] = [class |-> Len(classes) + 1, super |-> 1] /\ Len(bs) # 0
    <3>1. Len(bodies) + 1 = 1
      BY <1>1
    <3> QED  BY <1>5, <3>1
  <2>2. cl[c].super = s
    BY <1>5, <1>p DEF Made
  <2>3. c \in 1..Len(cl) /\ c \in Nat /\ s \in 1..Len(cl) /\ s \in Nat
    BY <1>1, <1>5, <1>p
  <2> QED  BY <1>5, <1>p, <2>1, <2>2, <2>3, NotEmpty
<1>7. BodiesOK'
  BY ONLY <1>4, <1>5, <1>6 DEF BodiesOK
<1>8. InDerived' /\ ~Open(cells)' /\ \A n : Held(n, cells) = cv
  <2>1. InDerived'
    BY <1>0, <1>4, <1>6 DEF InDerived
  <2>2. \A n : Held(n, cells) = cv
    BY <1>1, <1>2, <1>p, HeldKept
  <2> QED  BY <1>0, <1>2, <2>1, <2>2 DEF Open
<1>9. ASSUME NEW n, n = machine', MachineOK(n, cl, cv), n.insts = machine.insts,
             ~n.failed => Deriving' \/ Hooked'
      PROVE  IInv'
  <2>1. Held(n, cells) = cv
    BY <1>8
  <2>2. cl = classes' /\ cells' = cells /\ n = machine' /\ cells \in Seq(CellType)
    BY <1>0, <1>1, <1>4, <1>9
  <2> QED  BY ONLY <1>5, <1>7, <1>8, <1>9, <2>1, <2>2 DEF IInv
<1>10. /\ ValueOK(cl, machine.insts, cv, Class(s)) /\ Class(s) \in Values
       /\ ValueOK(cl, machine.insts, cv, Class(c)) /\ Class(c) \in Values
  BY <1>6, ValueKinds DEF ValueOK
<1>11. /\ MachineOK(a, cl, cv) /\ a.insts = machine.insts /\ a.frames = <<>> /\ a.top = 1
       /\ a.failed = machine.failed
       /\ \A p \in Places : a.mem[p] = IF p = 1 THEN Class(s) ELSE machine.mem[p]
  <2>1. machine.top + 1 = 1 /\ machine.top + 1 <= Height
    BY <1>1, <1>3
  <2>2. /\ MachineOK(a, cl, cv) /\ a.insts = machine.insts /\ a.frames = <<>> /\ a.top = machine.top + 1
        /\ a.failed = machine.failed
        /\ \A p \in Places : a.mem[p] = IF p = machine.top + 1 THEN Class(s) ELSE machine.mem[p]
    BY ONLY <1>1, <1>5, <1>10, <1>p, <2>1, UnderKeeps
  <2> QED  BY ONLY <2>1, <2>2
<1>12. /\ MachineOK(m, cl, cv) /\ m.insts = machine.insts /\ m.frames = <<>> /\ m.top = 2
       /\ m.failed = machine.failed
       /\ \A p \in Places : m.mem[p] = IF p = 2 THEN Class(c) ELSE a.mem[p]
  <2>1. a.top + 1 = 2 /\ a.top + 1 <= Height
    BY <1>1, <1>3, <1>11
  <2>2. ValueOK(cl, a.insts, cv, Class(c))
    BY <1>10, <1>11
  <2>3. /\ MachineOK(m, cl, cv) /\ m.insts = a.insts /\ m.frames = <<>> /\ m.top = a.top + 1
        /\ m.failed = a.failed
        /\ \A p \in Places : m.mem[p] = IF p = a.top + 1 THEN Class(c) ELSE a.mem[p]
    BY ONLY <1>10, <1>11, <1>p, <2>1, <2>2, UnderKeeps
  <2> QED  BY ONLY <1>11, <2>1, <2>3
<1>13. 1 \in Places /\ 2 \in Places /\ 3 \in Places
  BY <1>1, <1>3
<1>14. CASE machine' = Fails(machine)
  <2>2. MachineOK(machine', cl, cv) /\ machine'.insts = machine.insts
    BY <1>5, <1>14, FailsKeeps
  <2>3. machine'.failed
    BY <1>1, <1>14 DEF Fails, MachineOK, MachineType
  <2> QED  BY <1>9, <2>2, <2>3
<1>15. CASE f.is = "fn" /\ machine' = HookEntered(m, f)
  <2>2. "__inherit" \in Keys
    BY DEF Keys, Hooks
  <2>3. f \in Members /\ StaticOK(classes, machine.insts, cv, s, "__inherit", f)
    BY <1>1, <1>p, <2>2, StaticFacts
  <2>4. f \in Fns /\ FnOK(classes, cv, f) /\ f.cell = 0 /\ f # Unset
    BY <1>15, <2>3, ValueKinds DEF StaticOK, Unset
  <2>5. FnOK(cl, cv, f)
    <3>1. f.home \in 1..Len(classes)
      BY <2>4 DEF FnOK
    <3>2. f.home \in 1..Len(cl)
      BY <1>1, <1>5, <3>1
    <3> QED  BY <2>4, <3>2 DEF FnOK
  <2>p. PICK n : n = machine'
    OBVIOUS
  <2>q. /\ MachineOK(n, cl, cv) /\ n.insts = m.insts /\ n.mem = m.mem /\ n.top = 2
        /\ n.frames # <<>> /\ n.frames[1].kind = "hook" /\ Ground(n) = 0
    BY ONLY <1>12, <1>15, <2>4, <2>5, <2>p, HookKeeps
  <2>6. /\ MachineOK(machine', cl, cv) /\ machine'.insts = m.insts
        /\ machine'.frames # <<>> /\ machine'.frames[1].kind = "hook" /\ Ground(machine') = 0
    BY ONLY <2>p, <2>q
  <2>7. classes'[classes'[bodies'[1].class].super].statics["__inherit"] # Unset
    BY <1>4, <1>6, <1>p, <2>4
  <2>8. Hooked'
    BY <1>8, <2>6, <2>7 DEF Hooked, Ground
  <2> QED  BY <1>9, <1>12, <2>6, <2>8
<1>16. CASE machine' = Under(m, Class(c))
  <2>2. m.top + 1 = 3 /\ m.top + 1 <= Height
    BY <1>1, <1>3, <1>12
  <2>3. ValueOK(cl, m.insts, cv, Class(c))
    BY <1>10, <1>12
  <2>4. /\ MachineOK(machine', cl, cv) /\ machine'.insts = m.insts /\ machine'.frames = <<>>
        /\ machine'.top = m.top + 1
        /\ \A p \in Places : machine'.mem[p] = IF p = m.top + 1 THEN Class(c) ELSE m.mem[p]
    BY ONLY <1>10, <1>12, <1>16, <2>2, <2>3, UnderKeeps
  <2>5. machine'.top = 3 /\ machine'.mem[1] = Class(s) /\ machine'.mem[3] = Class(c)
    BY ONLY <1>11, <1>12, <1>13, <2>2, <2>4
  <2>6. Deriving'
    BY <1>4, <1>6, <1>8, <2>4, <2>5 DEF Deriving
  <2> QED  BY <1>9, <1>12, <2>4, <2>6
<1> QED  BY ONLY <1>4, <1>14, <1>15, <1>16


-------------------------------------------------------------------------------
(* The invariant is inductive. *)
LEMMA InitStatics ==
    ASSUME NEW k \in Keys, NEW s, s = (IF k \in Natives THEN Native(k) ELSE Unset), NEW cl, Len(cl) = 1,
           NEW is, NEW cv
    PROVE  s \in Members /\ StaticOK(cl, is, cv, 1, k, s)
<1>1. CASE s = Native(k)
  <2>1. s \in CFns /\ s \in Members /\ s.is = "native" /\ s.home = 1
    BY <1>1 DEF CFns, Native, Members
  <2> QED  BY <2>1, DescSelf DEF StaticOK, ValueOK
<1>2. CASE s = Unset
  BY <1>2 DEF Members, StaticOK, ValueOK, Unset
<1> QED  BY <1>1, <1>2

LEMMA InitIInv == Init => IInv
<1> SUFFICES ASSUME Init PROVE IInv
  OBVIOUS
<1>p. PICK st, d, cv :
        /\ st = [k \in Keys |-> IF k \in Natives THEN Native(k) ELSE Unset]
        /\ d = [super |-> 0, own |-> NoStatics, statics |-> st] /\ cv = Held(machine, cells)
  OBVIOUS
<1>1. classes = <<d>> /\ bodies = <<>> /\ slots = 0 /\ cells = <<>>
  BY <1>p DEF Init
<1>2. Len(classes) = 1 /\ classes[1] = d /\ \A c \in 1..Len(classes) : c = 1
  BY <1>1
<1>3. \A k \in Keys : st[k] \in Members /\ StaticOK(classes, machine.insts, cv, 1, k, st[k])
  <2> SUFFICES ASSUME NEW k \in Keys
               PROVE  st[k] \in Members /\ StaticOK(classes, machine.insts, cv, 1, k, st[k])
    OBVIOUS
  <2>p. PICK s : s = st[k]
    OBVIOUS
  <2>1. s = IF k \in Natives THEN Native(k) ELSE Unset
    BY <1>p, <2>p
  <2> QED  BY ONLY <1>2, <2>p, <2>1, k \in Keys, InitStatics
<1>4. d \in ClassType /\ d.super = 0 /\ d.statics = st
  <2>1. NoStatics \in [Keys -> Members]
    BY DEF NoStatics, Members
  <2>2. st \in [Keys -> Members]
    BY <1>3, <1>p
  <2> QED  BY <1>p, <2>1, <2>2 DEF ClassType
<1>5. ClassesOK(classes, machine.insts, cv) /\ OwnOrInherited(classes)
  <2>1. classes \in Seq(ClassType)
    BY <1>1, <1>4
  <2>2. Len(classes) \in 1..MaxClasses
    BY <1>2, ClassAssumption
  <2> QED  BY <1>2, <1>3, <1>4, <2>1, <2>2 DEF ClassesOK, OwnOrInherited
<1>6. /\ machine = [mem |-> [p \in Places |-> None], top |-> 0, insts |-> <<>>, x |-> None,
                    frames |-> <<>>, native |-> Unset, failed |-> FALSE]
      /\ None \in Values
  BY DEF Init, Values
<1>7. /\ machine \in MachineType /\ machine.insts = <<>> /\ machine.frames = <<>> /\ machine.top = 0
      /\ machine.x = None /\ machine.native = Unset /\ \A p \in Places : machine.mem[p] = None
  BY <1>6 DEF MachineType
<1>8. MachineOK(machine, classes, cv)
  <2>1. ValueOK(classes, machine.insts, cv, None)
    BY DEF ValueOK, None
  <2>2. Ground(machine) = 0 /\ Len(machine.frames) = 0 /\ Len(machine.insts) = 0 /\ 0 = 0 + 2 * 0
    BY <1>7 DEF Ground
  <2>3. 0 <= Height
    BY ClassAssumption DEF Height
  <2> QED  BY <1>7, <2>1, <2>2, <2>3 DEF MachineOK
<1>9. ~Open(cells) /\ cells \in Seq(CellType)
  BY <1>1 DEF Open
<1>10. Len(bodies) = 0 /\ bodies \in Seq(BodyType)
  BY <1>1
<1>11. BodiesOK
  BY <1>1, <1>2, <1>10 DEF BodiesOK
<1>12. Plain
  <2>1. Ground(machine) = 0
    BY <1>7 DEF Ground
  <2> QED  BY <1>1, <1>7, <1>9, <1>10, <2>1 DEF Plain
<1> QED  BY <1>5, <1>8, <1>9, <1>11, <1>12, <1>p DEF IInv

LEMMA StutterIInv == IInv /\ UNCHANGED vars => IInv'
  BY SMTT(30) DEF IInv, vars, ClassesOK, OwnOrInherited, MachineOK, FrameOK, Ground, BodiesOK, Plain, Deriving, Hooked,
         InDerived, Held, Open

LEMMA OpenStep ==
    ASSUME IInv, Forms = {}, NEW s \in 0..MaxClasses, NEW nested \in BOOLEAN, ClassOpen(s, nested)
    PROVE  IInv'
<1>1. s \in 0..Len(classes) /\ Len(classes) \in Nat
  BY DEF ClassOpen, IInv, ClassesOK
<1>2. CASE s = 0
  BY <1>2, BaseOpenStep
<1>3. CASE s # 0
  <2>1. s \in 1..Len(classes)
    BY <1>1, <1>3
  <2> QED  BY <2>1, DerivedOpenStep
<1> QED  BY <1>2, <1>3

LEMMA NextIInv ==
    ASSUME IInv, Forms = {}, [Next]_vars
    PROVE  IInv'
<1>1. ASSUME NEW r \in Operands, Call(r) PROVE IInv'
  BY <1>1, CallStep
<1>2. ASSUME NEW r \in Operands, Return(r) PROVE IInv'
  BY <1>2, ReturnStep
<1>3. ASSUME NEW r \in Operands, NEW n \in Names, Invoke(r, n) PROVE IInv'
  BY <1>3, InvokeStep
<1>4. ASSUME NEW r \in Operands, NEW n \in Names, GetMember(r, n) PROVE IInv'
  BY <1>4, GetMemberStep
<1>5. ASSUME NEW r \in Operands, NEW v \in Operands, NEW n \in Names, SetMember(r, n, v) PROVE IInv'
  BY <1>5, SetMemberStep
<1>6. ASSUME NEW n \in Names, SuperInvoke(n) PROVE IInv'
  BY <1>6, SuperInvokeStep
<1>7. ASSUME NEW n \in Names, SuperGet(n) PROVE IInv'
  BY <1>7, SuperGetStep
<1>8. ASSUME NEW n \in Names, Field(n) PROVE IInv'
  BY <1>8, FieldStep
<1>9. ASSUME NEW s \in 0..MaxClasses, NEW nested \in BOOLEAN, ClassOpen(s, nested) PROVE IInv'
  BY <1>9, OpenStep
<1>10. ASSUME NEW k \in Names \cup Hooks, NEW uses \in BOOLEAN, Method(k, uses) PROVE IInv'
  BY <1>10, MethodStep
<1>11. CASE ClassClose
  BY <1>11, ClassCloseStep
<1>12. CASE NextText
  BY <1>12, NextTextStep
<1>13. CASE UNCHANGED vars
  BY <1>13, StutterIInv
<1> QED  BY <1>1, <1>2, <1>3, <1>4, <1>5, <1>6, <1>7, <1>8, <1>9, <1>10, <1>11, <1>12, <1>13 DEF Next

THEOREM ClassInvariant ==
    ASSUME Forms = {}
    PROVE  Spec => []IInv
<1>1. IInv /\ [Next]_vars => IInv'
  BY NextIInv
<1> QED  BY <1>1, InitIInv, PTL DEF Spec


-------------------------------------------------------------------------------
(* The properties. *)
LEMMA DescentIs ==
    ASSUME NEW c, NEW d, classes \in Seq(ClassType)
    PROVE  Descends(c, d) <=> Desc(classes, c, d)
<1>1. DOMAIN classes = 1..Len(classes)
  OBVIOUS
<1> QED  BY <1>1 DEF Descends, Desc

LEMMA FitsIs ==
    ASSUME NEW f, NEW v, classes \in Seq(ClassType), Suits(classes, machine.insts, f, v)
    PROVE  Fits(f, v)
<1>1. v.is = "inst" /\ Desc(classes, machine.insts[v.i].klass, f.home)
  BY DEF Suits
<1> QED  BY <1>1, DescentIs DEF Fits

LEMMA SelvesFit == IInv => SelfFits
<1> SUFFICES ASSUME IInv PROVE SelfFits
  OBVIOUS
<1>p. PICK cv : cv = Held(machine, cells)
  OBVIOUS
<1>1. /\ MachineOK(machine, classes, cv) /\ classes \in Seq(ClassType)
      /\ machine.frames \in Seq(FrameType) /\ DOMAIN machine.frames = 1..Len(machine.frames)
  <2>1. MachineOK(machine, classes, cv) /\ classes \in Seq(ClassType)
    BY <1>p DEF IInv, ClassesOK
  <2> QED  BY <2>1, MachineFacts
<1>2. ASSUME NEW i \in DOMAIN machine.frames, machine.frames[i].kind # "hook"
      PROVE  Fits(machine.frames[i].fn, machine.mem[machine.frames[i].base])
  <2>1. Suits(classes, machine.insts, machine.frames[i].fn, machine.mem[machine.frames[i].base])
    BY <1>1, <1>2 DEF MachineOK, FrameOK
  <2> QED  BY <1>1, <2>1, FitsIs
<1>3. ASSUME machine.native # Unset PROVE Fits(machine.native.fn, machine.native.self)
  <2>1. Suits(classes, machine.insts, machine.native.fn, machine.native.self)
    BY <1>1, <1>3 DEF MachineOK
  <2> QED  BY <1>1, <2>1, FitsIs
<1> QED  BY <1>2, <1>3 DEF SelfFits

LEMMA ClassesAreInPlace == IInv => ClassesInPlace
<1> SUFFICES ASSUME IInv PROVE ClassesInPlace
  OBVIOUS
<1>p. PICK cv : cv = Held(machine, cells)
  OBVIOUS
<1>1. /\ MachineOK(machine, classes, cv) /\ ClassesOK(classes, machine.insts, cv) /\ OwnOrInherited(classes)
      /\ classes \in Seq(ClassType) /\ DOMAIN classes = 1..Len(classes) /\ Len(classes) \in Nat
      /\ cells \in Seq(CellType) /\ BodiesOK /\ (Open(cells) => machine.top >= 1 \/ bodies = <<>>)
  BY <1>p DEF IInv, ClassesOK
<1>2. \A c \in DOMAIN classes : classes[c] \in ClassType
  BY <1>1
<1>3. TypeOK
  <2>1. ASSUME NEW c \in DOMAIN classes PROVE classes[c].super < c /\ DOMAIN classes[c].statics = Keys
    BY <1>1, <1>2 DEF ClassesOK, ClassType
  <2>2. machine.top \in 0..Cardinality(Places)
    <3>1. Places = 1..Height /\ Height \in Nat /\ machine.top \in Nat /\ machine.top <= Height
      BY <1>1, MachineFacts
    <3>2. Cardinality(Places) = Height
      BY <3>1, FS_Interval
    <3> QED  BY <3>1, <3>2
  <2>3. bodies = <<>> => slots = 0
    BY <1>1 DEF BodiesOK
  <2>4. ASSUME NEW c \in DOMAIN cells PROVE cells[c].at \in 0..machine.top \/ bodies = <<>>
    <3>1. cells[c] \in CellType
      BY <1>1
    <3>2. cells[c].at = 0 \/ cells[c].at = 1
      BY <3>1 DEF CellType
    <3>3. cells[c].at = 1 => machine.top >= 1 \/ bodies = <<>>
      BY <1>1 DEF Open
    <3>4. machine.top \in Nat
      BY <1>1, MachineFacts
    <3> QED  BY <3>2, <3>3, <3>4
  <2> QED  BY <2>1, <2>2, <2>3, <2>4 DEF TypeOK
<1>4. SuperIsTheSuperclass
  <2> SUFFICES ASSUME NEW c \in DOMAIN classes, NEW k \in Keys,
                      classes[c].statics[k].is = "fn", classes[c].statics[k].cell # 0
               PROVE  CellValue(machine, classes[c].statics[k].cell)
                          = Class(classes[classes[c].statics[k].home].super)
    BY DEF SuperIsTheSuperclass
  <2>p. PICK f : f = classes[c].statics[k]
    OBVIOUS
  <2>1. FnOK(classes, cv, f)
    BY <1>1, <2>p, StaticFacts DEF StaticOK
  <2>2. f.cell \in DOMAIN cv /\ cv[f.cell] = Class(classes[f.home].super)
    BY <2>1, <2>p DEF FnOK
  <2>3. CellValue(machine, f.cell) = cv[f.cell]
    BY <1>p, <2>2 DEF CellValue, Held
  <2> QED  BY <2>2, <2>3, <2>p
<1>5. StaticsAreOwnOrInherited
  <2> SUFFICES ASSUME NEW c \in DOMAIN classes \ {1}
               PROVE  classes[c].statics = [k \in Keys |-> IF classes[c].own[k] # Unset \/ classes[c].super = 0
                                                           THEN classes[c].own[k]
                                                           ELSE classes[classes[c].super].statics[k]]
    BY DEF StaticsAreOwnOrInherited
  <2>1. c \in 2..Len(classes)
    BY <1>1
  <2>2. classes[c].statics = [k \in Keys |-> classes[c].statics[k]]
    BY <1>2 DEF ClassType
  <2> QED  BY <1>1, <2>1, <2>2 DEF OwnOrInherited
<1> QED  BY <1>3, <1>4, <1>5 DEF ClassesInPlace

(* What is read at a place and replaced by the receiver is the receiver. *)
LEMMA AtTwice ==
    ASSUME NEW m \in MachineType, NEW base, base = m.top + 1, NEW v, NEW w
    PROVE  Put(At(m, v), base, w) = At(m, w) /\ At(m, v).insts = m.insts
  BY DEF At, MachineType, Put

LEMMA FailsFailed ==
    ASSUME NEW m \in MachineType
    PROVE  Fails(m).failed = TRUE /\ \A v : Fails(At(m, v)).failed = TRUE
  BY DEF At, MachineType, Fails

(* Constructing an instance replaces what is in slot 0. *)
LEMMA MadeAtIs ==
    ASSUME NEW m \in MachineType, NEW base, base = m.top + 1, NEW v, NEW w, NEW c
    PROVE  New(At(m, v), c, base) = New(At(m, w), c, base)
<1>p. PICK is, j : /\ j = Len(m.insts) + 1
                   /\ is = Append(m.insts, [klass |-> c, fields |-> NoStatics])
  OBVIOUS
<1>1. [At(m, v) EXCEPT !.insts = is, !.mem[base] = Inst(j)] = [At(m, w) EXCEPT !.insts = is, !.mem[base] = Inst(j)]
  BY DEF At, MachineType
<1>2. At(m, v).insts = m.insts /\ At(m, w).insts = m.insts
  BY AtTwice
<1> QED  BY <1>1, <1>2, <1>p DEF New

LEMMA InvokingIs == IInv => InvokeIsGetThenCall
<1> SUFFICES ASSUME IInv, NEW i \in DOMAIN machine.insts, NEW n \in Names, NEW v, NEW invoked, NEW called,
                    v = Member(machine, Inst(i), n), invoked = InvokeInstance(machine, Inst(i), n),
                    called = CallValue(At(machine, v), v, machine.top + 1), v.is # "native"
             PROVE  invoked.failed = called.failed /\ (~called.failed => invoked = called)
  BY DEF InvokeIsGetThenCall
<1>p. PICK f, s, c, base, cv : /\ f = machine.insts[i].fields[n] /\ c = machine.insts[i].klass
                               /\ s = classes[c].statics[n]
                               /\ base = machine.top + 1 /\ cv = Held(machine, cells)
  OBVIOUS
<1>1. /\ MachineOK(machine, classes, cv) /\ ClassesOK(classes, machine.insts, cv) /\ machine \in MachineType
      /\ n \in Keys /\ i \in 1..Len(machine.insts) /\ c \in 1..Len(classes)
  <2>1. MachineOK(machine, classes, cv) /\ ClassesOK(classes, machine.insts, cv)
    BY <1>p DEF IInv
  <2>2. machine \in MachineType /\ machine.insts \in Seq(InstType)
    BY <2>1, MachineFacts DEF MachineOK
  <2>3. n \in Keys /\ i \in 1..Len(machine.insts)
    BY <2>2 DEF Keys
  <2> QED  BY <1>p, <2>1, <2>2, <2>3, MemberFacts
<1>2. s \in Members /\ StaticOK(classes, machine.insts, cv, c, n, s)
  BY <1>1, <1>p, StaticFacts
<1>3. /\ v = IF f # Unset THEN f ELSE BoundStatic(i, s)
      /\ invoked = CASE f # Unset -> CallValue(At(machine, f), f, base)
                     [] f = Unset /\ s # Unset -> InvokeStatic(At(machine, Inst(i)), s, base, Inst(i))
                     [] OTHER -> Fails(machine)
      /\ called = CallValue(At(machine, v), v, base)
  BY <1>p DEF Member, InvokeInstance, Inst
<1>4. CASE f # Unset
  BY <1>3, <1>4
<1>5. CASE f = Unset /\ s = Unset
  <2>1. v = Unset /\ invoked = Fails(machine)
    BY <1>3, <1>5 DEF BoundStatic, Unset
  <2>p. PICK m, u : m = At(machine, v) /\ u = v.is
    OBVIOUS
  <2>q. u = "unset"
    BY <2>1, <2>p DEF Unset
  <2>2. called = Fails(At(machine, v))
    BY ONLY <1>3, <2>p, <2>q DEF CallValue
  <2> QED  BY <1>1, <2>1, <2>2, FailsFailed
<1>6. CASE f = Unset /\ s # Unset /\ s.is = "fn"
  <2>1. v = Bound(i, s) /\ invoked = Entered(At(machine, Inst(i)), s, base, "call")
    BY <1>3, <1>6 DEF BoundStatic, InvokeStatic
  <2>2. v.is = "bound" /\ v.self = Inst(i) /\ v.fn = s
    BY <2>1 DEF Bound
  <2>3. called = Entered(Put(At(machine, v), base, v.self), v.fn, base, "call")
    BY <1>3, <2>2 DEF CallValue, Put
  <2>4. Put(At(machine, v), base, v.self) = At(machine, Inst(i))
    BY <1>1, <1>p, <2>2, AtTwice
  <2> QED  BY <2>1, <2>2, <2>3, <2>4
<1>7. CASE f = Unset /\ s # Unset /\ s.is # "fn"
  <2>1. v = s /\ s.is \in {"none", "class", "bound"} /\ s \in Values
    <3>1. v = s
      BY <1>3, <1>7 DEF BoundStatic
    <3> QED  BY <1>2, <1>7, <3>1, ValueKinds DEF StaticOK
  <2>2. invoked = CallValue(At(machine, Inst(i)), s, base) /\ called = CallValue(At(machine, s), s, base)
    BY <1>3, <1>7, <2>1 DEF InvokeStatic
  <2>3. CASE s.is = "none"
    <3>1. invoked = Fails(At(machine, Inst(i))) /\ called = Fails(At(machine, s))
      BY <2>2, <2>3 DEF CallValue
    <3> QED  BY <1>1, <3>1, FailsFailed
  <2>4. CASE s.is = "bound"
    <3>1. /\ invoked = Entered(Put(At(machine, Inst(i)), base, s.self), s.fn, base, "call")
          /\ called = Entered(Put(At(machine, s), base, s.self), s.fn, base, "call")
      BY <2>2, <2>4 DEF CallValue, Put
    <3>2. /\ Put(At(machine, Inst(i)), base, s.self) = At(machine, s.self)
          /\ Put(At(machine, s), base, s.self) = At(machine, s.self)
      BY ONLY <1>1, <1>p, AtTwice
    <3> QED  BY ONLY <3>1, <3>2
  <2>5. CASE s.is = "class"
    <3>1. invoked = New(At(machine, Inst(i)), s.c, base) /\ called = New(At(machine, s), s.c, base)
      BY <2>2, <2>5 DEF CallValue
    <3> QED  BY <1>1, <1>p, <3>1, MadeAtIs
  <2> QED  BY <2>1, <2>3, <2>4, <2>5
<1> QED  BY <1>4, <1>5, <1>6, <1>7


LEMMA OpenedKept ==
    ASSUME IInv, NEW s, NEW nested, ClassOpen(s, nested)
    PROVE  ClosedKept
<1>1. PICK e : classes' = Append(classes, e)
  BY DEF ClassOpen
<1>2. classes \in Seq(ClassType \cup {e}) /\ DOMAIN classes = 1..Len(classes)
  BY DEF IInv, ClassesOK
<1>3. \A c \in 1..Len(classes) : classes'[c] = classes[c]
  BY ONLY <1>1, <1>2
<1> QED  BY <1>2, <1>3 DEF ClosedKept

LEMMA NextClosedKept ==
    ASSUME IInv, Forms = {}, [Next]_vars
    PROVE  ClosedKept
<1>0. UNCHANGED classes => ClosedKept
  BY DEF ClosedKept
<1>1. ASSUME NEW r \in Operands, Call(r) \/ Return(r) PROVE ClosedKept
  BY <1>0, <1>1 DEF Call, Return, Took
<1>2. ASSUME NEW r \in Operands, NEW n \in Names, Invoke(r, n) \/ GetMember(r, n) PROVE ClosedKept
  BY <1>0, <1>2 DEF Invoke, GetMember, Took
<1>3. ASSUME NEW r \in Operands, NEW v \in Operands, NEW n \in Names, SetMember(r, n, v) PROVE ClosedKept
  BY <1>0, <1>3 DEF SetMember, Took
<1>4. ASSUME NEW n \in Names, SuperInvoke(n) \/ SuperGet(n) PROVE ClosedKept
  BY <1>0, <1>4 DEF SuperInvoke, SuperGet, Took
<1>5. ASSUME NEW n \in Names, Field(n) PROVE ClosedKept
  BY <1>5, FieldStep
<1>6. ASSUME NEW s \in 0..MaxClasses, NEW nested \in BOOLEAN, ClassOpen(s, nested) PROVE ClosedKept
  BY <1>6, OpenedKept
<1>7. ASSUME NEW k \in Names \cup Hooks, NEW uses \in BOOLEAN, Method(k, uses) PROVE ClosedKept
  BY <1>7, MethodStep
<1>8. CASE ClassClose
  BY <1>8, ClassCloseStep
<1>9. CASE NextText
  BY <1>0, <1>9 DEF NextText
<1>10. CASE UNCHANGED vars
  BY <1>0, <1>10 DEF vars
<1> QED  BY <1>1, <1>2, <1>3, <1>4, <1>5, <1>6, <1>7, <1>8, <1>9, <1>10 DEF Next

(* Whatever the classes, the methods and the calls of a program, a method
   and a C function of a class run with an instance of that class, or of one
   derived from it, as self (jml_vm_invoke, jml_vm_call_value, OP_SUPER_INVOKE). *)
THEOREM SelfAlwaysFits ==
    ASSUME Forms = {}
    PROVE  Spec => []SelfFits
BY ClassInvariant, SelvesFit, PTL

(* A class has what its body wrote and, of the rest, what its superclass has,
   and `super` in a method is the superclass of the class the method is
   written in, also once the text that declared it has returned (OP_INHERIT,
   OP_CLASS_FIELD, jml_super, OP_CLOSE_UPVALUE).                           *)
THEOREM ClassesStayInPlace ==
    ASSUME Forms = {}
    PROVE  Spec => []ClassesInPlace
BY ClassInvariant, ClassesAreInPlace, PTL

(* r.n() and reading r.n, then calling what was read, do the same, errors
   included (jml_vm_invoke against OP_GET_MEMBER and OP_CALL).             *)
THEOREM InvokingIsGettingThenCalling ==
    ASSUME Forms = {}
    PROVE  Spec => []InvokeIsGetThenCall
BY ClassInvariant, InvokingIs, PTL

(* No statement and no declaration changes the statics of a class whose body
   is closed (jml_vm.c:2074).                                              *)
THEOREM ClosedClassesStay ==
    ASSUME Forms = {}
    PROVE  Spec => ClosedClassesAreImmutable
<1>1. IInv /\ [Next]_vars => [ClosedKept]_vars
  BY NextClosedKept
<1>2. ClosedClassesAreImmutable <=> [][ClosedKept]_vars
  BY DEF ClosedClassesAreImmutable, ClosedKept
<1>3. Spec => [][Next]_vars
  BY DEF Spec
<1> QED  BY <1>1, <1>2, <1>3, ClassInvariant, PTL
=============================================================================
