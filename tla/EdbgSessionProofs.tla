------------------------- MODULE EdbgSessionProofs -------------------------
(***************************************************************************)
(* What is shown of the command line of edbg for every geometry of the     *)
(* flash, every choice of the drivers and every command line.              *)
(*                                                                         *)
(* A locked device is neither changed nor read by a run that was not told  *)
(* to unlock it, and one that was told to gives away nothing of what it    *)
(* held (LockedUntouched).  The operations of the eleven drivers are typed *)
(* by the steps they are made of; LockInv says what may still be to do.    *)
(*                                                                         *)
(* A run touches no more than it was asked to (AskedOnly).  For each       *)
(* driver it is shown where its loops erase and write; AskInv follows a    *)
(* run in two phases: until select is through, nothing is touched, and     *)
(* after it the options stand and every step lies within their reach, or   *)
(* in the section its fuse command has read before.                        *)
(***************************************************************************)
EXTENDS EdbgProbeProofs

-----------------------------------------------------------------------------
(* The command line: sequences of steps *)

\* A sequence of steps, none of which does one of X.
Without(s, X) == \E S : s \in Seq(S) /\ \A x \in S : x.do \notin X
StepNames ==
  {"disclose", "disconnect", "connect", "configure", "led", "link", "pinLow", "pinHigh",
   "restart", "extend", "halt", "catch", "release", "letGo", "endExtension", "finishIfOpen",
   "identify", "describe", "locked", "keys", "unimplemented", "options", "errors",
   "wait", "settle", "erase", "program", "chipErase", "regress", "setLock", "compare", "fetch", "save",
   "fparse", "fread", "fapply", "fmatch", "fgather", "fput", "fblank", "fword", "fbit",
   "feraseAll", "next"}
StepsBut(X) == [do : StepNames \ X, at : Nat, len : Nat, from : Nat]

LEMMA StepsWithout ==
  ASSUME NEW X, NEW s \in Seq(StepsBut(X))
  PROVE  Without(s, X)
  <1>1. \A x \in StepsBut(X) : x.do \notin X BY DEF StepsBut
  <1> QED BY <1>1 DEF Without

LEMMA AreaTyped ==
  ASSUME NEW X, NEW d \in StepNames \ X, NEW a \in Nat, NEW l \in Nat
  PROVE  Area(d, a, l) \in StepsBut(X) /\ Do(d) \in StepsBut(X)
  BY DEF Area, Do, StepsBut

\* What two sequences leave out, their concatenation leaves out.
LEMMA WithoutConcat ==
  ASSUME NEW X, NEW s, NEW t, Without(s, X), Without(t, X)
  PROVE  Without(s \o t, X)
  <1>1. PICK S : s \in Seq(S) /\ \A x \in S : x.do \notin X BY DEF Without
  <1>2. PICK T : t \in Seq(T) /\ \A x \in T : x.do \notin X BY DEF Without
  <1>3. s \in Seq(S \cup T) /\ t \in Seq(S \cup T) BY <1>1, <1>2
  <1>4. s \o t \in Seq(S \cup T) BY <1>3
  <1>5. \A x \in S \cup T : x.do \notin X BY <1>1, <1>2
  <1> QED BY <1>4, <1>5 DEF Without

\* The first step and the rest leave out what the whole does.
LEMMA WithoutTail ==
  ASSUME NEW X, NEW s, Without(s, X), s # <<>>
  PROVE  Head(s).do \notin X /\ Without(Tail(s), X)
  <1>1. PICK S : s \in Seq(S) /\ \A x \in S : x.do \notin X BY DEF Without
  <1>2. Head(s) \in S /\ Tail(s) \in Seq(S) BY <1>1
  <1> QED BY <1>1, <1>2 DEF Without

Flats(f, ss, c) == f = [i \in 1 .. c |-> IF i = 1 THEN ss[i] ELSE f[i - 1] \o ss[i]]

\* FlattenSeq is a function of a CHOOSE in the library: the function it chooses exists.
LEMMA FlatsExists ==
  ASSUME NEW ss, NEW n \in Nat \ {0}
  PROVE  \E f : Flats(f, ss, n)
  <1> DEFINE Holds(c) == \E f : Flats(f, ss, c)
             Open == {c \in Nat \ {0} : ~Holds(c)}
  <1>1. SUFFICES ASSUME Open # {} PROVE FALSE OBVIOUS
  <1>2. PICK c \in Open : \A m \in Open : c <= m
    <2>1. Open \subseteq Nat OBVIOUS
    <2> HIDE DEF Open
    <2> QED BY <1>1, <2>1, LeastNat
  <1>3. c # 1
    <2> DEFINE f == [i \in 1 .. 1 |-> ss[i]]
    <2>1. f = [i \in 1 .. 1 |-> IF i = 1 THEN ss[i] ELSE f[i - 1] \o ss[i]] OBVIOUS
    <2>2. Holds(1) BY <2>1 DEF Flats
    <2> QED BY <1>2, <2>2
  <1>4. c \in Nat /\ c >= 2 /\ c - 1 \in Nat \ {0} /\ c - 1 \notin Open
    <2>1. c \in Nat \ {0} BY <1>2
    <2>2. c - 1 \in Nat \ {0} /\ c - 1 < c BY <1>3, <2>1
    <2> QED BY <1>2, <1>3, <2>1, <2>2
  <1>5. PICK f : Flats(f, ss, c - 1) BY <1>4
  <1> DEFINE e == f[c - 1] \o ss[c]
             g == [i \in 1 .. c |-> IF i = c THEN e ELSE f[i]]
  <1> HIDE DEF e
  <1>6. ASSUME NEW i \in 1 .. c
        PROVE  g[i] = IF i = 1 THEN ss[i] ELSE g[i - 1] \o ss[i]
    <2>1. CASE i = c
      <3>1. i # 1 /\ i - 1 \in 1 .. c /\ i - 1 # c BY <1>4, <2>1
      <3>2. g[i - 1] = f[c - 1] BY <2>1, <3>1
      <3>3. g[i] = e BY <2>1
      <3> QED BY <2>1, <3>1, <3>2, <3>3 DEF e
    <2>2. CASE i # c
      <3>1. i \in 1 .. c - 1 BY <1>4, <2>2
      <3>2. f[i] = IF i = 1 THEN ss[i] ELSE f[i - 1] \o ss[i] BY <1>5, <3>1 DEF Flats
      <3>3. i # 1 => i - 1 \in 1 .. c /\ i - 1 # c BY <1>4, <3>1
      <3>4. i # 1 => g[i - 1] = f[i - 1] BY <3>3
      <3>5. g[i] = f[i] BY <2>2
      <3> HIDE DEF g
      <3> QED BY <3>2, <3>4, <3>5
    <2> QED BY <2>1, <2>2
  <1>7. g = [i \in 1 .. c |-> IF i = 1 THEN ss[i] ELSE g[i - 1] \o ss[i]] BY <1>6
  <1>8. Holds(c) BY <1>7 DEF Flats
  <1> QED BY <1>2, <1>8

\* What is flattened is made of what its parts are made of.
LEMMA FlattenTyped ==
  ASSUME NEW T, NEW ss \in Seq(Seq(T))
  PROVE  FlattenSeq(ss) \in Seq(T)
  <1>1. CASE Len(ss) = 0
    <2>1. ss = <<>> BY <1>1
    <2>2. FlattenSeq(ss) = <<>> BY <2>1 DEF FlattenSeq
    <2> QED BY <2>2
  <1>2. CASE Len(ss) # 0
    <2> DEFINE f == CHOOSE g : Flats(g, ss, Len(ss))
               Open == {c \in 1 .. Len(ss) : f[c] \notin Seq(T)}
    <2>1. FlattenSeq(ss) = f[Len(ss)] BY <1>2 DEF FlattenSeq, Flats
    <2>2. Len(ss) \in Nat \ {0} BY <1>2
    <2>3. Flats(f, ss, Len(ss)) BY <2>2, FlatsExists
    <2> HIDE DEF f
    <2>4. \A i \in 1 .. Len(ss) : f[i] = IF i = 1 THEN ss[i] ELSE f[i - 1] \o ss[i]
      BY <2>3 DEF Flats
    <2>5. Open = {}
      <3>1. SUFFICES ASSUME Open # {} PROVE FALSE OBVIOUS
      <3>2. PICK c \in Open : \A m \in Open : c <= m
        <4>1. Open \subseteq Nat BY <2>2
        <4> HIDE DEF Open
        <4> QED BY <3>1, <4>1, LeastNat
      <3>3. c \in 1 .. Len(ss) /\ f[c] \notin Seq(T) /\ ss[c] \in Seq(T) BY <3>2
      <3>4. c # 1 BY <2>4, <3>3
      <3>5. c - 1 \in 1 .. Len(ss) /\ c - 1 < c /\ ~(c <= c - 1) BY <2>2, <3>3, <3>4
      <3>6. f[c - 1] \in Seq(T) BY <3>2, <3>5
      <3>7. f[c] = f[c - 1] \o ss[c] BY <2>4, <3>3, <3>4
      <3> QED BY <3>3, <3>6, <3>7
    <2>6. Len(ss) \in 1 .. Len(ss) BY <2>2
    <2> QED BY <2>1, <2>5, <2>6
  <1> QED BY <1>1, <1>2

-----------------------------------------------------------------------------
(* The command line: what the drivers' operations are made of *)

Options == [offset : Nat, size : 0 .. Total, file : Nat]
FlashWork == {"chipErase", "regress", "setLock", "save", "program", "fetch", "erase"}
FuseWork == {"fput", "fblank", "fword", "fbit", "feraseAll"}
Mild == StepsBut(FlashWork)
Plain == StepsBut(FlashWork \cup FuseWork)

\* What GeometryAssumption gives, fact by fact.
LEMMA Geometry ==
  /\ RowUnits \in Nat \ {0} /\ PageUnits \in Nat \ {0} /\ Total \in Nat \ {0}
  /\ Accessible \in Nat \ {0} /\ Accessible <= Total
  /\ Sectors \in Seq(Nat \ {0}) /\ Len(Sectors) \in Nat /\ DOMAIN Sectors = 1 .. Len(Sectors)
  /\ PageUnits \div RowUnits \in Nat /\ Total \div 2 \in Nat /\ Accessible \div PageUnits \in Nat
  /\ Total \div 2 + Total \div 2 = Total
  /\ NoOptions \in Options
  /\ LockUnit = Total
  <1>1. /\ RowUnits \in Nat \ {0} /\ PageUnits \in Nat \ {0} /\ Total \in Nat \ {0}
        /\ Accessible \in Nat \ {0} /\ Accessible <= Total /\ Sectors \in Seq(Nat \ {0})
        /\ Total % (2 * PageUnits) = 0
    <2>1. {RowUnits, PageUnits, Total, Accessible} \subseteq Nat \ {0}
      BY GeometryAssumption DEF GeometryAssumption
    <2>2. Total % (2 * PageUnits) = 0 /\ Accessible <= Total /\ Sectors \in Seq(Nat \ {0})
      BY GeometryAssumption, SectorsAssumption DEF GeometryAssumption, SectorsAssumption
    <2> QED BY <2>1, <2>2
  <1>2. Len(Sectors) \in Nat /\ DOMAIN Sectors = 1 .. Len(Sectors) BY <1>1
  <1>3. PageUnits \div RowUnits \in Nat /\ Accessible \div PageUnits \in Nat BY <1>1, Division
  <1>4. Total \div 2 \in Nat /\ Total \div 2 + Total \div 2 = Total
    <2>1. PICK t \in Nat \ {0} : t = Total BY <1>1
    <2>2. PICK p \in Nat \ {0} : p = PageUnits BY <1>1
    <2>3. t % (2 * p) = 0 /\ 2 * p \in Nat \ {0} BY <1>1, <2>1, <2>2
    <2>4. PICK q \in Nat : (2 * p) * q = t
      <3>1. t \div (2 * p) \in Nat /\ (2 * p) * (t \div (2 * p)) + (t % (2 * p)) = t
        BY <2>3, Division
      <3>2. PICK q \in Nat : q = t \div (2 * p) BY <3>1
      <3>3. (2 * p) * q + 0 = t BY <2>3, <3>1, <3>2
      <3>4. (2 * p) * q \in Nat BY <2>3, <3>2
      <3> QED BY <3>3, <3>4
    <2>5. PICK r \in Nat : r = p * q BY <2>2, <2>4
    <2>6. t = 2 * r BY <2>4, <2>5, Z3
    <2>7. t \div 2 = r BY <2>6
    <2> QED BY <2>1, <2>6, <2>7
  <1>5. NoOptions \in Options BY <1>1 DEF NoOptions, Options
  <1> QED BY <1>1, <1>2, <1>3, <1>4, <1>5 DEF LockUnit

\* Counts of blocks are naturals.
LEMMA Counts ==
  ASSUME NEW a \in Nat, NEW b \in Nat \ {0}
  PROVE  CeilDiv(a, b) \in Nat
  <1>1. (a + b) - 1 \in Nat OBVIOUS
  <1> QED BY <1>1, Division DEF CeilDiv

LEMMA Pages ==
  ASSUME NEW o \in Options
  PROVE  /\ o.offset \in Nat /\ o.size \in Nat /\ o.size <= Total /\ o.file \in Nat
         /\ PagesOf(o) \in Nat /\ \A p \in Nat : PageAt(o, p) \in Nat
         /\ CeilDiv(o.file, RowUnits) \in Nat
  <1>1. o.offset \in Nat /\ o.size \in Nat /\ o.size <= Total /\ o.file \in Nat
    BY Geometry DEF Options
  <1>2. PagesOf(o) \in Nat BY <1>1, Geometry, Counts DEF PagesOf
  <1>3. ASSUME NEW p \in Nat PROVE PageAt(o, p) \in Nat
    <2>1. PICK q \in Nat : q = o.offset \div PageUnits BY <1>1, Geometry, Division
    <2>2. (q + p) * PageUnits \in Nat BY Geometry
    <2> QED BY <2>1, <2>2 DEF PageAt
  <1>4. CeilDiv(o.file, RowUnits) \in Nat BY <1>1, Geometry, Counts
  <1> QED BY <1>1, <1>2, <1>3, <1>4

\* The steps that neither touch flash, fuses or lock nor hand anything out,
\* and those that touch no more than fuses.
PlainNames == StepNames \ (FlashWork \cup FuseWork)

LEMMA MildSteps ==
  /\ Plain \subseteq Mild
  /\ \A d \in PlainNames : Do(d) \in Plain /\ Do(d) \in Mild
  /\ \A d \in FuseWork : Do(d) \in Mild /\ \A b \in Nat : Area(d, b, 1) \in Mild
  <1>1. Plain \subseteq Mild BY DEF Mild, Plain, StepsBut
  <1>2. ASSUME NEW d, NEW b \in Nat, NEW l \in Nat
        PROVE  /\ d \in PlainNames => Area(d, b, l) \in Plain
               /\ d \in FuseWork => Area(d, b, l) \in Mild
    <2>1. Area(d, b, l) = [do |-> d, at |-> b, len |-> l, from |-> 0] BY DEF Area
    <2>2. FuseWork \subseteq StepNames \ FlashWork BY DEF FuseWork, FlashWork, StepNames
    <2>3. ASSUME NEW N, d \in N
          PROVE  [do |-> d, at |-> b, len |-> l, from |-> 0] \in [do : N, at : Nat, len : Nat, from : Nat]
      BY <2>3
    <2> QED BY <2>1, <2>2, <2>3 DEF Mild, Plain, PlainNames, StepsBut
  <1>3. \A d \in PlainNames : Do(d) \in Plain BY <1>2 DEF Do
  <1>4. \A d \in FuseWork : Do(d) \in Mild BY <1>2 DEF Do
  <1>5. \A d \in FuseWork : \A b \in Nat : Area(d, b, 1) \in Mild BY <1>2
  <1> QED BY <1>1, <1>3, <1>4, <1>5

LEMMA Words ==
  /\ {"disclose", "disconnect", "connect", "configure", "led", "link", "pinLow", "pinHigh",
      "restart", "extend", "halt", "catch", "release", "letGo", "endExtension", "finishIfOpen",
      "identify", "describe", "locked", "keys", "unimplemented", "options", "errors",
      "wait", "settle", "compare", "fparse", "fread", "fapply", "fmatch", "fgather", "next"} \subseteq PlainNames
  /\ {"fput", "fblank", "fword", "fbit", "feraseAll"} \subseteq FuseWork
  /\ {"chipErase", "regress", "setLock", "save", "program", "fetch", "erase"} \subseteq FlashWork
  BY DEF StepNames, FlashWork, FuseWork, PlainNames

\* A named step is a plain one.
LEMMA PlainStep ==
  /\ Do("disclose") \in Plain /\ Do("disconnect") \in Plain /\ Do("connect") \in Plain
  /\ Do("configure") \in Plain /\ Do("led") \in Plain /\ Do("link") \in Plain
  /\ Do("pinLow") \in Plain /\ Do("pinHigh") \in Plain /\ Do("restart") \in Plain
  /\ Do("extend") \in Plain /\ Do("halt") \in Plain /\ Do("catch") \in Plain
  /\ Do("release") \in Plain /\ Do("letGo") \in Plain /\ Do("endExtension") \in Plain
  /\ Do("finishIfOpen") \in Plain /\ Do("identify") \in Plain /\ Do("describe") \in Plain
  /\ Do("locked") \in Plain /\ Do("keys") \in Plain /\ Do("unimplemented") \in Plain
  /\ Do("options") \in Plain /\ Do("errors") \in Plain
  /\ Do("wait") \in Plain /\ Do("settle") \in Plain
  /\ Do("fparse") \in Plain /\ Do("fread") \in Plain /\ Do("fapply") \in Plain
  /\ Do("fmatch") \in Plain /\ Do("fgather") \in Plain /\ Do("next") \in Plain
  BY MildSteps, Words

LEMMA FuseStep ==
  /\ Do("fput") \in Mild /\ Do("fblank") \in Mild /\ Do("feraseAll") \in Mild
  /\ \A b \in Nat : Area("fbit", b, 1) \in Mild /\ Area("fword", b, 1) \in Mild
  BY MildSteps, Words

\* target_get_ops, driver by driver.
LEMMA OpsOf ==
  ASSUME NEW o
  PROVE  /\ Ops("stm32g0", o) = G0Ops(o) /\ Ops("stm32g4", o) = G4Ops(o)
         /\ Ops("stm32wb55", o) = WbOps(o) /\ Ops("gd32f4xx", o) = GdOps(o)
         /\ Ops("m480", o) = M4Ops(o) /\ Ops("py32f0", o) = PyOps(o)
         /\ Ops("samd", o) = SdOps(o) /\ Ops("same5x", o) = SeOps(o)
         /\ Ops("sam3", o) = A3Ops(o) /\ Ops("sam4", o) = A4Ops(o)
         /\ Ops("same70", o) = A7Ops(o)
  BY DEF Ops

\* What the drivers share touches no memory.
LEMMA PlainShared ==
  /\ UnderReset \in Seq(Plain) /\ Reattached \in Seq(Plain) /\ Release \in Seq(Plain)
  /\ Extend \in Seq(Plain) /\ FinishReset \in Seq(Plain)
  /\ SeExtend \in Seq(Plain) /\ SeFinishReset \in Seq(Plain)
  /\ Unimplemented \in Seq(Plain)
  <1>1. UnderReset \in Seq(Plain) BY PlainStep DEF UnderReset
  <1>2. <<Do("disconnect"), Do("connect")>> \in Seq(Plain) BY PlainStep
  <1>3. Reattached \in Seq(Plain) BY <1>1, <1>2 DEF Reattached
  <1>4. Release \in Seq(Plain) /\ Unimplemented \in Seq(Plain) BY PlainStep DEF Release, Unimplemented
  <1>5. Extend \in Seq(Plain) /\ FinishReset \in Seq(Plain) BY PlainStep DEF Extend, FinishReset
  <1>6. SeExtend \in Seq(Plain) /\ SeFinishReset \in Seq(Plain) BY PlainStep DEF SeExtend, SeFinishReset
  <1> QED BY <1>1, <1>3, <1>4, <1>5, <1>6

\* Neither select nor deselect touches a memory, on any driver.
LEMMA SelectPlain ==
  ASSUME NEW d \in Drivers, NEW o
  PROVE  Ops(d, o).select \in Seq(Plain) /\ Ops(d, o).deselect \in Seq(Plain)
  <1>1. /\ <<Do("options"), Do("locked"), Do("keys")>> \in Seq(Plain)
        /\ <<Do("locked"), Do("options"), Do("keys")>> \in Seq(Plain)
        /\ <<Do("options"), Do("keys"), Do("locked")>> \in Seq(Plain)
        /\ <<Do("identify"), Do("options"), Do("locked"), Do("finishIfOpen")>> \in Seq(Plain)
    BY PlainStep
  <1>2. CASE d = "stm32g0"
    <2>1. G0Select \in Seq(Plain) BY <1>1, PlainShared DEF G0Select
    <2>2. G0Deselect \in Seq(Plain) BY PlainShared DEF G0Deselect
    <2>3. Ops(d, o) = G0Ops(o) BY <1>2, OpsOf
    <2> QED BY <2>1, <2>2, <2>3 DEF G0Ops
  <1>3. CASE d = "stm32g4"
    <2>1. G4Select \in Seq(Plain) BY <1>1, PlainShared DEF G4Select
    <2>2. G4Deselect \in Seq(Plain) BY PlainShared DEF G4Deselect
    <2>3. Ops(d, o) = G4Ops(o) BY <1>3, OpsOf
    <2> QED BY <2>1, <2>2, <2>3 DEF G4Ops
  <1>4. CASE d = "stm32wb55"
    <2>1. WbSelect \in Seq(Plain) BY <1>1, PlainShared DEF WbSelect
    <2>2. WbDeselect \in Seq(Plain) BY PlainShared DEF WbDeselect
    <2>3. Ops(d, o) = WbOps(o) BY <1>4, OpsOf
    <2> QED BY <2>1, <2>2, <2>3 DEF WbOps
  <1>5. CASE d = "gd32f4xx"
    <2>1. GdSelect \in Seq(Plain) BY <1>1, PlainShared DEF GdSelect
    <2>2. GdDeselect \in Seq(Plain) BY PlainShared DEF GdDeselect
    <2>3. Ops(d, o) = GdOps(o) BY <1>5, OpsOf
    <2> QED BY <2>1, <2>2, <2>3 DEF GdOps
  <1>6. CASE d = "m480"
    <2>1. M4Select \in Seq(Plain) BY <1>1, PlainShared DEF M4Select
    <2>2. M4Deselect \in Seq(Plain) BY PlainShared DEF M4Deselect
    <2>3. Ops(d, o) = M4Ops(o) BY <1>6, OpsOf
    <2> QED BY <2>1, <2>2, <2>3 DEF M4Ops
  <1>7. CASE d = "py32f0"
    <2>1. PySelect \in Seq(Plain) BY <1>1, PlainShared DEF PySelect
    <2>2. PyDeselect \in Seq(Plain) BY PlainShared DEF PyDeselect
    <2>3. Ops(d, o) = PyOps(o) BY <1>7, OpsOf
    <2> QED BY <2>1, <2>2, <2>3 DEF PyOps
  <1>8. CASE d = "samd"
    <2>1. SdSelect \in Seq(Plain) BY <1>1, PlainShared DEF SdSelect
    <2>2. SdDeselect \in Seq(Plain) BY PlainShared DEF SdDeselect
    <2>3. Ops(d, o) = SdOps(o) BY <1>8, OpsOf
    <2> QED BY <2>1, <2>2, <2>3 DEF SdOps
  <1>9. CASE d = "same5x"
    <2>1. SeSelect \in Seq(Plain) BY <1>1, PlainShared DEF SeSelect
    <2>2. SeDeselect \in Seq(Plain) BY PlainShared DEF SeDeselect
    <2>3. Ops(d, o) = SeOps(o) BY <1>9, OpsOf
    <2> QED BY <2>1, <2>2, <2>3 DEF SeOps
  <1>10. CASE d = "sam3"
    <2>1. A3Select \in Seq(Plain) BY PlainStep DEF A3Select
    <2>2. A3Deselect \in Seq(Plain) BY PlainShared DEF A3Deselect
    <2>3. Ops(d, o) = A3Ops(o) BY <1>10, OpsOf
    <2> QED BY <2>1, <2>2, <2>3 DEF A3Ops
  <1>11. CASE d = "sam4"
    <2>1. A4Select \in Seq(Plain) BY PlainStep DEF A4Select
    <2>2. A4Deselect \in Seq(Plain) BY PlainShared DEF A4Deselect
    <2>3. Ops(d, o) = A4Ops(o) BY <1>11, OpsOf
    <2> QED BY <2>1, <2>2, <2>3 DEF A4Ops
  <1>12. CASE d = "same70"
    <2>1. A7Select \in Seq(Plain) BY PlainStep DEF A7Select
    <2>2. A7Deselect \in Seq(Plain) BY PlainStep DEF A7Deselect
    <2>3. Ops(d, o) = A7Ops(o) BY <1>12, OpsOf
    <2> QED BY <2>1, <2>2, <2>3 DEF A7Ops
  <1> QED BY <1>2, <1>3, <1>4, <1>5, <1>6, <1>7, <1>8, <1>9, <1>10, <1>11, <1>12 DEF Drivers

\* A loop is typed as its rounds are.
LEMMA Looped ==
  ASSUME NEW T, NEW n \in Nat, NEW ss, ss = [i \in 1 .. n |-> ss[i]],
         \A i \in 1 .. n : ss[i] \in Seq(T)
  PROVE  FlattenSeq(ss) \in Seq(T)
  <1>1. ss \in Seq(Seq(T))
    <2>1. [i \in 1 .. n |-> ss[i]] \in [1 .. n -> Seq(T)] OBVIOUS
    <2> QED BY <2>1
  <1> QED BY <1>1, FlattenTyped

LEMMA Retyped ==
  ASSUME NEW A, NEW B, NEW t \in Seq(A), \A i \in 1 .. Len(t) : t[i] \in B
  PROVE  t \in Seq(B)
  <1>1. PICK n \in Nat : n = Len(t) OBVIOUS
  <1>2. t = [i \in 1 .. n |-> t[i]] BY <1>1
  <1>3. [i \in 1 .. n |-> t[i]] \in Seq(B) BY <1>1
  <1> QED BY <1>2, <1>3

LEMMA SettledTyped ==
  ASSUME NEW T, NEW t \in Seq(T), Do("settle") \in T
  PROVE  Settled(t) \in Seq(T)
  <1> DEFINE ss == [i \in DOMAIN t |-> <<t[i], Do("settle")>>]
  <1>1. PICK n \in Nat : n = Len(t) OBVIOUS
  <1>2. DOMAIN t = 1 .. n /\ \A i \in 1 .. n : t[i] \in T BY <1>1
  <1>3. ASSUME NEW i \in 1 .. n PROVE ss[i] \in Seq(T)
    <2>1. t[i] \in T /\ ss[i] = <<t[i], Do("settle")>> BY <1>2
    <2> HIDE DEF ss
    <2> QED BY <2>1
  <1>4. ss = [i \in 1 .. n |-> ss[i]] BY <1>2
  <1>5. FlattenSeq(ss) \in Seq(T)
    <2> HIDE DEF ss
    <2> QED BY <1>3, <1>4, Looped
  <1> QED BY <1>5 DEF Settled

\* Reading or writing fuses leaves the flash alone, on any driver.
LEMMA FusesMild ==
  ASSUME NEW d \in Drivers, NEW o
  PROVE  Ops(d, o).fread \in Seq(Mild) /\ Ops(d, o).fwrite \in Seq(Mild)
  <1>1. /\ <<Do("fread")>> \in Seq(Mild) /\ <<Do("fput")>> \o <<Do("wait")>> \in Seq(Mild)
        /\ Unimplemented \in Seq(Mild)
    BY PlainStep, FuseStep, MildSteps, PlainShared
  <1>2. CASE d = "stm32g0"
    <2>1. Ops(d, o) = G0Ops(o) BY <1>2, OpsOf
    <2> QED BY <1>1, <2>1 DEF G0Ops
  <1>3. CASE d = "stm32g4"
    <2>1. Ops(d, o) = G4Ops(o) BY <1>3, OpsOf
    <2> QED BY <1>1, <2>1 DEF G4Ops, G4FuseRead, G4FuseWrite, G4Wait
  <1>4. CASE d = "stm32wb55"
    <2>1. Ops(d, o) = WbOps(o) BY <1>4, OpsOf
    <2> QED BY <1>1, <2>1 DEF WbOps
  <1>5. CASE d = "gd32f4xx"
    <2>1. Ops(d, o) = GdOps(o) BY <1>5, OpsOf
    <2> QED BY <1>1, <2>1 DEF GdOps, GdFuseRead, GdFuseWrite, GdWait
  <1>6. CASE d = "m480"
    <2>1. M4Command(Do("feraseAll")) \in Seq(Mild) BY PlainStep, FuseStep, MildSteps DEF M4Command
    <2>2. ASSUME NEW i \in 1 .. 2 PROVE M4Write(Area("fword", i - 1, 1)) \in Seq(Mild)
      <3>1. i - 1 \in Nat OBVIOUS
      <3> QED BY <3>1, PlainStep, FuseStep, MildSteps DEF M4Write
    <2> DEFINE ss == [i \in 1 .. 2 |-> M4Write(Area("fword", i - 1, 1))]
    <2>3. ss \in Seq(Seq(Mild)) BY <2>2
    <2>4. FlattenSeq(ss) \in Seq(Mild)
      <3> HIDE DEF ss
      <3> QED BY <2>3, FlattenTyped
    <2>5. M4FuseWrite = <<Do("fgather")>> \o M4Command(Do("feraseAll")) \o FlattenSeq(ss)
      BY DEF M4FuseWrite, Times
    <2>6. <<Do("fgather")>> \in Seq(Mild) BY PlainStep, FuseStep, MildSteps
    <2>7. M4FuseWrite \in Seq(Mild)
      <3> HIDE DEF ss
      <3> QED BY <2>1, <2>4, <2>5, <2>6
    <2>9. Ops(d, o) = M4Ops(o) BY <1>6, OpsOf
    <2> QED BY <1>1, <2>7, <2>9 DEF M4Ops, M4FuseRead
  <1>7. CASE d = "py32f0"
    <2>1. Ops(d, o) = PyOps(o) BY <1>7, OpsOf
    <2> QED BY <1>1, <2>1 DEF PyOps, PyFuseRead, PyFuseWrite, PyWait
  <1>8. CASE d = "samd"
    <2>1. SdFuseWrite \in Seq(Mild) BY PlainStep, FuseStep, MildSteps DEF SdFuseWrite
    <2>9. Ops(d, o) = SdOps(o) BY <1>8, OpsOf
    <2> QED BY <1>1, <2>1, <2>9 DEF SdOps, SdFuseRead
  <1>9. CASE d = "same5x"
    <2>1. <<Do("fblank"), Do("fput")>> \in Seq(Mild) /\ Do("settle") \in Mild BY PlainStep, FuseStep, MildSteps
    <2>4. SeFuseWrite \in Seq(Mild) BY <2>1, SettledTyped DEF SeFuseWrite
    <2>9. Ops(d, o) = SeOps(o) BY <1>9, OpsOf
    <2> QED BY <1>1, <2>4, <2>9 DEF SeOps, SeFuseRead
  <1>11. ASSUME NEW ss, ss = [i \in 1 .. 2 |-> <<Area("fbit", i - 1, 1)>>]
        PROVE  FlattenSeq(ss) \in Seq(Mild)
    <2>1. ASSUME NEW i \in 1 .. 2 PROVE <<Area("fbit", i - 1, 1)>> \in Seq(Mild)
      <3>1. i - 1 \in Nat OBVIOUS
      <3> QED BY <3>1, PlainStep, FuseStep, MildSteps
    <2>2. ss \in Seq(Seq(Mild)) BY <1>11, <2>1
    <2> QED BY <2>2, FlattenTyped
  <1>12. ASSUME NEW ss, ss = [i \in 1 .. 2 |-> <<Area("fbit", i - 1, 1), Do("settle")>>]
        PROVE  FlattenSeq(ss) \in Seq(Mild)
    <2>1. ASSUME NEW i \in 1 .. 2 PROVE <<Area("fbit", i - 1, 1), Do("settle")>> \in Seq(Mild)
      <3>1. i - 1 \in Nat OBVIOUS
      <3> QED BY <3>1, PlainStep, FuseStep, MildSteps
    <2>2. DOMAIN ss = 1 .. 2 /\ \A i \in 1 .. 2 : ss[i] \in Seq(Mild) BY <1>12, <2>1
    <2>3. ss \in Seq(Seq(Mild))
      <3>1. ss = [i \in 1 .. 2 |-> ss[i]] BY <1>12
      <3> QED BY <2>2, <3>1
    <2> QED BY <2>3, FlattenTyped
  <1>13. CASE d = "sam3"
    <2>1. A3FuseWrite \in Seq(Mild) BY <1>11 DEF A3FuseWrite, Times
    <2>9. Ops(d, o) = A3Ops(o) BY <1>13, OpsOf
    <2> QED BY <1>1, <2>1, <2>9 DEF A3Ops, A3FuseRead
  <1>14. CASE d = "sam4"
    <2>1. A4FuseWrite \in Seq(Mild) BY <1>12 DEF A4FuseWrite, Times
    <2>9. Ops(d, o) = A4Ops(o) BY <1>14, OpsOf
    <2> QED BY <1>1, <2>1, <2>9 DEF A4Ops, A4FuseRead
  <1>15. CASE d = "same70"
    <2>1. A7FuseWrite \in Seq(Mild) BY <1>11 DEF A7FuseWrite, Times
    <2>9. Ops(d, o) = A7Ops(o) BY <1>15, OpsOf
    <2> QED BY <1>1, <2>1, <2>9 DEF A7Ops, A7FuseRead
  <1> QED BY <1>2, <1>3, <1>4, <1>5, <1>6, <1>7, <1>8, <1>9, <1>13, <1>14, <1>15 DEF Drivers

\* A loop of steps is made of what its rounds are made of.
Unsaved == StepsBut({"save"})
Easy == StepsBut({"chipErase", "regress", "setLock", "program", "erase"} \cup FuseWork)

LEMMA StepTyped ==
  ASSUME NEW X, NEW d \in StepNames \ X, NEW a \in Nat, NEW l \in Nat, NEW f \in Nat
  PROVE  [do |-> d, at |-> a, len |-> l, from |-> f] \in StepsBut(X)
  BY DEF StepsBut

LEMMA PlainIsEasy ==
  /\ Plain \subseteq Easy /\ Plain \subseteq Unsaved /\ Mild \subseteq Unsaved
  /\ \A d \in FlashWork \ {"save"} : \A a, l \in Nat : Area(d, a, l) \in Unsaved /\ Do(d) \in Unsaved
  /\ \A a, l, f \in Nat : Data(a, l, f) \in Unsaved
  <1>1. /\ StepNames \ (FlashWork \cup FuseWork) \subseteq StepNames \ ({"chipErase", "regress", "setLock", "program", "erase"} \cup FuseWork)
        /\ StepNames \ (FlashWork \cup FuseWork) \subseteq StepNames \ {"save"}
        /\ StepNames \ FlashWork \subseteq StepNames \ {"save"}
    BY DEF FlashWork
  <1>2. Plain \subseteq Easy /\ Plain \subseteq Unsaved /\ Mild \subseteq Unsaved
    BY <1>1 DEF Plain, Easy, Unsaved, Mild, StepsBut
  <1>3. FlashWork \ {"save"} \subseteq StepNames \ {"save"} /\ "program" \in StepNames \ {"save"}
    BY DEF FlashWork, StepNames
  <1>4. \A d \in FlashWork \ {"save"} : \A a, l \in Nat : Area(d, a, l) \in Unsaved /\ Do(d) \in Unsaved
    BY <1>3, StepTyped DEF Unsaved, Area, Do
  <1>5. \A a, l, f \in Nat : Data(a, l, f) \in Unsaved
    BY <1>3, StepTyped DEF Unsaved, Data
  <1> QED BY <1>2, <1>4, <1>5

LEMMA UnsavedStep ==
  /\ \A a, l \in Nat : Area("erase", a, l) \in Unsaved
  /\ Do("chipErase") \in Unsaved /\ Do("regress") \in Unsaved /\ Do("setLock") \in Unsaved
  /\ Do("wait") \in Unsaved /\ Do("settle") \in Unsaved /\ Do("next") \in Unsaved
  /\ Do("errors") \in Unsaved
  <1>1. /\ "erase" \in FlashWork \ {"save"} /\ "chipErase" \in FlashWork \ {"save"}
        /\ "regress" \in FlashWork \ {"save"} /\ "setLock" \in FlashWork \ {"save"}
    BY DEF FlashWork
  <1>2. 0 \in Nat OBVIOUS
  <1> QED BY <1>1, <1>2, PlainIsEasy, PlainStep

LEMMA BlocksTyped ==
  ASSUME NEW X, NEW d \in StepNames \ X, NEW o \in Options, NEW size \in Nat,
         NEW chunk \in Nat \ {0}
  PROVE  InBlocks(d, o, size, chunk) \in Seq(StepsBut(X))
  <1> DEFINE Piece(i) == [do |-> d, at |-> o.offset + (i - 1) * chunk, len |-> chunk,
                          from |-> (i - 1) * chunk]
  <1>1. PICK n \in Nat : n = CeilDiv(size, chunk) BY Counts
  <1>2. ASSUME NEW i \in 1 .. n
        PROVE  Piece(i) \in StepsBut(X)
    <2>1. (i - 1) * chunk \in Nat OBVIOUS
    <2>2. o.offset + (i - 1) * chunk \in Nat BY <2>1, Pages
    <2> QED BY <2>1, <2>2, StepTyped
  <1>3. InBlocks(d, o, size, chunk) = [i \in 1 .. n |-> Piece(i)] BY <1>1 DEF InBlocks
  <1> HIDE DEF Piece
  <1>4. [i \in 1 .. n |-> Piece(i)] \in Seq(StepsBut(X)) BY <1>2
  <1> QED BY <1>3, <1>4

\* read of a driver only fetches and saves.
LEMMA ReadEasy ==
  ASSUME NEW d \in Drivers, NEW o \in Options
  PROVE  Ops(d, o).read \in Seq(Easy)
  <1>1. ASSUME NEW chunk \in Nat \ {0} PROVE Fetched(o, chunk) \in Seq(Easy)
    <2>1. "fetch" \in StepNames \ ({"chipErase", "regress", "setLock", "program", "erase"} \cup FuseWork)
          /\ "save" \in StepNames \ ({"chipErase", "regress", "setLock", "program", "erase"} \cup FuseWork)
      BY DEF StepNames, FuseWork
    <2>2. InBlocks("fetch", o, o.size, chunk) \in Seq(Easy) BY <2>1, BlocksTyped, Pages DEF Easy
    <2>3. Do("save") \in Easy BY <2>1, StepTyped DEF Easy, Do, Area
    <2> QED BY <2>2, <2>3 DEF Fetched
  <1>2. Fetched(o, RowUnits) \in Seq(Easy) /\ Fetched(o, PageUnits) \in Seq(Easy) BY <1>1, Geometry
  <1>3. /\ Ops("stm32g0", o).read = Fetched(o, RowUnits) /\ Ops("stm32g4", o).read = Fetched(o, RowUnits)
        /\ Ops("stm32wb55", o).read = Fetched(o, RowUnits) /\ Ops("gd32f4xx", o).read = Fetched(o, RowUnits)
        /\ Ops("m480", o).read = Fetched(o, PageUnits) /\ Ops("py32f0", o).read = Fetched(o, PageUnits)
    BY OpsOf DEF G0Ops, G0Read, G4Ops, G4Read, WbOps, WbRead, GdOps, GdRead, M4Ops, M4Read, PyOps, PyRead
  <1>4. /\ Ops("samd", o).read = Fetched(o, PageUnits) /\ Ops("same5x", o).read = Fetched(o, RowUnits)
        /\ Ops("sam3", o).read = Fetched(o, RowUnits) /\ Ops("sam4", o).read = Fetched(o, RowUnits)
        /\ Ops("same70", o).read = Fetched(o, RowUnits)
    BY OpsOf DEF SdOps, SdRead, SeOps, SeRead, A3Ops, A3Read, A4Ops, A4Read, A7Ops, A7Read
  <1> QED BY <1>2, <1>3, <1>4 DEF Drivers

\* What empties a device, and the wait that has to follow it.
Waits == {"wait", "settle"}
Wipes(w) == w.do \in {"chipErase", "regress"} \/ w = Area("erase", 0, Total)
Winding(s) ==
  /\ s # <<>> /\ Wipes(Head(s))
  /\ Tail(s) \in Seq(Easy) /\ Tail(s) # <<>> /\ Head(Tail(s)).do \in Waits

\* A wipe and the wait for it, then steps that are easy.
LEMMA WindsUp ==
  ASSUME NEW w, NEW x \in Plain, NEW r \in Seq(Plain), Wipes(w), x.do \in Waits
  PROVE  Winding((<<w, x>> \o r) \o <<Do("next")>>)
  <1> DEFINE s == (<<w, x>> \o r) \o <<Do("next")>>
             A == {w} \cup Easy
  <1>1. <<w, x>> \in Seq(A) /\ r \in Seq(A) /\ <<Do("next")>> \in Seq(A) /\ x \in Easy
    <2>1. x \in Easy /\ Do("next") \in Easy /\ r \in Seq(Easy) BY PlainIsEasy, PlainStep
    <2> QED BY <2>1
  <1>2. s \in Seq(A) /\ Len(s) = Len(r) + 3 /\ Len(r) \in Nat
    <2>1. <<w, x>> \o r \in Seq(A) /\ Len(<<w, x>> \o r) = Len(r) + 2 /\ Len(r) \in Nat BY <1>1
    <2>2. Len(s) = Len(<<w, x>> \o r) + 1 /\ s \in Seq(A) BY <1>1, <2>1
    <2> QED BY <2>1, <2>2
  <1>3. s[1] = w /\ s[2] = x
    <2>1. (<<w, x>> \o r)[1] = w /\ (<<w, x>> \o r)[2] = x BY <1>1
    <2>2. <<w, x>> \o r \in Seq(A) /\ Len(<<w, x>> \o r) = Len(r) + 2 /\ Len(r) \in Nat BY <1>1
    <2>3. s[1] = (<<w, x>> \o r)[1] /\ s[2] = (<<w, x>> \o r)[2] BY <1>1, <2>2
    <2> QED BY <2>1, <2>3
  <1>4. ASSUME NEW i \in 2 .. Len(r) + 3 PROVE s[i] \in Easy
    <2>1. CASE i = 2 BY <1>1, <1>3, <2>1
    <2>2. CASE i \in 3 .. Len(r) + 2
      <3>1. Len(<<w, x>> \o r) = Len(r) + 2 /\ <<w, x>> \o r \in Seq(A) BY <1>1
      <3>2. s[i] = (<<w, x>> \o r)[i] BY <1>1, <1>2, <2>2, <3>1
      <3>3. (<<w, x>> \o r)[i] = r[i - 2] /\ i - 2 \in 1 .. Len(r) BY <1>1, <1>2, <2>2
      <3>4. r[i - 2] \in Plain BY <3>3
      <3> QED BY <3>2, <3>3, <3>4, PlainIsEasy
    <2>3. CASE i = Len(r) + 3
      <3>1. Len(<<w, x>> \o r) = Len(r) + 2 /\ <<w, x>> \o r \in Seq(A) BY <1>1
      <3>2. s[i] = Do("next") BY <1>1, <1>2, <2>3, <3>1
      <3> QED BY <3>2, PlainIsEasy, PlainStep
    <2> QED BY <1>2, <2>1, <2>2, <2>3
  <1> HIDE DEF s, A
  <1>5. Len(Tail(s)) = Len(r) + 2 /\ \A i \in 1 .. Len(r) + 2 : Tail(s)[i] = s[i + 1] BY <1>2
  <1>6. Tail(s) \in Seq(Easy)
    <2>1. \A i \in 1 .. Len(r) + 2 : Tail(s)[i] \in Easy BY <1>2, <1>4, <1>5
    <2>2. Tail(s) \in Seq(A) BY <1>2
    <2> QED BY <1>5, <2>1, <2>2, Retyped
  <1>7. Tail(s) # <<>> /\ Head(Tail(s)) = x
    <2>1. 1 \in 1 .. Len(r) + 2 BY <1>2
    <2>2. Tail(s)[1] = x BY <1>3, <1>5, <2>1
    <2>3. Tail(s) # <<>> BY <1>2, <1>5
    <2> QED BY <1>6, <2>2, <2>3
  <1>8. s # <<>> /\ Head(s) = w BY <1>2, <1>3
  <1> QED BY <1>6, <1>7, <1>8 DEF Winding, s

\* unlock of a driver is not implemented, or wipes the flash and waits for it.
LEMMA UnlockWinds ==
  ASSUME NEW d \in Drivers, NEW o
  PROVE  LET s == Ops(d, o).unlock IN s \in Seq(Plain) \/ Winding(s \o <<Do("next")>>)
  <1>1. Do("wait") \in Plain /\ Do("settle") \in Plain /\ <<>> \in Seq(Plain) BY PlainStep
  <1>2. Do("wait").do \in Waits /\ Do("settle").do \in Waits BY DEF Do, Area, Waits
  <1>3. Wipes(Do("chipErase")) /\ Wipes(Do("regress")) /\ Wipes(Area("erase", 0, Total))
    BY DEF Wipes, Do, Area
  <1>4. ASSUME NEW w, NEW x, x \in Plain, x.do \in Waits, Wipes(w)
        PROVE  Winding(<<w, x>> \o <<Do("next")>>)
    <2>1. Winding((<<w, x>> \o <<>>) \o <<Do("next")>>) BY <1>1, <1>4, WindsUp
    <2>2. <<w, x>> \o <<>> = <<w, x>> OBVIOUS
    <2> QED BY <2>1, <2>2
  <1>5. CASE d \in {"stm32g0", "stm32g4", "stm32wb55"}
    <2>1. Ops(d, o).unlock = Unimplemented BY <1>5, OpsOf DEF G0Ops, G4Ops, WbOps
    <2> QED BY <2>1, PlainShared
  <1>6. CASE d = "gd32f4xx"
    <2>1. Ops(d, o).unlock = <<Do("regress"), Do("wait")>>
      BY <1>6, OpsOf DEF GdOps, GdUnlock, GdWait
    <2> QED BY <1>1, <1>2, <1>3, <1>4, <2>1
  <1>7. CASE d = "py32f0"
    <2>1. Ops(d, o).unlock = <<Do("regress"), Do("wait")>>
      BY <1>7, OpsOf DEF PyOps, PyUnlock, PyWait
    <2> QED BY <1>1, <1>2, <1>3, <1>4, <2>1
  <1>8. CASE d = "m480"
    <2>1. Ops(d, o).unlock = <<Do("chipErase"), Do("wait")>>
      BY <1>8, OpsOf DEF M4Ops, M4Unlock, M4Command
    <2> QED BY <1>1, <1>2, <1>3, <1>4, <2>1
  <1>9. CASE d = "samd"
    <2>1. Ops(d, o).unlock = <<Do("chipErase"), Do("settle")>> \o Extend \o FinishReset
      BY <1>9, OpsOf DEF SdOps, SdErase
    <2>2. <<Do("chipErase"), Do("settle")>> \o Extend \o FinishReset
            = <<Do("chipErase"), Do("settle")>> \o (Extend \o FinishReset)
      BY DEF Extend, FinishReset
    <2>3. Extend \o FinishReset \in Seq(Plain) BY PlainShared
    <2> QED BY <1>1, <1>2, <1>3, <2>1, <2>2, <2>3, WindsUp
  <1>10. CASE d = "same5x"
    <2>1. Ops(d, o).unlock = <<Do("chipErase"), Do("settle")>> \o SeExtend \o SeFinishReset
      BY <1>10, OpsOf DEF SeOps, SeErase
    <2>2. <<Do("chipErase"), Do("settle")>> \o SeExtend \o SeFinishReset
            = <<Do("chipErase"), Do("settle")>> \o (SeExtend \o SeFinishReset)
      BY DEF SeExtend, SeFinishReset
    <2>3. SeExtend \o SeFinishReset \in Seq(Plain) BY PlainShared
    <2> QED BY <1>1, <1>2, <1>3, <2>1, <2>2, <2>3, WindsUp
  <1>11. CASE d \in {"sam3", "sam4", "same70"}
    <2>1. Ops(d, o).unlock = <<Area("erase", 0, Total), Do("settle")>>
      BY <1>11, OpsOf DEF A3Ops, A3Erase, A4Ops, A4Erase, A7Ops, A7Erase
    <2> QED BY <1>1, <1>2, <1>3, <1>4, <2>1
  <1> QED BY <1>5, <1>6, <1>7, <1>8, <1>9, <1>10, <1>11 DEF Drivers

\* Every select looks whether the device is locked, or halts a core that does
\* not answer when it is.
GatesOf(d) == IF d \in Eefc THEN {"halt", "catch"} ELSE {"locked"}
HasGate(s, G) == \E i \in 1 .. Len(s) : s[i].do \in G

LEMMA GateConcat ==
  ASSUME NEW T, NEW s \in Seq(T), NEW t \in Seq(T), NEW G, HasGate(s, G) \/ HasGate(t, G)
  PROVE  HasGate(s \o t, G)
  <1>1. Len(s) \in Nat /\ Len(t) \in Nat /\ Len(s \o t) = Len(s) + Len(t) OBVIOUS
  <1>2. CASE HasGate(s, G)
    <2>1. PICK i \in 1 .. Len(s) : s[i].do \in G BY <1>2 DEF HasGate
    <2>2. (s \o t)[i] = s[i] /\ i \in 1 .. Len(s \o t) BY <1>1, <2>1
    <2> QED BY <2>1, <2>2 DEF HasGate
  <1>3. CASE HasGate(t, G)
    <2>1. PICK i \in 1 .. Len(t) : t[i].do \in G BY <1>3 DEF HasGate
    <2>2. (s \o t)[i + Len(s)] = t[i] /\ i + Len(s) \in 1 .. Len(s \o t) BY <1>1, <2>1
    <2> QED BY <2>1, <2>2 DEF HasGate
  <1> QED BY <1>2, <1>3

\* select of every driver has the check that stops at a locked device.
LEMMA SelectGated ==
  ASSUME NEW d \in Drivers, NEW o
  PROVE  HasGate(Ops(d, o).select \o <<Do("next")>>, GatesOf(d))
  <1>1. SUFFICES HasGate(Ops(d, o).select, GatesOf(d))
    <2>1. Ops(d, o).select \in Seq(Plain) /\ <<Do("next")>> \in Seq(Plain) BY SelectPlain, PlainStep
    <2> QED BY <2>1, GateConcat
  <1>2. /\ <<Do("options"), Do("locked"), Do("keys")>> \in Seq(Plain)
        /\ <<Do("locked"), Do("options"), Do("keys")>> \in Seq(Plain)
        /\ <<Do("options"), Do("keys"), Do("locked")>> \in Seq(Plain)
        /\ <<Do("identify"), Do("options"), Do("locked"), Do("finishIfOpen")>> \in Seq(Plain)
    BY PlainStep
  <1>3. Do("locked").do = "locked" /\ Do("halt").do = "halt" /\ Do("catch").do = "catch"
    BY DEF Do, Area
  <1>4. /\ HasGate(<<Do("options"), Do("locked"), Do("keys")>>, {"locked"})
        /\ HasGate(<<Do("locked"), Do("options"), Do("keys")>>, {"locked"})
        /\ HasGate(<<Do("options"), Do("keys"), Do("locked")>>, {"locked"})
        /\ HasGate(<<Do("identify"), Do("options"), Do("locked"), Do("finishIfOpen")>>, {"locked"})
    <2>1. ASSUME NEW s, NEW i \in 1 .. Len(s), s[i] = Do("locked") PROVE HasGate(s, {"locked"})
      BY <1>3, <2>1 DEF HasGate
    <2>2. ASSUME NEW a, NEW b PROVE HasGate(<<a, b, Do("locked")>>, {"locked"})
      <3> DEFINE s == <<a, b, Do("locked")>>
      <3>1. 3 \in 1 .. Len(s) /\ s[3] = Do("locked") OBVIOUS
      <3> HIDE DEF s
      <3> QED BY <2>1, <3>1 DEF s
    <2>3. ASSUME NEW a, NEW b PROVE HasGate(<<a, Do("locked"), b>>, {"locked"})
      <3> DEFINE s == <<a, Do("locked"), b>>
      <3>1. 2 \in 1 .. Len(s) /\ s[2] = Do("locked") OBVIOUS
      <3> HIDE DEF s
      <3> QED BY <2>1, <3>1 DEF s
    <2>4. ASSUME NEW a, NEW b PROVE HasGate(<<Do("locked"), a, b>>, {"locked"})
      <3> DEFINE s == <<Do("locked"), a, b>>
      <3>1. 1 \in 1 .. Len(s) /\ s[1] = Do("locked") OBVIOUS
      <3> HIDE DEF s
      <3> QED BY <2>1, <3>1 DEF s
    <2>5. ASSUME NEW a, NEW b, NEW c PROVE HasGate(<<a, b, Do("locked"), c>>, {"locked"})
      <3> DEFINE s == <<a, b, Do("locked"), c>>
      <3>1. 3 \in 1 .. Len(s) /\ s[3] = Do("locked") OBVIOUS
      <3> HIDE DEF s
      <3> QED BY <2>1, <3>1 DEF s
    <2> QED BY <2>2, <2>3, <2>4, <2>5
  <1>5. ASSUME NEW s \in Seq(Plain), NEW t \in Seq(Plain), NEW G, HasGate(t, G)
         PROVE  HasGate(s \o t, G)
    BY <1>5, GateConcat
  <1>6. CASE d \in {"stm32g0", "stm32g4", "stm32wb55", "py32f0"}
    <2> DEFINE t == <<Do("options"), Do("locked"), Do("keys")>>
    <2>1. Ops(d, o).select = Reattached \o t
      <3>1. CASE d = "stm32g0" BY <3>1, OpsOf DEF G0Ops, G0Select
      <3>2. CASE d = "stm32g4" BY <3>2, OpsOf DEF G4Ops, G4Select
      <3>3. CASE d = "stm32wb55" BY <3>3, OpsOf DEF WbOps, WbSelect
      <3>4. CASE d = "py32f0" BY <3>4, OpsOf DEF PyOps, PySelect
      <3> QED BY <1>6, <3>1, <3>2, <3>3, <3>4
    <2>2. GatesOf(d) = {"locked"} BY <1>6 DEF GatesOf, Eefc
    <2>3. t \in Seq(Plain) /\ HasGate(t, {"locked"}) BY <1>2, <1>4
    <2> HIDE DEF t
    <2>4. HasGate(Ops(d, o).select, {"locked"}) BY <1>5, <2>1, <2>3, PlainShared
    <2> QED BY <2>2, <2>4
  <1>7. CASE d = "gd32f4xx"
    <2> DEFINE t == <<Do("locked"), Do("options"), Do("keys")>>
    <2>1. Ops(d, o).select = UnderReset \o t
      BY <1>7, OpsOf DEF GdOps, GdSelect
    <2>2. GatesOf(d) = {"locked"} BY <1>7 DEF GatesOf, Eefc
    <2>3. t \in Seq(Plain) /\ HasGate(t, {"locked"}) BY <1>2, <1>4
    <2> HIDE DEF t
    <2>4. HasGate(Ops(d, o).select, {"locked"}) BY <1>5, <2>1, <2>3, PlainShared
    <2> QED BY <2>2, <2>4
  <1>8. CASE d = "m480"
    <2> DEFINE t == <<Do("options"), Do("keys"), Do("locked")>>
    <2>1. Ops(d, o).select = Reattached \o t
      BY <1>8, OpsOf DEF M4Ops, M4Select
    <2>2. GatesOf(d) = {"locked"} BY <1>8 DEF GatesOf, Eefc
    <2>3. t \in Seq(Plain) /\ HasGate(t, {"locked"}) BY <1>2, <1>4
    <2> HIDE DEF t
    <2>4. HasGate(Ops(d, o).select, {"locked"}) BY <1>5, <2>1, <2>3, PlainShared
    <2> QED BY <2>2, <2>4
  <1>9. CASE d \in {"samd", "same5x"}
    <2> DEFINE t == <<Do("identify"), Do("options"), Do("locked"), Do("finishIfOpen")>>
    <2>1. Ops(d, o).select = Extend \o t \/ Ops(d, o).select = SeExtend \o t
      <3>1. Ops("samd", o).select = SdSelect /\ Ops("same5x", o).select = SeSelect
        BY OpsOf DEF SdOps, SeOps
      <3>2. SdSelect = Extend \o t BY DEF SdSelect
      <3>3. SeSelect = SeExtend \o t BY DEF SeSelect
      <3> HIDE DEF t
      <3> QED BY <1>9, <3>1, <3>2, <3>3
    <2>2. GatesOf(d) = {"locked"} BY <1>9 DEF GatesOf, Eefc
    <2>3. t \in Seq(Plain) /\ HasGate(t, {"locked"}) BY <1>2, <1>4
    <2> HIDE DEF t
    <2>4. HasGate(Ops(d, o).select, {"locked"})
      <3>1. Extend \in Seq(Plain) /\ SeExtend \in Seq(Plain) BY PlainShared
      <3>2. HasGate(Extend \o t, {"locked"}) /\ HasGate(SeExtend \o t, {"locked"})
        BY <1>5, <2>3, <3>1
      <3> QED BY <2>1, <3>2
    <2> QED BY <2>2, <2>4
  <1>10. CASE d \in {"sam3", "sam4", "same70"}
    <2>1. GatesOf(d) = {"halt", "catch"} BY <1>10 DEF GatesOf, Eefc
    <2>2. ASSUME NEW s, NEW i \in 1 .. Len(s), s[i] = Do("halt") \/ s[i] = Do("catch")
          PROVE  HasGate(s, {"halt", "catch"})
      BY <1>3, <2>2 DEF HasGate
    <2>3. HasGate(A3Select, {"halt", "catch"})
      <3>1. 3 \in 1 .. Len(A3Select) /\ A3Select[3] = Do("halt") BY DEF A3Select
      <3> QED BY <2>2, <3>1
    <2>4. HasGate(A4Select, {"halt", "catch"})
      <3>1. 3 \in 1 .. Len(A4Select) /\ A4Select[3] = Do("halt") BY DEF A4Select
      <3> QED BY <2>2, <3>1
    <2>5. HasGate(A7Select, {"halt", "catch"})
      <3>1. 2 \in 1 .. Len(A7Select) /\ A7Select[2] = Do("catch") BY DEF A7Select
      <3> QED BY <2>2, <3>1
    <2>6. Ops(d, o).select \in {A3Select, A4Select, A7Select}
      BY <1>10, OpsOf DEF A3Ops, A4Ops, A7Ops
    <2> QED BY <2>1, <2>3, <2>4, <2>5, <2>6
  <1> QED BY <1>6, <1>7, <1>8, <1>9, <1>10 DEF Drivers

\* Only read makes a file.
LEMMA RowsUnsaved ==
  ASSUME NEW o \in Options, NEW p \in Nat
  PROVE  RowsOfPage(o, p) \in Seq(Unsaved) /\ WholePage(o, p) \in Seq(Unsaved)
  <1>1. o.offset \in Nat /\ p * PageUnits \in Nat /\ o.offset + p * PageUnits \in Nat
    <2>1. p * PageUnits \in Nat BY Geometry
    <2> QED BY <2>1, Pages
  <1>2. WholePage(o, p) \in Seq(Unsaved)
    <2>1. Data(o.offset + p * PageUnits, PageUnits, p * PageUnits) \in Unsaved
      BY <1>1, Geometry, PlainIsEasy
    <2> QED BY <2>1 DEF WholePage
  <1>3. PICK n \in Nat : n = PageUnits \div RowUnits BY Geometry
  <1>4. ASSUME NEW i \in 1 .. n
        PROVE  Data(o.offset + p * PageUnits + (i - 1) * RowUnits, RowUnits,
                    p * PageUnits + (i - 1) * RowUnits) \in Unsaved
    <2>1. (i - 1) * RowUnits \in Nat BY Geometry
    <2>2. /\ o.offset + p * PageUnits + (i - 1) * RowUnits \in Nat
          /\ p * PageUnits + (i - 1) * RowUnits \in Nat
      BY <1>1, <2>1
    <2> QED BY <2>2, Geometry, PlainIsEasy
  <1> DEFINE Row(i) == Data(o.offset + p * PageUnits + (i - 1) * RowUnits, RowUnits,
                            p * PageUnits + (i - 1) * RowUnits)
  <1>5. RowsOfPage(o, p) = [i \in 1 .. n |-> Row(i)] BY <1>3 DEF RowsOfPage
  <1>6. \A i \in 1 .. n : Row(i) \in Unsaved BY <1>4
  <1>7. RowsOfPage(o, p) \in Seq(Unsaved)
    <2> HIDE DEF Row
    <2> QED BY <1>5, <1>6
  <1> QED BY <1>2, <1>7

\* The rounds of the programming loops.
LEMMA RoundsUnsaved ==
  ASSUME NEW o \in Options, NEW p \in Nat
  PROVE  /\ <<Area("erase", PageAt(o, p), PageUnits)>> \in Seq(Unsaved)
         /\ <<Area("erase", p * PageUnits, PageUnits)>> \in Seq(Unsaved)
         /\ <<Area("erase", o.offset + p * PageUnits, PageUnits)>> \in Seq(Unsaved)
         /\ <<Area("erase", o.offset + p * PageUnits, PageUnits), Do("settle")>> \in Seq(Unsaved)
         /\ <<Area("erase", PageAt(o, p), PageUnits), Do("settle")>> \in Seq(Unsaved)
         /\ M4Command(Area("erase", PageAt(o, p), PageUnits)) \in Seq(Unsaved)
         /\ <<Do("wait")>> \in Seq(Unsaved) /\ <<Do("settle")>> \in Seq(Unsaved)
  <1>1. p * PageUnits \in Nat /\ o.offset + p * PageUnits \in Nat /\ PageAt(o, p) \in Nat
    <2>1. p * PageUnits \in Nat BY Geometry
    <2> QED BY <2>1, Pages
  <1>2. /\ Area("erase", p * PageUnits, PageUnits) \in Unsaved
        /\ Area("erase", o.offset + p * PageUnits, PageUnits) \in Unsaved
        /\ Area("erase", PageAt(o, p), PageUnits) \in Unsaved
    BY <1>1, Geometry, UnsavedStep
  <1> QED BY <1>2, UnsavedStep DEF M4Command

\* Neither Data nor Commit saves a file.
LEMMA CommitsUnsaved ==
  ASSUME NEW o \in Options, NEW p \in Nat, NEW a \in Nat
  PROVE  /\ Commit(a, p * RowUnits) \in Unsaved
         /\ Area("erase", Commit(a, p * RowUnits).at, RowUnits) \in Unsaved
         /\ Data(o.offset + p * RowUnits, RowUnits, p * RowUnits) \in Unsaved
         /\ p * RowUnits \in Nat /\ o.offset + p * RowUnits \in Nat
  <1>1. p * RowUnits \in Nat /\ o.offset + p * RowUnits \in Nat
    <2>1. p * RowUnits \in Nat BY Geometry
    <2> QED BY <2>1, Pages
  <1>2. Commit(a, p * RowUnits) = Data(a, RowUnits, p * RowUnits) BY DEF Commit
  <1>3. Data(a, RowUnits, p * RowUnits).at = a BY DEF Data
  <1> QED BY <1>1, <1>2, <1>3, Geometry, PlainIsEasy, UnsavedStep

\* The operations that are no loops over the file.
LEMMA ShortUnsaved ==
  ASSUME NEW d \in Drivers, NEW o \in Options
  PROVE  /\ Ops(d, o).erase \in Seq(Unsaved) /\ Ops(d, o).lock \in Seq(Unsaved)
         /\ Ops(d, o).unlock \in Seq(Unsaved) /\ Ops(d, o).verify \in Seq(Unsaved)
  <1>1. /\ Unimplemented \in Seq(Unsaved)
        /\ <<Do("setLock")>> \in Seq(Unsaved) /\ <<Do("setLock")>> \o <<Do("wait")>> \in Seq(Unsaved)
        /\ <<Do("setLock"), Do("settle")>> \in Seq(Unsaved)
        /\ <<Do("regress")>> \o <<Do("wait")>> \in Seq(Unsaved)
        /\ <<Do("chipErase"), Do("wait")>> \in Seq(Unsaved)
        /\ Compared(o, RowUnits) \in Seq(Unsaved) /\ Compared(o, PageUnits) \in Seq(Unsaved)
    <2>1. Unimplemented \in Seq(Unsaved) BY PlainShared, PlainIsEasy
    <2>2. "compare" \in StepNames \ {"save"} BY DEF StepNames
    <2>3. Compared(o, RowUnits) \in Seq(Unsaved) /\ Compared(o, PageUnits) \in Seq(Unsaved)
      BY <2>2, BlocksTyped, Pages, Geometry DEF Compared, Unsaved
    <2> QED BY <2>1, <2>3, UnsavedStep
  <1>2. /\ <<Area("erase", 0, Total)>> \o <<Do("wait")>> \in Seq(Unsaved)
        /\ <<Area("erase", 0, Total), Do("settle")>> \in Seq(Unsaved)
        /\ <<Area("erase", 0, Total \div 2), Do("wait")>> \in Seq(Unsaved)
        /\ <<Area("erase", Total \div 2, Total \div 2), Do("wait")>> \in Seq(Unsaved)
    <2>1. /\ Area("erase", 0, Total) \in Unsaved /\ Area("erase", 0, Total \div 2) \in Unsaved
          /\ Area("erase", Total \div 2, Total \div 2) \in Unsaved
      <3>1. Total \in Nat /\ Total \div 2 \in Nat /\ 0 \in Nat BY Geometry
      <3> QED BY <3>1, UnsavedStep
    <2> QED BY <2>1, UnsavedStep
  <1>3. <<Do("chipErase"), Do("settle")>> \in Seq(Unsaved) BY UnsavedStep
  <1>4. SdErase \in Seq(Unsaved) /\ SeErase \in Seq(Unsaved)
    <2>1. /\ Extend \in Seq(Unsaved) /\ FinishReset \in Seq(Unsaved)
          /\ SeExtend \in Seq(Unsaved) /\ SeFinishReset \in Seq(Unsaved)
      BY PlainShared, PlainIsEasy
    <2> QED BY <1>3, <2>1 DEF SdErase, SeErase
  <1>5. M4Erase \in Seq(Unsaved) BY <1>2 DEF M4Erase, M4Command
  <1>6. WbErase \in Seq(Unsaved)
    <2> DEFINE ss == [i \in 1 .. Accessible \div PageUnits |->
                        <<Area("erase", (i - 1) * PageUnits, PageUnits)>> \o WbWait]
    <2>1. PICK n \in Nat : n = Accessible \div PageUnits BY Geometry
    <2>2. ASSUME NEW i \in 1 .. n PROVE ss[i] \in Seq(Unsaved)
      <3>1. i - 1 \in Nat OBVIOUS
      <3>2. <<Area("erase", (i - 1) * PageUnits, PageUnits)>> \in Seq(Unsaved)
            /\ <<Do("wait")>> \in Seq(Unsaved)
        BY <3>1, Geometry, RoundsUnsaved
      <3> QED BY <2>1, <3>2 DEF WbWait
    <2>3. ss = [i \in 1 .. n |-> ss[i]] BY <2>1
    <2>4. FlattenSeq(ss) \in Seq(Unsaved)
      <3> HIDE DEF ss
      <3> QED BY <2>2, <2>3, Looped
    <2> QED BY <2>4 DEF WbErase, Times
  <1>7. CASE d = "stm32g0"
    <2>1. G0Erase \in Seq(Unsaved) /\ G0Verify(o) \in Seq(Unsaved)
      BY <1>1, <1>2 DEF G0Erase, G0Verify, G0Wait
    <2>2. Ops(d, o) = G0Ops(o) BY <1>7, OpsOf
    <2> QED BY <1>1, <2>1, <2>2 DEF G0Ops
  <1>8. CASE d = "stm32g4"
    <2>1. G4Erase \in Seq(Unsaved) /\ G4Verify(o) \in Seq(Unsaved)
      BY <1>1, <1>2 DEF G4Erase, G4Verify, G4Wait
    <2>2. Ops(d, o) = G4Ops(o) BY <1>8, OpsOf
    <2> QED BY <1>1, <2>1, <2>2 DEF G4Ops
  <1>9. CASE d = "stm32wb55"
    <2>1. WbErase \in Seq(Unsaved) /\ WbVerify(o) \in Seq(Unsaved)
      BY <1>1, <1>6 DEF WbVerify
    <2>2. Ops(d, o) = WbOps(o) BY <1>9, OpsOf
    <2> QED BY <1>1, <2>1, <2>2 DEF WbOps
  <1>10. CASE d = "gd32f4xx"
    <2>1. /\ GdErase \in Seq(Unsaved) /\ GdLock \in Seq(Unsaved) /\ GdUnlock \in Seq(Unsaved)
          /\ GdVerify(o) \in Seq(Unsaved)
      BY <1>1, <1>2 DEF GdErase, GdLock, GdUnlock, GdVerify, GdWait
    <2>2. Ops(d, o) = GdOps(o) BY <1>10, OpsOf
    <2> QED BY <1>1, <2>1, <2>2 DEF GdOps
  <1>11. CASE d = "m480"
    <2>1. /\ M4Erase \in Seq(Unsaved) /\ M4Lock \in Seq(Unsaved) /\ M4Unlock \in Seq(Unsaved)
          /\ M4Verify(o) \in Seq(Unsaved)
      BY <1>1, <1>5 DEF M4Lock, M4Write, M4Unlock, M4Command, M4Verify
    <2>2. Ops(d, o) = M4Ops(o) BY <1>11, OpsOf
    <2> QED BY <1>1, <2>1, <2>2 DEF M4Ops
  <1>12. CASE d = "py32f0"
    <2>1. /\ PyErase \in Seq(Unsaved) /\ PyLock \in Seq(Unsaved) /\ PyUnlock \in Seq(Unsaved)
          /\ PyVerify(o) \in Seq(Unsaved)
      BY <1>1, <1>2 DEF PyErase, PyLock, PyUnlock, PyVerify, PyWait
    <2>2. Ops(d, o) = PyOps(o) BY <1>12, OpsOf
    <2> QED BY <1>1, <2>1, <2>2 DEF PyOps
  <1>13. CASE d = "samd"
    <2>1. SdErase \in Seq(Unsaved) /\ SdLock \in Seq(Unsaved) /\ SdVerify(o) \in Seq(Unsaved)
      BY <1>1, <1>4 DEF SdLock, SdVerify
    <2>2. Ops(d, o) = SdOps(o) BY <1>13, OpsOf
    <2> QED BY <1>1, <2>1, <2>2 DEF SdOps
  <1>14. CASE d = "same5x"
    <2>1. SeErase \in Seq(Unsaved) /\ SeLock \in Seq(Unsaved) /\ SeVerify(o) \in Seq(Unsaved)
      BY <1>1, <1>4 DEF SeLock, SeVerify
    <2>2. Ops(d, o) = SeOps(o) BY <1>14, OpsOf
    <2> QED BY <1>1, <2>1, <2>2 DEF SeOps
  <1>15. CASE d = "sam3"
    <2>1. A3Erase \in Seq(Unsaved) /\ A3Lock \in Seq(Unsaved) /\ A3Verify(o) \in Seq(Unsaved)
      BY <1>1, <1>2 DEF A3Erase, A3Lock, A3Verify
    <2>2. Ops(d, o) = A3Ops(o) BY <1>15, OpsOf
    <2> QED BY <1>1, <2>1, <2>2 DEF A3Ops
  <1>16. CASE d = "sam4"
    <2>1. A4Erase \in Seq(Unsaved) /\ A4Lock \in Seq(Unsaved) /\ A4Verify(o) \in Seq(Unsaved)
      BY <1>1, <1>2 DEF A4Erase, A4Lock, A4Verify
    <2>2. Ops(d, o) = A4Ops(o) BY <1>16, OpsOf
    <2> QED BY <1>1, <2>1, <2>2 DEF A4Ops
  <1>17. CASE d = "same70"
    <2>1. A7Erase \in Seq(Unsaved) /\ A7Lock \in Seq(Unsaved) /\ A7Verify(o) \in Seq(Unsaved)
      BY <1>1, <1>2 DEF A7Erase, A7Lock, A7Verify
    <2>2. Ops(d, o) = A7Ops(o) BY <1>17, OpsOf
    <2> QED BY <1>1, <2>1, <2>2 DEF A7Ops
  <1> QED BY <1>7, <1>8, <1>9, <1>10, <1>11, <1>12, <1>13, <1>14, <1>15, <1>16, <1>17 DEF Drivers

\* The sectors a GD32 erases, whatever their sizes add up to.
LEMMA SectorsUnsaved ==
  ASSUME NEW o \in Options
  PROVE  Without(GdProgram(o), {"save"})
  <1>1. PICK n \in Nat : DOMAIN Sectors = 1 .. n BY Geometry
  <1> DEFINE EraseOf(s) == Area("erase", SectorStart(s), Sectors[s])
             T == {EraseOf(s) : s \in DOMAIN Sectors} \cup {Do("wait")}
             ss == [s \in DOMAIN Sectors |->
                      IF Touched(o, s) THEN <<EraseOf(s)>> \o GdWait ELSE <<>>]
             rows == [i \in 1 .. RoundedSize(o) \div RowUnits |->
                        Data(o.offset + (i - 1) * RowUnits, RowUnits, (i - 1) * RowUnits)]
  <1>2. ASSUME NEW s \in 1 .. n PROVE ss[s] \in Seq(T)
    <2>1. EraseOf(s) \in T /\ Do("wait") \in T BY <1>1
    <2> HIDE DEF T, EraseOf
    <2>2. <<EraseOf(s)>> \o <<Do("wait")>> \in Seq(T) /\ <<>> \in Seq(T) BY <2>1
    <2> QED BY <1>1, <2>2 DEF GdWait
  <1>3. ss = [s \in 1 .. n |-> ss[s]] BY <1>1
  <1>4. FlattenSeq(ss) \in Seq(T)
    <2> HIDE DEF ss, T
    <2> QED BY <1>2, <1>3, Looped
  <1>5. \A x \in T : x.do \notin {"save"}
    <2>1. \A s \in DOMAIN Sectors : EraseOf(s).do = "erase" BY DEF Area
    <2>2. Do("wait").do = "wait" BY DEF Do, Area
    <2> HIDE DEF EraseOf
    <2> QED BY <2>1, <2>2
  <1>6. Without(FlattenSeq(ss), {"save"}) BY <1>4, <1>5 DEF Without
  <1>7. rows \in Seq(Unsaved)
    <2>1. PICK k \in Nat : k = RoundedSize(o) \div RowUnits
      <3>1. PICK c \in Nat : c = CeilDiv(o.file, RowUnits) BY Pages
      <3>2. c * RowUnits \in Nat BY Geometry
      <3> QED BY <3>1, <3>2, Geometry, Division DEF RoundedSize
    <2>2. ASSUME NEW i \in 1 .. k
          PROVE  Data(o.offset + (i - 1) * RowUnits, RowUnits, (i - 1) * RowUnits) \in Unsaved
      <3>1. i - 1 \in Nat OBVIOUS
      <3> QED BY <3>1, CommitsUnsaved
    <2> DEFINE Row(i) == Data(o.offset + (i - 1) * RowUnits, RowUnits, (i - 1) * RowUnits)
    <2>3. [i \in 1 .. k |-> Row(i)] \in Seq(Unsaved)
      <3>1. \A i \in 1 .. k : Row(i) \in Unsaved BY <2>2
      <3> HIDE DEF Row
      <3> QED BY <3>1
    <2> QED BY <2>1, <2>3
  <1>8. Without(rows, {"save"}) /\ Without(GdWait, {"save"})
    <2>1. GdWait \in Seq(Unsaved) BY UnsavedStep DEF GdWait
    <2> HIDE DEF rows
    <2> QED BY <1>7, <2>1, StepsWithout DEF Unsaved
  <1>9. GdProgram(o) = FlattenSeq(ss) \o rows \o GdWait BY DEF GdProgram
  <1> HIDE DEF ss, rows
  <1> QED BY <1>6, <1>8, <1>9, WithoutConcat

\* program of every driver.
LEMMA ProgramUnsaved ==
  ASSUME NEW d \in Drivers, NEW o \in Options
  PROVE  Without(Ops(d, o).program, {"save"})
  <1>0. ASSUME NEW s \in Seq(Unsaved) PROVE Without(s, {"save"})
    BY StepsWithout DEF Unsaved
  <1>1. PICK n \in Nat : n = PagesOf(o) BY Pages
  <1>2. PICK m \in Nat : m = CeilDiv(o.file, RowUnits) BY Pages
  <1>3. ASSUME NEW k \in Nat, NEW ss, ss = [i \in 1 .. k |-> ss[i]],
               \A i \in 1 .. k : i - 1 \in Nat => ss[i] \in Seq(Unsaved)
        PROVE  FlattenSeq(ss) \in Seq(Unsaved)
    <2>1. \A i \in 1 .. k : ss[i] \in Seq(Unsaved)
      <3>1. \A i \in 1 .. k : i - 1 \in Nat OBVIOUS
      <3> QED BY <1>3, <3>1
    <2> QED BY <1>3, <2>1, Looped
  <1>4. \A p \in Nat : /\ RowsOfPage(o, p) \in Seq(Unsaved) /\ WholePage(o, p) \in Seq(Unsaved)
                       /\ Settled(RowsOfPage(o, p)) \in Seq(Unsaved)
    BY RowsUnsaved, SettledTyped, UnsavedStep
  <1>5. CASE d = "stm32g0"
    <2> DEFINE ss == [i \in 1 .. n |->
                  <<Area("erase", PageAt(o, (i - 1)), PageUnits)>> \o <<Do("wait")>>
                  \o RowsOfPage(o, (i - 1)) \o <<Do("wait")>>]
    <2>1. FlattenSeq(ss) \in Seq(Unsaved)
      <3>1. ASSUME NEW i \in 1 .. n, i - 1 \in Nat PROVE ss[i] \in Seq(Unsaved)
        <4> DEFINE p == i - 1
        <4>1. /\ p \in Nat
              /\ ss[i] = <<Area("erase", PageAt(o, p), PageUnits)>> \o <<Do("wait")>>
                   \o RowsOfPage(o, p) \o <<Do("wait")>>
          BY <3>1
        <4> HIDE DEF p, ss
        <4> QED BY <1>4, RoundsUnsaved, <4>1
      <3>2. ss = [i \in 1 .. n |-> ss[i]] OBVIOUS
      <3> HIDE DEF ss
      <3> QED BY <1>1, <1>3, <3>1, <3>2
    <2>2. G0Program(o) = FlattenSeq(ss) BY <1>1, <1>2 DEF G0Program, Times, G0Wait
    <2> HIDE DEF ss
    <2>3. G0Program(o) \in Seq(Unsaved) BY <2>1, <2>2, UnsavedStep
    <2>4. Ops(d, o).program = G0Program(o) BY <1>5, OpsOf DEF G0Ops
    <2> QED BY <1>0, <2>3, <2>4
  <1>6. CASE d = "stm32g4"
    <2> DEFINE ss == [i \in 1 .. n |->
                  <<Area("erase", PageAt(o, (i - 1)), PageUnits)>> \o <<Do("wait")>>
                  \o RowsOfPage(o, (i - 1)) \o <<Do("wait")>>]
    <2>1. FlattenSeq(ss) \in Seq(Unsaved)
      <3>1. ASSUME NEW i \in 1 .. n, i - 1 \in Nat PROVE ss[i] \in Seq(Unsaved)
        <4> DEFINE p == i - 1
        <4>1. /\ p \in Nat
              /\ ss[i] = <<Area("erase", PageAt(o, p), PageUnits)>> \o <<Do("wait")>>
                   \o RowsOfPage(o, p) \o <<Do("wait")>>
          BY <3>1
        <4> HIDE DEF p, ss
        <4> QED BY <1>4, RoundsUnsaved, <4>1
      <3>2. ss = [i \in 1 .. n |-> ss[i]] OBVIOUS
      <3> HIDE DEF ss
      <3> QED BY <1>1, <1>3, <3>1, <3>2
    <2>2. G4Program(o) = FlattenSeq(ss) BY <1>1, <1>2 DEF G4Program, Times, G4Wait
    <2> HIDE DEF ss
    <2>3. G4Program(o) \in Seq(Unsaved) BY <2>1, <2>2, UnsavedStep
    <2>4. Ops(d, o).program = G4Program(o) BY <1>6, OpsOf DEF G4Ops
    <2> QED BY <1>0, <2>3, <2>4
  <1>7. CASE d = "stm32wb55"
    <2> DEFINE ss == [i \in 1 .. n |->
                  <<Area("erase", PageAt(o, (i - 1)), PageUnits)>> \o <<Do("wait")>>]
    <2>1. FlattenSeq(ss) \in Seq(Unsaved)
      <3>1. ASSUME NEW i \in 1 .. n, i - 1 \in Nat PROVE ss[i] \in Seq(Unsaved)
        <4> DEFINE p == i - 1
        <4>1. p \in Nat /\ ss[i] = <<Area("erase", PageAt(o, p), PageUnits)>> \o <<Do("wait")>> BY <3>1
        <4> HIDE DEF p, ss
        <4> QED BY <1>4, RoundsUnsaved, <4>1
      <3>2. ss = [i \in 1 .. n |-> ss[i]] OBVIOUS
      <3> HIDE DEF ss
      <3> QED BY <1>1, <1>3, <3>1, <3>2
    <2> DEFINE tt == [i \in 1 .. n |-> RowsOfPage(o, (i - 1)) \o <<Do("wait")>>]
    <2>2. FlattenSeq(tt) \in Seq(Unsaved)
      <3>1. ASSUME NEW i \in 1 .. n, i - 1 \in Nat PROVE tt[i] \in Seq(Unsaved)
        <4> DEFINE p == i - 1
        <4>1. p \in Nat /\ tt[i] = RowsOfPage(o, p) \o <<Do("wait")>> BY <3>1
        <4> HIDE DEF p, tt
        <4> QED BY <1>4, RoundsUnsaved, <4>1
      <3>2. tt = [i \in 1 .. n |-> tt[i]] OBVIOUS
      <3> HIDE DEF tt
      <3> QED BY <1>1, <1>3, <3>1, <3>2
    <2>3. WbProgram(o) = FlattenSeq(ss) \o FlattenSeq(tt) BY <1>1, <1>2 DEF WbProgram, Times, WbWait
    <2> HIDE DEF ss, tt
    <2>4. WbProgram(o) \in Seq(Unsaved) BY <2>1, <2>2, <2>3, UnsavedStep
    <2>5. Ops(d, o).program = WbProgram(o) BY <1>7, OpsOf DEF WbOps
    <2> QED BY <1>0, <2>4, <2>5
  <1>8. CASE d = "m480"
    <2> DEFINE ss == [i \in 1 .. n |-> M4Command(Area("erase", PageAt(o, (i - 1)), PageUnits))]
    <2>1. FlattenSeq(ss) \in Seq(Unsaved)
      <3>1. ASSUME NEW i \in 1 .. n, i - 1 \in Nat PROVE ss[i] \in Seq(Unsaved)
        <4> DEFINE p == i - 1
        <4>1. p \in Nat /\ ss[i] = M4Command(Area("erase", PageAt(o, p), PageUnits)) BY <3>1
        <4> HIDE DEF p, ss
        <4> QED BY <1>4, RoundsUnsaved, <4>1
      <3>2. ss = [i \in 1 .. n |-> ss[i]] OBVIOUS
      <3> HIDE DEF ss
      <3> QED BY <1>1, <1>3, <3>1, <3>2
    <2> DEFINE tt == [i \in 1 .. n |-> WholePage(o, (i - 1))]
    <2>2. FlattenSeq(tt) \in Seq(Unsaved)
      <3>1. ASSUME NEW i \in 1 .. n, i - 1 \in Nat PROVE tt[i] \in Seq(Unsaved)
        <4> DEFINE p == i - 1
        <4>1. p \in Nat /\ tt[i] = WholePage(o, p) BY <3>1
        <4> HIDE DEF p, tt
        <4> QED BY <1>4, RoundsUnsaved, <4>1
      <3>2. tt = [i \in 1 .. n |-> tt[i]] OBVIOUS
      <3> HIDE DEF tt
      <3> QED BY <1>1, <1>3, <3>1, <3>2
    <2>3. M4Program(o) = FlattenSeq(ss) \o FlattenSeq(tt) \o <<Do("errors")>> BY <1>1, <1>2 DEF M4Program, Times
    <2> HIDE DEF ss, tt
    <2>4. M4Program(o) \in Seq(Unsaved) BY <2>1, <2>2, <2>3, UnsavedStep
    <2>5. Ops(d, o).program = M4Program(o) BY <1>8, OpsOf DEF M4Ops
    <2> QED BY <1>0, <2>4, <2>5
  <1>9. CASE d = "py32f0"
    <2> DEFINE ss == [i \in 1 .. n |->
                  <<Area("erase", o.offset + (i - 1) * PageUnits, PageUnits)>> \o <<Do("wait")>>
                  \o WholePage(o, (i - 1)) \o <<Do("wait")>>]
    <2>1. FlattenSeq(ss) \in Seq(Unsaved)
      <3>1. ASSUME NEW i \in 1 .. n, i - 1 \in Nat PROVE ss[i] \in Seq(Unsaved)
        <4> DEFINE p == i - 1
        <4>1. /\ p \in Nat
              /\ ss[i] = <<Area("erase", o.offset + p * PageUnits, PageUnits)>> \o <<Do("wait")>>
                   \o WholePage(o, p) \o <<Do("wait")>>
          BY <3>1
        <4> HIDE DEF p, ss
        <4> QED BY <1>4, RoundsUnsaved, <4>1
      <3>2. ss = [i \in 1 .. n |-> ss[i]] OBVIOUS
      <3> HIDE DEF ss
      <3> QED BY <1>1, <1>3, <3>1, <3>2
    <2>2. PyProgram(o) = FlattenSeq(ss) BY <1>1, <1>2 DEF PyProgram, Times, PyWait
    <2> HIDE DEF ss
    <2>3. PyProgram(o) \in Seq(Unsaved) BY <2>1, <2>2, UnsavedStep
    <2>4. Ops(d, o).program = PyProgram(o) BY <1>9, OpsOf DEF PyOps
    <2> QED BY <1>0, <2>3, <2>4
  <1>10. CASE d = "samd"
    <2> DEFINE ss == [i \in 1 .. n |->
                  <<Area("erase", o.offset + (i - 1) * PageUnits, PageUnits), Do("settle")>>
                  \o WholePage(o, (i - 1))]
    <2>1. FlattenSeq(ss) \in Seq(Unsaved)
      <3>1. ASSUME NEW i \in 1 .. n, i - 1 \in Nat PROVE ss[i] \in Seq(Unsaved)
        <4> DEFINE p == i - 1
        <4>1. /\ p \in Nat
              /\ ss[i] = <<Area("erase", o.offset + p * PageUnits, PageUnits), Do("settle")>>
                   \o WholePage(o, p)
          BY <3>1
        <4> HIDE DEF p, ss
        <4> QED BY <1>4, RoundsUnsaved, <4>1
      <3>2. ss = [i \in 1 .. n |-> ss[i]] OBVIOUS
      <3> HIDE DEF ss
      <3> QED BY <1>1, <1>3, <3>1, <3>2
    <2>2. SdProgram(o) = FlattenSeq(ss) BY <1>1, <1>2 DEF SdProgram, Times
    <2> HIDE DEF ss
    <2>3. SdProgram(o) \in Seq(Unsaved) BY <2>1, <2>2, UnsavedStep
    <2>4. Ops(d, o).program = SdProgram(o) BY <1>10, OpsOf DEF SdOps
    <2> QED BY <1>0, <2>3, <2>4
  <1>11. CASE d = "same5x"
    <2> DEFINE ss == [i \in 1 .. n |->
                  <<Area("erase", o.offset + (i - 1) * PageUnits, PageUnits), Do("settle")>>
                  \o Settled(RowsOfPage(o, (i - 1)))]
    <2>1. FlattenSeq(ss) \in Seq(Unsaved)
      <3>1. ASSUME NEW i \in 1 .. n, i - 1 \in Nat PROVE ss[i] \in Seq(Unsaved)
        <4> DEFINE p == i - 1
        <4>1. /\ p \in Nat
              /\ ss[i] = <<Area("erase", o.offset + p * PageUnits, PageUnits), Do("settle")>>
                   \o Settled(RowsOfPage(o, p))
          BY <3>1
        <4> HIDE DEF p, ss
        <4> QED BY <1>4, RoundsUnsaved, <4>1
      <3>2. ss = [i \in 1 .. n |-> ss[i]] OBVIOUS
      <3> HIDE DEF ss
      <3> QED BY <1>1, <1>3, <3>1, <3>2
    <2>2. SeProgram(o) = FlattenSeq(ss) BY <1>1, <1>2 DEF SeProgram, Times
    <2> HIDE DEF ss
    <2>3. SeProgram(o) \in Seq(Unsaved) BY <2>1, <2>2, UnsavedStep
    <2>4. Ops(d, o).program = SeProgram(o) BY <1>11, OpsOf DEF SeOps
    <2> QED BY <1>0, <2>3, <2>4
  <1>12. CASE d = "sam3"
    <2> DEFINE ss == [i \in 1 .. m |->
                  <<Area("erase", Commit((i - 1) * RowUnits, (i - 1) * RowUnits).at, RowUnits),
                    Commit((i - 1) * RowUnits, (i - 1) * RowUnits), Do("settle")>>]
    <2>1. FlattenSeq(ss) \in Seq(Unsaved)
      <3>1. ASSUME NEW i \in 1 .. m, i - 1 \in Nat PROVE ss[i] \in Seq(Unsaved)
        <4> DEFINE p == i - 1
        <4>1. /\ p \in Nat
              /\ ss[i] = <<Area("erase", Commit(p * RowUnits, p * RowUnits).at, RowUnits),
                           Commit(p * RowUnits, p * RowUnits), Do("settle")>>
          BY <3>1
        <4> HIDE DEF p, ss
        <4> QED BY CommitsUnsaved, UnsavedStep, <4>1
      <3>2. ss = [i \in 1 .. m |-> ss[i]] OBVIOUS
      <3> HIDE DEF ss
      <3> QED BY <1>2, <1>3, <3>1, <3>2
    <2>2. A3Program(o) = FlattenSeq(ss) BY <1>1, <1>2 DEF A3Program, Times
    <2> HIDE DEF ss
    <2>3. A3Program(o) \in Seq(Unsaved) BY <2>1, <2>2, UnsavedStep
    <2>4. Ops(d, o).program = A3Program(o) BY <1>12, OpsOf DEF A3Ops
    <2> QED BY <1>0, <2>3, <2>4
  <1>13. CASE d = "sam4"
    <2> DEFINE ss == [i \in 1 .. n |-> <<Area("erase", PageAt(o, (i - 1)), PageUnits), Do("settle")>>]
    <2>1. FlattenSeq(ss) \in Seq(Unsaved)
      <3>1. ASSUME NEW i \in 1 .. n, i - 1 \in Nat PROVE ss[i] \in Seq(Unsaved)
        <4> DEFINE p == i - 1
        <4>1. p \in Nat /\ ss[i] = <<Area("erase", PageAt(o, p), PageUnits), Do("settle")>> BY <3>1
        <4> HIDE DEF p, ss
        <4> QED BY <1>4, RoundsUnsaved, <4>1
      <3>2. ss = [i \in 1 .. n |-> ss[i]] OBVIOUS
      <3> HIDE DEF ss
      <3> QED BY <1>1, <1>3, <3>1, <3>2
    <2> DEFINE tt == [i \in 1 .. m |->
                  <<Commit(o.offset + (i - 1) * RowUnits, (i - 1) * RowUnits), Do("settle")>>]
    <2>2. FlattenSeq(tt) \in Seq(Unsaved)
      <3>1. ASSUME NEW i \in 1 .. m, i - 1 \in Nat PROVE tt[i] \in Seq(Unsaved)
        <4> DEFINE p == i - 1
        <4>1. /\ p \in Nat
              /\ tt[i] = <<Commit(o.offset + p * RowUnits, p * RowUnits),
                   Do("settle")>>
          BY <3>1
        <4> HIDE DEF p, tt
        <4> QED BY CommitsUnsaved, UnsavedStep, <4>1
      <3>2. tt = [i \in 1 .. m |-> tt[i]] OBVIOUS
      <3> HIDE DEF tt
      <3> QED BY <1>2, <1>3, <3>1, <3>2
    <2>3. A4Program(o) = FlattenSeq(ss) \o FlattenSeq(tt) BY <1>1, <1>2 DEF A4Program, Times
    <2> HIDE DEF ss, tt
    <2>4. A4Program(o) \in Seq(Unsaved) BY <2>1, <2>2, <2>3, UnsavedStep
    <2>5. Ops(d, o).program = A4Program(o) BY <1>13, OpsOf DEF A4Ops
    <2> QED BY <1>0, <2>4, <2>5
  <1>14. CASE d = "same70"
    <2> DEFINE ss == [i \in 1 .. n |-> <<Area("erase", PageAt(o, (i - 1)), PageUnits), Do("settle")>>]
    <2>1. FlattenSeq(ss) \in Seq(Unsaved)
      <3>1. ASSUME NEW i \in 1 .. n, i - 1 \in Nat PROVE ss[i] \in Seq(Unsaved)
        <4> DEFINE p == i - 1
        <4>1. p \in Nat /\ ss[i] = <<Area("erase", PageAt(o, p), PageUnits), Do("settle")>> BY <3>1
        <4> HIDE DEF p, ss
        <4> QED BY <1>4, RoundsUnsaved, <4>1
      <3>2. ss = [i \in 1 .. n |-> ss[i]] OBVIOUS
      <3> HIDE DEF ss
      <3> QED BY <1>1, <1>3, <3>1, <3>2
    <2> DEFINE tt == [i \in 1 .. m |->
                  <<Data(o.offset + (i - 1) * RowUnits, RowUnits, (i - 1) * RowUnits),
                    Do("settle")>>]
    <2>2. FlattenSeq(tt) \in Seq(Unsaved)
      <3>1. ASSUME NEW i \in 1 .. m, i - 1 \in Nat PROVE tt[i] \in Seq(Unsaved)
        <4> DEFINE p == i - 1
        <4>1. /\ p \in Nat
              /\ tt[i] = <<Data(o.offset + p * RowUnits, RowUnits, p * RowUnits), Do("settle")>>
          BY <3>1
        <4> HIDE DEF p, tt
        <4> QED BY CommitsUnsaved, UnsavedStep, <4>1
      <3>2. tt = [i \in 1 .. m |-> tt[i]] OBVIOUS
      <3> HIDE DEF tt
      <3> QED BY <1>2, <1>3, <3>1, <3>2
    <2>3. A7Program(o) = FlattenSeq(ss) \o FlattenSeq(tt) BY <1>1, <1>2 DEF A7Program, Times
    <2> HIDE DEF ss, tt
    <2>4. A7Program(o) \in Seq(Unsaved) BY <2>1, <2>2, <2>3, UnsavedStep
    <2>5. Ops(d, o).program = A7Program(o) BY <1>14, OpsOf DEF A7Ops
    <2> QED BY <1>0, <2>4, <2>5
  <1>15. CASE d = "gd32f4xx"
    <2>1. Ops(d, o).program = GdProgram(o) BY <1>15, OpsOf DEF GdOps
    <2> QED BY <2>1, SectorsUnsaved
  <1> QED BY <1>5, <1>6, <1>7, <1>8, <1>9, <1>10, <1>11, <1>12, <1>13, <1>14, <1>15 DEF Drivers

-----------------------------------------------------------------------------
(* The command line: a locked device *)

OpNames ==
  {"open", "pulse", "select", "unlock", "erase", "program", "verify", "lock", "read", "fuse",
   "deselect", "restart", "close"}
Entry ==
  {e \in OpNames \X Nat : /\ e[1] \in Actions => e[1] \in cmd.acts
                          /\ e[1] = "fuse" => e[2] \in DOMAIN cmd.fuse}
IsDevice(d) ==
  d = [flash |-> d.flash, fuses |-> d.fuses, locked |-> d.locked, keyed |-> d.keyed,
       err |-> d.err, busy |-> d.busy, halting |-> d.halting, held |-> d.held, low |-> d.low]
InPlan ==
  /\ driver \in Drivers /\ \E c \in Cases : cmd = c.cmd /\ world = c.world
  /\ IsDevice(dev) /\ opt \in Options
  /\ plan \in Seq(Entry) /\ (plan # <<>> => ~Refused)

(* Without unlock nothing gets past the gate of select.                    *)
Outside == {"open", "pulse", "close"}
Guarded(p) ==
  \E n \in 1 .. Len(p) + 1 : /\ \A j \in 1 .. n - 1 : p[j][1] \in Outside
                             /\ n <= Len(p) => p[n][1] = "select"
Kept ==
  /\ dev.locked /\ dev.busy = {} /\ dev.flash = FirstFlash(world) /\ dev.fuses = FirstFuses
  /\ saved = <<>>
  /\ exit = "running" =>
       /\ Guarded(plan) /\ todo \in Seq(Plain)
       /\ todo # <<>> => /\ plan # <<>>
                         /\ plan[1][1] = "select" => HasGate(todo, GatesOf(driver))

(* With unlock and read nothing is readable before it is erased, and what  *)
(* is being erased is waited for before the target is reset.               *)
AllFree == [u \in Units |-> Free]
Blanked ==
  /\ got = AllFree /\ \A i \in DOMAIN saved : saved[i] = Free
  /\ LockUnit \notin dev.busy /\ (~dev.locked => dev.flash = AllFree)
  /\ exit = "running" =>
       /\ dev.busy \cap Units # {} => todo # <<>> /\ Head(todo).do \in Waits
       /\ \/ todo \in Seq(Easy) \/ Winding(todo)
          \/ todo \in Seq(Mild) /\ plan # <<>> /\ plan[1][1] = "fuse"

(* Without read no file is made.                                           *)
NoFile == saved = <<>> /\ (exit = "running" => Without(todo, {"save"}))

LockInv ==
  /\ InPlan
  /\ world.locked =>
       /\ "unlock" \notin cmd.acts => Kept
       /\ "unlock" \in cmd.acts /\ "read" \in cmd.acts => Blanked
       /\ "unlock" \in cmd.acts /\ "read" \notin cmd.acts => NoFile

\* A step of an operation, as against main's own.
Working == Probe \/ Target \/ Checks \/ Flash \/ Fuses

\* A working step goes on to the next one or ends the process.
LEMMA WorkMoves ==
  ASSUME Working
  PROVE  /\ exit = "running" /\ todo # <<>> /\ (Continue \/ Stop)
         /\ UNCHANGED <<driver, cmd, world>>
  <1>1. CASE Probe
    BY <1>1 DEF Probe, Disclose, Connect, Disconnect, Configure, Led, Link, Step, Unless,
                OnlyProgress, OnlyDevice
  <1>2. CASE Target
    <2>1. CASE ResetPin \/ ResetTarget \/ EndExtension \/ FinishIfOpen
      BY <2>1 DEF ResetPin, ResetTarget, EndExtension, FinishIfOpen, Step, OnlyDevice
    <2>2. CASE Halt \/ Catch \/ ReleaseCore
      BY <2>2 DEF Halt, Catch, ReleaseCore, DebugStep, Step, Unless, OnlyDevice
    <2> QED BY <1>2, <2>1, <2>2 DEF Target
  <1>3. CASE Checks
    BY <1>3 DEF Checks, Identify, CheckLocked, Unlocked, FindErrors, NotImplemented, CheckOptions, Step, Unless,
                OnlyProgress, OnlyDevice
  <1>4. CASE Flash
    BY <1>4 DEF Flash, WaitDone, WaitReady, EraseArea, ProgramArea, EraseChip, SetLock, Compare,
                Fetch, Save, Step, Unless, OnlyDevice
  <1>5. CASE Fuses
    BY <1>5 DEF Fuses, FuseParse, FuseRead, FuseApply, FuseMatch, FuseGather, FuseWrite, Step, Unless,
                OnlyProgress, OnlyDevice, OnlyFuseData
  <1> QED BY <1>1, <1>2, <1>3, <1>4, <1>5 DEF Working

\* Which actions carry out which steps.
ProbeWork == {"disclose", "connect", "disconnect", "configure", "led", "link"}
TargetWork ==
  {"pinLow", "pinHigh", "restart", "extend", "halt", "catch", "release", "letGo", "endExtension",
   "finishIfOpen"}
CheckWork == {"identify", "describe", "locked", "keys", "unimplemented", "options", "errors"}

LEMMA WorkOf ==
  /\ Probe => Head(todo).do \in ProbeWork
  /\ Target => Head(todo).do \in TargetWork
  /\ Checks => Head(todo).do \in CheckWork
  /\ Flash => Head(todo).do \in FlashWork \cup {"wait", "settle", "compare"}
  /\ Fuses => Head(todo).do \in FuseWork \cup {"fparse", "fread", "fapply", "fmatch", "fgather"}
  <1>1. Probe => Head(todo).do \in ProbeWork
    BY DEF Probe, Disclose, Connect, Disconnect, Configure, Led, Link, Step, ProbeWork
  <1>2. Target => Head(todo).do \in TargetWork
    BY DEF Target, ResetPin, ResetTarget, Halt, Catch, ReleaseCore, EndExtension, FinishIfOpen,
           DebugStep, Step, TargetWork
  <1>3. Checks => Head(todo).do \in CheckWork
    BY DEF Checks, Identify, CheckLocked, Unlocked, FindErrors, NotImplemented, CheckOptions, Step, CheckWork
  <1>4. Flash => Head(todo).do \in FlashWork \cup {"wait", "settle", "compare"}
    BY DEF Flash, WaitDone, WaitReady, EraseArea, ProgramArea, EraseChip, SetLock, Compare, Fetch,
           Save, Step, FlashWork
  <1>5. Fuses => Head(todo).do \in FuseWork \cup {"fparse", "fread", "fapply", "fmatch", "fgather"}
    BY DEF Fuses, FuseParse, FuseRead, FuseApply, FuseMatch, FuseGather, FuseWrite, Step, FuseWork
  <1> QED BY <1>1, <1>2, <1>3, <1>4, <1>5

\* The steps that erase, write or read a memory are the flash's or the fuses'.
LEMMA FlashDoes ==
  ASSUME Working, Head(todo).do \in FlashWork
  PROVE  Flash
  BY WorkOf DEF Working, FlashWork, FuseWork, ProbeWork, TargetWork, CheckWork
LEMMA FusesDo ==
  ASSUME Working, Head(todo).do \in FuseWork
  PROVE  FuseWrite
  <1>1. Fuses BY WorkOf DEF Working, FlashWork, FuseWork, ProbeWork, TargetWork, CheckWork
  <1> QED
    BY <1>1 DEF FuseWork, Fuses, FuseParse, FuseRead, FuseApply, FuseMatch, FuseGather, Step

\* Only save writes the file that was read.
LEMMA SavesOnly ==
  ASSUME Working, Head(todo).do # "save"
  PROVE  saved' = saved
  <1>1. CASE Probe
    BY <1>1 DEF Probe, Disclose, Connect, Disconnect, Configure, Led, Link, OnlyProgress, OnlyDevice
  <1>2. CASE Target
    BY <1>2 DEF Target, ResetPin, ResetTarget, Halt, Catch, ReleaseCore, EndExtension, FinishIfOpen,
                DebugStep, OnlyDevice
  <1>3. CASE Checks
    BY <1>3 DEF Checks, Identify, CheckLocked, Unlocked, FindErrors, NotImplemented, CheckOptions, OnlyProgress,
                OnlyDevice
  <1>4. CASE Flash
    BY <1>4 DEF Flash, WaitDone, WaitReady, EraseArea, ProgramArea, EraseChip, SetLock, Compare,
                Fetch, Save, Step, OnlyDevice
  <1>5. CASE Fuses
    BY <1>5 DEF Fuses, FuseParse, FuseRead, FuseApply, FuseMatch, FuseGather, FuseWrite, OnlyProgress,
                OnlyDevice, OnlyFuseData
  <1> QED BY <1>1, <1>2, <1>3, <1>4, <1>5 DEF Working

\* The shape of the device.
LEMMA CutShape ==
  ASSUME NEW d, IsDevice(d)
  PROVE  /\ IsDevice(Cut(d)) /\ IsDevice(Settle(d))
         /\ Cut(d).flash = [u \in Units |-> IF u \in d.busy THEN Torn ELSE d.flash[u]]
         /\ Cut(d).fuses = [s \in FuseSections |-> IF FuseUnit(s) \in d.busy THEN FreeFuses ELSE d.fuses[s]]
         /\ Cut(d).locked = (d.locked /\ LockUnit \notin d.busy)
         /\ Settle(d).flash = d.flash /\ Settle(d).fuses = d.fuses /\ Settle(d).locked = d.locked
         /\ Settle(d).busy = {}
  <1> DEFINE f == [u \in Units |-> IF u \in d.busy THEN Torn ELSE d.flash[u]]
             g == [s \in FuseSections |-> IF FuseUnit(s) \in d.busy THEN FreeFuses ELSE d.fuses[s]]
             l == d.locked /\ LockUnit \notin d.busy
  <1>1. Cut(d) = [d EXCEPT !.flash = f, !.fuses = g, !.locked = l] BY DEF Cut
  <1>2. Settle(d) = [d EXCEPT !.busy = {}] BY DEF Settle
  <1> HIDE DEF f, g, l
  <1>3. /\ IsDevice(Cut(d)) /\ Cut(d).flash = f /\ Cut(d).fuses = g /\ Cut(d).locked = l
    BY <1>1 DEF IsDevice
  <1>4. /\ IsDevice(Settle(d)) /\ Settle(d).flash = d.flash /\ Settle(d).fuses = d.fuses
        /\ Settle(d).locked = d.locked /\ Settle(d).busy = {}
    BY <1>2 DEF IsDevice
  <1> QED BY <1>3, <1>4 DEF f, g, l

\* What a reset leaves of the device: what is being written may be torn.
LEMMA ResetShape ==
  ASSUME NEW d, IsDevice(d), NEW x \in AfterReset(d)
  PROVE  /\ IsDevice(x) /\ x.busy = {}
         /\ \E y \in {d, Cut(d)} : x.flash = y.flash /\ x.fuses = y.fuses /\ x.locked = y.locked
  <1>1. PICK y \in {d, Cut(d)} : x = [y EXCEPT !.busy = {}, !.keyed = FALSE, !.err = FALSE]
    BY DEF AfterReset
  <1>2. IsDevice(y)
    <2>1. IsDevice(Cut(d)) BY CutShape
    <2>2. CASE y = d BY <2>2
    <2>3. CASE y = Cut(d) BY <2>1, <2>3
    <2> QED BY <1>1, <2>2, <2>3
  <1>3. /\ IsDevice(x) /\ x.busy = {} /\ x.flash = y.flash /\ x.fuses = y.fuses /\ x.locked = y.locked
    BY <1>1, <1>2 DEF IsDevice
  <1> QED BY <1>3

\* What is plain leaves the memories alone, but for what a reset tears.
Alike(x, d) == x.flash = d.flash /\ x.fuses = d.fuses /\ x.locked = d.locked
Spared ==
  /\ IsDevice(dev') /\ dev'.busy \in {dev.busy, {}}
  /\ \E d \in {dev, Cut(dev)} : Alike(dev', d)
  /\ Head(todo).do \in Waits => dev'.busy = {} /\ Alike(dev', dev)

LEMMA ResetSpares ==
  ASSUME IsDevice(dev), NEW d \in AfterReset(dev), IsDevice(dev'), dev'.busy = d.busy, Alike(dev', d),
         Head(todo).do \notin Waits
  PROVE  Spared
  <1>1. d.busy = {} /\ \E y \in {dev, Cut(dev)} : Alike(d, y) BY ResetShape DEF Alike
  <1> QED BY <1>1 DEF Spared, Alike

LEMMA SameSpares ==
  ASSUME IsDevice(dev), IsDevice(dev'), dev'.busy = dev.busy, Alike(dev', dev), Head(todo).do \notin Waits
  PROVE  Spared
  BY DEF Spared

LEMMA SettleSpares == ASSUME IsDevice(dev), dev' = Settle(dev) PROVE Spared
  BY CutShape DEF Spared, Alike

\* The steps towards the core and the reset pin.
LEMMA TargetSpares ==
  ASSUME IsDevice(dev), Target
  PROVE  Spared /\ UNCHANGED <<opt, got, saved>>
  <1> USE DEF Waits
  <1>1. CASE Step("pinLow") /\ ResetPin
    <2>1. PICK d \in AfterReset(dev) : dev' = [d EXCEPT !.low = TRUE] BY <1>1 DEF ResetPin, Step
    <2>2. IsDevice(d) BY ResetShape
    <2>3. IsDevice(dev') /\ dev'.busy = d.busy /\ Alike(dev', d) BY <2>1, <2>2 DEF IsDevice, Alike
    <2>4. Head(todo).do \notin Waits /\ UNCHANGED <<opt, got, saved>>
      BY <1>1 DEF ResetPin, Step, OnlyDevice
    <2> QED BY <2>3, <2>4, ResetSpares
  <1>2. CASE Step("pinHigh") /\ ResetPin
    <2>1. dev' = [dev EXCEPT !.low = FALSE] BY <1>2 DEF ResetPin, Step
    <2>3. IsDevice(dev') /\ dev'.busy = dev.busy /\ Alike(dev', dev) BY <2>1 DEF IsDevice, Alike
    <2>4. Head(todo).do \notin Waits /\ UNCHANGED <<opt, got, saved>>
      BY <1>2 DEF ResetPin, Step, OnlyDevice
    <2> QED BY <2>3, <2>4, SameSpares
  <1>3. CASE ResetTarget
    <2>1. PICK d \in AfterReset(dev), v \in BOOLEAN : dev' = [d EXCEPT !.low = FALSE, !.held = v]
      <3>1. \/ \E d \in AfterReset(dev) : dev' = [d EXCEPT !.low = FALSE, !.held = FALSE]
            \/ \E d \in AfterReset(dev) : dev' = [d EXCEPT !.low = FALSE, !.held = TRUE]
        BY <1>3 DEF ResetTarget
      <3> QED BY <3>1
    <2>2. IsDevice(d) BY ResetShape
    <2>3. IsDevice(dev') /\ dev'.busy = d.busy /\ Alike(dev', d) BY <2>1, <2>2 DEF IsDevice, Alike
    <2>4. Head(todo).do \notin Waits /\ UNCHANGED <<opt, got, saved>>
      BY <1>3 DEF ResetTarget, Step, OnlyDevice
    <2> QED BY <2>3, <2>4, ResetSpares
  <1>4. CASE Halt
    <2>1. PICK d \in AfterReset(dev) : dev' = IF Mute THEN dev ELSE [d EXCEPT !.halting = TRUE]
      BY <1>4 DEF Halt
    <2>2. IsDevice(d) BY ResetShape
    <2>3. Head(todo).do \notin Waits /\ UNCHANGED <<opt, got, saved>>
      BY <1>4 DEF Halt, DebugStep, Step, OnlyDevice
    <2>4. CASE Mute
      <3>1. IsDevice(dev') /\ dev'.busy = dev.busy /\ Alike(dev', dev) BY <2>1, <2>4 DEF IsDevice, Alike
      <3> QED BY <2>3, <3>1, SameSpares
    <2>5. CASE ~Mute
      <3>1. IsDevice(dev') /\ dev'.busy = d.busy /\ Alike(dev', d) BY <2>1, <2>2, <2>5 DEF IsDevice, Alike
      <3> QED BY <2>3, <3>1, ResetSpares
    <2> QED BY <2>4, <2>5
  <1>5. CASE Catch
    <2>1. dev' = dev \/ dev' = [dev EXCEPT !.halting = TRUE] BY <1>5 DEF Catch
    <2>2. IsDevice(dev') /\ dev'.busy = dev.busy /\ Alike(dev', dev) BY <2>1 DEF IsDevice, Alike
    <2> QED BY <1>5, <2>2, SameSpares DEF Catch, DebugStep, Step, OnlyDevice
  <1>6. CASE ReleaseCore
    <2>3. Head(todo).do \notin Waits /\ UNCHANGED <<opt, got, saved>>
      BY <1>6 DEF ReleaseCore, DebugStep, Step, OnlyDevice
    <2>4. CASE \E d \in AfterReset(dev) : dev' = [d EXCEPT !.halting = FALSE]
      <3>1. PICK d \in AfterReset(dev) : dev' = [d EXCEPT !.halting = FALSE] BY <2>4
      <3>2. IsDevice(d) BY ResetShape
      <3>3. IsDevice(dev') /\ dev'.busy = d.busy /\ Alike(dev', d) BY <3>1, <3>2 DEF IsDevice, Alike
      <3> QED BY <2>3, <3>3, ResetSpares
    <2>5. CASE dev' = [dev EXCEPT !.halting = FALSE]
      <3>1. IsDevice(dev') /\ dev'.busy = dev.busy /\ Alike(dev', dev) BY <2>5 DEF IsDevice, Alike
      <3> QED BY <2>3, <3>1, SameSpares
    <2> QED BY <1>6, <2>4, <2>5 DEF ReleaseCore
  <1>7. CASE EndExtension
    <2>1. dev' = [dev EXCEPT !.held = FALSE] BY <1>7 DEF EndExtension
    <2>2. IsDevice(dev') /\ dev'.busy = dev.busy /\ Alike(dev', dev) BY <2>1 DEF IsDevice, Alike
    <2> QED BY <1>7, <2>2, SameSpares DEF EndExtension, Step, OnlyDevice
  <1>8. CASE FinishIfOpen
    <2>1. PICK d \in AfterReset(dev) :
            dev' = IF dev.locked THEN dev ELSE [d EXCEPT !.halting = TRUE, !.held = FALSE]
      BY <1>8 DEF FinishIfOpen
    <2>2. IsDevice(d) BY ResetShape
    <2>3. Head(todo).do \notin Waits /\ UNCHANGED <<opt, got, saved>>
      BY <1>8 DEF FinishIfOpen, Step, OnlyDevice
    <2>4. CASE dev.locked
      <3>1. IsDevice(dev') /\ dev'.busy = dev.busy /\ Alike(dev', dev) BY <2>1, <2>4 DEF IsDevice, Alike
      <3> QED BY <2>3, <3>1, SameSpares
    <2>5. CASE ~dev.locked
      <3>1. IsDevice(dev') /\ dev'.busy = d.busy /\ Alike(dev', d) BY <2>1, <2>2, <2>5 DEF IsDevice, Alike
      <3> QED BY <2>3, <3>1, ResetSpares
    <2> QED BY <2>4, <2>5
  <1>9. ResetPin => (Step("pinLow") /\ ResetPin) \/ (Step("pinHigh") /\ ResetPin) BY DEF ResetPin
  <1> QED BY <1>1, <1>2, <1>3, <1>4, <1>5, <1>6, <1>7, <1>8, <1>9 DEF Target

\* No plain step does more to the memories than a reset does.
LEMMA PlainSpares ==
  ASSUME IsDevice(dev), Working, Head(todo).do \in PlainNames
  PROVE  Spared /\ UNCHANGED <<got, saved>>
  <1>1. CASE Probe
    <2>1. UNCHANGED <<dev, got, saved>> /\ Head(todo).do \notin Waits
      BY <1>1 DEF Probe, Disclose, Connect, Disconnect, Configure, Led, Link, Step, OnlyProgress,
                  OnlyDevice, Waits
    <2>2. IsDevice(dev') /\ dev'.busy = dev.busy /\ Alike(dev', dev) BY <2>1 DEF IsDevice, Alike
    <2> QED BY <2>1, <2>2, SameSpares
  <1>2. CASE Target BY <1>2, TargetSpares
  <1>3. CASE Checks
    <2>1. (dev' = dev \/ dev' = [dev EXCEPT !.keyed = TRUE]) /\ UNCHANGED <<got, saved>>
          /\ Head(todo).do \notin Waits
      BY <1>3 DEF Checks, Identify, CheckLocked, Unlocked, FindErrors, NotImplemented, CheckOptions, Step,
                  OnlyProgress, OnlyDevice, Waits
    <2>2. IsDevice(dev') /\ dev'.busy = dev.busy /\ Alike(dev', dev) BY <2>1 DEF IsDevice, Alike
    <2> QED BY <2>1, <2>2, SameSpares
  <1>4. CASE Flash
    <2>1. Head(todo).do \notin {"chipErase", "regress", "setLock", "save", "program", "fetch", "erase"}
      BY Words DEF PlainNames
    <2>2. WaitDone \/ WaitReady \/ Compare
      BY <1>4, <2>1 DEF Flash, EraseArea, ProgramArea, EraseChip, SetLock, Fetch, Save, Step
    <2>3. dev' = Settle(dev) /\ UNCHANGED <<got, saved>>
      BY <2>2 DEF WaitDone, WaitReady, Compare, OnlyDevice
    <2> QED BY <2>3, SettleSpares
  <1>5. CASE Fuses
    <2>1. Head(todo).do \notin {"fput", "fblank", "fword", "fbit", "feraseAll"}
      BY Words DEF PlainNames
    <2>2. UNCHANGED <<dev, got, saved>> /\ Head(todo).do \notin Waits
      BY <1>5, <2>1 DEF Fuses, FuseParse, FuseRead, FuseApply, FuseMatch, FuseGather, FuseWrite, Step,
                        OnlyProgress, OnlyDevice, OnlyFuseData, Waits
    <2>3. IsDevice(dev') /\ dev'.busy = dev.busy /\ Alike(dev', dev) BY <2>2 DEF IsDevice, Alike
    <2> QED BY <2>2, <2>3, SameSpares
  <1> QED BY <1>1, <1>2, <1>3, <1>4, <1>5 DEF Working

\* The commands of the flash controller, one by one.
LEMMA PutShape ==
  ASSUME NEW d, IsDevice(d), NEW s, NEW v
  PROVE  LET x == PutFuses(d, s, v)
         IN  /\ IsDevice(x) /\ x.flash = d.flash /\ x.locked = d.locked
             /\ x.busy = {} \/ x.busy = {FuseUnit(s)}
  <1> DEFINE y == Settle(d)
  <1>1. IsDevice(y) /\ y.flash = d.flash /\ y.locked = d.locked /\ y.busy = {} BY CutShape
  <1>2. \/ PutFuses(d, s, v) = [y EXCEPT !.err = TRUE]
        \/ PutFuses(d, s, v) = [y EXCEPT !.fuses[s] = v, !.busy = {FuseUnit(s)}]
    BY DEF PutFuses
  <1> HIDE DEF y
  <1> QED BY <1>1, <1>2 DEF IsDevice

LEMMA EraseAllShape ==
  ASSUME NEW d, IsDevice(d), NEW x,
         \/ x = [Settle(d) EXCEPT !.err = TRUE]
         \/ x = [Settle(d) EXCEPT !.fuses = [s \in FuseSections |-> FreeFuses],
                                  !.busy = {FuseUnit(s) : s \in FuseSections}]
  PROVE  /\ IsDevice(x) /\ x.flash = d.flash /\ x.locked = d.locked
         /\ x.busy \subseteq {FuseUnit(s) : s \in FuseSections}
  <1> DEFINE y == Settle(d)
             U == {FuseUnit(s) : s \in FuseSections}
             f == [s \in FuseSections |-> FreeFuses]
  <1>1. IsDevice(y) /\ y.flash = d.flash /\ y.locked = d.locked /\ y.busy = {} BY CutShape
  <1>2. x = [y EXCEPT !.err = TRUE] \/ x = [y EXCEPT !.fuses = f, !.busy = U] OBVIOUS
  <1> HIDE DEF y, U, f
  <1>3. IsDevice(x) /\ x.flash = d.flash /\ x.locked = d.locked /\ (x.busy = {} \/ x.busy = U)
    BY <1>1, <1>2 DEF IsDevice
  <1> QED BY <1>3 DEF U

LEMMA ChipShape ==
  ASSUME NEW d, IsDevice(d)
  PROVE  IsDevice(Chip(d)) /\ Chip(d).flash = AllFree /\ ~Chip(d).locked /\ Chip(d).busy = Units
  <1> DEFINE y == Settle(d)
  <1>1. IsDevice(y) BY CutShape
  <1>2. Wiped(d) = [y EXCEPT !.flash = AllFree, !.busy = Units] BY DEF Wiped, AllFree
  <1>3. Chip(d) = [Wiped(d) EXCEPT !.locked = FALSE] BY DEF Chip
  <1> HIDE DEF y
  <1>4. IsDevice(Wiped(d)) /\ Wiped(d).flash = AllFree /\ Wiped(d).busy = Units
    BY <1>1, <1>2 DEF IsDevice
  <1> QED BY <1>3, <1>4 DEF IsDevice

LEMMA EraseShape ==
  ASSUME NEW d, IsDevice(d), NEW s
  PROVE  LET x == Erased(d, s)
         IN  /\ IsDevice(x) /\ x.locked = d.locked
             /\ \/ x.flash = d.flash /\ x.busy = {}
                \/ /\ ~Refuses(d, Span(s)) /\ x.busy = Span(s)
                   /\ x.flash = [u \in Units |-> IF u \in Span(s) THEN Free ELSE d.flash[u]]
  <1> DEFINE y == Settle(d)
             f == [u \in Units |-> IF u \in Span(s) THEN Free ELSE y.flash[u]]
  <1>1. IsDevice(y) /\ y.flash = d.flash /\ y.locked = d.locked /\ y.busy = {} BY CutShape
  <1>2. Erased(d, s) = IF Refuses(d, Span(s)) THEN [y EXCEPT !.err = TRUE]
                       ELSE [y EXCEPT !.flash = f, !.busy = Span(s)]
    BY DEF Erased
  <1>3. f = [u \in Units |-> IF u \in Span(s) THEN Free ELSE d.flash[u]] BY <1>1
  <1> HIDE DEF y, f
  <1>4. CASE Refuses(d, Span(s))
    <2>1. Erased(d, s) = [y EXCEPT !.err = TRUE] BY <1>2, <1>4
    <2> QED BY <1>1, <2>1 DEF IsDevice
  <1>5. CASE ~Refuses(d, Span(s))
    <2>1. Erased(d, s) = [y EXCEPT !.flash = f, !.busy = Span(s)] BY <1>2, <1>5
    <2>2. IsDevice(Erased(d, s)) /\ Erased(d, s).locked = d.locked /\ Erased(d, s).flash = f
          /\ Erased(d, s).busy = Span(s)
      BY <1>1, <2>1 DEF IsDevice
    <2> QED BY <1>3, <1>5, <2>2
  <1> QED BY <1>4, <1>5

LEMMA ProgramShape ==
  ASSUME NEW d, IsDevice(d), NEW s
  PROVE  IsDevice(Programmed(d, s))
  <1> DEFINE y == Settle(d)
             f == [u \in Units |-> IF u \notin Span(s) THEN y.flash[u]
                                   ELSE IF y.flash[u] = Free THEN Buffer(s.from + u - s.at)
                                   ELSE Torn]
             e == y.err \/ \E u \in Span(s) : d.flash[u] # Free
  <1>1. IsDevice(y) BY CutShape
  <1>2. Programmed(d, s) = IF Refuses(d, Span(s)) THEN [y EXCEPT !.err = TRUE]
                           ELSE [y EXCEPT !.flash = f, !.err = e, !.busy = Span(s)]
    BY DEF Programmed
  <1> HIDE DEF y, f, e
  <1>3. Programmed(d, s) = [y EXCEPT !.err = TRUE]
        \/ Programmed(d, s) = [y EXCEPT !.flash = f, !.err = e, !.busy = Span(s)]
    BY <1>2
  <1> QED BY <1>1, <1>3 DEF IsDevice

\* The commands that write fuses leave flash and lock alone.
LEMMA FuseWriteShape ==
  ASSUME IsDevice(dev), FuseWrite
  PROVE  /\ IsDevice(dev') /\ dev'.flash = dev.flash /\ dev'.locked = dev.locked
         /\ UNCHANGED <<got, saved>> /\ Continue
         /\ \/ dev'.busy = {} \/ dev'.busy \subseteq {FuseUnit(s) : s \in FuseSections}
            \/ dev'.busy = {FuseUnit(Command.section)} \/ dev'.busy = {FuseUnit(Head(todo).at)}
  <1>1. UNCHANGED <<got, saved>> /\ Continue BY DEF FuseWrite, OnlyDevice
  <1>2. \/ \E v : dev' = PutFuses(dev, Command.section, v)
        \/ \E v : dev' = PutFuses(dev, Head(todo).at, v)
        \/ dev' = [Settle(dev) EXCEPT !.err = TRUE]
        \/ dev' = [Settle(dev) EXCEPT !.fuses = [s \in FuseSections |-> FreeFuses],
                                      !.busy = {FuseUnit(s) : s \in FuseSections}]
    BY DEF FuseWrite
  <1>3. ASSUME NEW s, NEW v, dev' = PutFuses(dev, s, v)
        PROVE  /\ IsDevice(dev') /\ dev'.flash = dev.flash /\ dev'.locked = dev.locked
               /\ dev'.busy = {} \/ dev'.busy = {FuseUnit(s)}
    BY <1>3, PutShape
  <1>4. CASE \E v : dev' = PutFuses(dev, Command.section, v) BY <1>1, <1>3, <1>4
  <1>5. CASE \E v : dev' = PutFuses(dev, Head(todo).at, v) BY <1>1, <1>3, <1>5
  <1>6. CASE \/ dev' = [Settle(dev) EXCEPT !.err = TRUE]
             \/ dev' = [Settle(dev) EXCEPT !.fuses = [s \in FuseSections |-> FreeFuses],
                                           !.busy = {FuseUnit(s) : s \in FuseSections}]
    <2>1. /\ IsDevice(dev') /\ dev'.flash = dev.flash /\ dev'.locked = dev.locked
          /\ dev'.busy \subseteq {FuseUnit(s) : s \in FuseSections}
      <3>1. CASE dev' = [Settle(dev) EXCEPT !.err = TRUE] BY <3>1, EraseAllShape
      <3>2. CASE dev' = [Settle(dev) EXCEPT !.fuses = [s \in FuseSections |-> FreeFuses],
                                            !.busy = {FuseUnit(s) : s \in FuseSections}]
        BY <3>2, EraseAllShape
      <3> QED BY <1>6, <3>1, <3>2
    <2> QED BY <1>1, <2>1
  <1> QED BY <1>2, <1>4, <1>5, <1>6

\* The device keeps its shape.
LEMMA KeepsDevice ==
  ASSUME IsDevice(dev), Working
  PROVE  IsDevice(dev')
  <1>1. CASE Probe
    BY <1>1 DEF Probe, Disclose, Connect, Disconnect, Configure, Led, Link, OnlyProgress, OnlyDevice
  <1>2. CASE Target BY <1>2, TargetSpares DEF Spared
  <1>3. CASE Checks
    <2>1. dev' = dev \/ dev' = [dev EXCEPT !.keyed = TRUE]
      BY <1>3 DEF Checks, Identify, CheckLocked, Unlocked, FindErrors, NotImplemented, CheckOptions, OnlyProgress
    <2> QED BY <2>1 DEF IsDevice, Alike
  <1>4. CASE Flash
    <2>1. CASE WaitDone \/ WaitReady \/ Compare \/ Fetch
      <3>1. dev' = Settle(dev) BY <2>1 DEF WaitDone, WaitReady, Compare, Fetch
      <3> QED BY <3>1, CutShape
    <2>2. CASE EraseArea BY <2>2, EraseShape DEF EraseArea
    <2>3. CASE ProgramArea BY <2>3, ProgramShape DEF ProgramArea
    <2>4. CASE EraseChip
      <3>1. dev' = Chip(dev) \/ dev' = Settle(dev) BY <2>4 DEF EraseChip
      <3>2. IsDevice(Chip(dev)) /\ IsDevice(Settle(dev)) BY ChipShape, CutShape
      <3>3. CASE dev' = Chip(dev) BY <3>2, <3>3
      <3>4. CASE dev' = Settle(dev) BY <3>2, <3>4
      <3> QED BY <3>1, <3>3, <3>4
    <2>5. CASE SetLock
      <3>1. dev' = [Settle(dev) EXCEPT !.locked = TRUE, !.busy = {LockUnit}] BY <2>5 DEF SetLock
      <3>2. IsDevice(Settle(dev)) BY CutShape
      <3> QED BY <3>1, <3>2 DEF IsDevice
    <2>6. CASE Save BY <2>6 DEF Save
    <2> QED BY <1>4, <2>1, <2>2, <2>3, <2>4, <2>5, <2>6 DEF Flash
  <1>5. CASE Fuses
    <2>1. CASE FuseWrite BY <2>1, FuseWriteShape
    <2>2. CASE ~FuseWrite
      BY <1>5, <2>2 DEF Fuses, FuseParse, FuseRead, FuseApply, FuseMatch, FuseGather, OnlyProgress,
                        OnlyDevice, OnlyFuseData
    <2> QED BY <2>1, <2>2
  <1> QED BY <1>1, <1>2, <1>3, <1>4, <1>5 DEF Working

\* What SessionAssumption says of the case a run is about.
LEMMA CaseTyped ==
  ASSUME InPlan
  PROVE  /\ driver \in Drivers /\ cmd.acts \subseteq Actions /\ cmd.fuse \in Seq(FuseCommand)
         /\ cmd.offset \in Nat \cup {-1} /\ cmd.size \in Nat \cup {-1} /\ cmd.length \in Nat \cup {-1}
         /\ world.locked \in BOOLEAN
  <1>1. PICK c \in Cases : cmd = c.cmd /\ world = c.world BY DEF InPlan
  <1>2. /\ c.cmd.acts \subseteq Actions /\ c.cmd.fuse \in Seq(FuseCommand)
        /\ {c.cmd.offset, c.cmd.size, c.cmd.length} \subseteq Nat \cup {-1}
        /\ c.world.locked \in BOOLEAN
    BY SessionAssumption DEF SessionAssumption
  <1> QED BY <1>1, <1>2 DEF InPlan

\* An entry of main's plan.
LEMMA EntryTyped ==
  ASSUME InPlan
  PROVE  /\ \A a \in OpNames \ {"fuse"} : (a \in Actions => a \in cmd.acts) => <<a, 0>> \in Entry
         /\ \A k \in DOMAIN cmd.fuse : <<"fuse", k>> \in Entry
         /\ \A a \in Actions : Turn(a) \in Seq(Entry)
  <1>1. ASSUME NEW a \in OpNames \ {"fuse"}, a \in Actions => a \in cmd.acts
        PROVE  <<a, 0>> \in Entry
    BY <1>1 DEF Entry
  <1>2. ASSUME NEW k \in DOMAIN cmd.fuse PROVE <<"fuse", k>> \in Entry
    <2>1. k \in Nat BY CaseTyped
    <2>2. "fuse" \in OpNames /\ "fuse" \notin Actions BY DEF OpNames, Actions
    <2> QED BY <2>1, <2>2 DEF Entry
  <1>3. ASSUME NEW a \in Actions PROVE Turn(a) \in Seq(Entry)
    <2>1. a \in OpNames \ {"fuse"} BY DEF OpNames, Actions
    <2>2. a \in cmd.acts => <<<<a, 0>>>> \in Seq(Entry) BY <1>1, <2>1
    <2> QED BY <2>2 DEF Turn
  <1> QED BY <1>1, <1>2, <1>3

LEMMA FirstOf ==
  ASSUME NEW T, NEW s \in Seq(T), NEW t \in Seq(T), s # <<>>
  PROVE  s \o t \in Seq(T) /\ s \o t # <<>> /\ (s \o t)[1] = s[1]
  OBVIOUS

\* The plan of main holds what the command line asked for, behind open, pulse and select.
LEMMA PlanTyped ==
  ASSUME InPlan
  PROVE  Plan \in Seq(Entry) /\ Guarded(Plan)
  <1> DEFINE fuse == [k \in DOMAIN cmd.fuse |-> <<"fuse", k>>]
             end == <<<<"deselect", 0>>, <<"restart", 0>>>>
             work == <<<<"select", 0>>>>
                     \o Turn("unlock") \o Turn("erase") \o Turn("program")
                     \o Turn("verify") \o Turn("lock") \o Turn("read")
                     \o fuse \o end
             mid == IF ~Active THEN <<>> ELSE work
             head == IF cmd.reset > 0 THEN <<<<"pulse", 0>>>> ELSE <<>>
             last == <<<<"close", 0>>>>
             first == <<<<"open", 0>>>>
  <1>1. /\ <<"open", 0>> \in Entry /\ <<"pulse", 0>> \in Entry /\ <<"select", 0>> \in Entry
        /\ <<"deselect", 0>> \in Entry /\ <<"restart", 0>> \in Entry /\ <<"close", 0>> \in Entry
    <2>1. /\ {"open", "pulse", "select", "deselect", "restart", "close"} \subseteq OpNames \ {"fuse"}
          /\ {"open", "pulse", "select", "deselect", "restart", "close"} \cap Actions = {}
      BY DEF OpNames, Actions
    <2> QED BY <2>1, EntryTyped
  <1>2. fuse \in Seq(Entry)
    <2>1. PICK n \in Nat : DOMAIN cmd.fuse = 1 .. n BY CaseTyped
    <2>2. [k \in 1 .. n |-> <<"fuse", k>>] \in Seq(Entry) BY <2>1, EntryTyped
    <2> QED BY <2>1, <2>2
  <1>3. work \in Seq(Entry) /\ work # <<>> /\ work[1] = <<"select", 0>>
    <2>1. /\ Turn("unlock") \in Seq(Entry) /\ Turn("erase") \in Seq(Entry) /\ Turn("program") \in Seq(Entry)
          /\ Turn("verify") \in Seq(Entry) /\ Turn("lock") \in Seq(Entry) /\ Turn("read") \in Seq(Entry)
      BY EntryTyped DEF Actions
    <2>2. end \in Seq(Entry) BY <1>1
    <2> DEFINE s == <<<<"select", 0>>>>
    <2>3. s \in Seq(Entry) /\ s # <<>> /\ s[1] = <<"select", 0>> BY <1>1
    <2> DEFINE Good(x) == x \in Seq(Entry) /\ x # <<>> /\ x[1] = <<"select", 0>>
    <2>4. ASSUME NEW x, NEW t \in Seq(Entry), Good(x) PROVE Good(x \o t) BY <2>4, FirstOf
    <2> HIDE DEF fuse, end, s
    <2>5. Good(s) BY <2>3
    <2> HIDE DEF Good
    <2>6. Good(s \o Turn("unlock")) BY <2>1, <2>4, <2>5
    <2>7. Good(s \o Turn("unlock") \o Turn("erase")) BY <2>1, <2>4, <2>6
    <2>8. Good(s \o Turn("unlock") \o Turn("erase") \o Turn("program")) BY <2>1, <2>4, <2>7
    <2>9. Good(s \o Turn("unlock") \o Turn("erase") \o Turn("program") \o Turn("verify"))
      BY <2>1, <2>4, <2>8
    <2>10. Good(s \o Turn("unlock") \o Turn("erase") \o Turn("program") \o Turn("verify") \o Turn("lock"))
      BY <2>1, <2>4, <2>9
    <2>11. Good(s \o Turn("unlock") \o Turn("erase") \o Turn("program") \o Turn("verify") \o Turn("lock")
                \o Turn("read"))
      BY <2>1, <2>4, <2>10
    <2>12. Good(s \o Turn("unlock") \o Turn("erase") \o Turn("program") \o Turn("verify") \o Turn("lock")
                \o Turn("read") \o fuse)
      BY <1>2, <2>4, <2>11
    <2>13. Good(s \o Turn("unlock") \o Turn("erase") \o Turn("program") \o Turn("verify") \o Turn("lock")
                \o Turn("read") \o fuse \o end)
      BY <2>2, <2>4, <2>12
    <2> QED BY <2>13 DEF Good, s
  <1>4. mid \in Seq(Entry) /\ (mid # <<>> => mid[1][1] = "select")
    <2> HIDE DEF work
    <2> QED BY <1>3
  <1>5. Plan = first \o head \o mid \o last BY DEF Plan
  <1>6. head \in Seq(Entry) /\ last \in Seq(Entry) /\ first \in Seq(Entry) BY <1>1
  <1>7. Plan \in Seq(Entry)
    <2> HIDE DEF first, head, mid, last
    <2> QED BY <1>4, <1>5, <1>6
  <1>8. \E n \in 1 .. 2 : /\ Len(first \o head) = n
                          /\ \A j \in 1 .. n : (first \o head)[j][1] \in Outside
    BY DEF Outside
  <1> HIDE DEF mid
  <1>9. PICK n \in 1 .. 2 : /\ Len(first \o head) = n
                            /\ \A j \in 1 .. n : (first \o head)[j][1] \in Outside
    BY <1>8
  <1> DEFINE a == first \o head
  <1>10. a \in Seq(Entry) /\ Len(a) = n /\ Plan = a \o mid \o last BY <1>5, <1>6, <1>9
  <1>11. \A j \in 1 .. n : a[j][1] \in Outside BY <1>9
  <1> HIDE DEF a, first, head
  <1>12. CASE mid = <<>>
    <2>1. Plan = a \o last BY <1>10, <1>12
    <2>2. Len(Plan) = n + 1 /\ \A j \in 1 .. n : Plan[j] = a[j] BY <1>10, <2>1
    <2>3. Plan[n + 1] = <<"close", 0>> BY <1>10, <2>1
    <2>4. \A j \in 1 .. n + 1 : Plan[j][1] \in Outside BY <1>11, <2>2, <2>3 DEF Outside
    <2>5. n + 2 \in 1 .. Len(Plan) + 1 /\ (n + 2) - 1 = n + 1 /\ ~(n + 2 <= Len(Plan)) BY <2>2
    <2>6. PICK m \in 1 .. Len(Plan) + 1 : m = n + 2 BY <2>5
    <2>7. (\A j \in 1 .. m - 1 : Plan[j][1] \in Outside) /\ ~(m <= Len(Plan))
      BY <2>4, <2>5, <2>6
    <2> QED BY <1>7, <2>7 DEF Guarded
  <1>13. CASE mid # <<>>
    <2> HIDE DEF last
    <2>1. Len(mid) \in Nat \ {0} /\ Len(last) \in Nat BY <1>4, <1>6, <1>13
    <2>2. a \o mid \in Seq(Entry) /\ Len(a \o mid) = n + Len(mid)
          /\ (\A j \in 1 .. n : (a \o mid)[j] = a[j]) /\ (a \o mid)[n + 1] = mid[1]
      BY <1>4, <1>10, <2>1
    <2>3. Len(Plan) >= n + 1 /\ \A j \in 1 .. n + 1 : Plan[j] = (a \o mid)[j]
      BY <1>6, <1>10, <2>1, <2>2
    <2>4. \A j \in 1 .. n : Plan[j][1] \in Outside BY <1>11, <2>2, <2>3
    <2>5. Plan[n + 1][1] = "select" BY <1>4, <1>13, <2>2, <2>3
    <2>6. n + 1 \in 1 .. Len(Plan) + 1 /\ (n + 1) - 1 = n BY <1>7, <2>3
    <2>7. PICK m \in 1 .. Len(Plan) + 1 : m = n + 1 BY <2>6
    <2>8. (\A j \in 1 .. m - 1 : Plan[j][1] \in Outside) /\ Plan[m][1] = "select"
      BY <2>4, <2>5, <2>6, <2>7
    <2> QED BY <1>7, <2>8 DEF Guarded
  <1> QED BY <1>7, <1>12, <1>13

\* Options that pass the check lie in the flash.
LEMMA OptionsTyped ==
  ASSUME InPlan, CheckOptions
  PROVE  opt' \in Options
  <1>1. CASE BadOptions BY <1>1 DEF CheckOptions, InPlan
  <1>2. CASE ~BadOptions
    <2>1. opt' = [offset |-> Offset, size |-> Size, file |-> FileSize] BY <1>2 DEF CheckOptions
    <2>2. PICK cap \in Nat : cap = SizeFor(driver) /\ cap <= Total
      <3>1. SizeFor(driver) \in {Accessible, Total} BY DEF SizeFor
      <3> QED BY <3>1, Geometry
    <2>3. Offset \in Nat /\ Offset < cap /\ Size <= cap
      <3>1. Offset \in Nat BY CaseTyped DEF Offset
      <3>2. ~(Size > cap) /\ ~(Offset >= cap) BY <1>2, <2>2 DEF BadOptions
      <3>3. Size \in Int BY <2>2, <3>1, CaseTyped DEF Size
      <3> QED BY <2>2, <3>1, <3>2, <3>3
    <2>4. Size \in Nat
      <3>1. CASE cmd.size = -1
        <4>1. Size = cap - Offset BY <2>2, <3>1 DEF Size
        <4> QED BY <2>3, <4>1
      <3>2. CASE cmd.size # -1
        <4>1. Size = cmd.size BY <3>2 DEF Size
        <4> QED BY <3>2, <4>1, CaseTyped
      <3> QED BY <3>1, <3>2
    <2>5. Size \in 0 .. Total
      <3>1. Total \in Nat BY Geometry
      <3> QED BY <2>2, <2>3, <2>4, <3>1
    <2>6. FileSize \in Nat
      <3>1. cmd.acts \cap {"program", "verify"} # {} => cmd.length # -1 BY <1>2 DEF BadOptions
      <3>2. cmd.length \in Nat \cup {-1} BY CaseTyped
      <3> QED BY <2>4, <3>1, <3>2 DEF FileSize
    <2> QED BY <2>1, <2>3, <2>5, <2>6 DEF Options
  <1> QED BY <1>1, <1>2

\* Only the check of the options sets them.
LEMMA ChecksOnly ==
  ASSUME Working, ~CheckOptions
  PROVE  opt' = opt
  <1>1. CASE Probe
    BY <1>1 DEF Probe, Disclose, Connect, Disconnect, Configure, Led, Link, OnlyProgress, OnlyDevice
  <1>2. CASE Target
    BY <1>2 DEF Target, ResetPin, ResetTarget, Halt, Catch, ReleaseCore, EndExtension, FinishIfOpen,
                DebugStep, OnlyDevice
  <1>3. CASE Checks
    BY <1>3 DEF Checks, Identify, CheckLocked, Unlocked, FindErrors, NotImplemented, OnlyProgress, OnlyDevice
  <1>4. CASE Flash
    BY <1>4 DEF Flash, WaitDone, WaitReady, EraseArea, ProgramArea, EraseChip, SetLock, Compare,
                Fetch, Save, OnlyDevice
  <1>5. CASE Fuses
    BY <1>5 DEF Fuses, FuseParse, FuseRead, FuseApply, FuseMatch, FuseGather, FuseWrite, OnlyProgress,
                OnlyDevice, OnlyFuseData
  <1> QED BY <1>1, <1>2, <1>3, <1>4, <1>5 DEF Working

\* InPlan is inductive.
LEMMA InPlanStep ==
  ASSUME InPlan, Next
  PROVE  InPlan'
  <1>1. UNCHANGED <<driver, cmd, world>>
    <2>1. CASE Main \/ Begin \/ NextOperation \/ Fail
      BY <2>1 DEF Main, Begin, NextOperation, Fail, OnlyProgress, OnlyDevice
    <2>2. CASE Working BY <2>2, WorkMoves
    <2> QED BY <2>1, <2>2 DEF Next, Working
  <1>2. Entry' = Entry BY <1>1 DEF Entry
  <1>3. Refused' = Refused BY <1>1 DEF Refused, Active
  <1>4. ASSUME IsDevice(dev'), opt' \in Options, plan' \in Seq(Entry), plan' # <<>> => ~Refused
        PROVE  InPlan'
    BY <1>1, <1>2, <1>3, <1>4 DEF InPlan, IsDevice
  <1>5. CASE Main
    <2>1. UNCHANGED <<dev, opt>> /\ (plan' = <<>> \/ (plan' = Plan /\ ~Refused)) BY <1>5 DEF Main
    <2>2. <<>> \in Seq(Entry) /\ Plan \in Seq(Entry) BY PlanTyped
    <2> QED BY <1>4, <2>1, <2>2 DEF InPlan
  <1>6. CASE Begin BY <1>4, <1>6 DEF Begin, InPlan
  <1>7. CASE NextOperation
    <2>1. UNCHANGED <<dev, opt>> /\ plan' = Tail(plan) /\ plan # <<>> BY <1>7 DEF NextOperation
    <2>2. Tail(plan) \in Seq(Entry) BY <2>1 DEF InPlan
    <2> QED BY <1>4, <2>1, <2>2 DEF InPlan
  <1>8. CASE Fail
    <2>1. UNCHANGED <<dev, opt>> /\ plan' = <<>> BY <1>8 DEF Fail, Stop, OnlyProgress, OnlyDevice
    <2> QED BY <1>4, <2>1 DEF InPlan
  <1>9. CASE Working
    <2>1. IsDevice(dev') BY <1>9, KeepsDevice DEF InPlan
    <2>2. plan' = plan \/ plan' = <<>> BY <1>9, WorkMoves DEF Continue, Stop
    <2>3. opt' \in Options
      <3>1. CASE CheckOptions BY <3>1, OptionsTyped
      <3>2. CASE ~CheckOptions
        <4>1. opt' = opt BY <1>9, <3>2, ChecksOnly
        <4> QED BY <4>1 DEF InPlan
      <3> QED BY <3>1, <3>2
    <2>4. plan' \in Seq(Entry) /\ (plan' # <<>> => ~Refused)
      <3>1. plan \in Seq(Entry) /\ (plan # <<>> => ~Refused) /\ <<>> \in Seq(Entry) BY DEF InPlan
      <3> QED BY <2>2, <3>1
    <2> QED BY <1>4, <2>1, <2>3, <2>4
  <1> QED BY <1>5, <1>6, <1>7, <1>8, <1>9 DEF Next, Working

\* The steps of an operation, by the operation.
LEMMA OpSteps ==
  ASSUME InPlan, plan # <<>>
  PROVE  LET o == plan[1][1]
             s == StepsOf(o)
         IN  /\ plan[1] \in Entry
             /\ o \in Outside \cup {"select", "deselect", "restart"} => s \in Seq(Plain)
             /\ o = "unlock" => s \in Seq(Plain) \/ Winding(s \o <<Do("next")>>)
             /\ o = "read" => s \in Seq(Easy)
             /\ o = "fuse" => s \in Seq(Mild)
             /\ o # "read" => Without(s, {"save"})
             /\ o = "select" => HasGate(s \o <<Do("next")>>, GatesOf(driver))
  <1> DEFINE o == plan[1][1]
             s == StepsOf(o)
  <1>1. plan[1] \in Entry /\ o \in OpNames
    <2>1. plan[1] \in Entry BY DEF InPlan
    <2> QED BY <2>1 DEF Entry
  <1>2. driver \in Drivers /\ opt \in Options BY DEF InPlan
  <1>3. o \notin {"open", "pulse", "fuse", "restart", "close"} => s = Ops(driver, opt)[o] BY DEF StepsOf
  <1>4. ASSUME NEW t \in Seq(Unsaved) PROVE Without(t, {"save"}) BY StepsWithout DEF Unsaved
  <1>5. ASSUME NEW t, t \in Seq(Plain) \/ t \in Seq(Mild) PROVE t \in Seq(Unsaved)
    BY <1>5, PlainIsEasy
  <1>6. CASE o \in Outside \cup {"restart"}
    <2>1. /\ <<Do("disclose"), Do("disconnect"), Do("connect"), Do("configure")>> \in Seq(Plain)
          /\ <<Do("pinLow"), Do("pinHigh")>> \in Seq(Plain) /\ <<Do("restart")>> \in Seq(Plain)
          /\ <<Do("led"), Do("disconnect")>> \in Seq(Plain)
      BY PlainStep
    <2>2. s \in Seq(Plain) BY <1>6, <2>1 DEF StepsOf, Outside
    <2> HIDE DEF s
    <2>3. Without(s, {"save"}) BY <1>4, <1>5, <2>2
    <2> QED BY <1>1, <1>6, <2>2, <2>3 DEF Outside, s
  <1>7. CASE o \in {"select", "deselect"}
    <2>1. s = Ops(driver, opt)[o] BY <1>3, <1>7
    <2>2. s \in Seq(Plain) BY <1>2, <1>7, <2>1, SelectPlain
    <2>3. o = "select" => HasGate(s \o <<Do("next")>>, GatesOf(driver)) BY <1>2, <2>1, SelectGated
    <2> HIDE DEF s
    <2>4. Without(s, {"save"}) BY <1>4, <1>5, <2>2
    <2> QED BY <1>1, <1>7, <2>2, <2>3, <2>4 DEF Outside, s
  <1>8. CASE o = "fuse"
    <2>1. s = FuseSteps(Command) BY <1>8 DEF StepsOf
    <2> DEFINE ops == Ops(driver, NoOptions)
               c == Command
    <2>2. ops.fread \in Seq(Mild) /\ ops.fwrite \in Seq(Mild) BY <1>2, FusesMild
    <2>3. <<Do("fparse")>> \in Seq(Mild) /\ <<Do("fapply")>> \in Seq(Mild) /\ <<Do("fmatch")>> \in Seq(Mild)
      BY PlainStep, MildSteps
    <2>4. FuseSteps(c) = <<Do("fparse")>> \o ops.fread
                         \o (IF "w" \in c.ops THEN <<Do("fapply")>> \o ops.fwrite ELSE <<>>)
                         \o (IF "v" \in c.ops THEN ops.fread \o <<Do("fmatch")>> ELSE <<>>)
      BY DEF FuseSteps
    <2> HIDE DEF ops, c
    <2>5. /\ (IF "w" \in c.ops THEN <<Do("fapply")>> \o ops.fwrite ELSE <<>>) \in Seq(Mild)
          /\ (IF "v" \in c.ops THEN ops.fread \o <<Do("fmatch")>> ELSE <<>>) \in Seq(Mild)
          /\ <<Do("fparse")>> \o ops.fread \in Seq(Mild)
      BY <2>2, <2>3
    <2>6. FuseSteps(c) \in Seq(Mild) BY <2>4, <2>5
    <2>7. s \in Seq(Mild) BY <2>1, <2>6 DEF c
    <2> HIDE DEF s
    <2>8. Without(s, {"save"}) BY <1>4, <1>5, <2>7
    <2> QED BY <1>1, <1>8, <2>7, <2>8 DEF Outside, s
  <1>9. CASE o \in Actions
    <2>1. s = Ops(driver, opt)[o] BY <1>3, <1>9 DEF Actions
    <2>2. o \notin Outside \cup {"select", "deselect", "restart", "fuse"} BY <1>9 DEF Actions, Outside
    <2>3. CASE o = "read"
      <3>1. s \in Seq(Easy) BY <1>2, <2>1, <2>3, ReadEasy
      <3> HIDE DEF s
      <3> QED BY <1>1, <2>2, <2>3, <3>1 DEF s
    <2>4. CASE o # "read"
      <3>1. Without(s, {"save"})
        <4>1. CASE o = "program" BY <1>2, <2>1, <4>1, ProgramUnsaved
        <4>2. CASE o # "program"
          <5>1. Ops(driver, opt)[o] \in Seq(Unsaved)
            BY <1>2, <1>9, <2>4, <4>2, ShortUnsaved DEF Actions
          <5> QED BY <1>4, <2>1, <5>1
        <4> QED BY <4>1, <4>2
      <3>2. o = "unlock" => s \in Seq(Plain) \/ Winding(s \o <<Do("next")>>)
        BY <1>2, <2>1, UnlockWinds
      <3> HIDE DEF s
      <3> QED BY <1>1, <2>2, <2>4, <3>1, <3>2 DEF s
    <2> QED BY <2>3, <2>4
  <1>10. o \in Outside \cup {"restart"} \/ o \in {"select", "deselect"} \/ o = "fuse" \/ o \in Actions
    BY <1>1 DEF OpNames, Outside, Actions
  <1> QED BY <1>6, <1>7, <1>8, <1>9, <1>10

\* A gate that was not the first step is still to come.
LEMMA GateTail ==
  ASSUME NEW T, NEW s \in Seq(T), s # <<>>, NEW G, HasGate(s, G), Head(s).do \notin G
  PROVE  HasGate(Tail(s), G)
  <1>1. PICK i \in 1 .. Len(s) : s[i].do \in G BY DEF HasGate
  <1>2. i # 1 BY <1>1
  <1>3. i - 1 \in 1 .. Len(Tail(s)) /\ Tail(s)[i - 1] = s[i] BY <1>1, <1>2
  <1> QED BY <1>1, <1>3 DEF HasGate

\* Behind Outside comes select, and nothing else.
LEMMA GuardFirst ==
  ASSUME NEW T, NEW p \in Seq(T), p # <<>>, Guarded(p)
  PROVE  p[1][1] \in Outside \cup {"select"} /\ (p[1][1] # "select" => Guarded(Tail(p)))
  <1>1. PICK n \in 1 .. Len(p) + 1 : /\ \A j \in 1 .. n - 1 : p[j][1] \in Outside
                                     /\ n <= Len(p) => p[n][1] = "select"
    BY DEF Guarded
  <1>2. Len(p) \in Nat \ {0} OBVIOUS
  <1>3. CASE n = 1 BY <1>1, <1>2, <1>3
  <1>4. CASE n # 1
    <2>1. p[1][1] \in Outside
      <3>1. 1 \in 1 .. n - 1 BY <1>1, <1>2, <1>4
      <3> QED BY <1>1, <3>1
    <2>2. PICK m \in 1 .. Len(p) : m = n - 1 BY <1>1, <1>2, <1>4
    <2>3. Len(Tail(p)) = Len(p) - 1 /\ \A j \in 1 .. Len(p) - 1 : Tail(p)[j] = p[j + 1] BY <1>2
    <2>4. m \in 1 .. Len(Tail(p)) + 1 BY <1>2, <2>2, <2>3
    <2>5. ASSUME NEW j \in 1 .. m - 1 PROVE Tail(p)[j][1] \in Outside
      <3>1. j \in 1 .. Len(p) - 1 /\ j + 1 \in 1 .. n - 1 BY <1>1, <1>2, <2>2
      <3>2. p[j + 1][1] \in Outside BY <1>1, <3>1
      <3>3. Tail(p)[j] = p[j + 1] BY <2>3, <3>1
      <3> QED BY <3>2, <3>3
    <2>6. m <= Len(Tail(p)) => Tail(p)[m][1] = "select"
      <3>1. m <= Len(Tail(p)) => m \in 1 .. Len(p) - 1 /\ m + 1 = n /\ n <= Len(p)
        BY <1>1, <1>2, <2>2, <2>3
      <3>2. m <= Len(Tail(p)) => Tail(p)[m] = p[m + 1] BY <2>3, <3>1
      <3>3. n <= Len(p) => p[n][1] = "select" BY <1>1
      <3> QED BY <3>1, <3>2, <3>3
    <2>7. Guarded(Tail(p)) BY <2>4, <2>5, <2>6 DEF Guarded
    <2> QED BY <2>1, <2>7
  <1> QED BY <1>3, <1>4

\* The gate of a locked device is not passed.
LEMMA GateStops ==
  ASSUME Working, Head(todo).do \in GatesOf(driver), world.locked, dev.locked, "unlock" \notin cmd.acts
  PROVE  exit' = "error"
  <1>1. Head(todo).do \in {"halt", "catch", "locked"} BY DEF GatesOf
  <1>2. Head(todo).do = "locked" => driver \notin Eefc BY DEF GatesOf
  <1>3. Head(todo).do # "locked" => driver \in Eefc BY DEF GatesOf
  <1>4. Halt \/ Catch \/ CheckLocked
    <2>1. ~Probe /\ ~Flash /\ ~Fuses
      BY <1>1, WorkOf DEF ProbeWork, FlashWork, FuseWork
    <2>2. Target => Halt \/ Catch
      BY <1>1 DEF Target, ResetPin, ResetTarget, ReleaseCore, EndExtension, FinishIfOpen, DebugStep, Step
    <2>3. Checks => CheckLocked
      BY <1>1 DEF Checks, Identify, Unlocked, FindErrors, NotImplemented, CheckOptions, Step
    <2> QED BY <2>1, <2>2, <2>3 DEF Working
  <1>5. CASE Halt \/ Catch
    <2>1. Head(todo).do # "locked" BY <1>5 DEF Halt, Catch, DebugStep, Step
    <2>2. Mute BY <1>3, <2>1 DEF Mute
    <2> QED BY <1>5, <2>2 DEF Halt, Catch, DebugStep, Unless, Stop
  <1>6. CASE CheckLocked BY <1>6 DEF CheckLocked, Unless, Stop
  <1> QED BY <1>4, <1>5, <1>6

\* What a working step leaves to do.
LEMMA WorkLeaves ==
  ASSUME Working, exit' = "running"
  PROVE  todo' = Tail(todo) /\ plan' = plan
  BY WorkMoves DEF Continue, Stop

\* Kept is inductive without unlock.
LEMMA KeptStep ==
  ASSUME InPlan, world.locked, "unlock" \notin cmd.acts, Kept, Next
  PROVE  Kept'
  <1>0. /\ dev.locked /\ dev.busy = {} /\ dev.flash = FirstFlash(world) /\ dev.fuses = FirstFuses
        /\ saved = <<>>
    BY DEF Kept
  <1>1. exit = "running"
    <2>1. Working => exit = "running" BY WorkMoves
    <2> QED BY <2>1 DEF Next, Working, Main, Begin, NextOperation, Fail
  <1>2. /\ Guarded(plan) /\ todo \in Seq(Plain)
        /\ todo # <<>> => /\ plan # <<>>
                          /\ plan[1][1] = "select" => HasGate(todo, GatesOf(driver))
    BY <1>1 DEF Kept
  <1>3. plan \in Seq(Entry) BY DEF InPlan
  <1> DEFINE Onward == exit' = "running" =>
                       /\ Guarded(plan') /\ todo' \in Seq(Plain)
                       /\ todo' # <<>> => /\ plan' # <<>>
                                          /\ plan'[1][1] = "select" => HasGate(todo', GatesOf(driver))
  <1>4. ASSUME UNCHANGED <<driver, world, dev, saved>>, Onward PROVE Kept'
    <2>1. /\ dev'.locked /\ dev'.busy = {} /\ dev'.flash = FirstFlash(world)' /\ dev'.fuses = FirstFuses
          /\ saved' = <<>>
      BY <1>0, <1>4 DEF FirstFlash
    <2>2. GatesOf(driver)' = GatesOf(driver) BY <1>4
    <2> QED BY <1>4, <2>1, <2>2 DEF Kept, Guarded, HasGate
  <1>5. CASE Main
    <2>1. UNCHANGED <<driver, world, dev, saved>> BY <1>5 DEF Main
    <2>2. todo = <<>> /\ todo' = <<>> BY <1>5 DEF Main
    <2>3. exit' = "running" => plan' = Plan BY <1>5 DEF Main
    <2>4. Onward BY <1>2, <2>2, <2>3, PlanTyped
    <2> QED BY <1>4, <2>1, <2>4
  <1>6. CASE Begin
    <2>1. UNCHANGED <<driver, world, dev, saved, plan>> /\ plan # <<>>
          /\ todo' = StepsOf(plan[1][1]) \o <<Do("next")>>
      BY <1>6 DEF Begin
    <2>2. plan[1][1] \in Outside \cup {"select"} BY <1>2, <1>3, <2>1, GuardFirst
    <2>3. /\ StepsOf(plan[1][1]) \in Seq(Plain)
          /\ plan[1][1] = "select" => HasGate(todo', GatesOf(driver))
      BY <2>1, <2>2, OpSteps
    <2>4. todo' \in Seq(Plain) BY <2>1, <2>3, PlainStep
    <2>5. Onward BY <1>2, <2>1, <2>3, <2>4
    <2> QED BY <1>4, <2>1, <2>5
  <1>7. CASE NextOperation
    <2>1. UNCHANGED <<driver, world, dev, saved>> /\ plan # <<>> /\ plan' = Tail(plan) /\ todo' = <<>>
          /\ todo = <<Do("next")>>
      BY <1>7 DEF NextOperation
    <2>2. plan[1][1] # "select"
      <3>1. SUFFICES ASSUME HasGate(<<Do("next")>>, GatesOf(driver)) PROVE FALSE BY <1>2, <2>1
      <3>2. Do("next").do \in GatesOf(driver) BY <3>1 DEF HasGate
      <3> QED BY <3>2 DEF Do, Area, GatesOf
    <2>3. Guarded(plan') BY <1>2, <1>3, <2>1, <2>2, GuardFirst
    <2>4. Onward BY <2>1, <2>3
    <2> QED BY <1>4, <2>1, <2>4
  <1>8. CASE Fail
    <2>1. UNCHANGED <<driver, world, dev, saved>> /\ exit' = "error"
      BY <1>8 DEF Fail, Stop, OnlyProgress, OnlyDevice
    <2> QED BY <1>4, <2>1
  <1>9. CASE Working
    <2>1. todo # <<>> /\ UNCHANGED <<driver, cmd, world>> BY <1>9, WorkMoves
    <2>2. Head(todo).do \in PlainNames
      <3>1. Head(todo) \in Plain BY <1>2, <2>1
      <3> QED BY <3>1 DEF Plain, StepsBut, PlainNames
    <2>3. Spared /\ saved' = <<>> BY <1>0, <1>9, <2>2, PlainSpares DEF InPlan
    <2>4. /\ dev'.locked /\ dev'.busy = {} /\ dev'.flash = FirstFlash(world) /\ dev'.fuses = FirstFuses
      <3>1. PICK d \in {dev, Cut(dev)} : Alike(dev', d) BY <2>3 DEF Spared
      <3>2. Cut(dev).flash = FirstFlash(world) /\ Cut(dev).fuses = FirstFuses /\ Cut(dev).locked
        <4>1. /\ Cut(dev).flash = [u \in Units |-> IF u \in dev.busy THEN Torn ELSE dev.flash[u]]
              /\ Cut(dev).fuses
                   = [s \in FuseSections |-> IF FuseUnit(s) \in dev.busy THEN FreeFuses ELSE dev.fuses[s]]
              /\ Cut(dev).locked = (dev.locked /\ LockUnit \notin dev.busy)
          BY CutShape DEF InPlan
        <4>2. Cut(dev).flash = FirstFlash(world) BY <1>0, <4>1 DEF FirstFlash
        <4>3. Cut(dev).fuses = FirstFuses BY <1>0, <4>1 DEF FirstFuses
        <4> QED BY <1>0, <4>1, <4>2, <4>3
      <3>3. dev'.busy = {} BY <1>0, <2>3 DEF Spared
      <3>4. d.flash = FirstFlash(world) /\ d.fuses = FirstFuses /\ d.locked
        <4>1. CASE d = dev BY <1>0, <4>1
        <4>2. CASE d = Cut(dev) BY <3>2, <4>2
        <4> QED BY <3>1, <4>1, <4>2
      <3> QED BY <3>1, <3>3, <3>4 DEF Alike
    <2>5. Onward
      <3>1. SUFFICES ASSUME exit' = "running"
                     PROVE  /\ Guarded(plan') /\ todo' \in Seq(Plain)
                            /\ todo' # <<>> => /\ plan' # <<>>
                                               /\ plan'[1][1] = "select" => HasGate(todo', GatesOf(driver))
        OBVIOUS
      <3>2. todo' = Tail(todo) /\ plan' = plan BY <1>9, <3>1, WorkLeaves
      <3>3. todo' \in Seq(Plain) /\ plan' # <<>> /\ Guarded(plan') BY <1>2, <2>1, <3>2
      <3>4. Head(todo).do \notin GatesOf(driver) BY <1>0, <1>9, <3>1, GateStops
      <3>5. plan[1][1] = "select" => HasGate(Tail(todo), GatesOf(driver))
        BY <1>2, <2>1, <3>4, GateTail
      <3> QED BY <3>2, <3>3, <3>5
    <2>6. FirstFlash(world)' = FirstFlash(world) /\ GatesOf(driver)' = GatesOf(driver) BY <2>1
    <2> QED BY <2>3, <2>4, <2>5, <2>6 DEF Kept, Guarded, HasGate
  <1> QED BY <1>5, <1>6, <1>7, <1>8, <1>9 DEF Next, Working

\* NoFile is inductive without read.
LEMMA NoFileStep ==
  ASSUME InPlan, "read" \notin cmd.acts, NoFile, Next
  PROVE  NoFile'
  <1>1. exit = "running"
    <2>1. Working => exit = "running" BY WorkMoves
    <2> QED BY <2>1 DEF Next, Working, Main, Begin, NextOperation, Fail
  <1>2. saved = <<>> /\ Without(todo, {"save"}) BY <1>1 DEF NoFile
  <1>3. ASSUME saved' = saved, exit' = "running" => Without(todo', {"save"}) PROVE NoFile'
    BY <1>2, <1>3 DEF NoFile, Without
  <1>4. Without(<<>>, {"save"})
    <2>1. <<>> \in Seq(Unsaved) BY DEF Unsaved
    <2> QED BY <2>1, StepsWithout DEF Unsaved
  <1>5. CASE Main
    <2>1. saved' = saved /\ todo' = todo BY <1>5 DEF Main
    <2> QED BY <1>2, <1>3, <2>1
  <1>6. CASE Begin
    <2>1. saved' = saved /\ plan # <<>> /\ todo' = StepsOf(plan[1][1]) \o <<Do("next")>>
      BY <1>6 DEF Begin
    <2>2. plan[1] \in Entry /\ (plan[1][1] # "read" => Without(StepsOf(plan[1][1]), {"save"}))
      BY <2>1, OpSteps
    <2>3. plan[1][1] # "read" BY <2>2 DEF Entry, Actions
    <2>4. <<Do("next")>> \in Seq(Unsaved) BY UnsavedStep
    <2>5. Without(<<Do("next")>>, {"save"}) BY <2>4, StepsWithout DEF Unsaved
    <2>6. Without(todo', {"save"}) BY <2>1, <2>2, <2>3, <2>5, WithoutConcat
    <2> QED BY <1>3, <2>1, <2>6
  <1>7. CASE NextOperation
    <2>1. saved' = saved /\ todo' = <<>> BY <1>7 DEF NextOperation
    <2> QED BY <1>3, <1>4, <2>1
  <1>8. CASE Fail
    <2>1. saved' = saved /\ exit' = "error" BY <1>8 DEF Fail, Stop, OnlyProgress, OnlyDevice
    <2> QED BY <1>3, <2>1
  <1>9. CASE Working
    <2>1. todo # <<>> BY <1>9, WorkMoves
    <2>2. Head(todo).do # "save" /\ Without(Tail(todo), {"save"}) BY <1>2, <2>1, WithoutTail
    <2>3. saved' = saved BY <1>9, <2>2, SavesOnly
    <2>4. exit' = "running" => todo' = Tail(todo) BY <1>9, WorkLeaves
    <2> QED BY <1>3, <2>2, <2>3, <2>4
  <1> QED BY <1>5, <1>6, <1>7, <1>8, <1>9 DEF Next, Working

\* A locked device is not read, and one that unlock has opened is blank.
LEMMA FetchBlank ==
  ASSUME world.locked, got = AllFree, ~dev.locked => dev.flash = AllFree, Fetch,
         NEW a \in Nat, NEW l \in Nat, NEW f \in Nat,
         Head(todo).at = a, Head(todo).len = l, Head(todo).from = f
  PROVE  got' = AllFree
  <1> DEFINE s == Head(todo)
  <1>1. got' = IF Unreadable(s) THEN got
               ELSE [u \in Units |-> IF u \in f .. f + l - 1 THEN dev.flash[a + u - f] ELSE got[u]]
    BY DEF Fetch
  <1>2. CASE Unreadable(s) BY <1>1, <1>2
  <1>3. CASE ~Unreadable(s)
    <2>1. a + l <= Total /\ ~dev.locked
      <3>1. a + l \in Nat /\ Total \in Nat BY Geometry
      <3> QED BY <1>3, <3>1 DEF Unreadable
    <2>2. dev.flash = AllFree BY <2>1
    <2>3. ASSUME NEW u \in Units PROVE (IF u \in f .. f + l - 1 THEN dev.flash[a + u - f] ELSE got[u]) = Free
      <3>1. u \in Int BY DEF Units
      <3>2. got[u] = Free BY DEF AllFree
      <3>3. u \in f .. f + l - 1 => a + u - f \in Units
        <4>1. Total \in Nat BY Geometry
        <4> QED BY <2>1, <3>1, <4>1 DEF Units
      <3>4. u \in f .. f + l - 1 => dev.flash[a + u - f] = Free BY <2>2, <3>3 DEF AllFree
      <3> QED BY <3>2, <3>4
    <2>4. got' = [u \in Units |-> IF u \in f .. f + l - 1 THEN dev.flash[a + u - f] ELSE got[u]]
      BY <1>1, <1>3
    <2> QED BY <2>3, <2>4 DEF AllFree
  <1> QED BY <1>2, <1>3

\* The device stays closed or blank, and nothing of its flash is being written
\* when a reset may come.
Hidden(d) == LockUnit \notin d.busy /\ (~d.locked => d.flash = AllFree)
Still(d) == d.busy \cap Units = {}

\* Nothing plain opens a device that is not blank.
LEMMA PlainHides ==
  ASSUME InPlan, Hidden(dev), Working, Head(todo).do \in PlainNames,
         ~Still(dev) => Head(todo).do \in Waits
  PROVE  Hidden(dev') /\ Still(dev') /\ UNCHANGED <<got, saved>>
  <1>1. Spared /\ UNCHANGED <<got, saved>> BY PlainSpares DEF InPlan
  <1>2. CASE Head(todo).do \in Waits
    <2>1. dev'.busy = {} /\ Alike(dev', dev) BY <1>1, <1>2 DEF Spared
    <2> QED BY <1>1, <2>1 DEF Hidden, Still, Alike
  <1>3. CASE Head(todo).do \notin Waits
    <2>1. Still(dev) BY <1>3
    <2>2. Still(dev') /\ LockUnit \notin dev'.busy BY <1>1, <2>1 DEF Spared, Still, Hidden
    <2>3. PICK d \in {dev, Cut(dev)} : Alike(dev', d) BY <1>1 DEF Spared
    <2>4. ~d.locked => d.flash = AllFree
      <3>1. CASE d = dev BY <3>1 DEF Hidden
      <3>2. CASE d = Cut(dev)
        <4>1. /\ Cut(dev).flash = [u \in Units |-> IF u \in dev.busy THEN Torn ELSE dev.flash[u]]
              /\ Cut(dev).fuses
                   = [s \in FuseSections |-> IF FuseUnit(s) \in dev.busy THEN FreeFuses ELSE dev.fuses[s]]
              /\ Cut(dev).locked = (dev.locked /\ LockUnit \notin dev.busy)
          BY CutShape DEF InPlan
        <4>2. ~Cut(dev).locked => ~dev.locked BY <4>1 DEF Hidden
        <4>3. dev.flash = AllFree => Cut(dev).flash = AllFree BY <2>1, <4>1 DEF AllFree, Still
        <4> QED BY <3>2, <4>2, <4>3 DEF Hidden
      <3> QED BY <2>3, <3>1, <3>2
    <2> QED BY <1>1, <2>2, <2>3, <2>4 DEF Hidden, Alike
  <1> QED BY <1>2, <1>3

\* The units of flash, lock and fuses are different ones.
LEMMA Apart ==
  /\ LockUnit \notin Units
  /\ \A s \in Nat : FuseUnit(s) \notin Units /\ FuseUnit(s) # LockUnit
  <1>1. Total \in Nat BY Geometry
  <1> QED BY <1>1 DEF Units, LockUnit, FuseUnit

\* Nor does a fuse command.
LEMMA FuseHides ==
  ASSUME InPlan, Hidden(dev), FuseWrite, plan # <<>>, plan[1][1] = "fuse", Head(todo).at \in Nat
  PROVE  Hidden(dev') /\ Still(dev') /\ UNCHANGED <<got, saved>>
  <1>1. /\ dev'.flash = dev.flash /\ dev'.locked = dev.locked /\ UNCHANGED <<got, saved>>
        /\ \/ dev'.busy = {} \/ dev'.busy \subseteq {FuseUnit(s) : s \in FuseSections}
           \/ dev'.busy = {FuseUnit(Command.section)} \/ dev'.busy = {FuseUnit(Head(todo).at)}
    BY FuseWriteShape DEF InPlan
  <1>2. Command.section \in Nat
    <2>1. plan[1] \in Entry BY DEF InPlan
    <2>2. plan[1][2] \in DOMAIN cmd.fuse BY <2>1 DEF Entry
    <2>3. Command \in FuseCommand BY <2>2, CaseTyped DEF Command
    <2> QED BY <2>3 DEF FuseCommand
  <1>3. dev'.busy \subseteq {FuseUnit(s) : s \in Nat}
    <2>1. FuseSections \subseteq Nat BY DEF FuseSections
    <2> QED BY <1>1, <1>2, <2>1
  <1>4. Still(dev') /\ LockUnit \notin dev'.busy BY <1>3, Apart DEF Still
  <1> QED BY <1>1, <1>4 DEF Hidden

Orderly(t, p) ==
  \/ t \in Seq(Easy) \/ Winding(t)
  \/ t \in Seq(Mild) /\ p # <<>> /\ p[1][1] = "fuse"
Waiting(t) == t # <<>> /\ Head(t).do \in Waits

\* Blanked is inductive with unlock.
LEMMA BlankStep ==
  ASSUME InPlan, world.locked, "unlock" \in cmd.acts, "read" \in cmd.acts, Blanked, Next
  PROVE  Blanked'
  <1>1. exit = "running"
    <2>1. Working => exit = "running" BY WorkMoves
    <2> QED BY <2>1 DEF Next, Working, Main, Begin, NextOperation, Fail
  <1>2. /\ got = AllFree /\ \A i \in DOMAIN saved : saved[i] = Free
        /\ Hidden(dev) /\ (~Still(dev) => Waiting(todo)) /\ Orderly(todo, plan)
    BY <1>1 DEF Blanked, Hidden, Still, Waiting, Orderly
  <1>3. ASSUME got' = AllFree, \A i \in DOMAIN saved' : saved'[i] = Free, Hidden(dev'),
               exit' = "running" => (~Still(dev') => Waiting(todo')) /\ Orderly(todo', plan')
        PROVE  Blanked'
    BY <1>3 DEF Blanked, Hidden, Still, Waiting, Orderly
  <1>4. <<>> \in Seq(Easy) OBVIOUS
  <1>5. CASE Main
    <2>1. UNCHANGED <<got, saved, dev>> /\ todo = <<>> /\ todo' = <<>> BY <1>5 DEF Main
    <2>2. Orderly(todo', plan') BY <1>4, <2>1 DEF Orderly
    <2> QED BY <1>2, <1>3, <2>1, <2>2 DEF Waiting
  <1>6. CASE Begin
    <2>1. /\ UNCHANGED <<got, saved, dev, plan>> /\ plan # <<>> /\ todo = <<>>
          /\ todo' = StepsOf(plan[1][1]) \o <<Do("next")>>
      BY <1>6 DEF Begin
    <2> DEFINE o == plan[1][1]
               s == StepsOf(o)
    <2>2. /\ plan[1] \in Entry
          /\ o \in Outside \cup {"select", "deselect", "restart"} => s \in Seq(Plain)
          /\ o = "unlock" => s \in Seq(Plain) \/ Winding(s \o <<Do("next")>>)
          /\ o = "read" => s \in Seq(Easy)
          /\ o = "fuse" => s \in Seq(Mild)
      BY <2>1, OpSteps
    <2>3. o \notin {"erase", "program", "verify", "lock"}
      <3>1. ~Refused BY <2>1 DEF InPlan
      <3>2. o \in {"erase", "program", "verify", "lock"} => o \in cmd.acts BY <2>2 DEF Entry, Actions
      <3> QED BY <3>1, <3>2 DEF Refused
    <2>4. o \in Outside \cup {"select", "deselect", "restart"} \/ o \in {"unlock", "read", "fuse"}
      <3>1. o \in OpNames BY <2>2 DEF Entry
      <3> QED BY <2>3, <3>1 DEF OpNames, Outside
    <2>5. todo' = s \o <<Do("next")>> BY <2>1
    <2>6. <<Do("next")>> \in Seq(Easy) /\ <<Do("next")>> \in Seq(Mild) BY PlainStep, PlainIsEasy, MildSteps
    <2> HIDE DEF s
    <2>7. CASE s \in Seq(Plain) \/ s \in Seq(Easy)
      <3>1. s \in Seq(Easy) BY <2>7, PlainIsEasy
      <3>2. todo' \in Seq(Easy) BY <2>5, <2>6, <3>1
      <3> QED BY <1>2, <1>3, <2>1, <3>2 DEF Orderly, Waiting
    <2>8. CASE Winding(s \o <<Do("next")>>)
      BY <1>2, <1>3, <2>1, <2>5, <2>8 DEF Orderly, Waiting
    <2>9. CASE o = "fuse"
      <3>1. s \in Seq(Mild) BY <2>2, <2>9
      <3>2. todo' \in Seq(Mild) BY <2>5, <2>6, <3>1
      <3> QED BY <1>2, <1>3, <2>1, <2>9, <3>2 DEF Orderly, Waiting
    <2> QED BY <2>2, <2>4, <2>7, <2>8, <2>9
  <1>7. CASE NextOperation
    <2>1. UNCHANGED <<got, saved, dev>> /\ todo = <<Do("next")>> /\ todo' = <<>>
      BY <1>7 DEF NextOperation
    <2>2. ~Waiting(todo) BY <2>1 DEF Waiting, Do, Area, Waits
    <2> QED BY <1>2, <1>3, <1>4, <2>1, <2>2 DEF Orderly
  <1>8. CASE Fail
    <2>1. UNCHANGED <<got, saved, dev>> /\ exit' = "error"
      BY <1>8 DEF Fail, Stop, OnlyProgress, OnlyDevice
    <2> QED BY <1>2, <1>3, <2>1
  <1>9. CASE Working
    <2>1. todo # <<>> /\ (exit' = "running" => todo' = Tail(todo) /\ plan' = plan)
      BY <1>9, WorkMoves, WorkLeaves
    <2>2. ~Still(dev) => Head(todo).do \in Waits BY <1>2 DEF Waiting
    <2>3. ASSUME Head(todo).do \in PlainNames PROVE Hidden(dev') /\ Still(dev') /\ UNCHANGED <<got, saved>>
      BY <1>2, <1>9, <2>2, <2>3, PlainHides
    <2>4. CASE todo \in Seq(Easy)
      <3>1. Head(todo) \in Easy /\ Tail(todo) \in Seq(Easy) BY <2>1, <2>4
      <3>2. Head(todo).do \in PlainNames \cup {"fetch", "save"}
        BY <3>1 DEF Easy, StepsBut, PlainNames, FlashWork
      <3>3. exit' = "running" => Orderly(todo', plan') BY <2>1, <3>1 DEF Orderly
      <3>4. CASE Head(todo).do \in PlainNames BY <1>2, <1>3, <2>3, <3>3, <3>4
      <3>5. CASE Head(todo).do = "fetch"
        <4>1. Fetch
          <5>1. Flash BY <1>9, <3>5, FlashDoes DEF FlashWork
          <5> QED BY <3>5, <5>1 DEF Flash, WaitDone, WaitReady, EraseArea, ProgramArea, EraseChip, SetLock,
                                    Compare, Save, Step
        <4>2. dev' = Settle(dev) /\ saved' = saved BY <4>1 DEF Fetch
        <4>3. Hidden(dev') /\ Still(dev')
          BY <1>2, <4>2, CutShape DEF InPlan, Hidden, Still
        <4>4. Head(todo).at \in Nat /\ Head(todo).len \in Nat /\ Head(todo).from \in Nat
          BY <3>1 DEF Easy, StepsBut
        <4>5. got' = AllFree BY <1>2, <4>1, <4>4, FetchBlank DEF Hidden
        <4> QED BY <1>2, <1>3, <3>3, <4>2, <4>3, <4>5
      <3>6. CASE Head(todo).do = "save"
        <4>1. Save
          <5>1. Flash BY <1>9, <3>6, FlashDoes DEF FlashWork
          <5> QED BY <3>6, <5>1 DEF Flash, WaitDone, WaitReady, EraseArea, ProgramArea, EraseChip, SetLock,
                                    Compare, Fetch, Step
        <4>2. UNCHANGED <<dev, got>> /\ saved' = [i \in 1 .. opt.size |-> got[i - 1]] BY <4>1 DEF Save
        <4>3. ASSUME NEW i \in 1 .. opt.size PROVE got[i - 1] = Free
          <5>1. opt.size \in Nat /\ opt.size <= Total /\ Total \in Nat BY Geometry, Pages DEF InPlan
          <5>2. i - 1 \in Units BY <5>1 DEF Units
          <5> QED BY <1>2, <5>2 DEF AllFree
        <4>4. Still(dev) BY <2>2, <3>6 DEF Waits
        <4> QED BY <1>2, <1>3, <3>3, <4>2, <4>3, <4>4
      <3> QED BY <3>2, <3>4, <3>5, <3>6
    <2>5. CASE Winding(todo)
      <3>1. Wipes(Head(todo)) /\ Tail(todo) \in Seq(Easy) /\ Waiting(Tail(todo))
        BY <2>5 DEF Winding, Waiting
      <3>2. exit' = "running" => Orderly(todo', plan') /\ Waiting(todo') BY <2>1, <3>1 DEF Orderly
      <3>3. Head(todo).do \in {"chipErase", "regress", "erase"} BY <3>1 DEF Wipes, Area
      <3>4. EraseChip \/ EraseArea
        <4>1. Flash BY <1>9, <3>3, FlashDoes DEF FlashWork
        <4> QED BY <3>3, <4>1 DEF Flash, WaitDone, WaitReady, ProgramArea, SetLock, Compare, Fetch, Save,
                                  Step
      <3>5. UNCHANGED <<got, saved>> BY <3>4 DEF EraseChip, EraseArea, OnlyDevice
      <3>6. Hidden(dev')
        <4>1. CASE EraseChip
          <5>1. dev' = Chip(dev) \/ dev' = Settle(dev) BY <4>1 DEF EraseChip
          <5>2. Hidden(Chip(dev)) BY ChipShape, Apart DEF InPlan, Hidden
          <5>3. Hidden(Settle(dev)) BY <1>2, CutShape DEF InPlan, Hidden
          <5> QED BY <5>1, <5>2, <5>3
        <4>2. CASE EraseArea
          <5>1. Head(todo) = Area("erase", 0, Total)
            BY <3>1, <4>2 DEF EraseArea, Step, Wipes
          <5>2. Span(Head(todo)) = Units
            <6>1. Head(todo).at = 0 /\ Head(todo).len = Total BY <5>1 DEF Area
            <6>2. Total \in Nat BY Geometry
            <6> QED BY <6>1, <6>2 DEF Span, Units
          <5>3. dev' = Erased(dev, Head(todo)) BY <4>2 DEF EraseArea
          <5>4. /\ dev'.locked = dev.locked
                /\ \/ dev'.flash = dev.flash /\ dev'.busy = {}
                   \/ /\ dev'.busy = Units
                      /\ dev'.flash = [u \in Units |-> IF u \in Units THEN Free ELSE dev.flash[u]]
            BY <5>2, <5>3, EraseShape DEF InPlan
          <5>5. dev'.flash = dev.flash \/ dev'.flash = AllFree BY <5>4 DEF AllFree
          <5>6. LockUnit \notin dev'.busy BY <5>4, Apart
          <5> QED BY <1>2, <5>4, <5>5, <5>6 DEF Hidden
        <4> QED BY <3>4, <4>1, <4>2
      <3> QED BY <1>2, <1>3, <3>2, <3>5, <3>6
    <2>6. CASE todo \in Seq(Mild) /\ plan # <<>> /\ plan[1][1] = "fuse"
      <3>1. Head(todo) \in Mild /\ Tail(todo) \in Seq(Mild) BY <2>1, <2>6
      <3>2. Head(todo).do \in PlainNames \cup FuseWork
        BY <3>1 DEF Mild, StepsBut, PlainNames
      <3>3. exit' = "running" => Orderly(todo', plan') BY <2>1, <2>6, <3>1 DEF Orderly
      <3>4. CASE Head(todo).do \in PlainNames BY <1>2, <1>3, <2>3, <3>3, <3>4
      <3>5. CASE Head(todo).do \in FuseWork
        <4>1. FuseWrite BY <1>9, <3>5, FusesDo
        <4>2. Head(todo).at \in Nat BY <3>1 DEF Mild, StepsBut
        <4>3. Hidden(dev') /\ Still(dev') /\ UNCHANGED <<got, saved>>
          BY <1>2, <2>6, <4>1, <4>2, FuseHides
        <4> QED BY <1>2, <1>3, <3>3, <4>3
      <3> QED BY <3>2, <3>4, <3>5
    <2> QED BY <1>2, <2>4, <2>5, <2>6 DEF Orderly
  <1> QED BY <1>5, <1>6, <1>7, <1>8, <1>9 DEF Next, Working

LEMMA LockInit == EdbgInit => LockInv
  <1> SUFFICES ASSUME EdbgInit PROVE LockInv OBVIOUS
  <1>1. /\ driver \in Drivers /\ \E c \in Cases : cmd = c.cmd /\ world = c.world
        /\ dev = NewDevice(world) /\ opt = NoOptions /\ plan = <<>> /\ todo = <<>>
        /\ got = AllFree /\ saved = <<>>
    BY SessionAssumption DEF EdbgInit, Init, SessionAssumption, AllFree
  <1>2. InPlan
    <2>1. IsDevice(dev) BY <1>1 DEF NewDevice, IsDevice
    <2>2. opt \in Options BY <1>1, Geometry
    <2> QED BY <1>1, <2>1, <2>2 DEF InPlan
  <1>3. /\ dev.busy = {} /\ dev.flash = FirstFlash(world) /\ dev.fuses = FirstFuses
        /\ dev.locked = world.locked
    BY <1>1 DEF NewDevice
  <1>4. <<>> \in Seq(Plain) /\ <<>> \in Seq(Easy) /\ <<>> \in Seq(Unsaved) OBVIOUS
  <1>5. Guarded(<<>>)
    <2>1. 1 \in 1 .. Len(<<>>) + 1 /\ ~(1 <= Len(<<>>)) /\ 1 .. 1 - 1 = {} OBVIOUS
    <2> QED BY <2>1 DEF Guarded
  <1>6. world.locked => Kept BY <1>1, <1>3, <1>4, <1>5 DEF Kept
  <1>7. world.locked => Blanked BY <1>1, <1>3, <1>4 DEF Blanked
  <1>8. NoFile
    <2>1. Without(<<>>, {"save"}) BY <1>4, StepsWithout DEF Unsaved
    <2> QED BY <1>1, <2>1 DEF NoFile
  <1> QED BY <1>2, <1>6, <1>7, <1>8 DEF LockInv

LEMMA LockStill == ASSUME LockInv, UNCHANGED vars PROVE LockInv'
  <1>1. /\ UNCHANGED <<driver, cmd, world, dev, opt, plan, todo>>
        /\ UNCHANGED <<got, saved, exit>>
    BY DEF vars
  <1>2. Entry' = Entry /\ Refused' = Refused /\ FirstFlash(world)' = FirstFlash(world)
        /\ GatesOf(driver)' = GatesOf(driver)
    BY <1>1 DEF Entry, Refused, Active, FirstFlash
  <1>3. InPlan' BY <1>1, <1>2 DEF LockInv, InPlan, IsDevice
  <1>4. Kept => Kept' BY <1>1, <1>2 DEF Kept, Guarded, HasGate
  <1>5. Blanked => Blanked' BY <1>1 DEF Blanked, Winding
  <1>6. NoFile => NoFile' BY <1>1 DEF NoFile, Without
  <1> QED BY <1>1, <1>3, <1>4, <1>5, <1>6 DEF LockInv

LEMMA LockStep == ASSUME LockInv, [EdbgNext]_edbgVars PROVE LockInv'
  <1>1. CASE UNCHANGED vars BY <1>1, LockStill
  <1>2. CASE Next
    <2>1. InPlan' BY <1>2, InPlanStep DEF LockInv
    <2>2. UNCHANGED <<cmd, world>>
      <3>1. CASE Working BY <3>1, WorkMoves
      <3>2. CASE Main \/ Begin \/ NextOperation \/ Fail
        BY <3>2 DEF Main, Begin, NextOperation, Fail, OnlyProgress, OnlyDevice
      <3> QED BY <1>2, <3>1, <3>2 DEF Next, Working
    <2>3. world.locked /\ "unlock" \notin cmd.acts => Kept' BY <1>2, KeptStep DEF LockInv
    <2>4. world.locked /\ "unlock" \in cmd.acts /\ "read" \in cmd.acts => Blanked'
      BY <1>2, BlankStep DEF LockInv
    <2>5. world.locked /\ "unlock" \in cmd.acts /\ "read" \notin cmd.acts => NoFile'
      BY <1>2, NoFileStep DEF LockInv
    <2> QED BY <2>1, <2>2, <2>3, <2>4, <2>5 DEF LockInv
  <1>3. UNCHANGED vars \/ Next
    BY DEF EdbgNext, SessionStep, QueueStep, JtagStep, edbgVars
  <1> QED BY <1>1, <1>2, <1>3

(* check_lock of the drivers and what target_unlock does: a locked device is *)
(* neither changed nor read by a run that was not told to unlock it, and one *)
(* that was gives away nothing of what it held, however the run ends.        *)
THEOREM LockedUntouched == EdbgSpec => []LockedIsUntouched
  <1>1. LockInv => LockedIsUntouched
    <2> SUFFICES ASSUME LockInv, world.locked
                 PROVE  /\ "unlock" \notin cmd.acts => /\ dev.flash = FirstFlash(world)
                                                       /\ dev.fuses = FirstFuses /\ saved = <<>>
                        /\ \A i \in DOMAIN saved : saved[i] = Free
      BY DEF LockedIsUntouched
    <2>1. CASE "unlock" \notin cmd.acts BY <2>1 DEF LockInv, Kept
    <2>2. CASE "unlock" \in cmd.acts /\ "read" \in cmd.acts BY <2>2 DEF LockInv, Blanked
    <2>3. CASE "unlock" \in cmd.acts /\ "read" \notin cmd.acts BY <2>3 DEF LockInv, NoFile
    <2> QED BY <2>1, <2>2, <2>3
  <1>2. EdbgInit => LockInv BY LockInit
  <1>3. LockInv /\ [EdbgNext]_edbgVars => LockInv' BY LockStep
  <1> QED BY <1>1, <1>2, <1>3, PTL DEF EdbgSpec

-----------------------------------------------------------------------------
(* The command line: where an operation erases and writes *)

\* Multiples of a page, of a row.
LEMMA MultipleFits ==
  ASSUME NEW p \in Nat \ {0}, NEW q \in Nat, NEW r \in Nat, NEW n \in Nat, p * q + n <= p * r
  PROVE  /\ CeilDiv(n, p) \in Nat /\ p * CeilDiv(n, p) >= n
         /\ p * q + p * CeilDiv(n, p) <= p * r
  <1>1. (n + p) - 1 \in Nat OBVIOUS
  <1>2. PICK c \in Nat : c = CeilDiv(n, p) BY Counts
  <1>3. PICK m \in 0 .. p - 1 : p * c + m = (n + p) - 1
    <2>1. c = ((n + p) - 1) \div p BY <1>2 DEF CeilDiv
    <2> QED BY <1>1, <2>1, Division
  <1>4. PICK x \in Nat : x = p * c BY <1>2
  <1>5. x >= n BY <1>3, <1>4
  <1>6. q + c <= r
    <2>1. SUFFICES ASSUME r + 1 <= q + c PROVE FALSE OBVIOUS
    <2>2. p * (r + 1) <= p * (q + c) BY <2>1, Z3
    <2>3. p * (r + 1) = p * r + p /\ p * (q + c) = p * q + p * c BY Z3
    <2>4. PICK y \in Nat, z \in Nat : y = p * r /\ z = p * q OBVIOUS
    <2>5. z + n <= y /\ y + p <= z + x BY <1>4, <2>2, <2>3, <2>4
    <2> QED BY <1>3, <1>4, <2>5
  <1>7. p * (q + c) <= p * r BY <1>6, Z3
  <1>8. p * (q + c) = p * q + p * c BY Z3
  <1> QED BY <1>2, <1>4, <1>5, <1>7, <1>8

LEMMA Below ==
  ASSUME NEW k \in Nat, NEW n \in Nat, NEW i \in Nat, i < n
  PROVE  i * k \in Nat /\ i * k + k <= k * n
  <1>1. i + 1 <= n OBVIOUS
  <1>2. k * (i + 1) <= k * n BY <1>1, Z3
  <1>3. k * (i + 1) = i * k + k BY Z3
  <1> QED BY <1>2, <1>3

LEMMA WholeMultiple ==
  ASSUME NEW a \in Nat, NEW p \in Nat \ {0}, a % p = 0
  PROVE  \E q \in Nat : a = p * q /\ q = a \div p
  <1>1. a \div p \in Nat /\ p * (a \div p) + (a % p) = a BY Division
  <1>2. PICK q \in Nat : q = a \div p BY <1>1
  <1>3. p * q \in Nat OBVIOUS
  <1> QED BY <1>1, <1>2, <1>3

\* The flash is made of pages and the pages of rows.
PageRows == PageUnits \div RowUnits
LEMMA Layout ==
  /\ PageRows \in Nat /\ PageUnits = RowUnits * PageRows
  /\ \E n \in Nat : Total = PageUnits * n
  /\ \E n \in Nat : Accessible = PageUnits * n /\ n = Accessible \div PageUnits
  <1>1. PageUnits % RowUnits = 0 /\ Total % (2 * PageUnits) = 0 /\ Accessible % PageUnits = 0
    BY GeometryAssumption DEF GeometryAssumption
  <1>2. PageRows \in Nat /\ PageUnits = RowUnits * PageRows
    BY <1>1, Geometry, WholeMultiple DEF PageRows
  <1>3. \E n \in Nat : Accessible = PageUnits * n /\ n = Accessible \div PageUnits
    BY <1>1, Geometry, WholeMultiple
  <1>4. PICK p \in Nat \ {0}, t \in Nat \ {0} : p = PageUnits /\ t = Total BY Geometry
  <1>5. PICK q \in Nat : t = (2 * p) * q
    <2>1. 2 * p \in Nat \ {0} /\ t % (2 * p) = 0 BY <1>1, <1>4
    <2> QED BY <2>1, WholeMultiple
  <1>6. t = p * (2 * q) /\ 2 * q \in Nat BY <1>5, Z3
  <1> QED BY <1>2, <1>3, <1>4, <1>6

\* The steps of an operation, apart from select and the fuse commands, that
\* erase or write only units of R.
FuseSide == FuseWork \cup {"fparse", "fread", "fapply", "fmatch", "fgather"}
Opening == StepsBut(FlashWork \cup FuseSide)
Inside(s, R) ==
  /\ s.do \in {"erase", "program"} => Span(s) \subseteq R
  /\ s.do \in {"chipErase", "regress"} => Units \subseteq R
Within(R) == {s \in StepsBut(FuseSide \cup {"options"}) : Inside(s, R)}

LEMMA SafeWithin ==
  ASSUME NEW R
  PROVE  /\ Do("disclose") \in Within(R) /\ Do("disconnect") \in Within(R)
         /\ Do("connect") \in Within(R) /\ Do("configure") \in Within(R)
         /\ Do("led") \in Within(R) /\ Do("link") \in Within(R) /\ Do("pinLow") \in Within(R)
         /\ Do("pinHigh") \in Within(R) /\ Do("restart") \in Within(R)
         /\ Do("extend") \in Within(R) /\ Do("halt") \in Within(R)
         /\ Do("release") \in Within(R) /\ Do("letGo") \in Within(R)
         /\ Do("endExtension") \in Within(R) /\ Do("unimplemented") \in Within(R)
         /\ Do("wait") \in Within(R) /\ Do("settle") \in Within(R) /\ Do("setLock") \in Within(R)
         /\ Do("save") \in Within(R) /\ Do("next") \in Within(R)
         /\ Do("errors") \in Within(R)
  <1> DEFINE X == {"disclose", "disconnect", "connect", "configure", "led", "link", "pinLow",
                   "pinHigh", "restart", "extend", "halt", "release", "letGo", "endExtension",
                   "unimplemented", "errors", "wait", "settle", "setLock", "save", "next"}
  <1>1. X \subseteq StepNames \ (FuseSide \cup {"options"}) BY DEF StepNames, FuseSide, FuseWork
  <1>2. X \cap {"erase", "program", "chipErase", "regress"} = {} OBVIOUS
  <1>3. ASSUME NEW d \in X PROVE Do(d) \in Within(R)
    <2>1. Do(d) \in StepsBut(FuseSide \cup {"options"}) BY <1>1, AreaTyped
    <2>2. Do(d).do = d BY DEF Do, Area
    <2> QED BY <1>2, <2>1, <2>2 DEF Within, Inside
  <1> QED BY <1>3

LEMMA SpanWithin ==
  ASSUME NEW R, NEW a \in Nat, NEW l \in Nat, NEW f \in Nat, a .. a + l - 1 \subseteq R
  PROVE  Area("erase", a, l) \in Within(R) /\ Data(a, l, f) \in Within(R)
  <1>1. "erase" \in StepNames \ (FuseSide \cup {"options"}) /\ "program" \in StepNames \ (FuseSide \cup {"options"})
    BY DEF StepNames, FuseSide, FuseWork
  <1>2. /\ Area("erase", a, l) \in StepsBut(FuseSide \cup {"options"})
        /\ Data(a, l, f) \in StepsBut(FuseSide \cup {"options"})
    BY <1>1, StepTyped DEF Area, Data
  <1>3. Span(Area("erase", a, l)) = a .. a + l - 1 /\ Span(Data(a, l, f)) = a .. a + l - 1
    BY DEF Span, Area, Data
  <1>4. Area("erase", a, l).do = "erase" /\ Data(a, l, f).do = "program" BY DEF Area, Data
  <1> QED BY <1>2, <1>3, <1>4 DEF Within, Inside

LEMMA WholeWithin ==
  ASSUME NEW R, Units \subseteq R
  PROVE  /\ Do("chipErase") \in Within(R) /\ Do("regress") \in Within(R)
         /\ Area("erase", 0, Total) \in Within(R)
         /\ Area("erase", 0, Total \div 2) \in Within(R)
         /\ Area("erase", Total \div 2, Total \div 2) \in Within(R)
  <1>1. "chipErase" \in StepNames \ (FuseSide \cup {"options"}) /\ "regress" \in StepNames \ (FuseSide \cup {"options"})
    BY DEF StepNames, FuseSide, FuseWork
  <1>2. /\ Do("chipErase") \in StepsBut(FuseSide \cup {"options"})
        /\ Do("regress") \in StepsBut(FuseSide \cup {"options"})
    BY <1>1, AreaTyped
  <1>3. Do("chipErase").do = "chipErase" /\ Do("regress").do = "regress" BY DEF Do, Area
  <1>4. Do("chipErase") \in Within(R) /\ Do("regress") \in Within(R)
    BY <1>2, <1>3 DEF Within, Inside
  <1>5. PICK h \in Nat : h = Total \div 2 /\ h + h = Total BY Geometry
  <1>6. Units = 0 .. (h + h) - 1 BY <1>5 DEF Units
  <1>7. /\ 0 .. (0 + (h + h)) - 1 \subseteq R /\ 0 .. (0 + h) - 1 \subseteq R
        /\ h .. (h + h) - 1 \subseteq R
    BY <1>6
  <1>8. /\ Area("erase", 0, h + h) \in Within(R) /\ Area("erase", 0, h) \in Within(R)
        /\ Area("erase", h, h) \in Within(R)
    BY <1>7, SpanWithin
  <1> QED BY <1>4, <1>5, <1>8

\* What neither erases nor programs is within anything.
Calm == StepsBut(FuseSide \cup {"options", "erase", "program", "chipErase", "regress"})
LEMMA CalmWithin ==
  ASSUME NEW R
  PROVE  Calm \subseteq Within(R)
  <1>1. \A s \in Calm : s \in StepsBut(FuseSide \cup {"options"})
    BY DEF Calm, StepsBut
  <1>2. \A s \in Calm : s.do \notin {"erase", "program", "chipErase", "regress"}
    BY DEF Calm, StepsBut
  <1> QED BY <1>1, <1>2 DEF Within, Inside

LEMMA ComparesWithin ==
  ASSUME NEW R, NEW o \in Options, NEW chunk \in Nat \ {0}
  PROVE  Compared(o, chunk) \in Seq(Within(R)) /\ Fetched(o, chunk) \in Seq(Within(R))
  <1> DEFINE X == FuseSide \cup {"options", "erase", "program", "chipErase", "regress"}
  <1>1. "compare" \in StepNames \ X /\ "fetch" \in StepNames \ X BY DEF StepNames, FuseSide, FuseWork
  <1>2. o.file \in Nat /\ o.size \in Nat BY Pages
  <1>3. /\ InBlocks("compare", o, o.file, chunk) \in Seq(Calm)
        /\ InBlocks("fetch", o, o.size, chunk) \in Seq(Calm)
    <2> HIDE DEF X
    <2>1. /\ InBlocks("compare", o, o.file, chunk) \in Seq(StepsBut(X))
          /\ InBlocks("fetch", o, o.size, chunk) \in Seq(StepsBut(X))
      BY <1>1, <1>2, BlocksTyped
    <2> QED BY <2>1 DEF Calm, X
  <1> HIDE DEF X
  <1>4. /\ InBlocks("compare", o, o.file, chunk) \in Seq(Within(R))
        /\ InBlocks("fetch", o, o.size, chunk) \in Seq(Within(R))
    <2>1. \A t \in Seq(Calm) : t \in Seq(Within(R))
      <3>1. ASSUME NEW t \in Seq(Calm) PROVE \A i \in 1 .. Len(t) : t[i] \in Within(R)
        BY CalmWithin
      <3> QED BY <3>1, Retyped
    <2> QED BY <1>3, <2>1
  <1>5. <<Do("save")>> \in Seq(Within(R)) BY SafeWithin
  <1> QED BY <1>4, <1>5 DEF Compared, Fetched

\* The operations that do not erase.
LEMMA QuietWithin ==
  ASSUME NEW R, NEW d \in Drivers, NEW o \in Options
  PROVE  /\ Ops(d, o).deselect \in Seq(Within(R)) /\ Ops(d, o).lock \in Seq(Within(R))
         /\ Ops(d, o).verify \in Seq(Within(R)) /\ Ops(d, o).read \in Seq(Within(R))
  <1>1. /\ Unimplemented \in Seq(Within(R)) /\ Release \in Seq(Within(R))
        /\ <<Do("letGo"), Do("restart")>> \in Seq(Within(R))
        /\ <<Do("setLock")>> \in Seq(Within(R)) /\ <<Do("setLock")>> \o <<Do("wait")>> \in Seq(Within(R))
        /\ <<Do("setLock"), Do("settle")>> \in Seq(Within(R))
    BY SafeWithin DEF Unimplemented, Release
  <1>2. /\ Compared(o, RowUnits) \in Seq(Within(R)) /\ Compared(o, PageUnits) \in Seq(Within(R))
        /\ Fetched(o, RowUnits) \in Seq(Within(R)) /\ Fetched(o, PageUnits) \in Seq(Within(R))
    BY Geometry, ComparesWithin
  <1>3. Ops(d, o).deselect \in {Release, <<Do("letGo"), Do("restart")>>}
    BY OpsOf DEF Drivers, G0Ops, G4Ops, WbOps, GdOps, M4Ops, PyOps, SdOps, SeOps, A3Ops, A4Ops, A7Ops,
                 G0Deselect, G4Deselect, WbDeselect, GdDeselect, M4Deselect, PyDeselect, SdDeselect,
                 SeDeselect, A3Deselect, A4Deselect, A7Deselect
  <1>4. Ops(d, o).lock \in {Unimplemented, <<Do("setLock")>>, <<Do("setLock")>> \o <<Do("wait")>>,
                            <<Do("setLock"), Do("settle")>>}
    BY OpsOf DEF Drivers, G0Ops, G4Ops, WbOps, GdOps, M4Ops, PyOps, SdOps, SeOps, A3Ops, A4Ops, A7Ops,
                 GdLock, GdWait, M4Lock, M4Write, PyLock, PyWait, SdLock, SeLock, A3Lock, A4Lock, A7Lock
  <1>5. Ops(d, o).verify \in {Compared(o, RowUnits), Compared(o, PageUnits)}
    BY OpsOf DEF Drivers, G0Ops, G4Ops, WbOps, GdOps, M4Ops, PyOps, SdOps, SeOps, A3Ops, A4Ops, A7Ops,
                 G0Verify, G4Verify, WbVerify, GdVerify, M4Verify, PyVerify, SdVerify, SeVerify,
                 A3Verify, A4Verify, A7Verify
  <1>6. Ops(d, o).read \in {Fetched(o, RowUnits), Fetched(o, PageUnits)}
    BY OpsOf DEF Drivers, G0Ops, G4Ops, WbOps, GdOps, M4Ops, PyOps, SdOps, SeOps, A3Ops, A4Ops, A7Ops,
                 G0Read, G4Read, WbRead, GdRead, M4Read, PyRead, SdRead, SeRead, A3Read, A4Read, A7Read
  <1> QED BY <1>1, <1>2, <1>3, <1>4, <1>5, <1>6

\* A chip erase stays below the secure flash, where there is one.
LEMMA WbEraseWithin ==
  ASSUME NEW R, 0 .. Accessible - 1 \subseteq R
  PROVE  WbErase \in Seq(Within(R))
  <1> DEFINE Step1(p) == <<Area("erase", p * PageUnits, PageUnits)>> \o <<Do("wait")>>
             ss == [i \in 1 .. Accessible \div PageUnits |-> Step1(i - 1)]
  <1>1. PICK n \in Nat : Accessible = PageUnits * n /\ n = Accessible \div PageUnits BY Layout
  <1>2. PICK k \in Nat \ {0} : k = PageUnits BY Geometry
  <1>3. ASSUME NEW i \in 1 .. n PROVE ss[i] \in Seq(Within(R))
    <2>1. PICK p \in Nat : p = i - 1 /\ p < n OBVIOUS
    <2>2. ss[i] = Step1(p) BY <1>1, <2>1
    <2>3. PICK a \in Nat : a = p * k /\ a + k <= k * n BY <1>2, <2>1, Below
    <2>4. a .. (a + k) - 1 \subseteq R
      <3>1. Accessible = k * n /\ k * n \in Nat BY <1>1, <1>2
      <3> QED BY <2>3, <3>1
    <2>5. Area("erase", a, k) \in Within(R) BY <2>4, SpanWithin
    <2>6. Step1(p) = <<Area("erase", a, k)>> \o <<Do("wait")>> BY <1>2, <2>3
    <2> HIDE DEF ss, Step1
    <2>7. <<Area("erase", a, k)>> \o <<Do("wait")>> \in Seq(Within(R)) BY <2>5, SafeWithin
    <2> QED BY <2>2, <2>6, <2>7
  <1>4. ss = [i \in 1 .. n |-> ss[i]] BY <1>1
  <1>5. WbErase = FlattenSeq(ss) BY DEF WbErase, Times, WbWait
  <1> HIDE DEF ss
  <1> QED BY <1>3, <1>4, <1>5, Looped

LEMMA EraseWithin ==
  ASSUME NEW R, NEW d \in Drivers, NEW o, 0 .. SizeFor(d) - 1 \subseteq R
  PROVE  Ops(d, o).erase \in Seq(Within(R)) /\ Ops(d, o).unlock \in Seq(Within(R))
  <1>1. CASE d = "stm32wb55"
    <2>1. 0 .. Accessible - 1 \subseteq R BY <1>1 DEF SizeFor
    <2>2. WbErase \in Seq(Within(R)) BY <2>1, WbEraseWithin
    <2>3. Unimplemented \in Seq(Within(R)) BY SafeWithin DEF Unimplemented
    <2> QED BY <1>1, <2>2, <2>3, OpsOf DEF WbOps
  <1>2. CASE d # "stm32wb55"
    <2>1. Units \subseteq R BY <1>2 DEF SizeFor, Units
    <2> DEFINE T == Within(R)
    <2>2. /\ <<Area("erase", 0, Total)>> \in Seq(T) /\ <<Area("erase", 0, Total), Do("settle")>> \in Seq(T)
          /\ <<Area("erase", 0, Total \div 2), Do("wait")>> \in Seq(T)
          /\ <<Area("erase", Total \div 2, Total \div 2), Do("wait")>> \in Seq(T)
          /\ <<Do("regress")>> \in Seq(T) /\ <<Do("chipErase"), Do("wait")>> \in Seq(T)
          /\ <<Do("chipErase"), Do("settle")>> \in Seq(T)
          /\ <<Do("wait")>> \in Seq(T) /\ Unimplemented \in Seq(T)
          /\ Extend \in Seq(T) /\ FinishReset \in Seq(T)
      BY <2>1, SafeWithin, WholeWithin DEF Unimplemented, Extend, FinishReset
    <2> DEFINE e1 == <<Area("erase", 0, Total)>> \o <<Do("wait")>>
               e2 == <<Area("erase", 0, Total), Do("settle")>>
               e3 == <<Area("erase", 0, Total \div 2), Do("wait")>>
                     \o <<Area("erase", Total \div 2, Total \div 2), Do("wait")>>
               e4 == <<Do("regress")>> \o <<Do("wait")>>
               e5 == <<Do("chipErase"), Do("wait")>>
               e6 == <<Do("chipErase"), Do("settle")>> \o Extend \o FinishReset
               E == {e1, e2, e3, e4, e5, e6, Unimplemented}
    <2>3. \A e \in E : e \in Seq(T)
      <3> HIDE DEF T
      <3>1. e1 \in Seq(T) /\ e2 \in Seq(T) BY <2>2
      <3>2. e3 \in Seq(T) /\ e4 \in Seq(T) BY <2>2
      <3>3. e5 \in Seq(T) /\ e6 \in Seq(T) BY <2>2
      <3> HIDE DEF e1, e2, e3, e4, e5, e6
      <3> QED BY <2>2, <3>1, <3>2, <3>3
    <2>4. Ops(d, o).erase \in E /\ Ops(d, o).unlock \in E
      <3>1. <<Do("extend"), Do("link")>> = Extend /\ <<Do("halt"), Do("endExtension")>> = FinishReset
        BY DEF Extend, FinishReset
      <3>2. /\ G0Erase = e1 /\ G4Erase = e1 /\ GdErase = e1 /\ PyErase = e1
            /\ A3Erase = e2 /\ A4Erase = e2 /\ A7Erase = e2 /\ M4Erase = e3
            /\ GdUnlock = e4 /\ PyUnlock = e4 /\ M4Unlock = e5
            /\ SdErase = e6 /\ SeErase = e6
        BY <3>1 DEF G0Erase, G0Wait, G4Erase, G4Wait, GdErase, GdWait, PyErase, PyWait, A3Erase, A4Erase,
                    A7Erase, M4Erase, M4Command, GdUnlock, PyUnlock, M4Unlock, SdErase, SeErase,
                    SeExtend, SeFinishReset
      <3> HIDE DEF e1, e2, e3, e4, e5, e6
      <3> QED BY <1>2, <3>2, OpsOf
            DEF Drivers, G0Ops, G4Ops, GdOps, M4Ops, PyOps, SdOps, SeOps, A3Ops, A4Ops, A7Ops
    <2> HIDE DEF E, T
    <2> QED BY <2>3, <2>4 DEF T
  <1> QED BY <1>1, <1>2

\* The pages a file lies in.
PageRange(o) == {u \in Units : o.offset <= u /\ u < o.offset + PagesOf(o) * PageUnits}
Paged(o) == o \in Options /\ o.offset % PageUnits = 0 /\ o.offset + o.file <= Total

LEMMA PagesFit ==
  ASSUME NEW o, Paged(o)
  PROVE  /\ o.offset \in Nat /\ PagesOf(o) \in Nat /\ PageUnits * PagesOf(o) \in Nat
         /\ PageUnits * PagesOf(o) >= o.file
         /\ o.offset .. o.offset + PageUnits * PagesOf(o) - 1 \subseteq PageRange(o)
         /\ \A p \in Nat : PageAt(o, p) = o.offset + p * PageUnits
  <1>1. o.offset \in Nat /\ o.file \in Nat /\ PagesOf(o) \in Nat BY Pages DEF Paged
  <1>2. PICK k \in Nat \ {0} : k = PageUnits BY Geometry
  <1>3. PICK r \in Nat : Total = k * r BY <1>2, Layout
  <1>4. PICK q \in Nat : o.offset = k * q /\ q = o.offset \div k
    BY <1>1, <1>2, WholeMultiple DEF Paged
  <1>5. PICK n \in Nat : n = PagesOf(o) BY <1>1
  <1>6. k * n >= o.file /\ k * q + k * n <= k * r
    BY <1>1, <1>2, <1>3, <1>4, <1>5, MultipleFits DEF Paged, PagesOf
  <1>7. PICK m \in Nat : m = k * n /\ m = n * k OBVIOUS
  <1>8. o.offset + m <= Total /\ Total \in Nat BY <1>3, <1>4, <1>6, <1>7, Geometry
  <1>9. PageRange(o) = {u \in Units : o.offset <= u /\ u < o.offset + m}
    BY <1>2, <1>5, <1>7 DEF PageRange
  <1>10. o.offset .. o.offset + m - 1 \subseteq PageRange(o) BY <1>1, <1>8, <1>9 DEF Units
  <1>11. ASSUME NEW p \in Nat PROVE PageAt(o, p) = o.offset + p * PageUnits
    <2>1. PageAt(o, p) = (q + p) * k BY <1>2, <1>4 DEF PageAt
    <2>2. (q + p) * k = k * q + p * k BY Z3
    <2> QED BY <1>2, <1>4, <2>1, <2>2
  <1> QED BY <1>1, <1>2, <1>5, <1>6, <1>7, <1>10, <1>11

\* Page p of the file.
LEMMA PageWithin ==
  ASSUME NEW R, NEW o, Paged(o), PageRange(o) \subseteq R, NEW p \in Nat, p < PagesOf(o)
  PROVE  /\ Area("erase", PageAt(o, p), PageUnits) \in Within(R)
         /\ Area("erase", o.offset + p * PageUnits, PageUnits) \in Within(R)
         /\ WholePage(o, p) \in Seq(Within(R)) /\ RowsOfPage(o, p) \in Seq(Within(R))
  <1>1. PICK k \in Nat \ {0} : k = PageUnits BY Geometry
  <1>2. PICK n \in Nat : n = PagesOf(o) BY PagesFit
  <1>3. PICK b \in Nat : b = p * k /\ b + k <= k * n BY <1>2, Below
  <1>4. PICK off \in Nat : off = o.offset BY PagesFit
  <1>5. PICK m \in Nat : m = k * n OBVIOUS
  <1>6. off .. (off + m) - 1 \subseteq R BY <1>1, <1>2, <1>4, <1>5, PagesFit
  <1>7. PageAt(o, p) = off + b BY <1>1, <1>3, <1>4, PagesFit
  <1>8. off + b .. ((off + b) + k) - 1 \subseteq R BY <1>3, <1>5, <1>6
  <1>9. Area("erase", off + b, k) \in Within(R) /\ Data(off + b, k, b) \in Within(R)
    BY <1>8, SpanWithin
  <1>10. WholePage(o, p) = <<Data(off + b, k, b)>> BY <1>1, <1>3, <1>4 DEF WholePage
  <1>11. WholePage(o, p) \in Seq(Within(R)) BY <1>9, <1>10
  <1>12. PICK r \in Nat \ {0} : r = RowUnits BY Geometry
  <1>13. PICK c \in Nat : c = PageRows /\ k = r * c BY <1>1, <1>12, Layout
  <1> DEFINE Row(i) == Data(off + b + (i - 1) * r, r, b + (i - 1) * r)
  <1>14. ASSUME NEW i \in 1 .. c PROVE Row(i) \in Within(R)
    <2>1. PICK j \in Nat : j = i - 1 /\ j < c OBVIOUS
    <2>2. PICK a \in Nat : a = j * r /\ a + r <= r * c BY <2>1, Below
    <2>3. a + r <= k BY <1>13, <2>2
    <2>4. (off + b) + a .. (((off + b) + a) + r) - 1 \subseteq R BY <1>8, <2>3
    <2>5. Data((off + b) + a, r, b + a) \in Within(R) BY <2>4, SpanWithin
    <2> QED BY <2>1, <2>2, <2>5
  <1>15. RowsOfPage(o, p) = [i \in 1 .. c |-> Row(i)]
    <2>1. PageUnits \div RowUnits = c BY <1>13 DEF PageRows
    <2> QED BY <1>1, <1>3, <1>4, <1>12, <2>1 DEF RowsOfPage
  <1> HIDE DEF Row
  <1>16. RowsOfPage(o, p) \in Seq(Within(R)) BY <1>14, <1>15
  <1> QED BY <1>1, <1>3, <1>4, <1>7, <1>9, <1>11, <1>16

\* Row i of the file.
LEMMA RowWithin ==
  ASSUME NEW R, NEW o, Paged(o), PageRange(o) \subseteq R,
         NEW i \in Nat, i < CeilDiv(o.file, RowUnits)
  PROVE  /\ Data(o.offset + i * RowUnits, RowUnits, i * RowUnits) \in Within(R)
         /\ Commit(o.offset + i * RowUnits, i * RowUnits) \in Within(R)
  <1>1. PICK r \in Nat \ {0} : r = RowUnits BY Geometry
  <1>2. PICK off \in Nat, f \in Nat : off = o.offset /\ f = o.file BY Pages DEF Paged
  <1>3. PICK k \in Nat, n \in Nat : k = PageUnits /\ n = PagesOf(o) BY Geometry, PagesFit
  <1>4. PICK c \in Nat : k = r * c BY <1>1, <1>3, Layout
  <1>5. PICK e \in Nat : e = CeilDiv(f, r) BY <1>1, Counts
  <1>6. r * e <= k * n
    <2>1. PICK s \in Nat : s = c * n OBVIOUS
    <2>2. k * n = r * s BY <1>4, <2>1, Z3
    <2>3. r * 0 + f <= r * s BY <1>2, <1>3, <2>2, PagesFit
    <2>4. r * 0 + r * e <= r * s BY <1>5, <2>3, MultipleFits
    <2> QED BY <2>2, <2>4
  <1>7. PICK a \in Nat : a = i * r /\ a + r <= r * e
    BY <1>1, <1>2, <1>5, Below
  <1>8. PICK m \in Nat : m = k * n OBVIOUS
  <1>9. off .. (off + m) - 1 \subseteq R BY <1>2, <1>3, <1>8, PagesFit
  <1>10. a + r <= m BY <1>6, <1>7, <1>8
  <1>11. off + a .. ((off + a) + r) - 1 \subseteq R BY <1>9, <1>10
  <1>12. Data(off + a, r, a) \in Within(R) BY <1>11, SpanWithin
  <1>13. Commit(off + a, a) = Data(off + a, r, a) BY <1>1 DEF Commit
  <1> QED BY <1>1, <1>2, <1>7, <1>12, <1>13

-----------------------------------------------------------------------------
(* The command line: what program erases and writes *)

\* The rounds of program, page by page and row by row.
LEMMA PageRounds ==
  ASSUME NEW R, NEW o, Paged(o), PageRange(o) \subseteq R, NEW p \in Nat, p < PagesOf(o)
  PROVE  /\ <<Area("erase", PageAt(o, p), PageUnits)>> \in Seq(Within(R))
         /\ <<Area("erase", PageAt(o, p), PageUnits), Do("settle")>> \in Seq(Within(R))
         /\ M4Command(Area("erase", PageAt(o, p), PageUnits)) \in Seq(Within(R))
         /\ <<Area("erase", o.offset + p * PageUnits, PageUnits)>> \in Seq(Within(R))
         /\ <<Area("erase", o.offset + p * PageUnits, PageUnits), Do("settle")>> \in Seq(Within(R))
         /\ WholePage(o, p) \in Seq(Within(R)) /\ RowsOfPage(o, p) \in Seq(Within(R))
         /\ Settled(RowsOfPage(o, p)) \in Seq(Within(R))
  <1> DEFINE T == Within(R)
             a == Area("erase", PageAt(o, p), PageUnits)
             b == Area("erase", o.offset + p * PageUnits, PageUnits)
             w == Do("wait")
             s == Do("settle")
  <1>1. a \in T /\ b \in T /\ WholePage(o, p) \in Seq(T) /\ RowsOfPage(o, p) \in Seq(T) BY PageWithin
  <1>2. w \in T /\ s \in T BY SafeWithin
  <1>3. Settled(RowsOfPage(o, p)) \in Seq(T)
    <2> HIDE DEF T
    <2> QED BY <1>1, <1>2, SettledTyped
  <1>4. M4Command(a) = <<a, w>> BY DEF M4Command
  <1> HIDE DEF T, a, b, w, s
  <1>5. <<a>> \in Seq(T) /\ <<a, s>> \in Seq(T) /\ <<a, w>> \in Seq(T) BY <1>1, <1>2
  <1>6. <<b>> \in Seq(T) /\ <<b, s>> \in Seq(T) BY <1>1, <1>2
  <1> QED BY <1>1, <1>3, <1>4, <1>5, <1>6 DEF T, a, b, w, s

LEMMA RowRounds ==
  ASSUME NEW R, NEW o, Paged(o), PageRange(o) \subseteq R, NEW p \in Nat, p < CeilDiv(o.file, RowUnits)
  PROVE  /\ <<Commit(o.offset + p * RowUnits, p * RowUnits), Do("settle")>>
              \in Seq(Within(R))
         /\ <<Data(o.offset + p * RowUnits, RowUnits, p * RowUnits), Do("settle")>> \in Seq(Within(R))
  <1> DEFINE a == Commit(o.offset + p * RowUnits, p * RowUnits)
             b == Data(o.offset + p * RowUnits, RowUnits, p * RowUnits)
  <1>1. a \in Within(R) /\ b \in Within(R) BY RowWithin
  <1> HIDE DEF a, b
  <1>2. <<a, Do("settle")>> \in Seq(Within(R)) /\ <<b, Do("settle")>> \in Seq(Within(R))
    BY <1>1, SafeWithin
  <1> QED BY <1>2 DEF a, b

\* program of the drivers that erase the pages the file lies in.
LEMMA PagedWithin ==
  ASSUME NEW R, NEW d \in Drivers \ {"gd32f4xx", "sam3"}, NEW o, Paged(o), PageRange(o) \subseteq R
  PROVE  Ops(d, o).program \in Seq(Within(R))
  <1> DEFINE T == Within(R)
  <1>1. PICK n \in Nat : n = PagesOf(o) BY PagesFit
  <1>2. PICK m \in Nat : m = CeilDiv(o.file, RowUnits) BY Pages DEF Paged
  <1>3. <<Do("wait")>> \in Seq(T) /\ <<Do("settle")>> \in Seq(T) /\ <<Do("errors")>> \in Seq(T)
    BY SafeWithin
  <1> HIDE DEF T
  <1>4. ASSUME NEW i \in 1 .. n
        PROVE  /\ i - 1 \in Nat
               /\ <<Area("erase", PageAt(o, (i - 1)), PageUnits)>> \in Seq(T)
               /\ <<Area("erase", PageAt(o, (i - 1)), PageUnits), Do("settle")>> \in Seq(T)
               /\ M4Command(Area("erase", PageAt(o, (i - 1)), PageUnits)) \in Seq(T)
               /\ <<Area("erase", o.offset + (i - 1) * PageUnits, PageUnits)>> \in Seq(T)
               /\ <<Area("erase", o.offset + (i - 1) * PageUnits, PageUnits), Do("settle")>> \in Seq(T)
               /\ WholePage(o, (i - 1)) \in Seq(T) /\ RowsOfPage(o, (i - 1)) \in Seq(T)
               /\ Settled(RowsOfPage(o, (i - 1))) \in Seq(T)
    <2>1. i - 1 \in Nat /\ i - 1 < PagesOf(o) BY <1>1
    <2>2. PICK p \in Nat : p = i - 1 /\ p < PagesOf(o) BY <2>1
    <2> QED BY <2>1, <2>2, PageRounds DEF T
  <1>5. ASSUME NEW i \in 1 .. m
        PROVE  /\ <<Commit(o.offset + (i - 1) * RowUnits, (i - 1) * RowUnits),
                    Do("settle")>> \in Seq(T)
               /\ <<Data(o.offset + (i - 1) * RowUnits, RowUnits, (i - 1) * RowUnits), Do("settle")>> \in Seq(T)
    <2>1. PICK p \in Nat : p = i - 1 /\ p < CeilDiv(o.file, RowUnits) BY <1>2
    <2> QED BY <2>1, RowRounds DEF T
  <1>6. CASE d = "stm32g0"
    <2> DEFINE ss == [i \in 1 .. n |-> <<Area("erase", PageAt(o, (i - 1)), PageUnits)>> \o <<Do("wait")>>
                  \o RowsOfPage(o, (i - 1)) \o <<Do("wait")>>]
    <2>1. FlattenSeq(ss) \in Seq(T)
      <3>1. ASSUME NEW i \in 1 .. n PROVE ss[i] \in Seq(T)
        <4>1. ss[i] = <<Area("erase", PageAt(o, (i - 1)), PageUnits)>> \o <<Do("wait")>>
                  \o RowsOfPage(o, (i - 1)) \o <<Do("wait")>> OBVIOUS
        <4> HIDE DEF ss
        <4> QED BY <1>3, <1>4, <1>5, <4>1
      <3>2. ss = [i \in 1 .. n |-> ss[i]] OBVIOUS
      <3> HIDE DEF ss
      <3> QED BY <1>1, <1>2, <3>1, <3>2, Looped
    <2>2. G0Program(o) = FlattenSeq(ss) BY <1>1, <1>2 DEF G0Program, Times, G0Wait
    <2> HIDE DEF ss
    <2>3. G0Program(o) \in Seq(T) BY <1>3, <2>1, <2>2
    <2>4. Ops(d, o).program = G0Program(o) BY <1>6, OpsOf DEF G0Ops
    <2> QED BY <2>3, <2>4 DEF T
  <1>7. CASE d = "stm32g4"
    <2> DEFINE ss == [i \in 1 .. n |-> <<Area("erase", PageAt(o, (i - 1)), PageUnits)>> \o <<Do("wait")>>
                  \o RowsOfPage(o, (i - 1)) \o <<Do("wait")>>]
    <2>1. FlattenSeq(ss) \in Seq(T)
      <3>1. ASSUME NEW i \in 1 .. n PROVE ss[i] \in Seq(T)
        <4>1. ss[i] = <<Area("erase", PageAt(o, (i - 1)), PageUnits)>> \o <<Do("wait")>>
                  \o RowsOfPage(o, (i - 1)) \o <<Do("wait")>> OBVIOUS
        <4> HIDE DEF ss
        <4> QED BY <1>3, <1>4, <1>5, <4>1
      <3>2. ss = [i \in 1 .. n |-> ss[i]] OBVIOUS
      <3> HIDE DEF ss
      <3> QED BY <1>1, <1>2, <3>1, <3>2, Looped
    <2>2. G4Program(o) = FlattenSeq(ss) BY <1>1, <1>2 DEF G4Program, Times, G4Wait
    <2> HIDE DEF ss
    <2>3. G4Program(o) \in Seq(T) BY <1>3, <2>1, <2>2
    <2>4. Ops(d, o).program = G4Program(o) BY <1>7, OpsOf DEF G4Ops
    <2> QED BY <2>3, <2>4 DEF T
  <1>8. CASE d = "stm32wb55"
    <2> DEFINE ss == [i \in 1 .. n |-> <<Area("erase", PageAt(o, (i - 1)), PageUnits)>> \o <<Do("wait")>>]
    <2>1. FlattenSeq(ss) \in Seq(T)
      <3>1. ASSUME NEW i \in 1 .. n PROVE ss[i] \in Seq(T)
        <4>1. ss[i] = <<Area("erase", PageAt(o, (i - 1)), PageUnits)>> \o <<Do("wait")>> OBVIOUS
        <4> HIDE DEF ss
        <4> QED BY <1>3, <1>4, <1>5, <4>1
      <3>2. ss = [i \in 1 .. n |-> ss[i]] OBVIOUS
      <3> HIDE DEF ss
      <3> QED BY <1>1, <1>2, <3>1, <3>2, Looped
    <2> DEFINE tt == [i \in 1 .. n |-> RowsOfPage(o, (i - 1)) \o <<Do("wait")>>]
    <2>2. FlattenSeq(tt) \in Seq(T)
      <3>1. ASSUME NEW i \in 1 .. n PROVE tt[i] \in Seq(T)
        <4>1. tt[i] = RowsOfPage(o, (i - 1)) \o <<Do("wait")>> OBVIOUS
        <4> HIDE DEF tt
        <4> QED BY <1>3, <1>4, <1>5, <4>1
      <3>2. tt = [i \in 1 .. n |-> tt[i]] OBVIOUS
      <3> HIDE DEF tt
      <3> QED BY <1>1, <1>2, <3>1, <3>2, Looped
    <2>3. WbProgram(o) = FlattenSeq(ss) \o FlattenSeq(tt) BY <1>1, <1>2 DEF WbProgram, Times, WbWait
    <2> HIDE DEF ss, tt
    <2>4. WbProgram(o) \in Seq(T) BY <1>3, <2>1, <2>2, <2>3
    <2>5. Ops(d, o).program = WbProgram(o) BY <1>8, OpsOf DEF WbOps
    <2> QED BY <2>4, <2>5 DEF T
  <1>9. CASE d = "m480"
    <2> DEFINE ss == [i \in 1 .. n |-> M4Command(Area("erase", PageAt(o, (i - 1)), PageUnits))]
    <2>1. FlattenSeq(ss) \in Seq(T)
      <3>1. ASSUME NEW i \in 1 .. n PROVE ss[i] \in Seq(T)
        <4>1. ss[i] = M4Command(Area("erase", PageAt(o, (i - 1)), PageUnits)) OBVIOUS
        <4> HIDE DEF ss
        <4> QED BY <1>3, <1>4, <1>5, <4>1
      <3>2. ss = [i \in 1 .. n |-> ss[i]] OBVIOUS
      <3> HIDE DEF ss
      <3> QED BY <1>1, <1>2, <3>1, <3>2, Looped
    <2> DEFINE tt == [i \in 1 .. n |-> WholePage(o, (i - 1))]
    <2>2. FlattenSeq(tt) \in Seq(T)
      <3>1. ASSUME NEW i \in 1 .. n PROVE tt[i] \in Seq(T)
        <4>1. tt[i] = WholePage(o, (i - 1)) OBVIOUS
        <4> HIDE DEF tt
        <4> QED BY <1>3, <1>4, <1>5, <4>1
      <3>2. tt = [i \in 1 .. n |-> tt[i]] OBVIOUS
      <3> HIDE DEF tt
      <3> QED BY <1>1, <1>2, <3>1, <3>2, Looped
    <2>3. M4Program(o) = FlattenSeq(ss) \o FlattenSeq(tt) \o <<Do("errors")>> BY <1>1, <1>2 DEF M4Program, Times
    <2> HIDE DEF ss, tt
    <2>4. M4Program(o) \in Seq(T) BY <1>3, <2>1, <2>2, <2>3
    <2>5. Ops(d, o).program = M4Program(o) BY <1>9, OpsOf DEF M4Ops
    <2> QED BY <2>4, <2>5 DEF T
  <1>10. CASE d = "py32f0"
    <2> DEFINE ss == [i \in 1 .. n |-> <<Area("erase", o.offset + (i - 1) * PageUnits, PageUnits)>> \o <<Do("wait")>>
                  \o WholePage(o, (i - 1)) \o <<Do("wait")>>]
    <2>1. FlattenSeq(ss) \in Seq(T)
      <3>1. ASSUME NEW i \in 1 .. n PROVE ss[i] \in Seq(T)
        <4>1. ss[i] = <<Area("erase", o.offset + (i - 1) * PageUnits, PageUnits)>> \o <<Do("wait")>>
                  \o WholePage(o, (i - 1)) \o <<Do("wait")>> OBVIOUS
        <4> HIDE DEF ss
        <4> QED BY <1>3, <1>4, <1>5, <4>1
      <3>2. ss = [i \in 1 .. n |-> ss[i]] OBVIOUS
      <3> HIDE DEF ss
      <3> QED BY <1>1, <1>2, <3>1, <3>2, Looped
    <2>2. PyProgram(o) = FlattenSeq(ss) BY <1>1, <1>2 DEF PyProgram, Times, PyWait
    <2> HIDE DEF ss
    <2>3. PyProgram(o) \in Seq(T) BY <1>3, <2>1, <2>2
    <2>4. Ops(d, o).program = PyProgram(o) BY <1>10, OpsOf DEF PyOps
    <2> QED BY <2>3, <2>4 DEF T
  <1>11. CASE d = "samd"
    <2> DEFINE ss == [i \in 1 .. n |-> <<Area("erase", o.offset + (i - 1) * PageUnits, PageUnits), Do("settle")>>
                  \o WholePage(o, (i - 1))]
    <2>1. FlattenSeq(ss) \in Seq(T)
      <3>1. ASSUME NEW i \in 1 .. n PROVE ss[i] \in Seq(T)
        <4>1. ss[i] = <<Area("erase", o.offset + (i - 1) * PageUnits, PageUnits), Do("settle")>>
                  \o WholePage(o, (i - 1)) OBVIOUS
        <4> HIDE DEF ss
        <4> QED BY <1>3, <1>4, <1>5, <4>1
      <3>2. ss = [i \in 1 .. n |-> ss[i]] OBVIOUS
      <3> HIDE DEF ss
      <3> QED BY <1>1, <1>2, <3>1, <3>2, Looped
    <2>2. SdProgram(o) = FlattenSeq(ss) BY <1>1, <1>2 DEF SdProgram, Times
    <2> HIDE DEF ss
    <2>3. SdProgram(o) \in Seq(T) BY <1>3, <2>1, <2>2
    <2>4. Ops(d, o).program = SdProgram(o) BY <1>11, OpsOf DEF SdOps
    <2> QED BY <2>3, <2>4 DEF T
  <1>12. CASE d = "same5x"
    <2> DEFINE ss == [i \in 1 .. n |-> <<Area("erase", o.offset + (i - 1) * PageUnits, PageUnits), Do("settle")>>
                  \o Settled(RowsOfPage(o, (i - 1)))]
    <2>1. FlattenSeq(ss) \in Seq(T)
      <3>1. ASSUME NEW i \in 1 .. n PROVE ss[i] \in Seq(T)
        <4>1. ss[i] = <<Area("erase", o.offset + (i - 1) * PageUnits, PageUnits), Do("settle")>>
                  \o Settled(RowsOfPage(o, (i - 1))) OBVIOUS
        <4> HIDE DEF ss
        <4> QED BY <1>3, <1>4, <1>5, <4>1
      <3>2. ss = [i \in 1 .. n |-> ss[i]] OBVIOUS
      <3> HIDE DEF ss
      <3> QED BY <1>1, <1>2, <3>1, <3>2, Looped
    <2>2. SeProgram(o) = FlattenSeq(ss) BY <1>1, <1>2 DEF SeProgram, Times
    <2> HIDE DEF ss
    <2>3. SeProgram(o) \in Seq(T) BY <1>3, <2>1, <2>2
    <2>4. Ops(d, o).program = SeProgram(o) BY <1>12, OpsOf DEF SeOps
    <2> QED BY <2>3, <2>4 DEF T
  <1>13. CASE d = "sam4"
    <2> DEFINE ss == [i \in 1 .. n |-> <<Area("erase", PageAt(o, (i - 1)), PageUnits), Do("settle")>>]
    <2>1. FlattenSeq(ss) \in Seq(T)
      <3>1. ASSUME NEW i \in 1 .. n PROVE ss[i] \in Seq(T)
        <4>1. ss[i] = <<Area("erase", PageAt(o, (i - 1)), PageUnits), Do("settle")>> OBVIOUS
        <4> HIDE DEF ss
        <4> QED BY <1>3, <1>4, <1>5, <4>1
      <3>2. ss = [i \in 1 .. n |-> ss[i]] OBVIOUS
      <3> HIDE DEF ss
      <3> QED BY <1>1, <1>2, <3>1, <3>2, Looped
    <2> DEFINE tt == [i \in 1 .. m |-> <<Commit(o.offset + (i - 1) * RowUnits, (i - 1) * RowUnits), Do("settle")>>]
    <2>2. FlattenSeq(tt) \in Seq(T)
      <3>1. ASSUME NEW i \in 1 .. m PROVE tt[i] \in Seq(T)
        <4>1. tt[i] = <<Commit(o.offset + (i - 1) * RowUnits, (i - 1) * RowUnits), Do("settle")>> OBVIOUS
        <4> HIDE DEF tt
        <4> QED BY <1>3, <1>4, <1>5, <4>1
      <3>2. tt = [i \in 1 .. m |-> tt[i]] OBVIOUS
      <3> HIDE DEF tt
      <3> QED BY <1>1, <1>2, <3>1, <3>2, Looped
    <2>3. A4Program(o) = FlattenSeq(ss) \o FlattenSeq(tt) BY <1>1, <1>2 DEF A4Program, Times
    <2> HIDE DEF ss, tt
    <2>4. A4Program(o) \in Seq(T) BY <1>3, <2>1, <2>2, <2>3
    <2>5. Ops(d, o).program = A4Program(o) BY <1>13, OpsOf DEF A4Ops
    <2> QED BY <2>4, <2>5 DEF T
  <1>14. CASE d = "same70"
    <2> DEFINE ss == [i \in 1 .. n |-> <<Area("erase", PageAt(o, (i - 1)), PageUnits), Do("settle")>>]
    <2>1. FlattenSeq(ss) \in Seq(T)
      <3>1. ASSUME NEW i \in 1 .. n PROVE ss[i] \in Seq(T)
        <4>1. ss[i] = <<Area("erase", PageAt(o, (i - 1)), PageUnits), Do("settle")>> OBVIOUS
        <4> HIDE DEF ss
        <4> QED BY <1>3, <1>4, <1>5, <4>1
      <3>2. ss = [i \in 1 .. n |-> ss[i]] OBVIOUS
      <3> HIDE DEF ss
      <3> QED BY <1>1, <1>2, <3>1, <3>2, Looped
    <2> DEFINE tt == [i \in 1 .. m |-> <<Data(o.offset + (i - 1) * RowUnits, RowUnits, (i - 1) * RowUnits), Do("settle")>>]
    <2>2. FlattenSeq(tt) \in Seq(T)
      <3>1. ASSUME NEW i \in 1 .. m PROVE tt[i] \in Seq(T)
        <4>1. tt[i] = <<Data(o.offset + (i - 1) * RowUnits, RowUnits, (i - 1) * RowUnits), Do("settle")>> OBVIOUS
        <4> HIDE DEF tt
        <4> QED BY <1>3, <1>4, <1>5, <4>1
      <3>2. tt = [i \in 1 .. m |-> tt[i]] OBVIOUS
      <3> HIDE DEF tt
      <3> QED BY <1>1, <1>2, <3>1, <3>2, Looped
    <2>3. A7Program(o) = FlattenSeq(ss) \o FlattenSeq(tt) BY <1>1, <1>2 DEF A7Program, Times
    <2> HIDE DEF ss, tt
    <2>4. A7Program(o) \in Seq(T) BY <1>3, <2>1, <2>2, <2>3
    <2>5. Ops(d, o).program = A7Program(o) BY <1>14, OpsOf DEF A7Ops
    <2> QED BY <2>4, <2>5 DEF T
  <1> QED BY <1>6, <1>7, <1>8, <1>9, <1>10, <1>11, <1>12, <1>13, <1>14 DEF Drivers

\* A SAM3 at an offset commits pages of the wrong number, but none outside the flash.
LEMMA RowFits ==
  ASSUME NEW o \in Options, o.offset % RowUnits = 0, o.offset + o.file <= Total
  PROVE  /\ RowUnits * CeilDiv(o.file, RowUnits) \in Nat
         /\ o.offset + RowUnits * CeilDiv(o.file, RowUnits) <= Total
         /\ RowUnits * CeilDiv(o.file, RowUnits) >= o.file
         /\ RowUnits * CeilDiv(o.file, RowUnits) < o.file + RowUnits
  <1>1. PICK r \in Nat \ {0} : r = RowUnits BY Geometry
  <1>2. PICK off \in Nat, f \in Nat : off = o.offset /\ f = o.file BY Pages
  <1>3. PICK q \in Nat : off = r * q BY <1>1, <1>2, WholeMultiple
  <1>4. PICK t \in Nat : Total = r * t
    <2>1. PICK c \in Nat : c = PageRows /\ PageUnits = r * c BY <1>1, Layout
    <2>2. PICK n \in Nat : Total = PageUnits * n BY Layout
    <2>3. (r * c) * n = r * (c * n) /\ c * n \in Nat BY Z3
    <2> QED BY <2>1, <2>2, <2>3
  <1>5. PICK e \in Nat : e = CeilDiv(f, r) BY <1>1, Counts
  <1>6. PICK x \in Nat : x = r * e OBVIOUS
  <1>7. x >= f /\ off + x <= Total BY <1>1, <1>2, <1>3, <1>4, <1>5, <1>6, MultipleFits
  <1>8. x < f + r
    <2>1. (f + r) - 1 \in Nat OBVIOUS
    <2>2. e = ((f + r) - 1) \div r BY <1>5 DEF CeilDiv
    <2>3. PICK b \in Nat : b = (f + r) - 1 BY <2>1
    <2>4. b % r \in 0 .. r - 1 /\ r * (b \div r) + (b % r) = b BY Division
    <2>5. PICK m \in 0 .. r - 1 : m = b % r BY <2>4
    <2>6. r * e + m = b BY <2>2, <2>3, <2>4, <2>5
    <2> QED BY <1>6, <2>3, <2>6
  <1> QED BY <1>1, <1>2, <1>5, <1>6, <1>7, <1>8

LEMMA CommitFits ==
  ASSUME NEW o \in Options, o.offset % RowUnits = 0, o.offset + o.file <= Total,
         NEW p \in Nat, p < CeilDiv(o.file, RowUnits)
  PROVE  \E a \in Nat : /\ a + RowUnits <= Total
                        /\ Commit(p * RowUnits, p * RowUnits)
                             = Data(a, RowUnits, p * RowUnits)
  <1>1. PICK r \in Nat \ {0} : r = RowUnits BY Geometry
  <1>2. PICK off \in Nat, f \in Nat : off = o.offset /\ f = o.file BY Pages
  <1>3. PICK e \in Nat : e = CeilDiv(f, r) BY <1>1, Counts
  <1>4. PICK x \in Nat : x = p * r /\ x + r <= r * e BY <1>1, <1>2, <1>3, Below
  <1>5. x + r <= Total
    <2>1. PICK z \in Nat : z = r * e OBVIOUS
    <2>2. off + z <= Total BY <1>1, <1>2, <1>3, <2>1, RowFits
    <2> QED BY <1>4, <2>1, <2>2, Geometry
  <1>6. Commit(x, x) = Data(x, r, x) BY <1>1 DEF Commit
  <1> QED BY <1>1, <1>4, <1>5, <1>6

LEMMA A3Within ==
  ASSUME NEW R, NEW o \in Options, o.offset % RowUnits = 0, o.offset + o.file <= Total,
         \/ o.offset = 0 /\ PageRange(o) \subseteq R
         \/ Units \subseteq R
  PROVE  A3Program(o) \in Seq(Within(R))
  <1>1. PICK n \in Nat : n = CeilDiv(o.file, RowUnits) BY Pages
  <1>2. PICK r \in Nat \ {0} : r = RowUnits BY Geometry
  <1> DEFINE T == Within(R)
             Write(p) == Commit(p * RowUnits, p * RowUnits)
             Round(p) == <<Area("erase", Write(p).at, RowUnits), Write(p), Do("settle")>>
             ss == [i \in 1 .. n |-> Round(i - 1)]
  <1>3. ASSUME NEW p \in Nat, p < n
        PROVE  \E a \in Nat : Write(p) = Data(a, r, p * r) /\ a .. a + r - 1 \subseteq R
    <2>1. CASE o.offset = 0 /\ PageRange(o) \subseteq R
      <3>1. Paged(o)
        <4>1. 0 % PageUnits = 0
          <5>1. PICK k \in Nat \ {0} : k = PageUnits BY Geometry
          <5>2. 0 % k = 0 BY Z3
          <5> QED BY <5>1, <5>2
        <4> QED BY <2>1, <4>1 DEF Paged
      <3>2. PICK a \in Nat : a = p * r OBVIOUS
      <3>3. Commit(a, a) = Data(a, r, a) BY <1>2 DEF Commit
      <3>4. Data(0 + a, r, a) \in Within(R) BY <1>1, <1>2, <1>3, <2>1, <3>1, <3>2, RowWithin
      <3>5. a .. a + r - 1 \subseteq R
        <4>1. Data(a, r, a) \in Within(R) BY <3>4
        <4>2. Span(Data(a, r, a)) = a .. a + r - 1 /\ Data(a, r, a).do = "program" BY DEF Span, Data
        <4> QED BY <4>1, <4>2 DEF Within, Inside
      <3>6. Write(p) = Commit(a, a) BY <1>2, <2>1, <3>2
      <3> QED BY <3>2, <3>3, <3>5, <3>6
    <2>2. CASE Units \subseteq R
      <3>1. PICK a \in Nat : a + r <= Total /\ Write(p) = Data(a, r, p * r)
        BY <1>1, <1>2, <1>3, CommitFits
      <3>2. a .. a + r - 1 \subseteq R BY <2>2, <3>1, Geometry DEF Units
      <3> QED BY <3>1, <3>2
    <2> QED BY <2>1, <2>2
  <1>4. ASSUME NEW p \in Nat, p < n PROVE Round(p) \in Seq(T)
    <2>1. PICK a \in Nat : Write(p) = Data(a, r, p * r) /\ a .. a + r - 1 \subseteq R BY <1>3, <1>4
    <2>2. PICK f \in Nat : f = p * r OBVIOUS
    <2>3. Area("erase", a, r) \in T /\ Data(a, r, f) \in T /\ Do("settle") \in T
      BY <2>1, SpanWithin, SafeWithin
    <2>4. Data(a, r, f).at = a BY DEF Data
    <2>5. Round(p) = <<Area("erase", a, r), Data(a, r, f), Do("settle")>> BY <1>2, <2>1, <2>2, <2>4
    <2> HIDE DEF T, Round
    <2> QED BY <2>3, <2>5
  <1>5. A3Program(o) = FlattenSeq(ss) BY <1>1 DEF A3Program, Times
  <1>6. ASSUME NEW i \in 1 .. n PROVE ss[i] \in Seq(T)
    <2>1. PICK p \in Nat : p = i - 1 /\ p < n OBVIOUS
    <2>2. ss[i] = Round(p) BY <2>1
    <2> HIDE DEF ss, T, Round
    <2> QED BY <1>4, <2>1, <2>2
  <1>7. ss = [i \in 1 .. n |-> ss[i]] OBVIOUS
  <1> HIDE DEF ss, T
  <1>8. FlattenSeq(ss) \in Seq(T) BY <1>6, <1>7, Looped
  <1> QED BY <1>5, <1>8 DEF T

\* The sectors of the GD32: each begins where the one before it ends.
Starts(f, c) == f = [i \in 1 .. c |-> IF i = 1 THEN 0 ELSE f[i - 1] + Sectors[i - 1]]

LEMMA StartsExists ==
  ASSUME NEW n \in Nat \ {0}
  PROVE  \E f : Starts(f, n)
  <1> DEFINE Holds(c) == \E f : Starts(f, c)
             Open == {c \in Nat \ {0} : ~Holds(c)}
  <1>1. SUFFICES ASSUME Open # {} PROVE FALSE OBVIOUS
  <1>2. PICK c \in Open : \A m \in Open : c <= m
    <2>1. Open \subseteq Nat OBVIOUS
    <2> HIDE DEF Open
    <2> QED BY <1>1, <2>1, LeastNat
  <1>3. c # 1
    <2> DEFINE f == [i \in 1 .. 1 |-> 0]
    <2>1. f = [i \in 1 .. 1 |-> IF i = 1 THEN 0 ELSE f[i - 1] + Sectors[i - 1]] OBVIOUS
    <2>2. Holds(1) BY <2>1 DEF Starts
    <2> QED BY <1>2, <2>2
  <1>4. c \in Nat /\ c >= 2 /\ c - 1 \in Nat \ {0} /\ c - 1 \notin Open
    <2>1. c \in Nat \ {0} BY <1>2
    <2>2. c - 1 \in Nat \ {0} /\ c - 1 < c BY <1>3, <2>1
    <2> QED BY <1>2, <1>3, <2>1, <2>2
  <1>5. PICK f : Starts(f, c - 1) BY <1>4
  <1> DEFINE e == f[c - 1] + Sectors[c - 1]
             g == [i \in 1 .. c |-> IF i = c THEN e ELSE f[i]]
  <1> HIDE DEF e
  <1>6. ASSUME NEW i \in 1 .. c
        PROVE  g[i] = IF i = 1 THEN 0 ELSE g[i - 1] + Sectors[i - 1]
    <2>1. CASE i = c
      <3>1. i # 1 /\ i - 1 \in 1 .. c /\ i - 1 # c BY <1>4, <2>1
      <3>2. g[i - 1] = f[c - 1] BY <2>1, <3>1
      <3>3. g[i] = e BY <2>1
      <3> QED BY <2>1, <3>1, <3>2, <3>3 DEF e
    <2>2. CASE i # c
      <3>1. i \in 1 .. c - 1 BY <1>4, <2>2
      <3>2. f[i] = IF i = 1 THEN 0 ELSE f[i - 1] + Sectors[i - 1] BY <1>5, <3>1 DEF Starts
      <3>3. i # 1 => i - 1 \in 1 .. c /\ i - 1 # c BY <1>4, <3>1
      <3>4. i # 1 => g[i - 1] = f[i - 1] BY <3>3
      <3>5. g[i] = f[i] BY <2>2
      <3> HIDE DEF g
      <3> QED BY <3>2, <3>4, <3>5
    <2> QED BY <2>1, <2>2
  <1>7. g = [i \in 1 .. c |-> IF i = 1 THEN 0 ELSE g[i - 1] + Sectors[i - 1]] BY <1>6
  <1>8. Holds(c) BY <1>7 DEF Starts
  <1> QED BY <1>2, <1>8

LEMMA SectorStarts ==
  /\ SectorStart(1) = 0
  /\ \A s \in DOMAIN Sectors : SectorStart(s + 1) = SectorEnd(s)
  <1>1. PICK n \in Nat : n = Len(Sectors) /\ DOMAIN Sectors = 1 .. n BY Geometry
  <1>2. PICK k \in Nat \ {0} : k = n + 1 OBVIOUS
  <1> DEFINE f == CHOOSE g : Starts(g, k)
  <1>3. Starts(f, k) BY StartsExists
  <1>4. \A s : SectorStart(s) = f[s] BY <1>1, <1>2 DEF SectorStart, Starts
  <1> HIDE DEF f
  <1>5. \A i \in 1 .. k : f[i] = IF i = 1 THEN 0 ELSE f[i - 1] + Sectors[i - 1] BY <1>3 DEF Starts
  <1>6. f[1] = 0 BY <1>2, <1>5
  <1>7. ASSUME NEW s \in DOMAIN Sectors PROVE f[s + 1] = f[s] + Sectors[s]
    <2>1. s + 1 \in 1 .. k /\ s + 1 # 1 /\ (s + 1) - 1 = s BY <1>1, <1>2
    <2> QED BY <1>5, <2>1
  <1> QED BY <1>4, <1>6, <1>7 DEF SectorEnd

\* A sector begins and ends with a row, within the flash.
LEMMA SectorRows ==
  ASSUME NEW s \in 1 .. Len(Sectors) + 1
  PROVE  /\ \E q \in Nat : SectorStart(s) = RowUnits * q
         /\ SectorStart(s) <= Total
  <1>1. PICK n \in Nat : n = Len(Sectors) /\ DOMAIN Sectors = 1 .. n BY Geometry
  <1>2. PICK r \in Nat \ {0} : r = RowUnits BY Geometry
  <1>3. \A i \in 1 .. n : Sectors[i] \in Nat \ {0} /\ Sectors[i] % r = 0
    BY <1>1, <1>2, SectorsAssumption DEF SectorsAssumption
  <1>4. SectorStart(n + 1) = Total BY <1>1, SectorsAssumption DEF SectorsAssumption
  <1>5. ASSUME NEW i \in 1 .. n PROVE SectorStart(i + 1) = SectorStart(i) + Sectors[i]
    BY <1>1, <1>5, SectorStarts DEF SectorEnd
  <1> DEFINE Whole(i) == \E q \in Nat : SectorStart(i) = r * q
             Odd == {i \in 1 .. n + 1 : ~Whole(i)}
  <1>6. Odd = {}
    <2>1. SUFFICES ASSUME Odd # {} PROVE FALSE OBVIOUS
    <2>2. PICK i \in Odd : \A m \in Odd : i <= m
      <3>1. Odd \subseteq Nat OBVIOUS
      <3> HIDE DEF Odd
      <3> QED BY <2>1, <3>1, LeastNat
    <2>3. i # 1
      <3>1. r * 0 = 0 BY Z3
      <3> QED BY <2>2, <3>1, SectorStarts
    <2>4. PICK j \in 1 .. n : i = j + 1 BY <2>2, <2>3
    <2>5. PICK q \in Nat : SectorStart(j) = r * q
      <3>1. j \notin Odd
        <4> HIDE DEF Odd
        <4> QED BY <2>2, <2>4
      <3>2. j \in 1 .. n + 1 BY <2>4
      <3> QED BY <3>1, <3>2
    <2>6. PICK c \in Nat : Sectors[j] = r * c BY <1>3, WholeMultiple
    <2>7. r * q + r * c = r * (q + c) /\ q + c \in Nat BY Z3
    <2>8. Whole(i) BY <1>5, <2>4, <2>5, <2>6, <2>7
    <2> QED BY <2>2, <2>8
  <1> DEFINE Far == {i \in 0 .. n : SectorStart((n + 1) - i) > Total}
  <1>7. Far = {}
    <2>1. SUFFICES ASSUME Far # {} PROVE FALSE OBVIOUS
    <2>2. PICK i \in Far : \A m \in Far : i <= m
      <3>1. Far \subseteq Nat OBVIOUS
      <3> HIDE DEF Far
      <3> QED BY <2>1, <3>1, LeastNat
    <2>3. i # 0
      <3>1. SectorStart((n + 1) - 0) = Total BY <1>4
      <3> QED BY <2>2, <3>1, Geometry
    <2>4. PICK j \in 1 .. n : j = (n + 1) - i /\ (n + 1) - (i - 1) = j + 1 BY <2>2, <2>3
    <2>5. i - 1 \notin Far /\ i - 1 \in 0 .. n BY <2>2, <2>3
    <2>6. ~(SectorStart(j + 1) > Total) BY <2>4, <2>5
    <2>7. PICK q \in Nat : SectorStart(j) = r * q
      <3>1. j \notin Odd
        <4> HIDE DEF Odd
        <4> QED BY <1>6
      <3>2. j \in 1 .. n + 1 BY <2>4
      <3> QED BY <3>1, <3>2
    <2>8. PICK b \in Nat : b = r * q OBVIOUS
    <2>9. SectorStart(j + 1) = b + Sectors[j] /\ Sectors[j] \in Nat BY <1>3, <1>5, <2>7, <2>8
    <2>10. SectorStart(j) > Total BY <2>2, <2>4
    <2> QED BY <2>6, <2>7, <2>8, <2>9, <2>10, Geometry
  <1>8. s \in 1 .. n + 1 BY <1>1
  <1>9. Whole(s)
    <2>1. s \notin Odd BY <1>6
    <2> QED BY <1>8, <2>1
  <1>10. ~(SectorStart(s) > Total)
    <2>1. PICK i \in 0 .. n : i = (n + 1) - s /\ (n + 1) - i = s BY <1>8
    <2>2. i \notin Far BY <1>7
    <2> QED BY <2>1, <2>2
  <1>11. PICK q \in Nat : SectorStart(s) = r * q BY <1>9
  <1>12. r * q \in Nat /\ Total \in Nat BY Geometry
  <1> QED BY <1>2, <1>10, <1>11, <1>12

\* Every unit lies in a sector.
LEMMA InSector ==
  ASSUME NEW u \in Units
  PROVE  \E s \in DOMAIN Sectors : SectorStart(s) <= u /\ u < SectorEnd(s)
  <1>1. PICK n \in Nat : n = Len(Sectors) /\ DOMAIN Sectors = 1 .. n BY Geometry
  <1>2. \A i \in 1 .. n + 1 : SectorStart(i) \in Nat
    <2>1. ASSUME NEW i \in 1 .. n + 1 PROVE SectorStart(i) \in Nat
      <3>1. PICK q \in Nat : SectorStart(i) = RowUnits * q BY <1>1, SectorRows
      <3> QED BY <3>1, Geometry
    <2> QED BY <2>1
  <1> DEFINE Past == {i \in 1 .. n + 1 : u < SectorStart(i)}
  <1>3. n + 1 \in Past BY <1>1, SectorsAssumption, Geometry DEF SectorsAssumption, Units
  <1>4. PICK i \in Past : \A m \in Past : i <= m
    <2>1. Past \subseteq Nat /\ Past # {} BY <1>3
    <2> HIDE DEF Past
    <2> QED BY <2>1, LeastNat
  <1>5. i # 1
    <2>1. ~(u < 0) BY DEF Units
    <2> QED BY <1>4, <2>1, SectorStarts
  <1>6. PICK j \in 1 .. n : i = j + 1 BY <1>4, <1>5
  <1>7. j \notin Past /\ j \in 1 .. n + 1 BY <1>4, <1>6
  <1>8. SectorStart(j) <= u BY <1>2, <1>7 DEF Units
  <1>9. u < SectorEnd(j) BY <1>1, <1>4, <1>6, SectorStarts
  <1> QED BY <1>1, <1>8, <1>9

\* What a GD32 erases and writes for a file lies in the sectors of its range.
SectorRange(o) ==
  {u \in Units : \E s \in DOMAIN Sectors :
     /\ SectorStart(s) <= u /\ u < SectorEnd(s)
     /\ o.offset < SectorEnd(s)
     /\ SectorStart(s) <= o.offset \/ SectorStart(s) < o.offset + o.file}

LEMMA Rounding ==
  ASSUME NEW o \in Options, o.offset % RowUnits = 0,
         NEW s \in DOMAIN Sectors, SectorStart(s) < o.offset + RowUnits * CeilDiv(o.file, RowUnits)
  PROVE  SectorStart(s) <= o.offset \/ SectorStart(s) < o.offset + o.file
  <1>1. PICK r \in Nat \ {0} : r = RowUnits BY Geometry
  <1>2. PICK off \in Nat, f \in Nat : off = o.offset /\ f = o.file BY Pages
  <1>3. PICK b \in Nat : off = r * b BY <1>1, <1>2, WholeMultiple
  <1>4. PICK a \in Nat : SectorStart(s) = r * a
    <2>1. s \in 1 .. Len(Sectors) + 1 BY Geometry
    <2> QED BY <1>1, <2>1, SectorRows
  <1>5. PICK e \in Nat : e = CeilDiv(f, r) BY <1>1, Counts
  <1>6. PICK x \in Nat, y \in Nat, z \in Nat : x = r * a /\ y = r * b /\ z = r * e OBVIOUS
  <1>7. x < y + z BY <1>1, <1>2, <1>3, <1>4, <1>5, <1>6
  <1>8. a + 1 <= b + e
    <2>1. SUFFICES ASSUME b + e <= a PROVE FALSE OBVIOUS
    <2>2. r * (b + e) <= r * a BY <2>1, Z3
    <2>3. r * (b + e) = r * b + r * e BY Z3
    <2> QED BY <1>6, <1>7, <2>2, <2>3
  <1>9. r * (a + 1) <= r * (b + e) BY <1>8, Z3
  <1>10. r * (a + 1) = r * a + r /\ r * (b + e) = r * b + r * e BY Z3
  <1>11. x + r <= y + z BY <1>6, <1>9, <1>10
  <1>12. z < f + r
    <2>1. (f + r) - 1 \in Nat OBVIOUS
    <2>2. PICK c \in Nat : c = (f + r) - 1 BY <2>1
    <2>3. c % r \in 0 .. r - 1 /\ r * (c \div r) + (c % r) = c BY Division
    <2>4. PICK m \in 0 .. r - 1 : m = c % r BY <2>3
    <2>5. e = c \div r BY <1>5, <2>2 DEF CeilDiv
    <2>6. z + m = c BY <1>6, <2>3, <2>4, <2>5
    <2> QED BY <2>2, <2>6
  <1>13. x < y + f BY <1>11, <1>12
  <1> QED BY <1>2, <1>3, <1>4, <1>6, <1>13

LEMMA GdWithin ==
  ASSUME NEW R, NEW o \in Options, o.offset % RowUnits = 0, o.offset + o.file <= Total,
         SectorRange(o) \subseteq R
  PROVE  GdProgram(o) \in Seq(Within(R))
  <1>1. PICK n \in Nat : n = Len(Sectors) /\ DOMAIN Sectors = 1 .. n BY Geometry
  <1>2. PICK r \in Nat \ {0} : r = RowUnits BY Geometry
  <1>3. PICK off \in Nat, f \in Nat : off = o.offset /\ f = o.file BY Pages
  <1>4. PICK e \in Nat : e = CeilDiv(f, r) BY <1>2, Counts
  <1>5. PICK z \in Nat : z = r * e /\ off + z <= Total
    <2>1. PICK z \in Nat : z = r * e OBVIOUS
    <2> QED BY <1>2, <1>3, <1>4, <2>1, RowFits
  <1>6. RoundedSize(o) = z /\ z \div r = e
    <2>1. RoundedSize(o) = e * r BY <1>2, <1>3, <1>4 DEF RoundedSize
    <2>2. e * r = r * e OBVIOUS
    <2>3. (r * e) \div r = e BY Z3
    <2> QED BY <1>5, <2>1, <2>2, <2>3
  <1>7. ASSUME NEW s \in DOMAIN Sectors, SectorStart(s) < off + z
        PROVE  SectorStart(s) <= off \/ SectorStart(s) < off + f
    BY <1>2, <1>3, <1>4, <1>5, <1>7, Rounding
  <1> DEFINE T == Within(R)
             Erase(s) == Area("erase", SectorStart(s), Sectors[s])
             ss == [s \in DOMAIN Sectors |-> IF Touched(o, s) THEN <<Erase(s)>> \o GdWait ELSE <<>>]
             Row(i) == Data(o.offset + (i - 1) * RowUnits, RowUnits, (i - 1) * RowUnits)
             rows == [i \in 1 .. e |-> Row(i)]
  <1>8. ASSUME NEW s \in 1 .. n, Touched(o, s) PROVE Erase(s) \in T
    <2>1. off < SectorEnd(s) BY <1>3, <1>8 DEF Touched
    <2>2. SectorStart(s) <= off \/ SectorStart(s) < off + f
      BY <1>1, <1>3, <1>6, <1>7, <1>8 DEF Touched
    <2>3. SectorEnd(s) = SectorStart(s + 1) BY <1>1, SectorStarts
    <2>4. /\ \E q \in Nat : SectorStart(s) = RowUnits * q
          /\ SectorStart(s + 1) <= Total
      <3>1. s \in 1 .. Len(Sectors) + 1 /\ s + 1 \in 1 .. Len(Sectors) + 1 BY <1>1
      <3> QED BY <3>1, SectorRows
    <2>5. PICK a \in Nat : a = SectorStart(s) BY <2>4, Geometry
    <2>6. PICK l \in Nat \ {0} : l = Sectors[s] BY <1>1, Geometry
    <2>7. SectorEnd(s) = a + l /\ a + l <= Total BY <2>3, <2>4, <2>5, <2>6 DEF SectorEnd
    <2>8. ASSUME NEW u \in a .. (a + l) - 1 PROVE u \in R
      <3>1. u \in Units /\ a <= u /\ u < a + l BY <2>7, <2>8, Geometry DEF Units
      <3>2. u \in SectorRange(o) BY <1>1, <1>3, <2>1, <2>2, <2>5, <2>7, <3>1 DEF SectorRange
      <3> QED BY <3>2
    <2>9. a .. (a + l) - 1 \subseteq R BY <2>8
    <2>10. Area("erase", a, l) \in T BY <2>9, SpanWithin
    <2> QED BY <2>5, <2>6, <2>10
  <1>9. FlattenSeq(ss) \in Seq(T)
    <2>1. ASSUME NEW s \in 1 .. n PROVE ss[s] \in Seq(T)
      <3>1. Do("wait") \in T BY SafeWithin
      <3>2. ss[s] = IF Touched(o, s) THEN <<Erase(s)>> \o <<Do("wait")>> ELSE <<>> BY <1>1 DEF GdWait
      <3> HIDE DEF ss, T, Erase
      <3>3. Touched(o, s) => <<Erase(s)>> \o <<Do("wait")>> \in Seq(T) BY <1>8, <3>1
      <3>4. <<>> \in Seq(T) OBVIOUS
      <3> QED BY <3>2, <3>3, <3>4
    <2>2. ss = [s \in 1 .. n |-> ss[s]] BY <1>1
    <2> HIDE DEF ss, T
    <2> QED BY <2>1, <2>2, Looped
  <1>10. ASSUME NEW i \in 1 .. e PROVE Row(i) \in T
    <2>1. PICK j \in Nat : j = i - 1 /\ j < e OBVIOUS
    <2>2. PICK x \in Nat : x = j * r /\ x + r <= r * e BY <2>1, Below
    <2>3. x + r <= z BY <1>5, <2>2
    <2>4. ASSUME NEW u \in off + x .. ((off + x) + r) - 1 PROVE u \in R
      <3>1. u \in Units /\ off <= u /\ u < off + z BY <1>5, <2>3, Geometry DEF Units
      <3>2. PICK s \in DOMAIN Sectors : SectorStart(s) <= u /\ u < SectorEnd(s) BY <3>1, InSector
      <3>3. SectorStart(s) \in Nat /\ SectorEnd(s) \in Nat
        <4>1. s \in 1 .. Len(Sectors) + 1 /\ s + 1 \in 1 .. Len(Sectors) + 1 BY <1>1
        <4>2. PICK q \in Nat : SectorStart(s) = r * q BY <1>2, <4>1, SectorRows
        <4>3. PICK w \in Nat : SectorStart(s + 1) = r * w BY <1>2, <4>1, SectorRows
        <4>4. r * q \in Nat /\ r * w \in Nat OBVIOUS
        <4> QED BY <4>2, <4>3, <4>4, SectorStarts
      <3>4. SectorStart(s) < off + z /\ off < SectorEnd(s) BY <3>1, <3>2, <3>3
      <3>5. SectorStart(s) <= off \/ SectorStart(s) < off + f BY <1>7, <3>4
      <3>6. u \in SectorRange(o) BY <1>3, <3>1, <3>2, <3>4, <3>5 DEF SectorRange
      <3> QED BY <3>6
    <2>5. off + x .. ((off + x) + r) - 1 \subseteq R BY <2>4
    <2>6. Data(off + x, r, x) \in T BY <2>5, SpanWithin
    <2>7. Row(i) = Data(off + x, r, x) BY <1>2, <1>3, <2>1, <2>2
    <2> HIDE DEF T, Row
    <2> QED BY <2>6, <2>7
  <1>11. rows \in Seq(T)
    <2> HIDE DEF Row, T
    <2> QED BY <1>10
  <1>12. GdWait \in Seq(T) BY SafeWithin DEF GdWait
  <1>13. GdProgram(o) = FlattenSeq(ss) \o rows \o GdWait BY <1>2, <1>6 DEF GdProgram
  <1> HIDE DEF ss, rows, T
  <1>14. GdProgram(o) \in Seq(T) BY <1>9, <1>11, <1>12, <1>13
  <1> QED BY <1>14 DEF T

\* program of any driver disturbs the pages, or sectors, its file lies in.
Aim(d, o) ==
  IF d = "sam3" /\ o.offset # 0 THEN Units
  ELSE IF d = "gd32f4xx" THEN SectorRange(o) ELSE PageRange(o)

LEMMA ProgramWithin ==
  ASSUME NEW R, NEW d \in Drivers, NEW o \in Options, o.offset % Align(d) = 0,
         o.offset + o.file <= Total, Aim(d, o) \subseteq R
  PROVE  Ops(d, o).program \in Seq(Within(R))
  <1>1. CASE d = "gd32f4xx"
    <2>1. o.offset % RowUnits = 0 /\ SectorRange(o) \subseteq R BY <1>1 DEF Align, Aim
    <2>2. GdProgram(o) \in Seq(Within(R)) BY <2>1, GdWithin
    <2> QED BY <1>1, <2>2, OpsOf DEF GdOps
  <1>2. CASE d = "sam3"
    <2>1. /\ o.offset % RowUnits = 0
          /\ (o.offset = 0 /\ PageRange(o) \subseteq R) \/ Units \subseteq R
      BY <1>2 DEF Align, Aim
    <2>2. A3Program(o) \in Seq(Within(R)) BY <2>1, A3Within
    <2> QED BY <1>2, <2>2, OpsOf DEF A3Ops
  <1>3. CASE d \notin {"gd32f4xx", "sam3"}
    <2>1. Paged(o) /\ PageRange(o) \subseteq R BY <1>3 DEF Align, Aim, Paged
    <2> QED BY <1>3, <2>1, PagedWithin
  <1> QED BY <1>1, <1>2, <1>3

-----------------------------------------------------------------------------
(* The command line: what the operations of a run erase and write *)

LEMMA OpeningStep ==
  /\ Do("disclose") \in Opening /\ Do("disconnect") \in Opening /\ Do("connect") \in Opening
  /\ Do("configure") \in Opening /\ Do("link") \in Opening /\ Do("pinLow") \in Opening
  /\ Do("pinHigh") \in Opening /\ Do("restart") \in Opening /\ Do("extend") \in Opening
  /\ Do("halt") \in Opening /\ Do("catch") \in Opening /\ Do("finishIfOpen") \in Opening
  /\ Do("identify") \in Opening /\ Do("describe") \in Opening /\ Do("locked") \in Opening
  /\ Do("keys") \in Opening /\ Do("options") \in Opening /\ Do("next") \in Opening
  <1> DEFINE X == {"disclose", "disconnect", "connect", "configure", "link", "pinLow", "pinHigh",
                   "restart", "extend", "halt", "catch", "finishIfOpen", "identify", "describe",
                   "locked", "keys", "options", "next"}
  <1>1. X \subseteq StepNames \ (FlashWork \cup FuseSide)
    BY DEF StepNames, FlashWork, FuseSide, FuseWork
  <1>2. ASSUME NEW d \in X PROVE Do(d) \in Opening BY <1>1, <1>2, AreaTyped DEF Opening
  <1> QED BY <1>2

\* select neither erases nor writes, on any driver.
LEMMA SelectOpens ==
  ASSUME NEW d \in Drivers, NEW o
  PROVE  Ops(d, o).select \in Seq(Opening)
  <1> DEFINE x == Reattached
             a == <<Do("options"), Do("locked"), Do("keys")>>
             b == <<Do("options"), Do("keys"), Do("locked")>>
             c == <<Do("locked"), Do("options"), Do("keys")>>
             e == <<Do("identify"), Do("options"), Do("locked"), Do("finishIfOpen")>>
             f == <<Do("restart"), Do("link"), Do("halt"), Do("identify"), Do("describe"), Do("options")>>
             g == <<Do("restart"), Do("link"), Do("halt"), Do("identify"), Do("options")>>
             h == <<Do("link"), Do("catch"), Do("restart"), Do("link"), Do("identify"), Do("options")>>
  <1>1. a \in Seq(Opening) /\ b \in Seq(Opening) /\ c \in Seq(Opening) /\ e \in Seq(Opening)
        /\ f \in Seq(Opening) /\ g \in Seq(Opening) /\ h \in Seq(Opening)
    BY OpeningStep
  <1>2. UnderReset \in Seq(Opening) /\ Extend \in Seq(Opening)
        /\ <<Do("disconnect"), Do("connect")>> \in Seq(Opening)
    BY OpeningStep DEF UnderReset, Extend
  <1>3. x \in Seq(Opening) BY <1>2 DEF Reattached
  <1>4. Ops(d, o).select \in {x \o a, x \o b, UnderReset \o c, Extend \o e, f, g, h}
    <2>1. /\ G0Select = x \o a /\ G4Select = x \o a /\ WbSelect = x \o a /\ PySelect = x \o a
          /\ M4Select = x \o b /\ GdSelect = UnderReset \o c
          /\ SdSelect = Extend \o e /\ SeSelect = Extend \o e
          /\ A3Select = f /\ A4Select = g /\ A7Select = h
      BY DEF G0Select, G4Select, WbSelect, PySelect, M4Select, GdSelect, SdSelect, SeSelect, SeExtend,
             Extend, A3Select, A4Select, A7Select
    <2> HIDE DEF x, a, b, c, e, f, g, h
    <2>2. Ops(d, o).select \in {G0Select, G4Select, WbSelect, PySelect, M4Select, GdSelect, SdSelect,
                                SeSelect, A3Select, A4Select, A7Select}
      BY OpsOf DEF Drivers, G0Ops, G4Ops, WbOps, GdOps, M4Ops, PyOps, SdOps, SeOps, A3Ops, A4Ops, A7Ops
    <2> QED BY <2>1, <2>2
  <1> HIDE DEF x, a, b, c, e, f, g, h
  <1>5. /\ x \o a \in Seq(Opening) /\ x \o b \in Seq(Opening) /\ UnderReset \o c \in Seq(Opening)
        /\ Extend \o e \in Seq(Opening)
    BY <1>1, <1>2, <1>3
  <1> QED BY <1>1, <1>4, <1>5

\* What a run may erase or write: OnlyAsked's own footprint, or everything
\* on a SAM3 at an offset.
Reach == IF driver = "sam3" /\ opt.offset # 0 THEN Units ELSE Footprint

\* Options that have passed the check of select.
InOptions ==
  /\ opt.offset \in Units /\ opt.file <= opt.size /\ opt.offset % Align(driver) = 0
  /\ cmd.acts \cap {"program", "verify"} # {} => opt.offset + opt.file <= SizeFor(driver)

LEMMA SizeFits == SizeFor(driver) \in Nat /\ 0 .. SizeFor(driver) - 1 \subseteq Units
  <1>1. SizeFor(driver) \in {Accessible, Total} BY DEF SizeFor
  <1> QED BY <1>1, Geometry DEF Units

LEMMA ReachIn == Reach \subseteq Units
  <1>1. Footprint \subseteq Units
    <2>1. 0 .. SizeFor(driver) - 1 \subseteq Units BY SizeFits
    <2> QED BY <2>1 DEF Footprint
  <1> QED BY <1>1 DEF Reach

LEMMA EraseReach ==
  ASSUME cmd.acts \cap {"erase", "unlock"} # {}
  PROVE  0 .. SizeFor(driver) - 1 \subseteq Reach
  <1>1. Footprint = 0 .. SizeFor(driver) - 1 BY DEF Footprint
  <1> QED BY <1>1, SizeFits DEF Reach

LEMMA ProgramReach ==
  ASSUME InPlan, InOptions, "program" \in cmd.acts
  PROVE  Aim(driver, opt) \subseteq Reach /\ opt.offset + opt.file <= Total
  <1>1. opt \in Options BY DEF InPlan
  <1>2. opt.offset + opt.file <= SizeFor(driver) BY DEF InOptions
  <1>3. opt.offset \in Nat /\ opt.file \in Nat BY <1>1, Pages
  <1>4. SizeFor(driver) \in Nat /\ SizeFor(driver) <= Total
    <2>1. PICK a \in Nat, t \in Nat : a = Accessible /\ t = Total /\ a <= t BY Geometry
    <2>2. SizeFor(driver) = a \/ SizeFor(driver) = t BY <2>1 DEF SizeFor
    <2> QED BY <2>1, <2>2
  <1>5. opt.offset + opt.file <= Total BY <1>2, <1>3, <1>4, Geometry
  <1>6. CASE driver = "sam3" /\ opt.offset # 0 BY <1>5, <1>6 DEF Aim, Reach
  <1>7. CASE ~(driver = "sam3" /\ opt.offset # 0)
    <2>1. Reach = Footprint BY <1>7 DEF Reach
    <2>2. CASE cmd.acts \cap {"erase", "unlock"} # {}
      <3>1. Reach = 0 .. SizeFor(driver) - 1 BY <2>1, <2>2 DEF Footprint
      <3>2. Aim(driver, opt) \subseteq Units BY DEF Aim, SectorRange, PageRange
      <3>3. CASE driver # "stm32wb55"
        <4>1. Reach = Units BY <3>1, <3>3 DEF SizeFor, Units
        <4> QED BY <1>5, <3>2, <4>1
      <3>4. CASE driver = "stm32wb55"
        <4>1. PICK k \in Nat \ {0} : k = PageUnits BY Geometry
        <4>2. PICK off \in Nat, f \in Nat : off = opt.offset /\ f = opt.file BY <1>3
        <4>3. off % k = 0 BY <3>4, <4>1, <4>2 DEF InOptions, Align
        <4>4. PICK q \in Nat : off = k * q BY <4>1, <4>3, WholeMultiple
        <4>5. PICK r \in Nat : Accessible = k * r BY <4>1, Layout
        <4>6. k * q + f <= k * r BY <1>2, <3>4, <4>2, <4>4, <4>5 DEF SizeFor
        <4>7. PICK c \in Nat : c = CeilDiv(f, k) BY <4>1, Counts
        <4>8. k * q + k * c <= k * r BY <4>6, <4>7, MultipleFits
        <4>9. PICK x \in Nat : x = k * c /\ x = c * k OBVIOUS
        <4>10. off + x <= Accessible BY <4>4, <4>5, <4>8, <4>9
        <4>11. PagesOf(opt) = c BY <4>1, <4>2, <4>7 DEF PagesOf
        <4>12. PageRange(opt) = {u \in Units : off <= u /\ u < off + x}
          BY <4>1, <4>2, <4>9, <4>11 DEF PageRange
        <4>13. PageRange(opt) \subseteq 0 .. Accessible - 1 BY <4>10, <4>12, Geometry DEF Units
        <4>14. Aim(driver, opt) = PageRange(opt) /\ SizeFor(driver) = Accessible
          BY <3>4 DEF Aim, SizeFor
        <4> QED BY <1>5, <3>1, <4>13, <4>14
      <3> QED BY <3>3, <3>4
    <2>3. CASE cmd.acts \cap {"erase", "unlock"} = {}
      <3>1. CASE driver = "gd32f4xx"
        <4>1. Footprint = SectorRange(opt) BY <2>3, <3>1 DEF Footprint, SectorRange
        <4>2. Aim(driver, opt) = SectorRange(opt) BY <3>1 DEF Aim
        <4> QED BY <1>5, <2>1, <4>1, <4>2
      <3>2. CASE driver # "gd32f4xx"
        <4>1. Footprint = PageRange(opt) BY <2>3, <3>2 DEF Footprint, PageRange
        <4>2. Aim(driver, opt) = PageRange(opt) BY <1>7, <3>2 DEF Aim
        <4> QED BY <1>5, <2>1, <4>1, <4>2
      <3> QED BY <3>1, <3>2
    <2> QED BY <2>2, <2>3
  <1> QED BY <1>6, <1>7

\* The steps of an operation of main's plan.
LEMMA OpReach ==
  ASSUME InPlan, InOptions, plan # <<>>
  PROVE  LET o == plan[1][1]
         IN  /\ o \in {"open", "pulse", "select"} => StepsOf(o) \in Seq(Opening)
             /\ o \notin {"select", "fuse"} => StepsOf(o) \in Seq(Within(Reach))
  <1> DEFINE o == plan[1][1]
             T == Within(Reach)
  <1>1. o \in OpNames /\ (o \in Actions => o \in cmd.acts)
    <2>1. plan[1] \in Entry BY DEF InPlan
    <2> QED BY <2>1 DEF Entry
  <1>2. driver \in Drivers /\ opt \in Options BY DEF InPlan
  <1>3. o \notin {"open", "pulse", "fuse", "restart", "close"} => StepsOf(o) = Ops(driver, opt)[o]
    BY DEF StepsOf
  <1>4. o \in {"open", "pulse", "select"} => StepsOf(o) \in Seq(Opening)
    <2>1. /\ <<Do("disclose"), Do("disconnect"), Do("connect"), Do("configure")>> \in Seq(Opening)
          /\ <<Do("pinLow"), Do("pinHigh")>> \in Seq(Opening)
      BY OpeningStep
    <2>2. Ops(driver, opt).select \in Seq(Opening) BY <1>2, SelectOpens
    <2> QED BY <1>3, <2>1, <2>2 DEF StepsOf
  <1>5. CASE o \in {"open", "pulse", "restart", "close"}
    <2>1. /\ <<Do("disclose"), Do("disconnect"), Do("connect"), Do("configure")>> \in Seq(T)
          /\ <<Do("pinLow"), Do("pinHigh")>> \in Seq(T) /\ <<Do("restart")>> \in Seq(T)
          /\ <<Do("led"), Do("disconnect")>> \in Seq(T)
      BY SafeWithin
    <2> HIDE DEF T
    <2>2. StepsOf(o) \in Seq(T) BY <1>5, <2>1 DEF StepsOf
    <2> QED BY <1>4, <2>2 DEF T
  <1>6. CASE o \in {"deselect", "lock", "verify", "read"}
    <2>1. /\ Ops(driver, opt).deselect \in Seq(T) /\ Ops(driver, opt).lock \in Seq(T)
          /\ Ops(driver, opt).verify \in Seq(T) /\ Ops(driver, opt).read \in Seq(T)
      BY <1>2, QuietWithin
    <2> HIDE DEF T
    <2>2. StepsOf(o) \in Seq(T) BY <1>3, <1>6, <2>1
    <2> QED BY <1>4, <2>2 DEF T
  <1>7. CASE o \in {"erase", "unlock"}
    <2>1. cmd.acts \cap {"erase", "unlock"} # {} BY <1>1, <1>7 DEF Actions
    <2>2. Ops(driver, opt).erase \in Seq(T) /\ Ops(driver, opt).unlock \in Seq(T)
      BY <1>2, <2>1, EraseReach, EraseWithin
    <2> HIDE DEF T
    <2>3. StepsOf(o) \in Seq(T) BY <1>3, <1>7, <2>2
    <2> QED BY <1>4, <2>3 DEF T
  <1>8. CASE o = "program"
    <2>1. "program" \in cmd.acts BY <1>1, <1>8 DEF Actions
    <2>2. Aim(driver, opt) \subseteq Reach /\ opt.offset + opt.file <= Total BY <2>1, ProgramReach
    <2>3. opt.offset % Align(driver) = 0 BY DEF InOptions
    <2>4. Ops(driver, opt).program \in Seq(T) BY <1>2, <2>2, <2>3, ProgramWithin
    <2> HIDE DEF T
    <2>5. StepsOf(o) \in Seq(T) BY <1>3, <1>8, <2>4
    <2> QED BY <1>4, <2>5 DEF T
  <1>9. CASE o \in {"select", "fuse"} BY <1>4, <1>9
  <1> QED BY <1>1, <1>5, <1>6, <1>7, <1>8, <1>9 DEF OpNames

\* The check of the options is what the operations rely on.
LEMMA NoOptionsIn == opt = NoOptions => InOptions
  <1> SUFFICES ASSUME opt = NoOptions PROVE InOptions OBVIOUS
  <1>1. opt.offset = 0 /\ opt.file = 0 /\ opt.size = 0 BY DEF NoOptions
  <1>2. Align(driver) \in Nat \ {0} BY Geometry DEF Align
  <1>3. PICK a \in Nat \ {0} : a = Align(driver) BY <1>2
  <1>4. 0 % a = 0 BY Z3
  <1>5. 0 \in Units BY Geometry DEF Units
  <1>6. 0 + 0 <= SizeFor(driver) BY SizeFits
  <1> QED BY <1>1, <1>3, <1>4, <1>5, <1>6 DEF InOptions

LEMMA OptionsChecked ==
  ASSUME InPlan, InOptions, CheckOptions
  PROVE  InOptions'
  <1>1. UNCHANGED <<driver, cmd>> BY DEF CheckOptions
  <1>2. SizeFor(driver)' = SizeFor(driver) /\ Align(driver)' = Align(driver) BY <1>1
  <1>3. CASE BadOptions
    <2>1. opt' = opt BY <1>3 DEF CheckOptions
    <2> QED BY <1>1, <1>2, <2>1 DEF InOptions
  <1>4. CASE ~BadOptions
    <2>1. opt' = [offset |-> Offset, size |-> Size, file |-> FileSize] BY <1>4 DEF CheckOptions
    <2>2. PICK cap \in Nat : cap = SizeFor(driver) /\ 0 .. cap - 1 \subseteq Units BY SizeFits
    <2>3. Offset \in Nat /\ Offset < cap /\ Offset % Align(driver) = 0
      <3>1. Offset \in Nat BY CaseTyped DEF Offset
      <3>2. ~(Offset >= cap) /\ Offset % Align(driver) = 0 BY <1>4, <2>2 DEF BadOptions
      <3> QED BY <2>2, <3>1, <3>2
    <2>4. opt' \in Options BY OptionsTyped
    <2>5. Size \in Nat BY <2>1, <2>4 DEF Options
    <2>6. FileSize \in Nat /\ FileSize <= Size
      <3>1. FileSize \in Nat BY <2>1, <2>4 DEF Options
      <3>2. FileSize \in {cmd.length, Size, 0} /\ (FileSize = cmd.length /\ FileSize # Size => FileSize = 0 \/ cmd.length < Size)
        BY DEF FileSize
      <3> QED BY <2>5, <3>1, <3>2
    <2>7. cmd.acts \cap {"program", "verify"} # {} => Offset + FileSize <= cap
      <3>1. cmd.acts \cap {"program", "verify"} # {} => ~(FileSize + Offset > cap)
        BY <1>4, <2>2 DEF BadOptions
      <3> QED BY <2>2, <2>3, <2>6, <3>1
    <2>8. Offset \in Units BY <2>2, <2>3
    <2> QED BY <1>1, <1>2, <2>1, <2>2, <2>3, <2>6, <2>7, <2>8 DEF InOptions
  <1> QED BY <1>3, <1>4

\* Main selects the target once.
Later == {e \in OpNames \X Nat : e[1] # "select"}
Once(p) == \A i, j \in 1 .. Len(p) : i < j /\ p[i][1] = "select" => p[j][1] # "select"

LEMMA OnceConcat ==
  ASSUME NEW T, NEW s \in Seq(T), NEW t \in Seq(T),
         \/ s \in Seq(Later) /\ Once(t)
         \/ Once(s) /\ t \in Seq(Later)
  PROVE  Once(s \o t)
  <1>1. PICK m \in Nat, n \in Nat : m = Len(s) /\ n = Len(t) OBVIOUS
  <1>2. Len(s \o t) = m + n BY <1>1
  <1>3. \A i \in 1 .. m : (s \o t)[i] = s[i] BY <1>1
  <1>4. \A i \in 1 .. m + n : i \notin 1 .. m => i - m \in 1 .. n /\ (s \o t)[i] = t[i - m] BY <1>1
  <1>5. CASE s \in Seq(Later) /\ Once(t)
    <2>1. \A i \in 1 .. m : s[i][1] # "select"
      <3>1. \A i \in 1 .. m : s[i] \in Later BY <1>1, <1>5
      <3> QED BY <3>1 DEF Later
    <2>2. ASSUME NEW i \in 1 .. m + n, NEW j \in 1 .. m + n, i < j, (s \o t)[i][1] = "select"
          PROVE  (s \o t)[j][1] # "select"
      <3>1. i \notin 1 .. m BY <1>3, <2>1, <2>2
      <3>2. j \notin 1 .. m BY <2>2, <3>1
      <3>3. i - m < j - m BY <2>2
      <3>4. t[i - m][1] = "select" BY <1>4, <2>2, <3>1
      <3>5. t[j - m][1] # "select" BY <1>1, <1>4, <1>5, <3>1, <3>2, <3>3, <3>4 DEF Once
      <3> QED BY <1>4, <3>2, <3>5
    <2> QED BY <1>2, <2>2 DEF Once
  <1>6. CASE Once(s) /\ t \in Seq(Later)
    <2>1. \A i \in 1 .. n : t[i][1] # "select"
      <3>1. \A i \in 1 .. n : t[i] \in Later BY <1>1, <1>6
      <3> QED BY <3>1 DEF Later
    <2>2. ASSUME NEW i \in 1 .. m + n, NEW j \in 1 .. m + n, i < j, (s \o t)[i][1] = "select"
          PROVE  (s \o t)[j][1] # "select"
      <3>1. CASE j \notin 1 .. m BY <1>4, <2>1, <3>1
      <3>2. CASE j \in 1 .. m
        <4>1. i \in 1 .. m BY <2>2, <3>2
        <4>2. s[i][1] = "select" BY <1>3, <2>2, <4>1
        <4>3. s[j][1] # "select" BY <1>1, <1>6, <2>2, <3>2, <4>1, <4>2 DEF Once
        <4> QED BY <1>3, <3>2, <4>3
      <3> QED BY <3>1, <3>2
    <2> QED BY <1>2, <2>2 DEF Once
  <1> QED BY <1>5, <1>6

LEMMA PlanOnce ==
  ASSUME InPlan
  PROVE  Once(Plan)
  <1> DEFINE T == OpNames \X Nat
             fuse == [k \in DOMAIN cmd.fuse |-> <<"fuse", k>>]
             end == <<<<"deselect", 0>>, <<"restart", 0>>>>
             s == <<<<"select", 0>>>>
             work == s
                     \o Turn("unlock") \o Turn("erase") \o Turn("program")
                     \o Turn("verify") \o Turn("lock") \o Turn("read")
                     \o fuse \o end
             mid == IF ~Active THEN <<>> ELSE work
             head == IF cmd.reset > 0 THEN <<<<"pulse", 0>>>> ELSE <<>>
             last == <<<<"close", 0>>>>
             first == <<<<"open", 0>>>>
             Good(x) == x \in Seq(T) /\ Once(x)
  <1>1. /\ <<"open", 0>> \in Later /\ <<"pulse", 0>> \in Later /\ <<"deselect", 0>> \in Later
        /\ <<"restart", 0>> \in Later /\ <<"close", 0>> \in Later /\ <<"select", 0>> \in T
    BY DEF Later, OpNames
  <1>2. first \o head \in Seq(Later) /\ last \in Seq(Later) /\ end \in Seq(Later)
    BY <1>1
  <1>3. fuse \in Seq(Later)
    <2>1. PICK n \in Nat : DOMAIN cmd.fuse = 1 .. n BY CaseTyped
    <2>2. \A k \in 1 .. n : <<"fuse", k>> \in Later BY DEF Later, OpNames
    <2>3. [k \in 1 .. n |-> <<"fuse", k>>] \in Seq(Later) BY <2>2
    <2> QED BY <2>1, <2>3
  <1>4. ASSUME NEW a \in Actions PROVE Turn(a) \in Seq(Later)
    <2>1. <<a, 0>> \in Later BY DEF Later, OpNames, Actions
    <2> QED BY <2>1 DEF Turn
  <1>5. \A t \in Seq(Later) : t \in Seq(T)
    <2>1. ASSUME NEW t \in Seq(Later) PROVE \A i \in 1 .. Len(t) : t[i] \in T
      <3>1. \A i \in 1 .. Len(t) : t[i] \in Later OBVIOUS
      <3> QED BY <3>1 DEF Later
    <2> HIDE DEF T
    <2> QED BY <2>1, Retyped
  <1>6. Good(s)
    <2>1. s \in Seq(T) /\ Len(s) = 1 BY <1>1
    <2> QED BY <2>1 DEF Once
  <1> HIDE DEF T, s, fuse, end
  <1>7. ASSUME NEW x, NEW t \in Seq(Later), Good(x) PROVE Good(x \o t)
    <2>1. t \in Seq(T) BY <1>5
    <2>2. x \o t \in Seq(T) BY <1>7, <2>1
    <2>3. Once(x \o t) BY <1>7, <2>1, OnceConcat
    <2> QED BY <2>2, <2>3
  <1> HIDE DEF Good
  <1>8. Good(work)
    <2>1. /\ Turn("unlock") \in Seq(Later) /\ Turn("erase") \in Seq(Later) /\ Turn("program") \in Seq(Later)
          /\ Turn("verify") \in Seq(Later) /\ Turn("lock") \in Seq(Later) /\ Turn("read") \in Seq(Later)
      BY <1>4 DEF Actions
    <2>2. Good(s \o Turn("unlock")) BY <1>6, <1>7, <2>1
    <2>3. Good(s \o Turn("unlock") \o Turn("erase")) BY <1>7, <2>1, <2>2
    <2>4. Good(s \o Turn("unlock") \o Turn("erase") \o Turn("program")) BY <1>7, <2>1, <2>3
    <2>5. Good(s \o Turn("unlock") \o Turn("erase") \o Turn("program") \o Turn("verify"))
      BY <1>7, <2>1, <2>4
    <2>6. Good(s \o Turn("unlock") \o Turn("erase") \o Turn("program") \o Turn("verify") \o Turn("lock"))
      BY <1>7, <2>1, <2>5
    <2>7. Good(s \o Turn("unlock") \o Turn("erase") \o Turn("program") \o Turn("verify") \o Turn("lock")
                \o Turn("read"))
      BY <1>7, <2>1, <2>6
    <2>8. Good(s \o Turn("unlock") \o Turn("erase") \o Turn("program") \o Turn("verify") \o Turn("lock")
                \o Turn("read") \o fuse)
      BY <1>3, <1>7, <2>7
    <2> QED BY <1>2, <1>7, <2>8
  <1>9. Good(<<>>)
    <2>1. <<>> \in Seq(T) /\ Len(<<>>) = 0 OBVIOUS
    <2> QED BY <2>1 DEF Once, Good
  <1> HIDE DEF work
  <1>10. Good(mid) BY <1>8, <1>9
  <1>11. Plan = first \o head \o mid \o last BY DEF Plan, work, s, fuse, end
  <1> HIDE DEF mid, last, head, first
  <1>12. Once((first \o head) \o mid) /\ (first \o head) \o mid \in Seq(T)
    <2>1. mid \in Seq(T) /\ Once(mid) BY <1>10 DEF Good
    <2>2. first \o head \in Seq(T) BY <1>2, <1>5
    <2>3. PICK a \in Seq(T) : a = first \o head /\ a \in Seq(Later) BY <1>2, <2>2
    <2>4. PICK m \in Seq(T) : m = mid /\ Once(m) BY <2>1
    <2>5. Once(a \o m) BY <2>3, <2>4, OnceConcat
    <2>6. a \o m \in Seq(T) OBVIOUS
    <2> QED BY <2>3, <2>4, <2>5, <2>6
  <1>13. Once(((first \o head) \o mid) \o last) BY <1>2, <1>5, <1>12, OnceConcat
  <1> QED BY <1>11, <1>13

\* The steps of a fuse command: only M480 erases all sections or writes by number.
Fusing ==
  {s \in StepsBut(FlashWork \cup {"options"}) :
     /\ s.do = "fword" => driver = "m480" /\ s.at \in FuseSections
     /\ s.do = "feraseAll" => driver = "m480"}

LEMMA FusingStep ==
  /\ Do("fparse") \in Fusing /\ Do("fread") \in Fusing /\ Do("fapply") \in Fusing
  /\ Do("fmatch") \in Fusing /\ Do("fgather") \in Fusing /\ Do("unimplemented") \in Fusing
  /\ Do("wait") \in Fusing /\ Do("settle") \in Fusing /\ Do("next") \in Fusing
  /\ Do("fput") \in Fusing /\ Do("fblank") \in Fusing
  /\ \A b \in Nat : Area("fbit", b, 1) \in Fusing
  /\ driver = "m480" => /\ Do("feraseAll") \in Fusing
                        /\ \A b \in FuseSections : Area("fword", b, 1) \in Fusing
  <1> DEFINE X == {"fparse", "fread", "fapply", "fmatch", "fgather", "unimplemented", "wait", "settle",
                   "next", "fput", "fblank", "fbit"}
             B == FlashWork \cup {"options"}
  <1>1. X \subseteq StepNames \ B /\ {"feraseAll", "fword"} \subseteq StepNames \ B
    BY DEF StepNames, FlashWork
  <1>2. \A d \in X : d # "fword" /\ d # "feraseAll" OBVIOUS
  <1>3. \A d, a, l : Area(d, a, l).do = d /\ Area(d, a, l).at = a BY DEF Area
  <1>4. \A d : Do(d).do = d BY DEF Do, Area
  <1> HIDE DEF B
  <1>5. ASSUME NEW d \in X, NEW b \in Nat PROVE Do(d) \in Fusing /\ Area(d, b, 1) \in Fusing
    <2>1. Do(d) \in StepsBut(B) /\ Area(d, b, 1) \in StepsBut(B) BY <1>1, AreaTyped
    <2> QED BY <1>2, <1>3, <1>4, <2>1 DEF Fusing, B
  <1>6. ASSUME driver = "m480" PROVE Do("feraseAll") \in Fusing
    <2>1. Do("feraseAll") \in StepsBut(B) BY <1>1, AreaTyped
    <2> QED BY <1>4, <1>6, <2>1 DEF Fusing, B
  <1>7. ASSUME driver = "m480", NEW b \in FuseSections PROVE Area("fword", b, 1) \in Fusing
    <2>1. b \in Nat BY DEF FuseSections
    <2>2. Area("fword", b, 1) \in StepsBut(B) BY <1>1, <2>1, AreaTyped
    <2> QED BY <1>3, <1>7, <2>2 DEF Fusing, B
  <1>8. \A d \in X : Do(d) \in Fusing
    <2>1. ASSUME NEW d \in X PROVE Do(d) \in Fusing BY <1>5
    <2> QED BY <2>1
  <1> QED BY <1>5, <1>6, <1>7, <1>8

LEMMA FusesFusing ==
  ASSUME driver \in Drivers, NEW o
  PROVE  /\ Ops(driver, o).fread \in {Unimplemented, <<Do("fread")>>}
         /\ Ops(driver, o).fwrite \in Seq(Fusing)
  <1>1. Ops(driver, o).fread \in {Unimplemented, <<Do("fread")>>}
    BY OpsOf DEF Drivers, G0Ops, G4Ops, WbOps, GdOps, M4Ops, PyOps, SdOps, SeOps, A3Ops, A4Ops, A7Ops,
                 G4FuseRead, GdFuseRead, M4FuseRead, PyFuseRead, SdFuseRead, SeFuseRead, A3FuseRead,
                 A4FuseRead, A7FuseRead
  <1> DEFINE put == <<Do("fput")>> \o <<Do("wait")>>
             singles == [i \in 1 .. 2 |-> <<Area("fbit", i - 1, 1)>>]
             slow == [i \in 1 .. 2 |-> <<Area("fbit", i - 1, 1), Do("settle")>>]
             words == [i \in 1 .. 2 |-> <<Area("fword", i - 1, 1), Do("settle")>>]
  <1>2. put \in Seq(Fusing) /\ Unimplemented \in Seq(Fusing) BY FusingStep DEF Unimplemented
  <1>3. \A i \in 1 .. 2 : i - 1 \in Nat /\ i - 1 \in FuseSections BY DEF FuseSections
  <1>4. FlattenSeq(singles) \in Seq(Fusing)
    <2>1. ASSUME NEW i \in 1 .. 2 PROVE singles[i] \in Seq(Fusing)
      <3>1. Area("fbit", i - 1, 1) \in Fusing BY <1>3, FusingStep
      <3> QED BY <3>1
    <2>2. singles = [i \in 1 .. 2 |-> singles[i]] OBVIOUS
    <2> HIDE DEF singles
    <2> QED BY <2>1, <2>2, Looped
  <1>5. FlattenSeq(slow) \in Seq(Fusing)
    <2>1. ASSUME NEW i \in 1 .. 2 PROVE slow[i] \in Seq(Fusing)
      <3>1. Area("fbit", i - 1, 1) \in Fusing /\ Do("settle") \in Fusing BY <1>3, FusingStep
      <3>2. slow[i] = <<Area("fbit", i - 1, 1), Do("settle")>> OBVIOUS
      <3> HIDE DEF slow
      <3> QED BY <3>1, <3>2
    <2>2. slow = [i \in 1 .. 2 |-> slow[i]] OBVIOUS
    <2> HIDE DEF slow
    <2> QED BY <2>1, <2>2, Looped
  <1>6. driver = "m480" => FlattenSeq(words) \in Seq(Fusing)
    <2> SUFFICES ASSUME driver = "m480" PROVE FlattenSeq(words) \in Seq(Fusing) OBVIOUS
    <2>1. ASSUME NEW i \in 1 .. 2 PROVE words[i] \in Seq(Fusing)
      <3>1. Area("fword", i - 1, 1) \in Fusing /\ Do("settle") \in Fusing BY <1>3, FusingStep
      <3>2. words[i] = <<Area("fword", i - 1, 1), Do("settle")>> OBVIOUS
      <3> HIDE DEF words
      <3> QED BY <3>1, <3>2
    <2>2. words = [i \in 1 .. 2 |-> words[i]] OBVIOUS
    <2> HIDE DEF words
    <2> QED BY <2>1, <2>2, Looped
  <1>7. driver = "m480" => M4FuseWrite \in Seq(Fusing)
    <2> SUFFICES ASSUME driver = "m480" PROVE M4FuseWrite \in Seq(Fusing) OBVIOUS
    <2>1. M4FuseWrite = <<Do("fgather")>> \o <<Do("feraseAll"), Do("wait")>> \o FlattenSeq(words)
      BY DEF M4FuseWrite, M4Command, M4Write, Times
    <2>2. <<Do("fgather")>> \in Seq(Fusing) /\ <<Do("feraseAll"), Do("wait")>> \in Seq(Fusing)
      BY FusingStep
    <2> HIDE DEF words
    <2> QED BY <1>6, <2>1, <2>2
  <1>8. SdFuseWrite \in Seq(Fusing) BY FusingStep DEF SdFuseWrite
  <1>9. SeFuseWrite \in Seq(Fusing)
    <2>1. <<Do("fblank"), Do("fput")>> \in Seq(Fusing) /\ Do("settle") \in Fusing BY FusingStep
    <2> QED BY <2>1, SettledTyped DEF SeFuseWrite
  <1>10. /\ A3FuseWrite = FlattenSeq(singles) /\ A7FuseWrite = FlattenSeq(singles)
         /\ A4FuseWrite = FlattenSeq(slow)
    BY DEF A3FuseWrite, A4FuseWrite, A7FuseWrite, Times
  <1>11. \/ driver = "m480" /\ Ops(driver, o).fwrite = M4FuseWrite
         \/ Ops(driver, o).fwrite \in {Unimplemented, put, SdFuseWrite, SeFuseWrite, A3FuseWrite,
                                       A4FuseWrite, A7FuseWrite}
    BY OpsOf DEF Drivers, G0Ops, G4Ops, WbOps, GdOps, M4Ops, PyOps, SdOps, SeOps, A3Ops, A4Ops, A7Ops,
                 G4FuseWrite, GdFuseWrite, PyFuseWrite, G4Wait, GdWait, PyWait
  <1> HIDE DEF put, singles, slow, words
  <1>12. Ops(driver, o).fwrite \in Seq(Fusing)
    <2>1. /\ A3FuseWrite \in Seq(Fusing) /\ A4FuseWrite \in Seq(Fusing) /\ A7FuseWrite \in Seq(Fusing)
      BY <1>4, <1>5, <1>10
    <2> QED BY <1>2, <1>7, <1>8, <1>9, <1>11, <2>1
  <1> QED BY <1>1, <1>12

\* No step of X comes before the first of G.
Behind(t, G, X) ==
  \E i \in 1 .. Len(t) + 1 : /\ \A j \in 1 .. i - 1 : t[j].do \notin X
                             /\ i <= Len(t) => t[i].do \in G

LEMMA BehindTail ==
  ASSUME NEW T, NEW t \in Seq(T), t # <<>>, NEW G, NEW X, Behind(t, G, X)
  PROVE  /\ Head(t).do \notin G => Head(t).do \notin X /\ Behind(Tail(t), G, X)
  <1> SUFFICES ASSUME Head(t).do \notin G PROVE Head(t).do \notin X /\ Behind(Tail(t), G, X) OBVIOUS
  <1>1. PICK n \in Nat : n = Len(t) /\ n >= 1 /\ Head(t) = t[1] /\ Len(Tail(t)) = n - 1
    OBVIOUS
  <1>2. \A i \in 1 .. n - 1 : Tail(t)[i] = t[i + 1] BY <1>1
  <1>3. PICK i \in 1 .. n + 1 : (\A j \in 1 .. i - 1 : t[j].do \notin X) /\ (i <= n => t[i].do \in G)
    BY <1>1 DEF Behind
  <1>4. i # 1 BY <1>1, <1>3
  <1>5. Head(t).do \notin X
    <2>1. 1 \in 1 .. i - 1 BY <1>3, <1>4
    <2> QED BY <1>1, <1>3, <2>1
  <1>6. PICK k \in 1 .. n : k = i - 1 BY <1>3, <1>4
  <1>7. ASSUME NEW j \in 1 .. k - 1 PROVE Tail(t)[j].do \notin X
    <2>1. j \in 1 .. n - 1 /\ j + 1 \in 1 .. i - 1 BY <1>6
    <2> QED BY <1>2, <1>3, <2>1
  <1>8. ASSUME k <= n - 1 PROVE Tail(t)[k].do \in G
    <2>1. k \in 1 .. n - 1 /\ k + 1 = i /\ i <= n BY <1>6, <1>8
    <2> QED BY <1>2, <1>3, <2>1
  <1>9. Behind(Tail(t), G, X)
    <2>1. k \in 1 .. Len(Tail(t)) + 1 BY <1>1, <1>6
    <2> QED BY <1>1, <1>7, <1>8, <2>1 DEF Behind
  <1> QED BY <1>5, <1>9

\* A fuse command is parsed before it is applied, and reads its section, if
\* there is one, before it writes.
LEMMA FuseOrder ==
  ASSUME driver \in Drivers, NEW c
  PROVE  LET t == FuseSteps(c) \o <<Do("next")>>
         IN  /\ t \in Seq(Fusing)
             /\ Behind(t, {"fread", "unimplemented"}, FuseWork)
             /\ Behind(t, {"fparse"}, {"fapply"})
  <1> DEFINE ops == Ops(driver, NoOptions)
             t == FuseSteps(c) \o <<Do("next")>>
             w == IF "w" \in c.ops THEN <<Do("fapply")>> \o ops.fwrite ELSE <<>>
             v == IF "v" \in c.ops THEN ops.fread \o <<Do("fmatch")>> ELSE <<>>
             h == <<Do("fparse")>> \o ops.fread
  <1>1. ops.fread \in {Unimplemented, <<Do("fread")>>} /\ ops.fwrite \in Seq(Fusing) BY FusesFusing
  <1>2. FuseSteps(c) = (h \o w) \o v BY DEF FuseSteps
  <1>3. Unimplemented \in Seq(Fusing) /\ <<Do("fread")>> \in Seq(Fusing) BY FusingStep DEF Unimplemented
  <1> HIDE DEF ops
  <1>4. ops.fread \in Seq(Fusing) BY <1>1, <1>3
  <1>5. /\ <<Do("fapply")>> \in Seq(Fusing) /\ <<Do("fmatch")>> \in Seq(Fusing)
        /\ <<Do("fparse")>> \in Seq(Fusing) /\ <<Do("next")>> \in Seq(Fusing)
    BY FusingStep
  <1>6. h \in Seq(Fusing) /\ w \in Seq(Fusing) /\ v \in Seq(Fusing) BY <1>1, <1>4, <1>5
  <1>7. Len(h) = 2 /\ h[1] = Do("fparse") /\ h[2] \in {Do("unimplemented"), Do("fread")}
    <2>1. ops.fread \in {<<Do("unimplemented")>>, <<Do("fread")>>} BY <1>1 DEF Unimplemented
    <2>2. PICK x \in {Do("unimplemented"), Do("fread")} : ops.fread = <<x>> BY <2>1
    <2> QED BY <2>2
  <1> HIDE DEF h, w, v
  <1>8. t \in Seq(Fusing) /\ Len(t) >= 2 /\ t[1] = h[1] /\ t[2] = h[2]
    <2>1. ASSUME NEW a \in Seq(Fusing), NEW b \in Seq(Fusing), Len(a) >= 2
          PROVE  /\ a \o b \in Seq(Fusing) /\ Len(a \o b) >= 2
                 /\ (a \o b)[1] = a[1] /\ (a \o b)[2] = a[2]
      BY <2>1
    <2> HIDE DEF t
    <2>2. /\ h \o w \in Seq(Fusing) /\ Len(h \o w) >= 2
          /\ (h \o w)[1] = h[1] /\ (h \o w)[2] = h[2]
      <3>1. PICK a \in Seq(Fusing), b \in Seq(Fusing) : a = h /\ b = w BY <1>6
      <3>2. Len(a) >= 2
        <4>1. Len(h) = 2 BY <1>7
        <4>2. Len(a) = 2 BY <3>1, <4>1
        <4> QED BY <4>2
      <3>3. /\ a \o b \in Seq(Fusing) /\ Len(a \o b) >= 2
            /\ (a \o b)[1] = a[1] /\ (a \o b)[2] = a[2]
        BY <2>1, <3>2
      <3> QED BY <3>1, <3>3
    <2>3. PICK a \in Seq(Fusing) : a = h \o w /\ Len(a) >= 2 /\ a[1] = h[1] /\ a[2] = h[2] BY <2>2
    <2>4. /\ a \o v \in Seq(Fusing) /\ Len(a \o v) >= 2
          /\ (a \o v)[1] = h[1] /\ (a \o v)[2] = h[2]
      BY <1>6, <2>1, <2>3
    <2>5. PICK b \in Seq(Fusing) : b = a \o v /\ Len(b) >= 2 /\ b[1] = h[1] /\ b[2] = h[2] BY <2>4
    <2>6. t = b \o <<Do("next")>> BY <1>2, <2>3, <2>5 DEF t
    <2> QED BY <1>5, <2>1, <2>5, <2>6
  <1>9. \A d : Do(d).do = d BY DEF Do, Area
  <1> HIDE DEF t
  <1>10. PICK n \in Nat : n = Len(t) /\ n >= 2 BY <1>8
  <1>11. Behind(t, {"fparse"}, {"fapply"})
    <2>1. 1 \in 1 .. n + 1 /\ 1 .. 1 - 1 = {} /\ t[1].do = "fparse" BY <1>7, <1>8, <1>9, <1>10
    <2> QED BY <1>10, <2>1 DEF Behind
  <1>12. Behind(t, {"fread", "unimplemented"}, FuseWork)
    <2>1. 2 \in 1 .. n + 1 /\ 1 .. 2 - 1 = {1} BY <1>10
    <2>2. t[1].do \notin FuseWork BY <1>7, <1>8, <1>9 DEF FuseWork
    <2>3. t[2].do \in {"fread", "unimplemented"} BY <1>7, <1>8, <1>9
    <2> QED BY <1>10, <2>1, <2>2, <2>3 DEF Behind
  <1> QED BY <1>8, <1>11, <1>12 DEF t

-----------------------------------------------------------------------------
(* The command line: what the steps do to flash and fuses *)

Bits == [FuseBits -> 0 .. 1]
Spare(s) == driver # "m480" /\ \A k \in DOMAIN cmd.fuse : cmd.fuse[k].section # s

\* Only units of R are touched, and only sections that some command names.
FlashProper(d, R) ==
  /\ d.flash \in [Units -> {Torn, Old} \cup 0 .. Total]
  /\ d.busy \cap Units \subseteq R
  /\ \A u \in Units \ R : d.flash[u] = FirstFlash(world)[u]
FusesProper(d) ==
  /\ d.fuses \in [FuseSections -> Bits]
  /\ \A s \in FuseSections : Spare(s) => d.fuses[s] = FirstFuses[s] /\ FuseUnit(s) \notin d.busy
Proper(d, R) ==
  IsDevice(d) /\ d.busy \subseteq 0 .. FuseUnit(1) /\ FlashProper(d, R) /\ FusesProper(d)

LEMMA Numbers ==
  /\ Torn \in {Torn, Old} \cup 0 .. Total /\ Free \in {Torn, Old} \cup 0 .. Total
  /\ Units \subseteq 0 .. FuseUnit(1) /\ LockUnit \in 0 .. FuseUnit(1)
  /\ \A s \in FuseSections : FuseUnit(s) \in 0 .. FuseUnit(1)
  /\ FreeFuses \in Bits /\ FirstFuses \in [FuseSections -> Bits]
  <1>1. PICK t \in Nat \ {0} : t = Total BY Geometry
  <1>2. Units \subseteq 0 .. FuseUnit(1) /\ LockUnit \in 0 .. FuseUnit(1)
    BY <1>1 DEF Units, FuseUnit, LockUnit
  <1>3. \A s \in FuseSections : FuseUnit(s) \in 0 .. FuseUnit(1)
    BY <1>1 DEF FuseUnit, FuseSections
  <1>4. Torn \in {Torn, Old} \cup 0 .. Total /\ Free \in {Torn, Old} \cup 0 .. Total
    BY <1>1 DEF Torn, Free
  <1>5. FreeFuses \in Bits BY DEF FreeFuses, Bits
  <1>6. FirstFuses \in [FuseSections -> Bits]
    <2>1. [b \in FuseBits |-> 0] \in Bits BY DEF Bits
    <2> DEFINE z == [b \in FuseBits |-> 0]
    <2>2. FirstFuses = [s \in FuseSections |-> z] /\ z \in Bits BY <2>1 DEF FirstFuses
    <2> HIDE DEF z
    <2> QED BY <2>2
  <1> QED BY <1>2, <1>3, <1>4, <1>5, <1>6

\* What holds of a set of units holds of a larger one.
LEMMA Wider ==
  ASSUME NEW d, NEW R, NEW S, Proper(d, R), R \subseteq S
  PROVE  Proper(d, S)
  <1>1. d.busy \cap Units \subseteq S /\ \A u \in Units \ S : u \in Units \ R
    BY DEF Proper, FlashProper
  <1> QED BY <1>1 DEF Proper, FlashProper

\* The units of flash and fuses do not overlap.
LEMMA FlashOnly ==
  ASSUME NEW d, NEW X, X \subseteq Units \cup {LockUnit}, d.busy = X
  PROVE  /\ d.busy \subseteq 0 .. FuseUnit(1)
         /\ \A s \in FuseSections : FuseUnit(s) \notin d.busy
  <1>1. X \subseteq 0 .. FuseUnit(1) BY Numbers
  <1>2. \A s \in FuseSections : FuseUnit(s) \notin Units /\ FuseUnit(s) # LockUnit
    <2>1. FuseSections \subseteq Nat BY DEF FuseSections
    <2> QED BY <2>1, Apart
  <1> QED BY <1>1, <1>2

\* A reset tears no more than what was being written.
LEMMA CutProper ==
  ASSUME NEW R, NEW d, Proper(d, R)
  PROVE  /\ Cut(d).flash \in [Units -> {Torn, Old} \cup 0 .. Total]
         /\ \A u \in Units \ R : Cut(d).flash[u] = FirstFlash(world)[u]
         /\ Cut(d).fuses \in [FuseSections -> Bits]
         /\ \A s \in FuseSections : Spare(s) => Cut(d).fuses[s] = FirstFuses[s]
  <1>1. /\ Cut(d).flash = [u \in Units |-> IF u \in d.busy THEN Torn ELSE d.flash[u]]
        /\ Cut(d).fuses = [s \in FuseSections |-> IF FuseUnit(s) \in d.busy THEN FreeFuses ELSE d.fuses[s]]
    BY CutShape DEF Proper
  <1>2. Cut(d).flash \in [Units -> {Torn, Old} \cup 0 .. Total]
    <2>1. \A u \in Units : d.flash[u] \in {Torn, Old} \cup 0 .. Total BY DEF Proper, FlashProper
    <2> QED BY <1>1, <2>1, Numbers
  <1>3. ASSUME NEW u \in Units \ R PROVE Cut(d).flash[u] = FirstFlash(world)[u]
    <2>1. u \notin d.busy /\ d.flash[u] = FirstFlash(world)[u] BY DEF Proper, FlashProper
    <2> QED BY <1>1, <2>1
  <1>4. Cut(d).fuses \in [FuseSections -> Bits]
    <2>1. \A s \in FuseSections : d.fuses[s] \in Bits BY DEF Proper, FusesProper
    <2> QED BY <1>1, <2>1, Numbers
  <1>5. ASSUME NEW s \in FuseSections, Spare(s) PROVE Cut(d).fuses[s] = FirstFuses[s]
    <2>1. FuseUnit(s) \notin d.busy /\ d.fuses[s] = FirstFuses[s] BY <1>5 DEF Proper, FusesProper
    <2> QED BY <1>1, <2>1
  <1> QED BY <1>2, <1>3, <1>4, <1>5

\* No plain step changes more.
LEMMA SparedProper ==
  ASSUME NEW R, Proper(dev, R), Spared
  PROVE  Proper(dev', R)
  <1>1. IsDevice(dev') /\ dev'.busy \subseteq dev.busy BY DEF Spared
  <1>2. PICK x \in {dev, Cut(dev)} : dev'.flash = x.flash /\ dev'.fuses = x.fuses
    BY DEF Spared, Alike
  <1>3. /\ x.flash \in [Units -> {Torn, Old} \cup 0 .. Total]
        /\ \A u \in Units \ R : x.flash[u] = FirstFlash(world)[u]
        /\ x.fuses \in [FuseSections -> Bits]
        /\ \A s \in FuseSections : Spare(s) => x.fuses[s] = FirstFuses[s]
    <2>1. CASE x = dev BY <2>1 DEF Proper, FlashProper, FusesProper
    <2>2. CASE x = Cut(dev) BY <2>2, CutProper
    <2> QED BY <1>2, <2>1, <2>2
  <1>4. dev'.busy \subseteq 0 .. FuseUnit(1) /\ dev'.busy \cap Units \subseteq R
    BY <1>1 DEF Proper, FlashProper
  <1>5. \A s \in FuseSections : Spare(s) => FuseUnit(s) \notin dev'.busy
    BY <1>1 DEF Proper, FusesProper
  <1> QED BY <1>1, <1>2, <1>3, <1>4, <1>5 DEF Proper, FlashProper, FusesProper

LEMMA SettleProper ==
  ASSUME NEW R, NEW d, Proper(d, R)
  PROVE  Proper(Settle(d), R)
  <1>1. /\ IsDevice(Settle(d)) /\ Settle(d).flash = d.flash /\ Settle(d).fuses = d.fuses
        /\ Settle(d).busy = {}
    BY CutShape DEF Proper
  <1> QED BY <1>1 DEF Proper, FlashProper, FusesProper

\* A command of the flash controller that was carried out.
LEMMA WrittenProper ==
  ASSUME NEW R, R \subseteq Units, NEW d, Proper(d, R), NEW X, X \subseteq R, NEW x, IsDevice(x),
         x.fuses = d.fuses, x.busy = X, x.flash \in [Units -> {Torn, Old} \cup 0 .. Total],
         \A u \in Units \ X : x.flash[u] = d.flash[u]
  PROVE  Proper(x, R)
  <1>1. X \subseteq Units \cup {LockUnit} OBVIOUS
  <1>2. /\ x.busy \subseteq 0 .. FuseUnit(1)
        /\ \A s \in FuseSections : FuseUnit(s) \notin x.busy
    BY <1>1, FlashOnly
  <1>3. FusesProper(x) BY <1>2 DEF Proper, FusesProper
  <1>4. \A u \in Units \ R : x.flash[u] = FirstFlash(world)[u] BY DEF Proper, FlashProper
  <1>5. FlashProper(x, R) BY <1>4 DEF FlashProper
  <1> QED BY <1>2, <1>3, <1>5 DEF Proper

LEMMA ErrProper ==
  ASSUME NEW R, NEW d, Proper(d, R)
  PROVE  Proper([Settle(d) EXCEPT !.err = TRUE], R)
  <1> DEFINE y == Settle(d)
             x == [y EXCEPT !.err = TRUE]
  <1>1. Proper(y, R) BY SettleProper
  <1>2. IsDevice(y) BY <1>1 DEF Proper
  <1> HIDE DEF y
  <1>3. IsDevice(x) /\ x.flash = y.flash /\ x.fuses = y.fuses /\ x.busy = y.busy
    <2>1. x = [y EXCEPT !.err = TRUE] OBVIOUS
    <2> HIDE DEF x
    <2> QED BY <1>2, <2>1 DEF IsDevice
  <1> HIDE DEF x
  <1>4. Proper(x, R) BY <1>1, <1>3 DEF Proper, FlashProper, FusesProper
  <1> QED BY <1>4 DEF x, y

LEMMA ErasedProper ==
  ASSUME NEW R, R \subseteq Units, NEW d, Proper(d, R), NEW s, Span(s) \subseteq R
  PROVE  Proper(Erased(d, s), R)
  <1> DEFINE y == Settle(d)
             f == [u \in Units |-> IF u \in Span(s) THEN Free ELSE y.flash[u]]
             x == [y EXCEPT !.flash = f, !.busy = Span(s)]
  <1>1. CASE Refuses(d, Span(s)) BY <1>1, ErrProper DEF Erased
  <1>2. CASE ~Refuses(d, Span(s))
    <2>1. Proper(y, R) BY SettleProper
    <2>2. IsDevice(y) /\ y.flash \in [Units -> {Torn, Old} \cup 0 .. Total] BY <2>1 DEF Proper, FlashProper
    <2>3. Erased(d, s) = x BY <1>2 DEF Erased
    <2> HIDE DEF y
    <2>4. f \in [Units -> {Torn, Old} \cup 0 .. Total]
      <3>1. \A u \in Units : y.flash[u] \in {Torn, Old} \cup 0 .. Total BY <2>2
      <3> QED BY <3>1, Numbers
    <2>5. \A u \in Units \ Span(s) : f[u] = y.flash[u] OBVIOUS
    <2> HIDE DEF f
    <2>6. IsDevice(x) /\ x.flash = f /\ x.fuses = y.fuses /\ x.busy = Span(s)
      <3>1. x = [y EXCEPT !.flash = f, !.busy = Span(s)] OBVIOUS
      <3> HIDE DEF x
      <3> QED BY <2>2, <3>1 DEF IsDevice
    <2> HIDE DEF x
    <2>7. Proper(x, R) BY <2>1, <2>4, <2>5, <2>6, WrittenProper
    <2> QED BY <2>3, <2>7
  <1> QED BY <1>1, <1>2

LEMMA ProgrammedProper ==
  ASSUME InPlan, InOptions, NEW R, R \subseteq Units, NEW d, Proper(d, R), NEW s,
         s.at \in Nat, s.from \in Nat, s.len \in Nat, Span(s) \subseteq R
  PROVE  Proper(Programmed(d, s), R)
  <1> DEFINE y == Settle(d)
             f == [u \in Units |-> IF u \notin Span(s) THEN y.flash[u]
                                   ELSE IF y.flash[u] = Free THEN Buffer(s.from + u - s.at)
                                   ELSE Torn]
             e == y.err \/ \E u \in Span(s) : d.flash[u] # Free
             x == [y EXCEPT !.flash = f, !.err = e, !.busy = Span(s)]
  <1>1. CASE Refuses(d, Span(s)) BY <1>1, ErrProper DEF Programmed
  <1>2. CASE ~Refuses(d, Span(s))
    <2>1. Proper(y, R) BY SettleProper
    <2>2. IsDevice(y) /\ y.flash \in [Units -> {Torn, Old} \cup 0 .. Total] BY <2>1 DEF Proper, FlashProper
    <2>3. Programmed(d, s) = x BY <1>2 DEF Programmed
    <2>4. ASSUME NEW i \in Nat PROVE Buffer(i) \in {Torn, Old} \cup 0 .. Total
      <3>1. opt.file \in Nat /\ opt.size \in Nat /\ opt.size <= Total /\ opt.file <= opt.size
        BY Pages DEF InPlan, InOptions
      <3>2. Total \in Nat BY Geometry
      <3>3. Buffer(i) \in {0, i + 1} /\ (i < opt.file => Buffer(i) = i + 1) /\ (~(i < opt.file) => Buffer(i) = 0)
        BY DEF Buffer, FileByte, Free
      <3>4. CASE i < opt.file
        <4>1. i + 1 \in 0 .. Total BY <3>1, <3>2, <3>4
        <4> QED BY <3>3, <3>4, <4>1
      <3>5. CASE ~(i < opt.file) BY <3>3, <3>5, Numbers DEF Free
      <3> QED BY <3>4, <3>5
    <2> HIDE DEF y
    <2>6. ASSUME NEW u \in Units, u \notin Span(s) PROVE f[u] = y.flash[u] BY <2>6
    <2>5. f \in [Units -> {Torn, Old} \cup 0 .. Total]
      <3>1. ASSUME NEW u \in Units PROVE f[u] \in {Torn, Old} \cup 0 .. Total
        <4>1. CASE u \notin Span(s)
          <5>1. f[u] = y.flash[u] BY <2>6, <4>1
          <5>2. y.flash[u] \in {Torn, Old} \cup 0 .. Total BY <2>2
          <5> HIDE DEF f
          <5> QED BY <5>1, <5>2
        <4>2. CASE u \in Span(s)
          <5>1. s.from + u - s.at \in Nat BY <4>2 DEF Span, Units
          <5>2. Buffer(s.from + u - s.at) \in {Torn, Old} \cup 0 .. Total BY <2>4, <5>1
          <5>3. f[u] = Buffer(s.from + u - s.at) \/ f[u] = Torn
            <6>1. CASE y.flash[u] = Free BY <4>2, <6>1
            <6>2. CASE y.flash[u] # Free BY <4>2, <6>2
            <6> QED BY <6>1, <6>2
          <5> HIDE DEF f
          <5> QED BY <5>2, <5>3, Numbers
        <4> QED BY <4>1, <4>2
      <3>2. f = [u \in Units |-> f[u]] OBVIOUS
      <3> HIDE DEF f
      <3> QED BY <3>1, <3>2
    <2> HIDE DEF f, e
    <2>7. IsDevice(x) /\ x.flash = f /\ x.fuses = y.fuses /\ x.busy = Span(s)
      <3>1. x = [y EXCEPT !.flash = f, !.err = e, !.busy = Span(s)] OBVIOUS
      <3> HIDE DEF x
      <3> QED BY <2>2, <3>1 DEF IsDevice
    <2> HIDE DEF x
    <2>8. Proper(x, R) BY <2>1, <2>5, <2>6, <2>7, WrittenProper
    <2> QED BY <2>3, <2>8
  <1> QED BY <1>1, <1>2

LEMMA ChipProper ==
  ASSUME NEW d, Proper(d, Units)
  PROVE  Proper(Chip(d), Units)
  <1>1. IsDevice(Chip(d)) /\ Chip(d).flash = AllFree /\ Chip(d).busy = Units BY ChipShape DEF Proper
  <1>2. Chip(d).fuses = d.fuses
    <2> DEFINE y == Settle(d)
    <2>1. IsDevice(y) /\ y.fuses = d.fuses BY CutShape DEF Proper
    <2>2. Wiped(d) = [y EXCEPT !.flash = AllFree, !.busy = Units] BY DEF Wiped, AllFree
    <2>3. Chip(d) = [Wiped(d) EXCEPT !.locked = FALSE] BY DEF Chip
    <2> HIDE DEF y
    <2>4. IsDevice(Wiped(d)) /\ Wiped(d).fuses = d.fuses BY <2>1, <2>2 DEF IsDevice
    <2> QED BY <2>3, <2>4 DEF IsDevice
  <1>3. AllFree \in [Units -> {Torn, Old} \cup 0 .. Total] BY Numbers DEF AllFree
  <1>4. \A u \in Units \ Units : Chip(d).flash[u] = d.flash[u] OBVIOUS
  <1> QED BY <1>1, <1>2, <1>3, <1>4, WrittenProper

LEMMA LockProper ==
  ASSUME NEW R, NEW d, Proper(d, R)
  PROVE  Proper([Settle(d) EXCEPT !.locked = TRUE, !.busy = {LockUnit}], R)
  <1> DEFINE y == Settle(d)
             x == [y EXCEPT !.locked = TRUE, !.busy = {LockUnit}]
  <1>1. Proper(y, R) BY SettleProper
  <1>2. IsDevice(y) BY <1>1 DEF Proper
  <1> HIDE DEF y
  <1>3. IsDevice(x) /\ x.flash = y.flash /\ x.fuses = y.fuses /\ x.busy = {LockUnit}
    <2>1. x = [y EXCEPT !.locked = TRUE, !.busy = {LockUnit}] OBVIOUS
    <2> HIDE DEF x
    <2> QED BY <1>2, <2>1 DEF IsDevice
  <1>4. {LockUnit} \subseteq Units \cup {LockUnit} OBVIOUS
  <1> HIDE DEF x
  <1>5. /\ x.busy \subseteq 0 .. FuseUnit(1)
        /\ \A s \in FuseSections : FuseUnit(s) \notin x.busy
    BY <1>3, <1>4, FlashOnly
  <1>6. x.busy \cap Units = {} BY <1>3, Apart
  <1>7. Proper(x, R) BY <1>1, <1>3, <1>5, <1>6 DEF Proper, FlashProper, FusesProper
  <1> QED BY <1>7 DEF x, y

\* The controller carries out a step of an operation within its reach.
LEMMA WithinProper ==
  ASSUME InPlan, InOptions, Working, NEW R, R \subseteq Units, Head(todo) \in Within(R), Proper(dev, R)
  PROVE  Proper(dev', R)
  <1> DEFINE s == Head(todo)
  <1>1. /\ s.do \in StepNames \ (FuseSide \cup {"options"}) /\ s.at \in Nat /\ s.len \in Nat /\ s.from \in Nat
        /\ s.do \in {"erase", "program"} => Span(s) \subseteq R
        /\ s.do \in {"chipErase", "regress"} => Units \subseteq R
    BY DEF Within, StepsBut, Inside
  <1>2. IsDevice(dev) BY DEF InPlan
  <1>3. CASE s.do \in PlainNames
    <2>1. Spared BY <1>2, <1>3, PlainSpares
    <2> QED BY <2>1, SparedProper
  <1>4. CASE s.do \in FlashWork
    <2>1. Flash BY <1>4, FlashDoes
    <2>2. CASE EraseArea
      <3>1. dev' = Erased(dev, s) /\ s.do = "erase" BY <2>2 DEF EraseArea, Step
      <3>2. Span(s) \subseteq R BY <1>1, <3>1
      <3> HIDE DEF s
      <3>3. Proper(Erased(dev, s), R) BY <3>2, ErasedProper
      <3> QED BY <3>1, <3>3
    <2>3. CASE ProgramArea
      <3>1. dev' = Programmed(dev, s) /\ s.do = "program" BY <2>3 DEF ProgramArea, Step
      <3>2. Span(s) \subseteq R BY <1>1, <3>1
      <3> HIDE DEF s
      <3>3. Proper(Programmed(dev, s), R) BY <1>1, <3>2, ProgrammedProper
      <3> QED BY <3>1, <3>3
    <2>4. CASE EraseChip
      <3>1. s.do \in {"chipErase", "regress"} /\ (dev' = Chip(dev) \/ dev' = Settle(dev))
        BY <2>4 DEF EraseChip, Step
      <3>2. R = Units BY <1>1, <3>1
      <3>3. Proper(Chip(dev), R) BY <3>2, ChipProper
      <3>4. Proper(Settle(dev), R) BY SettleProper
      <3> QED BY <3>1, <3>3, <3>4
    <2>5. CASE SetLock
      <3>1. dev' = [Settle(dev) EXCEPT !.locked = TRUE, !.busy = {LockUnit}] BY <2>5 DEF SetLock
      <3> QED BY <3>1, LockProper
    <2>6. CASE WaitDone \/ WaitReady \/ Compare \/ Fetch
      <3>1. dev' = Settle(dev) BY <2>6 DEF WaitDone, WaitReady, Compare, Fetch
      <3> QED BY <3>1, SettleProper
    <2>7. CASE Save
      <3>1. UNCHANGED <<driver, cmd, world, dev>> BY <2>7 DEF Save
      <3> QED BY <3>1
    <2> QED BY <2>1, <2>2, <2>3, <2>4, <2>5, <2>6, <2>7 DEF Flash
  <1>5. CASE s.do \in FuseWork BY <1>1, <1>5 DEF FuseSide
  <1> QED BY <1>1, <1>3, <1>4, <1>5 DEF PlainNames

\* What opens the target leaves its memories alone.
LEMMA OpeningProper ==
  ASSUME InPlan, Working, NEW R, Head(todo) \in Opening, Proper(dev, R)
  PROVE  Proper(dev', R)
  <1>1. Head(todo).do \in StepNames \ (FlashWork \cup FuseSide) BY DEF Opening, StepsBut
  <1>2. Head(todo).do \in PlainNames BY <1>1 DEF FuseSide, PlainNames
  <1>3. Spared BY <1>2, PlainSpares DEF InPlan
  <1> QED BY <1>3, SparedProper

\* The fuses of one section are written.
LEMMA PutProper ==
  ASSUME NEW R, NEW d, Proper(d, R), NEW s \in FuseSections, NEW v \in Bits, ~Spare(s)
  PROVE  Proper(PutFuses(d, s, v), R)
  <1> DEFINE y == Settle(d)
             f == [y.fuses EXCEPT ![s] = v]
             x == [y EXCEPT !.fuses = f, !.busy = {FuseUnit(s)}]
  <1>1. CASE Refuses(d, {FuseUnit(s)}) BY <1>1, ErrProper DEF PutFuses
  <1>2. CASE ~Refuses(d, {FuseUnit(s)})
    <2>1. Proper(y, R) BY SettleProper
    <2>2. /\ IsDevice(y) /\ y.fuses \in [FuseSections -> Bits]
          /\ \A t \in FuseSections : Spare(t) => y.fuses[t] = FirstFuses[t]
      BY <2>1 DEF Proper, FusesProper
    <2>3. PutFuses(d, s, v) = x BY <1>2 DEF PutFuses
    <2> HIDE DEF y
    <2>4. f \in [FuseSections -> Bits] /\ \A t \in FuseSections \ {s} : f[t] = y.fuses[t] BY <2>2
    <2> HIDE DEF f
    <2>5. IsDevice(x) /\ x.flash = y.flash /\ x.fuses = f /\ x.busy = {FuseUnit(s)}
      <3>1. x = [y EXCEPT !.fuses = f, !.busy = {FuseUnit(s)}] OBVIOUS
      <3> HIDE DEF x
      <3> QED BY <2>2, <3>1 DEF IsDevice
    <2> HIDE DEF x
    <2>6. FlashProper(x, R)
      <3>1. s \in Nat BY DEF FuseSections
      <3>2. FuseUnit(s) \notin Units BY <3>1, Apart
      <3> QED BY <2>1, <2>5, <3>2 DEF Proper, FlashProper
    <2>7. ASSUME NEW t \in FuseSections, Spare(t) PROVE FuseUnit(t) \notin x.busy
      <3>1. t # s BY <2>7
      <3>2. FuseUnit(t) # FuseUnit(s) BY <3>1, Geometry DEF FuseUnit, FuseSections
      <3> QED BY <2>5, <3>2
    <2>8. FusesProper(x)
      <3>1. ASSUME NEW t \in FuseSections, Spare(t) PROVE x.fuses[t] = FirstFuses[t]
        <4>1. t # s BY <3>1
        <4> QED BY <2>2, <2>4, <2>5, <3>1, <4>1
      <3> QED BY <2>4, <2>5, <2>7, <3>1 DEF FusesProper
    <2>9. x.busy \subseteq 0 .. FuseUnit(1) BY <2>5, Numbers
    <2>10. Proper(x, R) BY <2>5, <2>6, <2>8, <2>9 DEF Proper
    <2> QED BY <2>3, <2>10
  <1> QED BY <1>1, <1>2

\* All of them are erased, on M480.
LEMMA AllProper ==
  ASSUME NEW R, NEW d, Proper(d, R), driver = "m480"
  PROVE  Proper([Settle(d) EXCEPT !.fuses = [s \in FuseSections |-> FreeFuses],
                                  !.busy = {FuseUnit(s) : s \in FuseSections}], R)
  <1> DEFINE y == Settle(d)
             f == [s \in FuseSections |-> FreeFuses]
             b == {FuseUnit(s) : s \in FuseSections}
             x == [y EXCEPT !.fuses = f, !.busy = b]
  <1>1. Proper(y, R) BY SettleProper
  <1>2. IsDevice(y) BY <1>1 DEF Proper
  <1>3. f \in [FuseSections -> Bits] BY Numbers
  <1>4. b \subseteq 0 .. FuseUnit(1) BY Numbers
  <1>5. b \cap Units = {}
    <2>1. FuseSections \subseteq Nat BY DEF FuseSections
    <2> QED BY <2>1, Apart
  <1> HIDE DEF y, f, b
  <1>6. IsDevice(x) /\ x.flash = y.flash /\ x.fuses = f /\ x.busy = b
    <2>1. x = [y EXCEPT !.fuses = f, !.busy = b] OBVIOUS
    <2> HIDE DEF x
    <2> QED BY <1>2, <2>1 DEF IsDevice
  <1> HIDE DEF x
  <1>7. FusesProper(x) BY <1>3, <1>6 DEF FusesProper, Spare
  <1>8. FlashProper(x, R) BY <1>1, <1>5, <1>6 DEF Proper, FlashProper
  <1>9. Proper(x, R) BY <1>4, <1>6, <1>7, <1>8 DEF Proper
  <1> QED BY <1>9 DEF x, y, f, b

\* A fuse command that has read its section writes no other, but for M480.
LEMMA FuseProper ==
  ASSUME InPlan, NEW R, Proper(dev, R), FuseWrite, plan # <<>>, plan[1][1] = "fuse",
         Head(todo) \in Fusing, Command.section \in SectionsOf(driver),
         fdata \in Bits, config \in [FuseSections -> Bits]
  PROVE  Proper(dev', R)
  <1> DEFINE section == Command.section
             bit == Head(todo).at
  <1>1. section \in FuseSections BY DEF SectionsOf, FuseSections
  <1>2. ~Spare(section)
    <2>1. plan[1] \in Entry BY DEF InPlan
    <2>2. plan[1][2] \in DOMAIN cmd.fuse BY <2>1 DEF Entry
    <2>3. section = cmd.fuse[plan[1][2]].section BY DEF Command
    <2> QED BY <2>2, <2>3 DEF Spare
  <1>3. dev.fuses[section] \in Bits BY <1>1 DEF Proper, FusesProper
  <1> HIDE DEF section
  <1>4. CASE Step("fput") /\ dev' = PutFuses(dev, section, fdata) BY <1>1, <1>2, <1>4, PutProper
  <1>5. CASE Step("fblank") /\ dev' = PutFuses(dev, section, FreeFuses)
    BY <1>1, <1>2, <1>5, PutProper, Numbers
  <1>6. CASE Step("fword") /\ dev' = PutFuses(dev, bit, config[bit])
    <2>1. driver = "m480" /\ bit \in FuseSections BY <1>6 DEF Step, Fusing
    <2>2. config[bit] \in Bits /\ ~Spare(bit) BY <2>1 DEF Spare
    <2> QED BY <1>6, <2>1, <2>2, PutProper
  <1>7. CASE Step("fbit") /\ dev' = PutFuses(dev, section, [dev.fuses[section] EXCEPT ![bit] = fdata[bit]])
    <2> DEFINE v == [dev.fuses[section] EXCEPT ![bit] = fdata[bit]]
    <2>1. v \in Bits
      <3>1. CASE bit \in FuseBits
        <4>1. fdata[bit] \in 0 .. 1 BY <3>1 DEF Bits
        <4> QED BY <1>3, <4>1 DEF Bits
      <3>2. CASE bit \notin FuseBits BY <1>3, <3>2 DEF Bits
      <3> QED BY <3>1, <3>2
    <2> HIDE DEF v
    <2>2. Proper(PutFuses(dev, section, v), R) BY <1>1, <1>2, <2>1, PutProper
    <2> QED BY <1>7, <2>2 DEF v
  <1>8. CASE /\ Step("feraseAll")
             /\ dev' = IF Refuses(dev, {FuseUnit(s) : s \in FuseSections})
                       THEN [Settle(dev) EXCEPT !.err = TRUE]
                       ELSE [Settle(dev) EXCEPT !.fuses = [s \in FuseSections |-> FreeFuses],
                                                !.busy = {FuseUnit(s) : s \in FuseSections}]
    <2>1. driver = "m480" BY <1>8 DEF Step, Fusing
    <2> QED BY <1>8, <2>1, AllProper, ErrProper
  <1> QED BY <1>4, <1>5, <1>6, <1>7, <1>8 DEF FuseWrite, section

\* The rest of a plan.
LEMMA OnceTail ==
  ASSUME NEW T, NEW p \in Seq(T), p # <<>>, Once(p)
  PROVE  /\ Once(Tail(p))
         /\ p[1][1] = "select" => \A i \in 1 .. Len(Tail(p)) : Tail(p)[i][1] # "select"
  <1>1. Len(p) \in Nat \ {0} /\ Len(Tail(p)) = Len(p) - 1 OBVIOUS
  <1>2. \A i \in 1 .. Len(Tail(p)) : Tail(p)[i] = p[i + 1] OBVIOUS
  <1>3. Once(Tail(p))
    <2> SUFFICES ASSUME NEW i \in 1 .. Len(Tail(p)), NEW j \in 1 .. Len(Tail(p)), i < j,
                        Tail(p)[i][1] = "select"
                 PROVE  Tail(p)[j][1] # "select"
      BY DEF Once
    <2>1. i + 1 \in 1 .. Len(p) /\ j + 1 \in 1 .. Len(p) /\ i + 1 < j + 1 BY <1>1
    <2>2. Tail(p)[i] = p[i + 1] /\ Tail(p)[j] = p[j + 1] BY <1>2
    <2>3. p[i + 1][1] = "select" BY <2>2
    <2>4. p[j + 1][1] # "select" BY <2>1, <2>3 DEF Once
    <2> QED BY <2>2, <2>4
  <1>4. ASSUME p[1][1] = "select", NEW i \in 1 .. Len(Tail(p)) PROVE Tail(p)[i][1] # "select"
    <2>1. i + 1 \in 1 .. Len(p) /\ 1 \in 1 .. Len(p) /\ 1 < i + 1 BY <1>1
    <2>2. p[i + 1][1] # "select" BY <1>4, <2>1 DEF Once
    <2> QED BY <1>2, <2>2
  <1> QED BY <1>3, <1>4

\* The last operation of a plan: nothing of the target is touched.
LEMMA CloseOpens == StepsOf("close") \in Seq(Opening)
  <1>1. StepsOf("close") = <<Do("led"), Do("disconnect")>> BY DEF StepsOf
  <1>2. Do("led") \in Opening
    <2>1. "led" \in StepNames \ (FlashWork \cup FuseSide) BY DEF StepNames, FlashWork, FuseSide, FuseWork
    <2> QED BY <2>1, AreaTyped DEF Opening
  <1>3. Do("disconnect") \in Opening BY OpeningStep
  <1>4. <<Do("led"), Do("disconnect")>> \in Seq(Opening) BY <1>2, <1>3
  <1> QED BY <1>1, <1>4

\* A fuse command that is not to write applies no value.
LEMMA NoApply ==
  ASSUME driver \in Drivers, NEW c, "w" \notin c.ops
  PROVE  Without(FuseSteps(c) \o <<Do("next")>>, {"fapply"})
  <1> DEFINE S == StepsBut({"fapply"})
             r == Ops(driver, NoOptions).fread
             v == IF "v" \in c.ops THEN r \o <<Do("fmatch")>> ELSE <<>>
  <1>1. Do("fparse") \in S /\ Do("fread") \in S /\ Do("unimplemented") \in S /\ Do("fmatch") \in S
        /\ Do("next") \in S
    <2>1. {"fparse", "fread", "unimplemented", "fmatch", "next"} \subseteq StepNames \ {"fapply"}
      BY DEF StepNames
    <2> QED BY <2>1, AreaTyped
  <1> HIDE DEF S
  <1>2. r \in {Unimplemented, <<Do("fread")>>} BY FusesFusing
  <1>3. r \in Seq(S)
    <2>1. PICK x \in S : r = <<x>> BY <1>1, <1>2 DEF Unimplemented
    <2> QED BY <2>1
  <1>4. FuseSteps(c) = <<Do("fparse")>> \o r \o <<>> \o v BY DEF FuseSteps
  <1> HIDE DEF r
  <1>5. <<Do("fmatch")>> \in Seq(S) /\ <<>> \in Seq(S) /\ <<Do("fparse")>> \in Seq(S)
        /\ <<Do("next")>> \in Seq(S)
    BY <1>1
  <1>6. r \o <<Do("fmatch")>> \in Seq(S) BY <1>3, <1>5
  <1>7. v \in Seq(S) BY <1>5, <1>6
  <1> HIDE DEF v
  <1>8. <<Do("fparse")>> \o r \in Seq(S) BY <1>3, <1>5
  <1>9. <<Do("fparse")>> \o r \o <<>> \in Seq(S) BY <1>5, <1>8
  <1>10. FuseSteps(c) \in Seq(S) BY <1>4, <1>7, <1>9
  <1>11. FuseSteps(c) \o <<Do("next")>> \in Seq(S) BY <1>5, <1>10
  <1> QED BY <1>11, StepsWithout DEF S

\* The data of a fuse command stay bits.
LEMMA ApplyTyped ==
  ASSUME InPlan, plan # <<>>, plan[1][1] = "fuse", Command.value # <<>>,
         Command.what \notin {"all", "short"}, fdata \in Bits
  PROVE  ApplyValue(fdata, Command) \in Bits
  <1>1. plan[1] \in Entry BY DEF InPlan
  <1>2. plan[1][2] \in DOMAIN cmd.fuse BY <1>1 DEF Entry
  <1>3. Command \in FuseCommand
    <2>1. cmd.fuse \in Seq(FuseCommand) BY CaseTyped
    <2> QED BY <1>2, <2>1 DEF Command
  <1> DEFINE c == Command
  <1>4. c.value \in Bits /\ c.lo \in Nat /\ c.hi \in Nat BY <1>3 DEF FuseCommand, Bits
  <1> HIDE DEF c
  <1>5. ASSUME NEW b \in FuseBits, InRange(c, b) PROVE Given(c, b) \in 0 .. 1
    <2>1. CASE c.what = "file" BY <1>4, <2>1 DEF Given, Bits
    <2>2. CASE c.what # "file"
      <3>1. c.lo <= b BY <1>5, <2>2 DEF InRange
      <3>2. b - c.lo \in FuseBits BY <1>4, <3>1 DEF FuseBits
      <3> QED BY <1>4, <2>2, <3>2 DEF Given, Bits
    <2> QED BY <2>1, <2>2
  <1>6. \A b \in FuseBits : fdata[b] \in 0 .. 1 BY DEF Bits
  <1>7. ApplyValue(fdata, c) \in [FuseBits -> 0 .. 1] BY <1>5, <1>6 DEF ApplyValue
  <1> QED BY <1>7 DEF c, Bits

LEMMA DataTyped ==
  ASSUME InPlan, Working, fdata \in Bits, config \in [FuseSections -> Bits],
         dev.fuses \in [FuseSections -> Bits],
         Head(todo).do = "fapply" => plan # <<>> /\ plan[1][1] = "fuse" /\ Command.value # <<>>
  PROVE  fdata' \in Bits /\ config' \in [FuseSections -> Bits]
  <1>1. CASE Probe
    <2>1. UNCHANGED <<fdata, config>>
      BY <1>1 DEF Probe, Disclose, Connect, Disconnect, Configure, Led, Link, OnlyProgress, OnlyDevice
    <2> QED BY <2>1
  <1>2. CASE Target
    <2>1. UNCHANGED <<fdata, config>>
      BY <1>2 DEF Target, ResetPin, ResetTarget, Halt, Catch, ReleaseCore, EndExtension, FinishIfOpen,
                  DebugStep, OnlyDevice
    <2> QED BY <2>1
  <1>3. CASE Checks
    <2>1. UNCHANGED <<fdata, config>>
      BY <1>3 DEF Checks, Identify, CheckLocked, Unlocked, FindErrors, NotImplemented, CheckOptions, OnlyProgress, OnlyDevice
    <2> QED BY <2>1
  <1>4. CASE Flash
    <2>1. UNCHANGED <<fdata, config>>
      BY <1>4 DEF Flash, WaitDone, WaitReady, EraseArea, ProgramArea, EraseChip, SetLock, Compare, Fetch, Save, OnlyDevice
    <2> QED BY <2>1
  <1>5. CASE FuseParse \/ FuseMatch \/ FuseWrite
    <2>1. UNCHANGED <<fdata, config>> BY <1>5 DEF FuseParse, FuseMatch, FuseWrite, OnlyProgress, OnlyDevice
    <2> QED BY <2>1
  <1>6. CASE FuseRead
    <2>1. /\ config' = config
          /\ \/ fdata' = fdata
             \/ /\ Command.section \in SectionsOf(driver)
                /\ fdata' = dev.fuses[Command.section]
      BY <1>6 DEF FuseRead
    <2>2. SectionsOf(driver) \subseteq FuseSections BY DEF SectionsOf, FuseSections
    <2> QED BY <2>1, <2>2
  <1>7. CASE FuseApply
    <2>1. /\ Head(todo).do = "fapply" /\ config' = config
          /\ \/ fdata' = fdata
             \/ /\ Command.what \notin {"all", "short"}
                /\ fdata' = ApplyValue(fdata, Command)
      BY <1>7 DEF FuseApply, Step
    <2>2. CASE fdata' = fdata BY <2>1, <2>2
    <2>3. CASE fdata' # fdata
      <3>1. ApplyValue(fdata, Command) \in Bits BY <2>1, <2>3, ApplyTyped
      <3> QED BY <2>1, <2>3, <3>1
    <2> QED BY <2>2, <2>3
  <1>8. CASE FuseGather
    <2> DEFINE g == [dev.fuses EXCEPT ![Command.section] = fdata]
    <2>1. fdata' = fdata /\ config' = OpenIce(g) BY <1>8 DEF FuseGather
    <2>2. g \in [FuseSections -> Bits] OBVIOUS
    <2> HIDE DEF g
    <2>3. 0 \in FuseSections /\ 1 \in FuseBits BY DEF FuseSections, FuseBits
    <2>4. [g[0] EXCEPT ![1] = 1] \in Bits BY <2>2, <2>3 DEF Bits
    <2>5. OpenIce(g) = [g EXCEPT ![0] = [g[0] EXCEPT ![1] = 1]] BY DEF OpenIce
    <2>6. OpenIce(g) \in [FuseSections -> Bits] BY <2>2, <2>4, <2>5
    <2> QED BY <2>1, <2>6
  <1> QED BY <1>1, <1>2, <1>3, <1>4, <1>5, <1>6, <1>7, <1>8 DEF Working, Fuses

(* The invariant.  Until select is through, nothing of the flash and no    *)
(* fuse is touched; after it the options stand, and each operation works   *)
(* within their reach, or writes the section its fuse command has read.    *)
Steady ==
  /\ driver \in RunDrivers /\ connected \in BOOLEAN /\ Len(saved) <= Total
  /\ exit \in {"running", "ok", "error"}
  /\ fdata \in Bits /\ config \in [FuseSections -> Bits]

FuseTodo ==
  /\ todo \in Seq(Fusing)
  /\ Command.section \in SectionsOf(driver) \/ Behind(todo, {"fread", "unimplemented"}, FuseWork)
  /\ "w" \in Command.ops => Command.value # <<>> \/ Behind(todo, {"fparse"}, {"fapply"})
  /\ "w" \notin Command.ops => Without(todo, {"fapply"})

Selecting ==
  /\ Proper(dev, {}) /\ Guarded(plan) /\ Once(plan)
  /\ todo \in Seq(Opening) /\ (todo # <<>> => plan # <<>>)
Serving ==
  /\ plan # <<>> /\ \A i \in 1 .. Len(plan) : plan[i][1] # "select"
  /\ \/ plan[1][1] = "fuse" /\ FuseTodo
     \/ todo \in Seq(Within(Reach))
AskInv ==
  /\ InPlan /\ InOptions /\ Steady /\ Proper(dev, Reach)
  /\ exit = "running" => Selecting \/ Serving

\* The device's part does not change with what it does not name.
LEMMA ProperNext ==
  ASSUME NEW R, Proper(dev', R), UNCHANGED <<driver, cmd, world>>
  PROVE  Proper(dev, R)'
  BY DEF Proper, FlashProper, FusesProper, Spare, FirstFlash, IsDevice

LEMMA ReachNext ==
  ASSUME UNCHANGED <<driver, cmd, opt>>
  PROVE  Reach' = Reach
  BY DEF Reach, Footprint, PagesOf

\* The steps of main leave the device and the options alone.
LEMMA MainLeaves ==
  ASSUME Main \/ Begin \/ NextOperation \/ Fail
  PROVE  UNCHANGED <<driver, cmd, world, dev, connected, opt, fdata, config, saved>>
  BY DEF Main, Begin, NextOperation, Fail, OnlyProgress, OnlyDevice

LEMMA NextIs ==
  ASSUME Next
  PROVE  /\ exit = "running" /\ exit' \in {"running", "ok", "error"}
         /\ Working \/ Main \/ Begin \/ NextOperation \/ Fail
         /\ UNCHANGED <<driver, cmd, world>>
  <1>1. CASE Working BY <1>1, WorkMoves DEF Continue, Stop
  <1>2. CASE Main \/ Begin \/ NextOperation \/ Fail
    BY <1>2, MainLeaves DEF Main, Begin, NextOperation, Fail, Stop
  <1> QED BY <1>1, <1>2 DEF Next, Working

\* Options are set only while the target is selected.
LEMMA OptionsLater ==
  ASSUME Working, Head(todo).do # "options"
  PROVE  opt' = opt
  <1>1. ~CheckOptions BY DEF CheckOptions, Step
  <1> QED BY <1>1, ChecksOnly

\* What follows the first of several operations.
LEMMA MoreIsLeft ==
  ASSUME NEW T, NEW p \in Seq(T), p # <<>>, Len(p) # 1
  PROVE  Tail(p) # <<>>
  <1>1. Len(p) \in Nat \ {0} BY EmptySeq
  <1>2. Len(Tail(p)) = Len(p) - 1 OBVIOUS
  <1>3. Len(<<>>) = 0 OBVIOUS
  <1>4. Len(Tail(p)) # 0 BY <1>1, <1>2
  <1> QED BY <1>3, <1>4

\* Until select is through.
LEMMA SelectingMain ==
  ASSUME InPlan, Selecting, Main, exit' = "running"
  PROVE  Guarded(plan') /\ Once(plan') /\ todo' = <<>>
  <1>1. plan' = Plan /\ todo' = <<>> BY DEF Main
  <1>2. Guarded(Plan) /\ Once(Plan) BY PlanTyped, PlanOnce
  <1> QED BY <1>1, <1>2

LEMMA SelectingBegin ==
  ASSUME InPlan, InOptions, Selecting, Begin
  PROVE  todo' \in Seq(Opening) /\ plan' = plan /\ plan # <<>>
  <1>1. plan \in Seq(Entry) /\ plan # <<>> /\ plan' = plan BY DEF InPlan, Begin
  <1>2. plan[1][1] \in Outside \cup {"select"} BY <1>1, GuardFirst DEF Selecting
  <1>3. StepsOf(plan[1][1]) \in Seq(Opening) BY <1>1, <1>2, OpReach, CloseOpens DEF Outside
  <1>4. <<Do("next")>> \in Seq(Opening)
    <2>1. Do("next") \in Opening BY OpeningStep
    <2> QED BY <2>1
  <1>5. todo' = StepsOf(plan[1][1]) \o <<Do("next")>> BY DEF Begin
  <1> QED BY <1>1, <1>3, <1>4, <1>5

LEMMA SelectingNext ==
  ASSUME InPlan, Selecting, NextOperation, exit' = "running"
  PROVE  /\ todo' = <<>>
         /\ \/ Guarded(plan') /\ Once(plan')
            \/ plan' # <<>> /\ \A i \in 1 .. Len(plan') : plan'[i][1] # "select"
  <1>1. plan \in Seq(Entry) /\ plan # <<>> /\ plan' = Tail(plan) /\ todo' = <<>>
        /\ exit' = IF Len(plan) = 1 THEN "ok" ELSE exit
    BY DEF InPlan, NextOperation
  <1>2. Len(plan) # 1 BY <1>1
  <1>3. Tail(plan) # <<>> BY <1>1, <1>2, MoreIsLeft
  <1>4. CASE plan[1][1] = "select"
    <2>1. \A i \in 1 .. Len(Tail(plan)) : Tail(plan)[i][1] # "select" BY <1>1, <1>4, OnceTail DEF Selecting
    <2> QED BY <1>1, <1>3, <2>1
  <1>5. CASE plan[1][1] # "select"
    <2>1. Once(Tail(plan)) BY <1>1, OnceTail DEF Selecting
    <2>2. Guarded(Tail(plan)) BY <1>1, <1>5, GuardFirst DEF Selecting
    <2> QED BY <1>1, <2>1, <2>2
  <1> QED BY <1>4, <1>5

LEMMA SelectingWork ==
  ASSUME InPlan, Selecting, Working
  PROVE  /\ Proper(dev', {}) /\ (exit' = "running" => todo' \in Seq(Opening) /\ plan' = plan /\ plan # <<>>)
         /\ Head(todo).do # "fapply"
  <1>1. todo \in Seq(Opening) /\ todo # <<>> /\ plan # <<>> BY WorkMoves DEF Selecting
  <1>2. Head(todo) \in Opening /\ Tail(todo) \in Seq(Opening) BY <1>1
  <1>3. Proper(dev', {}) BY <1>2, OpeningProper DEF Selecting
  <1>4. Head(todo).do # "fapply" BY <1>2 DEF Opening, StepsBut, FuseSide
  <1> QED BY <1>1, <1>2, <1>3, <1>4, WorkLeaves

LEMMA SelectingStep ==
  ASSUME AskInv, Selecting, Next
  PROVE  Proper(dev, {})' /\ (exit' = "running" => (Selecting \/ Serving)')
  <1>1. UNCHANGED <<driver, cmd, world>> BY NextIs
  <1>2. InPlan /\ InOptions BY DEF AskInv
  <1>3. <<>> \in Seq(Opening) /\ <<>> \in Seq(Within(Reach')) OBVIOUS
  <1>4. Opening' = Opening /\ Within(Reach)' = Within(Reach')
    BY DEF Opening, Within, StepsBut, Inside, Span, FlashWork, FuseSide, FuseWork, StepNames
  <1>5. CASE Main \/ Begin \/ NextOperation \/ Fail
    <2>1. Proper(dev, {})'
      <3>1. dev' = dev BY <1>5, MainLeaves
      <3>2. Proper(dev', {}) BY <3>1 DEF Selecting
      <3> QED BY <1>1, <3>2, ProperNext
    <2>2. CASE Main
      <3>1. exit' = "running" => Guarded(plan') /\ Once(plan') /\ todo' = <<>> BY <1>2, <2>2, SelectingMain
      <3>2. exit' = "running" => Selecting' BY <1>3, <1>4, <2>1, <3>1 DEF Selecting, Guarded, Once
      <3> QED BY <2>1, <3>2
    <2>3. CASE Begin
      <3>1. todo' \in Seq(Opening) /\ plan' = plan /\ plan # <<>> BY <1>2, <2>3, SelectingBegin
      <3>2. Selecting' BY <1>4, <2>1, <3>1 DEF Selecting, Guarded, Once
      <3> QED BY <2>1, <3>2
    <2>4. CASE NextOperation
      <3> SUFFICES ASSUME exit' = "running" PROVE (Selecting \/ Serving)' BY <2>1
      <3>1. todo' = <<>> BY <1>2, <2>4, SelectingNext
      <3>2. CASE Guarded(plan') /\ Once(plan')
        <4>1. Selecting' BY <1>3, <1>4, <2>1, <3>1, <3>2 DEF Selecting, Guarded, Once
        <4> QED BY <4>1
      <3>3. CASE plan' # <<>> /\ \A i \in 1 .. Len(plan') : plan'[i][1] # "select"
        <4>1. (todo \in Seq(Within(Reach)))' BY <1>3, <1>4, <3>1
        <4>2. Serving' BY <3>3, <4>1 DEF Serving
        <4> QED BY <4>2
      <3> QED BY <1>2, <2>4, <3>2, <3>3, SelectingNext
    <2>5. CASE Fail
      <3>1. exit' = "error" BY <2>5 DEF Fail, Stop
      <3> QED BY <2>1, <3>1
    <2> QED BY <1>5, <2>2, <2>3, <2>4, <2>5
  <1>6. CASE Working
    <2>1. /\ Proper(dev', {}) /\ (exit' = "running" => todo' \in Seq(Opening) /\ plan' = plan /\ plan # <<>>)
      BY <1>2, <1>6, SelectingWork
    <2>2. Proper(dev, {})' BY <1>1, <2>1, ProperNext
    <2>3. exit' = "running" => Selecting' BY <1>4, <2>1, <2>2 DEF Selecting, Guarded, Once
    <2> QED BY <2>2, <2>3
  <1> QED BY <1>5, <1>6, NextIs

\* Once select is through.
LEMMA ServingBegin ==
  ASSUME InPlan, InOptions, Serving, Begin
  PROVE  /\ plan' = plan
         /\ plan[1][1] = "fuse" => FuseTodo'
         /\ plan[1][1] # "fuse" => todo' \in Seq(Within(Reach))
  <1>1. plan \in Seq(Entry) /\ plan # <<>> /\ plan' = plan BY DEF InPlan, Begin
  <1>2. plan[1][1] # "select"
    <2>1. 1 \in 1 .. Len(plan) BY <1>1
    <2> QED BY <2>1 DEF Serving
  <1>3. todo' = StepsOf(plan[1][1]) \o <<Do("next")>> /\ UNCHANGED <<driver, cmd>> BY DEF Begin
  <1>4. CASE plan[1][1] # "fuse"
    <2>1. StepsOf(plan[1][1]) \in Seq(Within(Reach)) BY <1>1, <1>2, <1>4, OpReach
    <2>2. <<Do("next")>> \in Seq(Within(Reach))
      <3>1. Do("next") \in Within(Reach) BY SafeWithin
      <3> QED BY <3>1
    <2>3. todo' \in Seq(Within(Reach)) BY <1>3, <2>1, <2>2
    <2> QED BY <1>1, <1>4, <2>3
  <1>5. CASE plan[1][1] = "fuse"
    <2>1. todo' = FuseSteps(Command) \o <<Do("next")>> BY <1>3, <1>5 DEF StepsOf
    <2>2. driver \in Drivers BY DEF InPlan
    <2> DEFINE c == Command
    <2>3. /\ todo' \in Seq(Fusing)
          /\ Behind(todo', {"fread", "unimplemented"}, FuseWork)
          /\ Behind(todo', {"fparse"}, {"fapply"})
      BY <2>1, <2>2, FuseOrder
    <2>4. "w" \notin Command.ops => Without(todo', {"fapply"}) BY <2>1, <2>2, NoApply
    <2>5. Command' = Command BY <1>1, <1>3 DEF Command
    <2>6. Fusing' = Fusing BY <1>3 DEF Fusing
    <2>7. FuseTodo' BY <2>3, <2>4, <2>5, <2>6 DEF FuseTodo, Behind, Without
    <2> QED BY <1>1, <1>5, <2>7
  <1> QED BY <1>4, <1>5

LEMMA ServingNext ==
  ASSUME InPlan, Serving, NextOperation, exit' = "running"
  PROVE  todo' = <<>> /\ plan' # <<>> /\ \A i \in 1 .. Len(plan') : plan'[i][1] # "select"
  <1>1. plan \in Seq(Entry) /\ plan # <<>> /\ plan' = Tail(plan) /\ todo' = <<>>
        /\ exit' = IF Len(plan) = 1 THEN "ok" ELSE exit
    BY DEF InPlan, NextOperation
  <1>2. Len(plan) # 1 BY <1>1
  <1>3. Len(plan) \in Nat /\ Len(plan) # 0 /\ Len(Tail(plan)) = Len(plan) - 1 BY <1>1
  <1>5. Tail(plan) # <<>> BY <1>1, <1>2, MoreIsLeft
  <1>6. ASSUME NEW i \in 1 .. Len(Tail(plan)) PROVE Tail(plan)[i][1] # "select"
    <2>1. i + 1 \in 1 .. Len(plan) BY <1>3
    <2>2. Tail(plan)[i] = plan[i + 1] BY <1>1
    <2>3. plan[i + 1][1] # "select" BY <2>1 DEF Serving
    <2> QED BY <2>2, <2>3
  <1> QED BY <1>1, <1>5, <1>6

\* A step of an operation.
LEMMA ServingWork ==
  ASSUME InPlan, InOptions, Proper(dev, Reach), Working, todo \in Seq(Within(Reach))
  PROVE  /\ Proper(dev', Reach) /\ Head(todo).do \notin {"options", "fapply"}
         /\ exit' = "running" => todo' \in Seq(Within(Reach)) /\ plan' = plan
  <1>1. todo # <<>> BY WorkMoves
  <1>2. Head(todo) \in Within(Reach) /\ Tail(todo) \in Seq(Within(Reach)) BY <1>1
  <1>3. Proper(dev', Reach) BY <1>2, ReachIn, WithinProper
  <1>4. Head(todo).do \notin {"options", "fapply"} BY <1>2 DEF Within, StepsBut, FuseSide
  <1> QED BY <1>2, <1>3, <1>4, WorkLeaves

\* A fuse command comes to its first read and its first write only as it should.
LEMMA FuseGates ==
  ASSUME FuseTodo, Working
  PROVE  /\ Head(todo).do \notin {"options", "save"} \cup FlashWork
         /\ Head(todo).do \in FuseWork => Command.section \in SectionsOf(driver)
         /\ Head(todo).do = "fapply" => Command.value # <<>>
  <1>1. todo \in Seq(Fusing) /\ todo # <<>> BY WorkMoves DEF FuseTodo
  <1>2. Head(todo) \in Fusing BY <1>1
  <1>3. Head(todo).do \notin {"options", "save"} \cup FlashWork BY <1>2 DEF Fusing, StepsBut, FlashWork
  <1>4. ASSUME Head(todo).do \in FuseWork PROVE Command.section \in SectionsOf(driver)
    <2>1. Head(todo).do \notin {"fread", "unimplemented"} BY <1>4 DEF FuseWork
    <2>2. Behind(todo, {"fread", "unimplemented"}, FuseWork) => Head(todo).do \notin FuseWork
      BY <1>1, <2>1, BehindTail
    <2> QED BY <1>4, <2>2 DEF FuseTodo
  <1>5. ASSUME Head(todo).do = "fapply" PROVE Command.value # <<>>
    <2>1. Behind(todo, {"fparse"}, {"fapply"}) => Head(todo).do \notin {"fapply"}
      BY <1>1, <1>5, BehindTail
    <2>2. Without(todo, {"fapply"}) => Head(todo).do \notin {"fapply"} BY <1>1, WithoutTail
    <2> QED BY <1>5, <2>1, <2>2 DEF FuseTodo
  <1> QED BY <1>3, <1>4, <1>5

\* and the rest of it is as orderly.
LEMMA FuseGoesOn ==
  ASSUME FuseTodo, Working, exit' = "running"
  PROVE  FuseTodo'
  <1>1. todo \in Seq(Fusing) /\ todo # <<>> /\ UNCHANGED <<driver, cmd>> BY WorkMoves DEF FuseTodo
  <1>2. todo' = Tail(todo) /\ plan' = plan BY WorkLeaves
  <1>3. Command' = Command /\ Fusing' = Fusing BY <1>1, <1>2 DEF Command, Fusing
  <1>4. Tail(todo) \in Seq(Fusing) BY <1>1
  <1>5. Command.section \in SectionsOf(driver) \/ Behind(Tail(todo), {"fread", "unimplemented"}, FuseWork)
    <2>1. CASE Head(todo).do = "fread"
      <3>1. FuseRead
        <4>1. Fuses BY <2>1, WorkOf DEF Working, FlashWork, ProbeWork, TargetWork, CheckWork
        <4> QED BY <2>1, <4>1 DEF Fuses, FuseParse, FuseApply, FuseMatch, FuseGather, FuseWrite, Step
      <3> QED BY <3>1 DEF FuseRead, Unless, Stop
    <2>2. CASE Head(todo).do = "unimplemented"
      <3>1. NotImplemented
        <4>1. Checks BY <2>2, WorkOf DEF Working, FlashWork, FuseWork, ProbeWork, TargetWork
        <4> QED BY <2>2, <4>1 DEF Checks, Identify, CheckLocked, Unlocked, FindErrors, CheckOptions, Step
      <3> QED BY <3>1 DEF NotImplemented, Stop
    <2>3. CASE Head(todo).do \notin {"fread", "unimplemented"}
      <3>1. Behind(todo, {"fread", "unimplemented"}, FuseWork)
              => Behind(Tail(todo), {"fread", "unimplemented"}, FuseWork)
        BY <1>1, <2>3, BehindTail
      <3> QED BY <3>1 DEF FuseTodo
    <2> QED BY <2>1, <2>2, <2>3
  <1>6. "w" \in Command.ops => Command.value # <<>> \/ Behind(Tail(todo), {"fparse"}, {"fapply"})
    <2>1. CASE Head(todo).do = "fparse"
      <3>1. FuseParse
        <4>1. Fuses BY <2>1, WorkOf DEF Working, FlashWork, ProbeWork, TargetWork, CheckWork
        <4> QED BY <2>1, <4>1 DEF Fuses, FuseRead, FuseApply, FuseMatch, FuseGather, FuseWrite, Step
      <3>2. ~Malformed(Command) BY <3>1 DEF FuseParse, Unless, Stop
      <3> QED BY <3>2 DEF Malformed
    <2>2. CASE Head(todo).do # "fparse"
      <3>1. Behind(todo, {"fparse"}, {"fapply"}) => Behind(Tail(todo), {"fparse"}, {"fapply"})
        BY <1>1, <2>2, BehindTail
      <3> QED BY <3>1 DEF FuseTodo
    <2> QED BY <2>1, <2>2
  <1>7. "w" \notin Command.ops => Without(Tail(todo), {"fapply"})
    <2>1. Without(todo, {"fapply"}) => Without(Tail(todo), {"fapply"}) BY <1>1, WithoutTail
    <2> QED BY <2>1 DEF FuseTodo
  <1> QED BY <1>1, <1>2, <1>3, <1>4, <1>5, <1>6, <1>7 DEF FuseTodo, Behind, Without

LEMMA FuseWorkProper ==
  ASSUME InPlan, Steady, NEW R, Proper(dev, R), FuseTodo, Working, plan # <<>>, plan[1][1] = "fuse"
  PROVE  Proper(dev', R)
  <1>1. todo \in Seq(Fusing) /\ todo # <<>> BY WorkMoves DEF FuseTodo
  <1>2. Head(todo) \in Fusing BY <1>1
  <1>3. CASE Head(todo).do \in FuseWork
    <2>1. FuseWrite BY <1>3, FusesDo
    <2>2. Command.section \in SectionsOf(driver) BY <1>3, FuseGates
    <2> QED BY <1>2, <2>1, <2>2, FuseProper DEF Steady
  <1>4. CASE Head(todo).do \notin FuseWork
    <2>1. Head(todo).do \in StepNames BY <1>2 DEF Fusing, StepsBut
    <2>2. Head(todo).do \in PlainNames BY <1>4, <2>1, FuseGates DEF PlainNames
    <2>3. Spared BY <2>2, PlainSpares DEF InPlan
    <2> QED BY <2>3, SparedProper
  <1> QED BY <1>3, <1>4

LEMMA ServingStep ==
  ASSUME AskInv, Serving, Next
  PROVE  opt' = opt /\ Proper(dev', Reach) /\ (exit' = "running" => Serving')
  <1>1. UNCHANGED <<driver, cmd, world>> BY NextIs
  <1>2. InPlan /\ InOptions /\ Steady /\ Proper(dev, Reach) /\ plan # <<>> BY DEF AskInv, Serving
  <1>3. <<>> \in Seq(Within(Reach)) OBVIOUS
  <1>4. ASSUME opt' = opt PROVE Reach' = Reach /\ Within(Reach)' = Within(Reach)
    <2>1. Reach' = Reach BY <1>1, <1>4, ReachNext
    <2> QED BY <2>1 DEF Within, StepsBut, Inside, Span, FlashWork, FuseSide, FuseWork, StepNames
  <1>5. CASE Main \/ Begin \/ NextOperation \/ Fail
    <2>1. opt' = opt /\ dev' = dev BY <1>5, MainLeaves
    <2>2. CASE Main BY <1>2, <2>2 DEF Main
    <2>3. CASE Begin
      <3>1. /\ plan' = plan
            /\ plan[1][1] = "fuse" => FuseTodo'
            /\ plan[1][1] # "fuse" => todo' \in Seq(Within(Reach))
        BY <1>2, <2>3, ServingBegin
      <3>2. Serving' BY <1>4, <2>1, <3>1 DEF Serving
      <3> QED BY <1>2, <2>1, <3>2
    <2>4. CASE NextOperation
      <3>1. exit' = "running" =>
              todo' = <<>> /\ plan' # <<>> /\ \A i \in 1 .. Len(plan') : plan'[i][1] # "select"
        BY <1>2, <2>4, ServingNext
      <3>2. exit' = "running" => Serving' BY <1>3, <1>4, <2>1, <3>1 DEF Serving
      <3> QED BY <1>2, <2>1, <3>2
    <2>5. CASE Fail
      <3>1. exit' = "error" BY <2>5 DEF Fail, Stop
      <3> QED BY <1>2, <2>1, <3>1
    <2> QED BY <1>5, <2>2, <2>3, <2>4, <2>5
  <1>6. CASE Working
    <2>1. CASE plan[1][1] = "fuse" /\ FuseTodo
      <3>1. Proper(dev', Reach) BY <1>2, <1>6, <2>1, FuseWorkProper
      <3>2. opt' = opt BY <1>6, <2>1, FuseGates, OptionsLater
      <3>3. exit' = "running" => FuseTodo' /\ plan' = plan BY <1>6, <2>1, FuseGoesOn, WorkLeaves
      <3>4. exit' = "running" => Serving' BY <2>1, <3>3 DEF Serving
      <3> QED BY <3>1, <3>2, <3>4
    <2>2. CASE todo \in Seq(Within(Reach))
      <3>1. /\ Proper(dev', Reach) /\ Head(todo).do \notin {"options", "fapply"}
            /\ exit' = "running" => todo' \in Seq(Within(Reach)) /\ plan' = plan
        BY <1>2, <1>6, <2>2, ServingWork
      <3>2. opt' = opt BY <1>6, <3>1, OptionsLater
      <3>3. exit' = "running" => Serving' BY <1>4, <3>1, <3>2 DEF Serving
      <3> QED BY <3>1, <3>2, <3>3
    <2> QED BY <2>1, <2>2 DEF Serving
  <1> QED BY <1>5, <1>6, NextIs

\* What read saves is no longer than the flash, and the rest stays typed.
LEMMA SavedTyped ==
  ASSUME InPlan, Steady, Working
  PROVE  connected' \in BOOLEAN /\ Len(saved') <= Total
  <1>1. connected' \in BOOLEAN
    <2>1. CASE Probe
      BY <2>1 DEF Steady, Probe, Disclose, Connect, Disconnect, Configure, Led, Link, OnlyProgress, OnlyDevice
    <2>2. CASE Target
      BY <2>2 DEF Steady, Target, ResetPin, ResetTarget, Halt, Catch, ReleaseCore, EndExtension, FinishIfOpen,
                  DebugStep, OnlyDevice
    <2>3. CASE Checks
      BY <2>3 DEF Steady, Checks, Identify, CheckLocked, Unlocked, FindErrors, NotImplemented, CheckOptions, OnlyProgress,
                  OnlyDevice
    <2>4. CASE Flash
      BY <2>4 DEF Steady, Flash, WaitDone, WaitReady, EraseArea, ProgramArea, EraseChip, SetLock, Compare,
                  Fetch, Save, OnlyDevice
    <2>5. CASE Fuses
      BY <2>5 DEF Steady, Fuses, FuseParse, FuseRead, FuseApply, FuseMatch, FuseGather, FuseWrite,
                  OnlyProgress, OnlyDevice, OnlyFuseData
    <2> QED BY <2>1, <2>2, <2>3, <2>4, <2>5 DEF Working
  <1>2. CASE Head(todo).do # "save"
    <2>1. saved' = saved BY <1>2, SavesOnly
    <2> QED BY <1>1, <2>1 DEF Steady
  <1>3. CASE Head(todo).do = "save"
    <2>1. Flash BY <1>3, FlashDoes DEF FlashWork
    <2>2. Save
      BY <1>3, <2>1 DEF Flash, WaitDone, WaitReady, EraseArea, ProgramArea, EraseChip, SetLock, Compare, Fetch, Step
    <2>3. saved' = [i \in 1 .. opt.size |-> got[i - 1]] BY <2>2 DEF Save
    <2>4. opt.size \in Nat /\ opt.size <= Total BY Pages DEF InPlan
    <2>5. Len(saved') = opt.size BY <2>3, <2>4
    <2> QED BY <1>1, <2>4, <2>5
  <1> QED BY <1>2, <1>3

LEMMA SteadyStep ==
  ASSUME AskInv, Next
  PROVE  Steady'
  <1>1. exit = "running" /\ exit' \in {"running", "ok", "error"} /\ driver' = driver BY NextIs
  <1>2. InPlan /\ Steady /\ dev.fuses \in [FuseSections -> Bits] BY DEF AskInv, Proper, FusesProper
  <1>3. CASE Main \/ Begin \/ NextOperation \/ Fail
    BY <1>1, <1>2, <1>3, MainLeaves DEF Steady
  <1>4. CASE Working
    <2>1. Head(todo).do = "fapply" => plan # <<>> /\ plan[1][1] = "fuse" /\ Command.value # <<>>
      <3>1. CASE Selecting BY <1>2, <1>4, <3>1, SelectingWork
      <3>2. CASE Serving
        <4>1. CASE plan[1][1] = "fuse" /\ FuseTodo BY <1>4, <3>2, <4>1, FuseGates DEF Serving
        <4>2. CASE todo \in Seq(Within(Reach)) BY <1>4, <4>2, ServingWork DEF AskInv
        <4> QED BY <3>2, <4>1, <4>2 DEF Serving
      <3> QED BY <1>1, <3>1, <3>2 DEF AskInv
    <2>2. fdata' \in Bits /\ config' \in [FuseSections -> Bits] BY <1>2, <1>4, <2>1, DataTyped DEF Steady
    <2>3. connected' \in BOOLEAN /\ Len(saved') <= Total BY <1>2, <1>4, SavedTyped
    <2> QED BY <1>1, <1>2, <2>2, <2>3 DEF Steady
  <1> QED BY <1>3, <1>4, NextIs

LEMMA OptionsStep ==
  ASSUME AskInv, Next
  PROVE  InOptions'
  <1>1. UNCHANGED <<driver, cmd, world>> /\ InPlan /\ InOptions BY NextIs DEF AskInv
  <1>2. CASE CheckOptions BY <1>1, <1>2, OptionsChecked
  <1>3. CASE ~CheckOptions
    <2>1. opt' = opt
      <3>1. CASE Working BY <1>3, <3>1, ChecksOnly
      <3>2. CASE Main \/ Begin \/ NextOperation \/ Fail BY <3>2, MainLeaves
      <3> QED BY <3>1, <3>2, NextIs
    <2> QED BY <1>1, <2>1 DEF InOptions
  <1> QED BY <1>2, <1>3

LEMMA AskStep == ASSUME AskInv, [EdbgNext]_edbgVars PROVE AskInv'
  <1>1. CASE UNCHANGED vars
    <2>1. /\ UNCHANGED <<driver, cmd, world, dev, opt, plan, todo>>
          /\ UNCHANGED <<connected, fdata, config, saved, exit>>
      BY <1>1 DEF vars
    <2>2. Entry' = Entry /\ Refused' = Refused BY <2>1 DEF Entry, Refused, Active
    <2>3. InPlan' BY <2>1, <2>2 DEF AskInv, InPlan, IsDevice
    <2>4. InOptions' /\ Steady' BY <2>1 DEF AskInv, InOptions, Steady
    <2>5. Reach' = Reach BY <2>1, ReachNext
    <2>6. Proper(dev, Reach)'
      BY <2>1, <2>5 DEF AskInv, Proper, FlashProper, FusesProper, Spare, FirstFlash, IsDevice
    <2>7. Selecting => Selecting'
      <3>1. Proper(dev, {}) => Proper(dev, {})' BY <2>1, ProperNext
      <3> QED BY <2>1, <3>1 DEF Selecting, Guarded, Once
    <2>8. FuseTodo => FuseTodo'
      <3>1. Command' = Command /\ Fusing' = Fusing BY <2>1 DEF Command, Fusing
      <3> QED BY <2>1, <3>1 DEF FuseTodo, Behind, Without
    <2>9. Within(Reach)' = Within(Reach)
      BY <2>5 DEF Within, StepsBut, Inside, Span, FlashWork, FuseSide, FuseWork, StepNames
    <2>10. Serving => Serving' BY <2>1, <2>8, <2>9 DEF Serving
    <2> QED BY <2>1, <2>3, <2>4, <2>6, <2>7, <2>10 DEF AskInv
  <1>2. CASE Next
    <2>1. UNCHANGED <<driver, cmd, world>> /\ exit = "running" BY <1>2, NextIs
    <2>2. InPlan' BY <1>2, InPlanStep DEF AskInv
    <2>3. InOptions' /\ Steady' BY <1>2, OptionsStep, SteadyStep
    <2>4. CASE Selecting
      <3>1. Proper(dev, {})' /\ (exit' = "running" => (Selecting \/ Serving)') BY <1>2, <2>4, SelectingStep
      <3>2. Proper(dev, Reach)' BY <3>1 DEF Proper, FlashProper
      <3> QED BY <2>2, <2>3, <3>1, <3>2 DEF AskInv
    <2>5. CASE Serving
      <3>1. opt' = opt /\ Proper(dev', Reach) /\ (exit' = "running" => Serving') BY <1>2, <2>5, ServingStep
      <3>2. Reach' = Reach BY <2>1, <3>1, ReachNext
      <3>3. Proper(dev, Reach)'
        BY <2>1, <3>1, <3>2 DEF Proper, FlashProper, FusesProper, Spare, FirstFlash, IsDevice
      <3> QED BY <2>2, <2>3, <3>1, <3>3 DEF AskInv
    <2> QED BY <2>1, <2>4, <2>5 DEF AskInv
  <1>3. UNCHANGED vars \/ Next
    BY DEF EdbgNext, SessionStep, QueueStep, JtagStep, edbgVars
  <1> QED BY <1>1, <1>2, <1>3

LEMMA AskInit == EdbgInit => AskInv
  <1> SUFFICES ASSUME EdbgInit PROVE AskInv OBVIOUS
  <1>1. /\ driver \in RunDrivers
        /\ dev = NewDevice(world) /\ connected = FALSE /\ opt = NoOptions /\ plan = <<>> /\ todo = <<>>
        /\ fdata = FreeFuses /\ config = FirstFuses /\ saved = <<>> /\ exit = "running"
    BY DEF EdbgInit, Init
  <1>2. InPlan BY LockInit DEF LockInv
  <1>3. InOptions BY <1>1, NoOptionsIn
  <1>4. Steady
    <2>1. Len(<<>>) <= Total BY Geometry
    <2> QED BY <1>1, <2>1, Numbers DEF Steady
  <1>5. ASSUME NEW R PROVE Proper(dev, R)
    <2>1. dev.flash = FirstFlash(world) /\ dev.fuses = FirstFuses /\ dev.busy = {} BY <1>1 DEF NewDevice
    <2>2. FirstFlash(world) \in [Units -> {Torn, Old} \cup 0 .. Total]
      <3>1. ASSUME NEW u \in Units PROVE FileByte(u) \in 0 .. Total BY Geometry DEF FileByte, Units
      <3> QED BY <3>1 DEF FirstFlash
    <2>3. IsDevice(dev) BY <1>2 DEF InPlan
    <2> QED BY <2>1, <2>2, <2>3, Numbers DEF Proper, FlashProper, FusesProper
  <1>6. Guarded(<<>>)
    <2>1. 1 \in 1 .. Len(<<>>) + 1 /\ ~(1 <= Len(<<>>)) /\ 1 .. 1 - 1 = {} OBVIOUS
    <2> QED BY <2>1 DEF Guarded
  <1>7. Once(<<>>)
    <2>1. 1 .. Len(<<>>) = {} OBVIOUS
    <2> QED BY <2>1 DEF Once
  <1>8. <<>> \in Seq(Opening) OBVIOUS
  <1>9. Selecting BY <1>1, <1>5, <1>6, <1>7, <1>8 DEF Selecting
  <1> QED BY <1>2, <1>3, <1>4, <1>5, <1>9 DEF AskInv

(* What a run of edbg does to a device, however it ends, is no more than   *)
(* its command line asked for: outside the pages or sectors of the range   *)
(* of an erase or a program nothing of the flash changes, and a section    *)
(* no fuse command names keeps its value (but on M480, whose               *)
(* target_fuse_write erases them all).                                     *)
THEOREM AskedOnly == EdbgSpec => []OnlyAsked
  <1>1. AskInv => OnlyAsked
    <2> SUFFICES ASSUME AskInv PROVE OnlyAsked OBVIOUS
    <2>1. Proper(dev, Reach) BY DEF AskInv
    <2>2. OthersKept
      <3>1. CASE driver = "sam3" /\ opt.offset # 0 BY <3>1 DEF OthersKept
      <3>2. CASE ~(driver = "sam3" /\ opt.offset # 0)
        <4>1. Reach = Footprint BY <3>2 DEF Reach
        <4> QED BY <2>1, <4>1 DEF OthersKept, Proper, FlashProper
      <3> QED BY <3>1, <3>2
    <2>3. OtherSectionsKept BY <2>1 DEF OtherSectionsKept, Proper, FusesProper, Spare
    <2> QED BY <2>2, <2>3 DEF OnlyAsked
  <1>2. EdbgInit => AskInv BY AskInit
  <1>3. AskInv /\ [EdbgNext]_edbgVars => AskInv' BY AskStep
  <1> QED BY <1>1, <1>2, <1>3, PTL DEF EdbgSpec

LEMMA SessionTypes == EdbgSpec => []SessionTypeOK
  <1>1. AskInv => SessionTypeOK
    <2> SUFFICES ASSUME AskInv PROVE SessionTypeOK OBVIOUS
    <2>1. driver \in RunDrivers /\ connected \in BOOLEAN /\ Len(saved) <= Total
          /\ exit \in {"running", "ok", "error"}
      BY DEF AskInv, Steady
    <2>2. [cmd |-> cmd, world |-> world] \in Cases
      <3>1. PICK c \in Cases : cmd = c.cmd /\ world = c.world BY DEF AskInv, InPlan
      <3>2. c = [cmd |-> c.cmd, world |-> c.world] BY SessionAssumption DEF SessionAssumption
      <3> QED BY <3>1, <3>2
    <2>3. /\ dev.flash \in [Units -> {Torn, Old} \cup 0 .. Total]
          /\ dev.fuses \in [FuseSections -> [FuseBits -> 0 .. 1]]
          /\ dev.busy \subseteq 0 .. FuseUnit(1)
      BY DEF AskInv, Proper, FlashProper, FusesProper, Bits
    <2>4. opt.offset \in Units /\ opt.size \in 0 .. Total /\ opt.file \in 0 .. opt.size
      BY Geometry DEF AskInv, InPlan, InOptions, Options
    <2> QED BY <2>1, <2>2, <2>3, <2>4 DEF SessionTypeOK
  <1>2. EdbgInit => AskInv BY AskInit
  <1>3. AskInv /\ [EdbgNext]_edbgVars => AskInv' BY AskStep
  <1> QED BY <1>1, <1>2, <1>3, PTL DEF EdbgSpec

LEMMA QueueTypes == EdbgSpec => []Queue!QueueTypeOK
  <1>1. QueueInv => Queue!QueueTypeOK
    <2> SUFFICES ASSUME QueueInv PROVE Queue!QueueTypeOK OBVIOUS
    <2>1. /\ Len(queue) <= MaxRequests /\ Len(replies) <= Len(queue)
          /\ cache \in Caches /\ port \in Ports /\ transfer \in {"idle", "transfer", "exit"}
      BY DEF QueueInv, QueueTyped
    <2> QED BY <2>1 DEF Queue!QueueTypeOK, Caches, Ports
  <1> QED BY <1>1, QueueHolds, PTL

(* The three layers of edbg keep to their types: what a process has of the *)
(* device and of its options, what is queued for the probe, and the state  *)
(* of the JTAG chain.                                                      *)
THEOREM EdbgTypes == EdbgSpec => []EdbgTypeOK
  <1>1. SessionTypeOK /\ Queue!QueueTypeOK /\ Jtag!JtagTypeOK => EdbgTypeOK BY DEF EdbgTypeOK
  <1> QED BY <1>1, SessionTypes, QueueTypes, JtagTypes, PTL
=============================================================================
