----------------------------- MODULE EdbgTargets ------------------------------
(***************************************************************************)
(* Eleven target drivers of edbg (.research/edbg-master/target_*.c).  Each *)
(* operation of a driver is the sequence of steps it makes towards the     *)
(* probe and the flash controller; EdbgSession carries the steps out.  A   *)
(* step stands for the register accesses of one command.                   *)
(*                                                                         *)
(* Flash is counted in units.  Every driver erases by pages and writes or  *)
(* reads by pages or by rows, under the names its source gives them; here  *)
(* the larger is always a page and the smaller a row.                      *)
(***************************************************************************)
EXTENDS Integers, Sequences, SequencesExt

CONSTANTS
  RowUnits, PageUnits,
  Total,        \* units of the flash
  Sectors,      \* sizes of the sectors of the GD32, in units
  Accessible    \* units of the STM32WB below its secure flash

ASSUME GeometryAssumption ==
  /\ {RowUnits, PageUnits, Total, Accessible} \subseteq Nat \ {0}
  /\ PageUnits % RowUnits = 0 /\ Total % (2 * PageUnits) = 0
  /\ Accessible % PageUnits = 0 /\ Accessible <= Total

Units == 0 .. Total - 1
FuseSections == 0 .. 1
FuseBits == 0 .. 1

(* A step.  Data programs len units at "at" from the file buffer at "from".*)
Area(do, at, len) == [do |-> do, at |-> at, len |-> len, from |-> 0]
Do(do) == Area(do, 0, 0)
Data(at, len, from) == [do |-> "program", at |-> at, len |-> len, from |-> from]
Times(n, Steps(_)) == FlattenSeq([i \in 1 .. n |-> Steps(i - 1)])

(* Options of an operation: [offset, size, file], in units.                *)
CeilDiv(a, b) == (a + b - 1) \div b
PagesOf(o) == CeilDiv(o.file, PageUnits)
PageAt(o, p) == (o.offset \div PageUnits + p) * PageUnits
RowsOfPage(o, p) ==
  [i \in 1 .. PageUnits \div RowUnits |->
     Data(o.offset + p * PageUnits + (i - 1) * RowUnits, RowUnits,
          p * PageUnits + (i - 1) * RowUnits)]
WholePage(o, p) == <<Data(o.offset + p * PageUnits, PageUnits, p * PageUnits)>>
InBlocks(do, o, size, block) ==
  [i \in 1 .. CeilDiv(size, block) |->
     [do |-> do, at |-> o.offset + (i - 1) * block, len |-> block, from |-> (i - 1) * block]]
Compared(o, block) == InBlocks("compare", o, o.file, block)
Fetched(o, block) == InBlocks("fetch", o, o.size, block) \o <<Do("save")>>
Unimplemented == <<Do("unimplemented")>>

(* Shared by the drivers that hold the reset pin while they attach.        *)
UnderReset == <<Do("pinLow"), Do("link"), Do("halt"), Do("pinHigh"), Do("identify")>>
Reattached == <<Do("disconnect"), Do("connect")>> \o UnderReset
Release == <<Do("release")>>

-----------------------------------------------------------------------------
(* target_st_stm32g0.c *)
G0Wait == <<Do("wait")>>
G0Select == Reattached \o <<Do("options"), Do("locked"), Do("keys")>>
G0Deselect == Release
G0Erase == <<Area("erase", 0, Total)>> \o G0Wait
G0Program(o) ==
  Times(PagesOf(o), LAMBDA p : <<Area("erase", PageAt(o, p), PageUnits)>> \o G0Wait
                               \o RowsOfPage(o, p) \o G0Wait)
G0Verify(o) == Compared(o, RowUnits)
G0Read(o) == Fetched(o, RowUnits)
G0Ops(o) ==
  [select |-> G0Select, deselect |-> G0Deselect, erase |-> G0Erase,
   lock |-> Unimplemented, unlock |-> Unimplemented, program |-> G0Program(o),
   verify |-> G0Verify(o), read |-> G0Read(o),
   fread |-> Unimplemented, fwrite |-> Unimplemented]

(* target_st_stm32g4.c: the option registers are the fuses.                *)
G4Wait == <<Do("wait")>>
G4Select == Reattached \o <<Do("options"), Do("locked"), Do("keys")>>
G4Deselect == Release
G4Erase == <<Area("erase", 0, Total)>> \o G4Wait
G4Program(o) ==
  Times(PagesOf(o), LAMBDA p : <<Area("erase", PageAt(o, p), PageUnits)>> \o G4Wait
                               \o RowsOfPage(o, p) \o G4Wait)
G4Verify(o) == Compared(o, RowUnits)
G4Read(o) == Fetched(o, RowUnits)
G4FuseRead == <<Do("fread")>>
G4FuseWrite == <<Do("fput")>> \o G4Wait
G4Ops(o) ==
  [select |-> G4Select, deselect |-> G4Deselect, erase |-> G4Erase,
   lock |-> Unimplemented, unlock |-> Unimplemented, program |-> G4Program(o),
   verify |-> G4Verify(o), read |-> G4Read(o),
   fread |-> G4FuseRead, fwrite |-> G4FuseWrite]

(* target_st_stm32wb55.c: everything is erased before anything is written, *)
(* and a chip erase goes page by page below the secure flash.              *)
WbWait == <<Do("wait")>>
WbSelect == Reattached \o <<Do("options"), Do("locked"), Do("keys")>>
WbDeselect == Release
WbErase ==
  Times(Accessible \div PageUnits, LAMBDA p : <<Area("erase", p * PageUnits, PageUnits)>> \o WbWait)
WbProgram(o) ==
  Times(PagesOf(o), LAMBDA p : <<Area("erase", PageAt(o, p), PageUnits)>> \o WbWait)
  \o Times(PagesOf(o), LAMBDA p : RowsOfPage(o, p) \o WbWait)
WbVerify(o) == Compared(o, RowUnits)
WbRead(o) == Fetched(o, RowUnits)
WbOps(o) ==
  [select |-> WbSelect, deselect |-> WbDeselect, erase |-> WbErase,
   lock |-> Unimplemented, unlock |-> Unimplemented, program |-> WbProgram(o),
   verify |-> WbVerify(o), read |-> WbRead(o),
   fread |-> Unimplemented, fwrite |-> Unimplemented]

(* target_gd_gd32f4xx.c: the sectors that the range touches are erased     *)
(* whole.                                                                  *)
GdWaitBlind == <<Do("settle")>>
GdWait == <<Do("wait")>>
GdSelect == UnderReset \o <<Do("locked"), Do("options"), Do("keys")>>
GdDeselect == Release
GdErase == <<Area("erase", 0, Total)>> \o GdWait
GdLock == <<Do("setLock")>> \o GdWait
GdUnlock == <<Do("regress")>> \o GdWait
SectorStart(s) ==
  LET start[i \in 1 .. Len(Sectors) + 1] == IF i = 1 THEN 0 ELSE start[i - 1] + Sectors[i - 1]
  IN  start[s]
SectorEnd(s) == SectorStart(s) + Sectors[s]
ASSUME SectorsAssumption ==
  /\ Sectors \in Seq(Nat \ {0}) /\ \A s \in DOMAIN Sectors : Sectors[s] % RowUnits = 0
  /\ SectorStart(Len(Sectors) + 1) = Total
RoundedSize(o) == CeilDiv(o.file, RowUnits) * RowUnits
TouchedAndNext(o, s) ==
  o.offset < SectorEnd(s) /\ SectorStart(s) <= o.offset + RoundedSize(o)
Touched(o, s) ==
  /\ o.offset < SectorEnd(s)
  /\ SectorStart(s) <= o.offset \/ SectorStart(s) < o.offset + RoundedSize(o)
GdProgram(o) ==
  FlattenSeq([s \in DOMAIN Sectors |->
    IF Touched(o, s) THEN <<Area("erase", SectorStart(s), Sectors[s])>> \o GdWait ELSE <<>>])
  \o [i \in 1 .. RoundedSize(o) \div RowUnits |->
        Data(o.offset + (i - 1) * RowUnits, RowUnits, (i - 1) * RowUnits)]
  \o GdWait
GdVerify(o) == Compared(o, RowUnits)
GdRead(o) == Fetched(o, RowUnits)
GdFuseRead == <<Do("fread")>>
GdFuseWrite == <<Do("fput")>> \o GdWait
GdOps(o) ==
  [select |-> GdSelect, deselect |-> GdDeselect, erase |-> GdErase,
   lock |-> GdLock, unlock |-> GdUnlock, program |-> GdProgram(o),
   verify |-> GdVerify(o), read |-> GdRead(o),
   fread |-> GdFuseRead, fwrite |-> GdFuseWrite]

(* target_nu_m480.c: the words of a page go out in one batch; errors are   *)
(* looked for once, after the last, and nothing waits for that one to end. *)
(* A changed configuration word means that all of them are erased and      *)
(* written again.                                                          *)
M4Command(step) == <<step, Do("wait")>>
M4Write(step) == <<step, Do("settle")>>
M4Select == Reattached \o <<Do("options"), Do("keys"), Do("locked")>>
M4Deselect == Release
M4Erase ==
  M4Command(Area("erase", 0, Total \div 2)) \o M4Command(Area("erase", Total \div 2, Total \div 2))
M4Lock == M4Write(Do("setLock"))
M4Unlock == M4Command(Do("chipErase"))
M4Program(o) ==
  Times(PagesOf(o), LAMBDA p : M4Command(Area("erase", PageAt(o, p), PageUnits)))
  \o Times(PagesOf(o), LAMBDA p : WholePage(o, p)) \o <<Do("errors")>>
M4Verify(o) == Compared(o, PageUnits)
M4Read(o) == Fetched(o, PageUnits)
M4FuseRead == <<Do("fread")>>
M4FuseWrite ==
  <<Do("fgather")>> \o M4Command(Do("feraseAll"))
  \o Times(2, LAMBDA s : M4Write(Area("fword", s, 1)))
M4Ops(o) ==
  [select |-> M4Select, deselect |-> M4Deselect, erase |-> M4Erase,
   lock |-> M4Lock, unlock |-> M4Unlock, program |-> M4Program(o),
   verify |-> M4Verify(o), read |-> M4Read(o),
   fread |-> M4FuseRead, fwrite |-> M4FuseWrite]

(* target_puya_py32f0.c *)
PyWait == <<Do("wait")>>
PySelect == Reattached \o <<Do("options"), Do("locked"), Do("keys")>>
PyDeselect == Release
PyErase == <<Area("erase", 0, Total)>> \o PyWait
PyLock == <<Do("setLock")>> \o PyWait
PyUnlock == <<Do("regress")>> \o PyWait
PyProgram(o) ==
  Times(PagesOf(o), LAMBDA p : <<Area("erase", o.offset + p * PageUnits, PageUnits)>> \o PyWait
                               \o WholePage(o, p) \o PyWait)
PyVerify(o) == Compared(o, PageUnits)
PyRead(o) == Fetched(o, PageUnits)
PyFuseRead == <<Do("fread")>>
PyFuseWrite == <<Do("fput")>> \o PyWait
PyOps(o) ==
  [select |-> PySelect, deselect |-> PyDeselect, erase |-> PyErase,
   lock |-> PyLock, unlock |-> PyUnlock, program |-> PyProgram(o),
   verify |-> PyVerify(o), read |-> PyRead(o),
   fread |-> PyFuseRead, fwrite |-> PyFuseWrite]

-----------------------------------------------------------------------------
(* target_atmel_cm0p.c: the core is held in the reset extension until the  *)
(* device is known to be open; no command is checked for errors, and the   *)
(* last row is not waited for.                                             *)
Extend == <<Do("extend"), Do("link")>>
FinishReset == <<Do("halt"), Do("endExtension")>>
SdSelect == Extend \o <<Do("identify"), Do("options"), Do("locked"), Do("finishIfOpen")>>
SdDeselect == Release
SdErase == <<Do("chipErase"), Do("settle")>> \o Extend \o FinishReset
SdLock == <<Do("setLock")>>
SdProgram(o) ==
  Times(PagesOf(o), LAMBDA p : <<Area("erase", o.offset + p * PageUnits, PageUnits), Do("settle")>>
                               \o WholePage(o, p))
SdVerify(o) == Compared(o, PageUnits)
SdRead(o) == Fetched(o, PageUnits)
SdFuseRead == <<Do("fread")>>
SdFuseWrite == <<Do("fblank"), Do("settle"), Do("fput")>>
SdOps(o) ==
  [select |-> SdSelect, deselect |-> SdDeselect, erase |-> SdErase,
   lock |-> SdLock, unlock |-> SdErase, program |-> SdProgram(o),
   verify |-> SdVerify(o), read |-> SdRead(o),
   fread |-> SdFuseRead, fwrite |-> SdFuseWrite]

(* target_atmel_cm4v2.c: as above, with blocks erased and pages written.   *)
SeExtend == <<Do("extend"), Do("link")>>
SeFinishReset == <<Do("halt"), Do("endExtension")>>
SeSelect == SeExtend \o <<Do("identify"), Do("options"), Do("locked"), Do("finishIfOpen")>>
SeDeselect == Release
SeErase == <<Do("chipErase"), Do("settle")>> \o SeExtend \o SeFinishReset
SeLock == <<Do("setLock")>>
Settled(steps) == FlattenSeq([i \in DOMAIN steps |-> <<steps[i], Do("settle")>>])
SeProgram(o) ==
  Times(PagesOf(o), LAMBDA p : <<Area("erase", o.offset + p * PageUnits, PageUnits), Do("settle")>>
                               \o Settled(RowsOfPage(o, p)))
SeVerify(o) == Compared(o, RowUnits)
SeRead(o) == Fetched(o, RowUnits)
SeFuseRead == <<Do("fread")>>
SeFuseWrite == Settled(<<Do("fblank"), Do("fput")>>)
SeOps(o) ==
  [select |-> SeSelect, deselect |-> SeDeselect, erase |-> SeErase,
   lock |-> SeLock, unlock |-> SeErase, program |-> SeProgram(o),
   verify |-> SeVerify(o), read |-> SeRead(o),
   fread |-> SeFuseRead, fwrite |-> SeFuseWrite]

(* The SAM devices with an EEFC: a page is loaded by storing to its        *)
(* address and committed by a command that names its number.  These are    *)
(* the devices of one plane: for the others both drivers pass a number     *)
(* counted across the planes, and what an EEFC makes of one that is past   *)
(* its own is not in the repository.                                       *)
Commit(page, from) == Data(page, RowUnits, from)

(* target_atmel_cm3.c: erase and write in one command; the number of the   *)
(* page is counted from the start of the file, whatever the offset.  Its   *)
(* select reads the descriptors through the first devices of its table.    *)
A3Select == <<Do("restart"), Do("link"), Do("halt"), Do("identify"), Do("describe"), Do("options")>>
A3Deselect == Release
A3Erase == <<Area("erase", 0, Total), Do("settle")>>
A3Lock == <<Do("setLock")>>
A3Program(o) ==
  Times(CeilDiv(o.file, RowUnits), LAMBDA p :
    LET write == Commit(p * RowUnits, p * RowUnits)
    IN  <<Area("erase", write.at, RowUnits), write, Do("settle")>>)
A3Verify(o) == Compared(o, RowUnits)
A3Read(o) == Fetched(o, RowUnits)
A3FuseRead == <<Do("fread")>>
A3FuseWrite == Times(2, LAMBDA b : <<Area("fbit", b, 1)>>)
A3Ops(o) ==
  [select |-> A3Select, deselect |-> A3Deselect, erase |-> A3Erase,
   lock |-> A3Lock, unlock |-> A3Erase, program |-> A3Program(o),
   verify |-> A3Verify(o), read |-> A3Read(o),
   fread |-> A3FuseRead, fwrite |-> A3FuseWrite]

(* target_atmel_cm4.c: blocks of pages are erased first.                   *)
A4Select == <<Do("restart"), Do("link"), Do("halt"), Do("identify"), Do("options")>>
A4Deselect == Release
A4Erase == <<Area("erase", 0, Total), Do("settle")>>
A4Lock == <<Do("setLock")>>
A4Program(o) ==
  Times(PagesOf(o), LAMBDA p : <<Area("erase", PageAt(o, p), PageUnits), Do("settle")>>)
  \o Times(CeilDiv(o.file, RowUnits), LAMBDA p :
       <<Commit(o.offset + p * RowUnits, p * RowUnits), Do("settle")>>)
A4Verify(o) == Compared(o, RowUnits)
A4Read(o) == Fetched(o, RowUnits)
A4FuseRead == <<Do("fread")>>
A4FuseWrite == Times(2, LAMBDA b : <<Area("fbit", b, 1), Do("settle")>>)
A4Ops(o) ==
  [select |-> A4Select, deselect |-> A4Deselect, erase |-> A4Erase,
   lock |-> A4Lock, unlock |-> A4Erase, program |-> A4Program(o),
   verify |-> A4Verify(o), read |-> A4Read(o),
   fread |-> A4FuseRead, fwrite |-> A4FuseWrite]

(* target_atmel_cm7.c: the core is caught by the reset itself.             *)
A7Select ==
  <<Do("link"), Do("catch"), Do("restart"), Do("link"), Do("identify"), Do("options")>>
A7Deselect == <<Do("letGo"), Do("restart")>>
A7Erase == <<Area("erase", 0, Total), Do("settle")>>
A7Lock == <<Do("setLock")>>
A7Program(o) ==
  Times(PagesOf(o), LAMBDA p : <<Area("erase", PageAt(o, p), PageUnits), Do("settle")>>)
  \o Times(CeilDiv(o.file, RowUnits), LAMBDA p :
       <<Data(o.offset + p * RowUnits, RowUnits, p * RowUnits), Do("settle")>>)
A7Verify(o) == Compared(o, RowUnits)
A7Read(o) == Fetched(o, RowUnits)
A7FuseRead == <<Do("fread")>>
A7FuseWrite == Times(2, LAMBDA b : <<Area("fbit", b, 1)>>)
A7Ops(o) ==
  [select |-> A7Select, deselect |-> A7Deselect, erase |-> A7Erase,
   lock |-> A7Lock, unlock |-> A7Erase, program |-> A7Program(o),
   verify |-> A7Verify(o), read |-> A7Read(o),
   fread |-> A7FuseRead, fwrite |-> A7FuseWrite]

-----------------------------------------------------------------------------
(* target_get_ops.  Align is what a driver hands to target_check_options.  *)
Drivers ==
  {"stm32g0", "stm32g4", "stm32wb55", "gd32f4xx", "m480", "py32f0",
   "samd", "same5x", "sam3", "sam4", "same70"}
Ops(d, o) ==
  CASE d = "stm32g0" -> G0Ops(o) [] d = "stm32g4" -> G4Ops(o)
    [] d = "stm32wb55" -> WbOps(o) [] d = "gd32f4xx" -> GdOps(o)
    [] d = "m480" -> M4Ops(o) [] d = "py32f0" -> PyOps(o)
    [] d = "samd" -> SdOps(o) [] d = "same5x" -> SeOps(o)
    [] d = "sam3" -> A3Ops(o) [] d = "sam4" -> A4Ops(o) [] d = "same70" -> A7Ops(o)
Align(d) == IF d \in {"gd32f4xx", "sam3"} THEN RowUnits ELSE PageUnits
SizeFor(d) == IF d = "stm32wb55" THEN Accessible ELSE Total
SectionsOf(d) ==
  IF d \in {"samd", "same5x", "sam3", "same70"} THEN {0} ELSE FuseSections

(* External: the flash controllers.  Only some must be unlocked with keys; *)
(* the EEFC devices do not answer a debugger once their security bit is    *)
(* set, and keep it through a chip erase.                                  *)
Eefc == {"sam3", "sam4", "same70"}
Keyed == {"stm32g0", "stm32g4", "stm32wb55", "gd32f4xx", "m480", "py32f0"}
=============================================================================
