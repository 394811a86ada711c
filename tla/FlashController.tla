--------------------------- MODULE FlashController ---------------------------
(***************************************************************************)
(* The register sequence of src/Stm32G0Programmer.cpp against the flash    *)
(* controller of the STM32G0: unlockFlash, erasePage, programPage,         *)
(* waitFlash and the loops of program and verify, run for an update and,   *)
(* when that fails, for the restore of the backup in the same session.     *)
(*                                                                         *)
(* One step is one access over SWD, which may fail with or without having  *)
(* had its effect.  Flash is counted in doublewords, the unit that is      *)
(* programmed; a page has PageCells of them, page 0 is the bootloader.     *)
(***************************************************************************)
EXTENDS Integers, Sequences

CONSTANTS
  Content,   \* what a doubleword can hold
  Blank,     \* the erased doubleword
  Torn,      \* a doubleword an interrupted operation has left undefined
  Pages,     \* pages of the flash: 0 .. Pages - 1
  PageCells, \* doublewords in a page
  Offset,    \* the page the application starts at (kMarlinOffset)
  Old,       \* the flash at first
  Files      \* the files that may be programmed

ASSUME SizeAssumption ==
  /\ PageCells \in Nat \ {0} /\ Pages \in Nat /\ Offset \in Nat
  /\ Blank \in Content /\ Torn \in Content
  /\ Old \in [0 .. Pages * PageCells - 1 -> Content]
  /\ \A f \in Files : f \in Seq(Content) /\ Len(f) \in 1 .. (Pages - Offset) * PageCells

Cells == 0 .. Pages * PageCells - 1
CellsOf(page) == page * PageCells .. (page + 1) * PageCells - 1

VARIABLES
  dev,     \* the flash controller
  pc,      \* the next access
  file,    \* the file being programmed
  restore, \* it is the backup, written back after a failure
  page,    \* the page being erased and programmed
  cell,    \* the doubleword of the page being programmed
  given    \* what the last update or restore returned

run == <<file, restore, page, cell, given>>
vars == <<dev, pc, run>>

-----------------------------------------------------------------------------
(* The controller.  cr is what FLASH_CR enables, doing the operation that   *)
(* keeps it busy, err its error flags.  keys counts the keys it has seen; a *)
(* wrong one, or any once it is unlocked, jams it until the next reset.     *)
(* used is history: an operation has been started since that reset.         *)

Idle == [op |-> "none", at |-> 0, value |-> Blank]
Busy(d) == d.doing.op # "none"

Operations == [op: {"none", "erase", "program"}, at: Nat, value: Content]
Device == [cells: [Cells -> Content], cr: {"0", "PG", "PER"}, doing: Operations,
           err: BOOLEAN, used: BOOLEAN, locked: BOOLEAN, keys: 0 .. 1, jammed: BOOLEAN]

Fill(d, cells, value) == [c \in Cells |-> IF c \in cells THEN value ELSE d.cells[c]]

\* The operation under way ends, well or with an error.
Ended(d) ==
  LET touched == IF d.doing.op = "erase" THEN CellsOf(d.doing.at) ELSE {d.doing.at}
  IN  {[d EXCEPT !.doing = Idle, !.cells = Fill(d, touched, d.doing.value)],
       [d EXCEPT !.doing = Idle, !.cells = Fill(d, touched, Torn), !.err = TRUE]}

\* FLASH_CR and the flash itself answer when the controller is idle again.
Settled(d) == IF Busy(d) THEN Ended(d) ELSE {d}

WriteCr(d, bits) ==
  {IF s.locked THEN s ELSE [s EXCEPT !.cr = bits] : s \in Settled(d)}

StartErase(d, p) ==
  {IF s.locked \/ s.err \/ s.cr # "PER" THEN [s EXCEPT !.err = TRUE]
   ELSE [s EXCEPT !.used = TRUE, !.doing = [op |-> "erase", at |-> p, value |-> Blank]] : s \in Settled(d)}

WriteCell(d, c, v) ==
  {IF s.err \/ s.cr # "PG" \/ s.cells[c] # Blank THEN [s EXCEPT !.err = TRUE]
   ELSE [s EXCEPT !.doing = [op |-> "program", at |-> c, value |-> v]] : s \in Settled(d)}

\* The first of the two words arrives alone.
HalfCell(d) == {[s EXCEPT !.err = TRUE] : s \in Settled(d)}

ClearSr(d) == {[d EXCEPT !.err = FALSE]}

WriteKey(d, second) ==
  {IF d.jammed \/ ~d.locked \/ (d.keys = 1) # second THEN [d EXCEPT !.jammed = TRUE, !.locked = TRUE]
   ELSE IF second THEN [d EXCEPT !.locked = FALSE, !.keys = 0] ELSE [d EXCEPT !.keys = 1]}

\* A system reset; it cuts an operation short.
AfterReset(d) ==
  {[s EXCEPT !.cr = "0", !.err = FALSE, !.used = FALSE, !.locked = TRUE,
              !.keys = 0, !.jammed = FALSE] :
     s \in Settled(d)}

-----------------------------------------------------------------------------
(* The programmer. *)

LastPage == Offset + (Len(file) - 1) \div PageCells

\* Mutant: pages are counted from the application.
PageFromApplication == page - Offset
PageNumber == page

\* The doubleword of the file that belongs at a cell; past its end 0xff.
Wanted(c) == LET i == c - Offset * PageCells + 1
             IN  IF i <= Len(file) THEN file[i] ELSE Blank

At(p) == pc = p
Goto(p) == pc' = p

\* An error return of program or verify; a failed update turns to the backup.
Fails ==
  /\ pc' = "failed"
  /\ UNCHANGED run

(* An access: done, or failed before or after its effect.                  *)
Done(effects, next) == dev' \in effects /\ Goto(next)
Broken(effects) == dev' \in effects \cup {dev} /\ Fails

Access(here, effects, next) ==
  /\ At(here)
  /\ \/ Done(effects, next) /\ UNCHANGED run
     \/ Broken(effects)

\* A job attaches, under reset, and programs a file: an update or a restore.
Begin(f, r) ==
  /\ At("idle")
  /\ dev' \in AfterReset(dev)
  /\ file' = f /\ restore' = r
  /\ Goto("read CR")
  /\ page' = Offset /\ cell' = 0
  /\ given' = "none"

(* unlockFlash *)

\* Mutant: the keys are always sent.
AlwaysLocked == TRUE
NeedsKeys == dev.locked

ReadCr == Access("read CR", {dev}, IF NeedsKeys THEN "key 1" ELSE "clear SR")
Key1 == Access("key 1", WriteKey(dev, FALSE), "key 2")
Key2 == Access("key 2", WriteKey(dev, TRUE), "confirm")

Confirm ==
  \/ ~dev.locked /\ Access("confirm", {dev}, "clear SR")
  \/ dev.locked /\ At("confirm") /\ Fails /\ UNCHANGED dev

ClearStatus == Access("clear SR", ClearSr(dev), "reset CR")

(* program *)

\* Mutant: the bits of the failed run stay in FLASH_CR.
ControlAsItIs(d) == {d}
ControlReset(d) == WriteCr(d, "0")

ResetControl == Access("reset CR", ControlReset(dev), "clear again")
ClearAgain == Access("clear again", ClearSr(dev), "configure")

(* erasePage *)

Configure == Access("configure", WriteCr(dev, "PER"), "start")
StartPage == Access("start", StartErase(dev, PageNumber), "wait erase")
FinishErase == Access("finish erase", WriteCr(dev, "0"), "enable")

(* waitFlash: polls FLASH_SR until the controller is idle or time is up.   *)

\* Mutant: the error flags are not looked at.
NoErrors == TRUE
NoErrorFlags == ~dev.err

\* Mutant: the poll has no end.
NoDeadline == FALSE
GivesUp == Fails \* the time is up, or FLASH_SR could not be read

WaitIsOver(here, next) ==
  /\ At(here)
  /\ UNCHANGED dev
  /\ \/ /\ ~Busy(dev) /\ NoErrorFlags
        /\ Goto(next)
        /\ UNCHANGED run
     \/ /\ ~Busy(dev) /\ ~NoErrorFlags
        /\ Fails
     \/ GivesUp

WaitErase == WaitIsOver("wait erase", "finish erase")
WaitCell == WaitIsOver("wait write", "clear EOP")

(* programPage *)

Enable == Access("enable", WriteCr(dev, "PG"), "write")

WriteDoubleword ==
  LET at == page * PageCells + cell
  IN  \/ Access("write", WriteCell(dev, at, Wanted(at)), "wait write")
      \/ At("write") /\ dev' \in HalfCell(dev) /\ Fails
      \/ At("write") /\ Fails /\ UNCHANGED dev \* short read of the file

MoreCells == cell + 1 < PageCells

ClearEop ==
  /\ At("clear EOP")
  /\ \/ /\ dev' = dev
        /\ IF MoreCells THEN cell' = cell + 1 /\ Goto("write")
           ELSE cell' = 0 /\ Goto("disable")
        /\ UNCHANGED <<file, restore, page, given>>
     \/ Broken({dev})

Disable ==
  /\ At("disable")
  /\ \/ /\ dev' \in WriteCr(dev, "0")
        /\ IF page < LastPage THEN page' = page + 1 /\ Goto("configure")
           ELSE UNCHANGED page /\ Goto("verify")
        /\ UNCHANGED <<file, restore, cell, given>>
     \/ Broken(WriteCr(dev, "0"))

(* verify compares the doublewords of the file.                            *)
Matches == \A i \in DOMAIN file : dev.cells[Offset * PageCells + i - 1] = file[i]

Finish(result) ==
  /\ Goto("idle")
  /\ given' = result
  /\ UNCHANGED <<dev, file, restore, page, cell>>

Verify ==
  /\ At("verify")
  /\ \/ Matches /\ Finish(IF restore THEN "restored" ELSE "programmed")
     \/ Fails /\ UNCHANGED dev \* a mismatch, or an access failed

\* executeJob: a failed update goes on with the backup, a failed restore ends.
RestoreAfter(f) ==
  /\ At("failed") /\ ~restore
  /\ file' = f /\ restore' = TRUE
  /\ page' = Offset /\ cell' = 0
  /\ Goto("read CR")
  /\ UNCHANGED <<dev, given>>

GiveUp == At("failed") /\ restore /\ Finish("failed")

\* The controller ends an operation by itself.
Complete ==
  /\ Busy(dev)
  /\ dev' \in Ended(dev)
  /\ UNCHANGED <<pc, run>>

Step ==
  \/ ReadCr \/ Key1 \/ Key2 \/ Confirm \/ ClearStatus \/ ResetControl \/ ClearAgain
  \/ Configure \/ StartPage \/ WaitErase \/ FinishErase
  \/ Enable \/ WriteDoubleword \/ WaitCell \/ ClearEop \/ Disable
  \/ Verify \/ GiveUp
  \/ \E f \in Files : RestoreAfter(f)

Init ==
  /\ dev = [cells |-> Old, cr |-> "0", doing |-> Idle, err |-> FALSE,
            used |-> FALSE, locked |-> TRUE, keys |-> 0, jammed |-> FALSE]
  /\ pc = "idle"
  /\ file \in Files
  /\ restore = FALSE
  /\ page = Offset
  /\ cell = 0
  /\ given = "none"

Next == Step \/ Complete \/ \E f \in Files, r \in BOOLEAN : Begin(f, r)

Spec == Init /\ [][Next]_vars

\* The job is scheduled, and every wait has a deadline.
FairSpec == Spec /\ WF_vars(Step)

-----------------------------------------------------------------------------
Points == {"idle", "read CR", "key 1", "key 2", "confirm", "clear SR", "reset CR",
           "clear again", "configure", "start", "wait erase", "finish erase", "enable",
           "write", "wait write", "clear EOP", "disable", "verify", "failed"}

ControllerTypeOK ==
  /\ dev \in Device
  /\ pc \in Points
  /\ file \in Files
  /\ restore \in BOOLEAN
  /\ page \in Offset .. LastPage
  /\ cell \in 0 .. PageCells - 1
  /\ given \in {"none", "programmed", "restored", "failed"}

(* An erase starts, and a doubleword is written, against a controller that *)
(* is unlocked, idle, free of the errors of whatever ran before, and set   *)
(* to that operation; the doubleword is blank.  That includes a restore    *)
(* after an update whose wait had given up (waitFlash) or whose PG bit was *)
(* left set (an error return of programPage).                              *)
CommandMeetsReady ==
  /\ pc \in {"start", "write"} => ~Busy(dev) /\ ~dev.err /\ ~dev.locked
  /\ pc = "start" => dev.cr = "PER"
  /\ pc = "write" => dev.cr = "PG" /\ dev.cells[page * PageCells + cell] = Blank

(* When program returns true every page of the file is in place, padded    *)
(* with 0xff, and nothing is under way any more: verify cannot be right by *)
(* accident and then be overtaken.                                         *)
ProgramIsWhole ==
  pc = "verify" \/ (pc = "idle" /\ given \in {"programmed", "restored"}) =>
    /\ ~Busy(dev)
    /\ \A p \in Offset .. LastPage : \A c \in CellsOf(p) : dev.cells[c] = Wanted(c)

(* The bootloader, and the pages past those of every file, keep their      *)
(* contents through operations that fail, hang or outlive their wait.      *)
OtherPagesKept ==
  \A c \in Cells :
    (c < Offset * PageCells \/ \A f \in Files : c >= (Offset * PageCells) + Len(f) + PageCells - 1)
      => dev.cells[c] = Old[c]

(* A controller that has refused the keys has not been touched since it    *)
(* was reset: no page is lost to a session that can no longer write it     *)
(* (the test of the LOCK bit in unlockFlash).                              *)
JammedIsUntouched == dev.jammed => ~dev.used

(* Every update and restore ends.                                          *)
RunEnds == pc # "idle" ~> pc = "idle"
=============================================================================
