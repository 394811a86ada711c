------------------------------- MODULE SwdPins -------------------------------
(***************************************************************************)
(* A job as the target board sees it: the SWD pins and the reset gate of   *)
(* src/HardwareAbstraction.cpp, driven by attach and detachAndRun of       *)
(* src/Stm32G0Programmer.cpp, and the core of the controller they halt.    *)
(*                                                                         *)
(* The job of FlashService between attach and detachAndRun is the program  *)
(* point "work": accesses to memory that leave pins and core alone.  The   *)
(* board has a supply and a reset button of its own.                       *)
(***************************************************************************)
EXTENDS Naturals

CONSTANTS
  Saturates,  \* TRUE where the supply reading cannot exceed 3.6 V (ESP8266)
  MaxFaults   \* bound: failed accesses and reboots of the programmer

ASSUME SenseAssumption == Saturates \in BOOLEAN
ASSUME FaultAssumption == MaxFaults \in Nat

Rails == {"absent", "valid", "high"} \* below 2.7 V, in range, above 3.6 V

(* Where attach and detachAndRun are: the next thing they do. *)
Points == {"idle", "sense", "connect", "halt", "catch", "haltAgain",
           "identify", "work", "clearCatch", "reset", "disconnect"}

VARIABLES
  pc,        \* program point of the job, "idle" when there is none
  verdict,   \* what the job reports when it ends
  outcome,   \* the last reported verdict
  swclk,     \* direction of the SWCLK pin
  swdio,     \* direction of the SWDIO pin
  resetGate, \* TRUE when Q1 pulls NRST low
  link,      \* the debug port answers: connected, and powered since
  faults,
  rail,      \* the supply of the target
  sensed,    \* history: the supply when this job looked, "none" before
  target     \* the controller's core and its debug registers

pinsVars == <<pc, verdict, outcome, swclk, swdio, resetGate, link, faults,
              rail, sensed, target>>
pins == <<swclk, swdio>>

-----------------------------------------------------------------------------
(* The controller.  core: what the processor does; ran: it executed an      *)
(* instruction since its last reset; debug: DHCSR.C_DEBUGEN; catch:         *)
(* DEMCR.VC_CORERESET.  Debug registers survive a reset, not a power loss.  *)

Target == [core: {"off", "reset", "running", "halted"},
           ran: BOOLEAN, debug: BOOLEAN, catch: BOOLEAN]

LeaveReset(t) ==
  IF t.debug /\ t.catch THEN [t EXCEPT !.core = "halted", !.ran = FALSE]
                        ELSE [t EXCEPT !.core = "running", !.ran = TRUE]

PullReset(t) ==
  IF t.core = "off" THEN t ELSE [t EXCEPT !.core = "reset", !.ran = FALSE]

ReleaseReset(t) == IF t.core = "reset" THEN LeaveReset(t) ELSE t

Unpowered == [core |-> "off", ran |-> FALSE, debug |-> FALSE, catch |-> FALSE]

PowerUp == LET t == [Unpowered EXCEPT !.core = "reset"]
           IN  IF resetGate THEN t ELSE LeaveReset(t)

\* What a write to DHCSR, to DEMCR or to AIRCR does.
Halted(t) == [t EXCEPT !.debug = TRUE,
                       !.core = IF t.core = "running" THEN "halted" ELSE t.core]
\* Mutant: the catch is never set.
CatchingNever(t, on) == [t EXCEPT !.catch = FALSE]
\* Mutant: the catch is never cleared.
CatchingForGood(t, on) == [t EXCEPT !.catch = TRUE]
Catching(t, on) == [t EXCEPT !.catch = on]
SystemReset(t) == IF t.core = "reset" THEN t ELSE LeaveReset(t)

-----------------------------------------------------------------------------
(* The pins. *)

\* What the voltage reading makes of the supply.
Reading(r) == IF Saturates /\ r = "high" THEN "valid" ELSE r
\* Mutant: only too low a supply is refused.
InRangeNoUpperBound(r) == Reading(r) # "absent"
InRange(r) == Reading(r) = "valid"

Direction(output) == IF output THEN "out" ELSE "in"
Gate(asserted) == asserted

(* A write32 ends with SWDIO as an output whatever the target answered.     *)
(* One that fails may have reached the target all the same: the answer was  *)
(* lost, or the read that completes the write failed.                       *)
AccessWorks(written) ==
  /\ link
  /\ target' = written
  /\ swdio' = Direction(TRUE)
  /\ UNCHANGED faults

AccessFails(written) ==
  /\ swdio' = Direction(TRUE)
  /\ \/ ~link
        /\ UNCHANGED <<target, faults>>
     \/ link
        /\ faults < MaxFaults
        /\ faults' = faults + 1
        /\ target' \in {target, written}

-----------------------------------------------------------------------------
PinsInit ==
  /\ pc = "idle"
  /\ verdict = "failed"
  /\ outcome = "none"
  /\ swclk = Direction(FALSE)
  /\ swdio = Direction(FALSE)
  /\ resetGate = Gate(FALSE)
  /\ link = FALSE
  /\ faults = 0
  /\ rail \in Rails
  /\ sensed = "none"
  /\ target = IF rail = "absent" THEN Unpowered ELSE PowerUp

Start ==
  /\ pc = "idle"
  /\ pc' = "sense"
  /\ verdict' = "failed"
  /\ outcome' = "none"
  /\ sensed' = "none"
  /\ UNCHANGED <<pins, resetGate, link, faults, rail, target>>

\* attach reads VTREF once; in range, it pulls reset before it connects.
Sense ==
  /\ pc = "sense"
  /\ InRange(rail)
  /\ sensed' = rail
  /\ resetGate' = Gate(TRUE)
  /\ target' = PullReset(target)
  /\ pc' = "connect"
  /\ UNCHANGED <<verdict, outcome, pins, link, faults, rail>>

SenseFails ==
  /\ pc = "sense"
  /\ ~InRange(rail)
  /\ sensed' = rail
  /\ pc' = "clearCatch"
  /\ UNCHANGED <<verdict, outcome, pins, resetGate, link, faults, rail, target>>

\* The pins become outputs before the first bit; without a supply nothing answers.
Connect ==
  /\ pc = "connect"
  /\ swclk' = Direction(TRUE)
  /\ swdio' = Direction(TRUE)
  /\ \/ /\ rail # "absent"
        /\ link' = TRUE
        /\ pc' = "halt"
        /\ UNCHANGED faults
     \/ /\ rail = "absent"
        /\ pc' = "clearCatch"
        /\ UNCHANGED <<link, faults>>
     \/ /\ rail # "absent"
        /\ faults < MaxFaults
        /\ faults' = faults + 1
        /\ pc' = "clearCatch"
        /\ UNCHANGED link
  /\ UNCHANGED <<verdict, outcome, resetGate, rail, sensed, target>>

\* A step of attach that writes a debug register: on failure, the failure tail.
AttachWrite(from, written, to) ==
  /\ pc = from
  /\ \/ AccessWorks(written) /\ pc' = to
     \/ AccessFails(written) /\ pc' = "clearCatch"
  /\ UNCHANGED <<verdict, outcome, swclk, resetGate, link, rail, sensed>>

Halt == AttachWrite("halt", Halted(target), "catch")

HaltAgain == AttachWrite("haltAgain", Halted(target), "identify")

\* The catch is set under reset; then attach lets go of NRST.
CatchReset ==
  /\ pc = "catch"
  /\ \/ /\ AccessWorks(ReleaseReset(Catching(target, TRUE)))
        /\ resetGate' = Gate(FALSE)
        /\ pc' = "haltAgain"
     \/ /\ AccessFails(Catching(target, TRUE))
        /\ pc' = "clearCatch"
        /\ UNCHANGED resetGate
  /\ UNCHANGED <<verdict, outcome, swclk, link, rail, sensed>>

\* Reads only; the controller may also be refused for what they return.
Identify ==
  /\ pc = "identify"
  /\ \/ AccessWorks(target) /\ pc' \in {"work", "clearCatch"}
     \/ AccessFails(target) /\ pc' = "clearCatch"
  /\ UNCHANGED <<verdict, outcome, swclk, resetGate, link, rail, sensed>>

Work ==
  /\ pc = "work"
  /\ \/ AccessWorks(target) /\ verdict' = "success"
     \/ AccessWorks(target) /\ UNCHANGED verdict \* a check refuses
     \/ AccessFails(target) /\ UNCHANGED verdict
  /\ pc' = "clearCatch"
  /\ UNCHANGED <<outcome, swclk, resetGate, link, rail, sensed>>

\* detachAndRun ignores the results of its two writes.
DetachWrite(from, written, to) ==
  /\ pc = from
  /\ AccessWorks(written) \/ AccessFails(written)
  /\ pc' = to
  /\ UNCHANGED <<verdict, outcome, swclk, resetGate, link, rail, sensed>>

ClearCatch == DetachWrite("clearCatch", Catching(target, FALSE), "reset")

ResetTarget == DetachWrite("reset", SystemReset(target), "disconnect")

\* The pins first, then NRST; then the job reports its verdict.
Disconnect ==
  /\ pc = "disconnect"
  /\ swclk' = Direction(FALSE)
  /\ swdio' = Direction(FALSE)
  /\ link' = FALSE
  /\ resetGate' = Gate(FALSE)
  /\ target' = ReleaseReset(target)
  /\ outcome' = verdict
  /\ pc' = "idle"
  /\ UNCHANGED <<verdict, faults, rail, sensed>>

\* The programmer restarts: its pins float, and setup leaves the gate low.
Reboot ==
  /\ faults < MaxFaults
  /\ faults' = faults + 1
  /\ pc' = "idle"
  /\ verdict' = "failed"
  /\ outcome' = "none"
  /\ swclk' = Direction(FALSE)
  /\ swdio' = Direction(FALSE)
  /\ resetGate' = Gate(FALSE)
  /\ link' = FALSE
  /\ sensed' = "none"
  /\ target' = ReleaseReset(target)
  /\ UNCHANGED rail

\* The printer is switched off or on, or its cable is moved, at any time.
Supply ==
  /\ rail' \in Rails \ {rail}
  /\ IF rail' = "absent"
     THEN target' = Unpowered /\ link' = FALSE
     ELSE /\ target' = IF rail = "absent" THEN PowerUp ELSE target
          /\ UNCHANGED link
  /\ UNCHANGED <<pc, verdict, outcome, pins, resetGate, faults, sensed>>

\* Somebody presses the reset button of the board.
ResetButton ==
  /\ target.core \in {"running", "halted"}
  /\ target' = LeaveReset(target)
  /\ UNCHANGED <<pc, verdict, outcome, pins, resetGate, link, faults, rail, sensed>>

Attaching == Sense \/ SenseFails \/ Connect \/ Halt \/ CatchReset \/ HaltAgain \/ Identify
Detaching == ClearCatch \/ ResetTarget \/ Disconnect

PinsNext == Start \/ Attaching \/ Work \/ Detaching \/ Reboot \/ Supply \/ ResetButton

PinsSpec == PinsInit /\ [][PinsNext]_pinsVars

-----------------------------------------------------------------------------
(* Types. *)
PinsTypeOK ==
  /\ pc \in Points
  /\ verdict \in {"success", "failed"}
  /\ outcome \in {"none", "success", "failed"}
  /\ swclk \in {"in", "out"} /\ swdio \in {"in", "out"}
  /\ resetGate \in BOOLEAN
  /\ link \in BOOLEAN
  /\ faults \in 0 .. MaxFaults
  /\ rail \in Rails
  /\ sensed \in Rails \cup {"none"}
  /\ target \in Target

(* While the flash is compared, erased or written, the core is halted and    *)
(* has not executed one instruction since the reset that attach gave it,     *)
(* whatever the board's own reset button and supply do meanwhile: what       *)
(* attach's order of reset, catch, release and halt is for.                  *)
UsedOnlyHalted == pc = "work" /\ link => target.core = "halted" /\ ~target.ran

(* Between two jobs the programmer holds no pin and no reset, whichever step *)
(* failed; and when no access failed, the printer is not left halted by the  *)
(* catch that attach set.                                                    *)
PrinterLeftAlone ==
  pc = "idle" =>
    /\ swclk = "in" /\ swdio = "in"
    /\ target.core # "reset"
    /\ faults = 0 => target.core # "halted"

(* SWCLK is driven and NRST is pulled only in a job that found the supply in *)
(* range (the check at the head of attach).                                  *)
NoConnectOutOfRange == swclk = "out" \/ resetGate => sensed = "valid"

-----------------------------------------------------------------------------
(* The inductive invariant. *)

\* Power and reset reach the core.
Wired ==
  /\ target.core = "off" <=> rail = "absent"
  /\ rail = "absent" => target = Unpowered /\ ~link
  /\ target.core = "reset" <=> resetGate /\ rail # "absent"

\* What is driven when.
Driven ==
  /\ pc \in {"idle", "sense"} => swclk = "in" /\ swdio = "in" /\ ~resetGate
  /\ pc \in {"idle", "sense", "connect"} => ~link
  /\ pc \in {"connect", "halt", "catch"} => resetGate
  /\ pc \in {"haltAgain", "identify", "work"} => ~resetGate
  /\ swclk = "out" \/ resetGate => InRange(sensed)

\* What attach has made of the core so far.
Prepared ==
  link =>
    /\ pc = "catch" => target.debug
    /\ pc \in {"haltAgain", "identify", "work"} =>
         /\ target.debug /\ target.catch
         /\ target.core = "halted" /\ ~target.ran

\* Without a failed access, the catch is gone before the core is let go.
Undone ==
  faults = 0 =>
    /\ ~link => ~target.catch /\ target.core # "halted"
    /\ pc \in {"reset", "disconnect"} => ~target.catch
    /\ pc = "disconnect" => target.core # "halted"

PinsInv == PinsTypeOK /\ Wired /\ Driven /\ Prepared /\ Undone
=============================================================================
