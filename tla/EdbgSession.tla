----------------------------- MODULE EdbgSession ------------------------------
(***************************************************************************)
(* One run of edbg (.research/edbg-master): main of edbg.c, the options    *)
(* and the fuse commands of target.c, the calls of dap.c that handle the   *)
(* probe and the reset line, and the drivers of EdbgTargets, over a device *)
(* that refuses to touch a protected page and tells so only in its error   *)
(* flag.  Any access may fail, and every failure ends the process where    *)
(* it stands.                                                              *)
(***************************************************************************)
EXTENDS EdbgTargets

CONSTANTS
  RunDrivers,  \* the drivers of this instance
  Cases        \* command lines and what they meet, [cmd, world]

(* A command line: [acts, reset, target, list, serial, version, offset,    *)
(* size, length, fuse]; -1 for an offset or a size not given.  "length" is *)
(* that of the file; a fuse command is [ops, section, what, hi, lo, value],*)
(* its value <<>> when there is none.  A world is [probes, swd, listed,    *)
(* locked, bad, holds]: debuggers attached, whether the chosen one speaks  *)
(* SWD, where the driver's table names the device, whether it is locked,   *)
(* a unit it protects or -1, and whether it holds the file already.        *)
Actions == {"unlock", "erase", "program", "verify", "lock", "read"}
FuseCommand ==
  [ops : SUBSET {"r", "w", "v"}, section : Nat, what : {"bits", "file", "short", "all"},
   hi : Nat, lo : Nat, value : {<<>>} \cup [FuseBits -> 0 .. 1]]

ASSUME SessionAssumption ==
  /\ RunDrivers \subseteq Drivers
  /\ \A c \in Cases :
       /\ c = [cmd |-> c.cmd, world |-> c.world]
       /\ c.cmd.acts \subseteq Actions /\ c.cmd.fuse \in Seq(FuseCommand)
       /\ {c.cmd.offset, c.cmd.size, c.cmd.length} \subseteq Nat \cup {-1}
       /\ c.world.locked \in BOOLEAN

NoOptions == [offset |-> 0, size |-> 0, file |-> 0]

(* What a unit holds: Free when erased, the file's byte i as i + 1, or     *)
(* something else.                                                         *)
Free == 0
Old == -1
Torn == -2
FileByte(i) == i + 1
FreeFuses == [b \in FuseBits |-> 1]
LockUnit == Total
FuseUnit(s) == Total + 1 + s

VARIABLES
  driver, cmd, world,
  dev,       \* external: [flash, fuses, locked, keyed, err, busy, halting, held, low]
  connected, \* dap_interface, and the probe's side of it
  opt,       \* target_options: offset, size and file_size
  plan,      \* operations of main that are left, as <<operation, fuse command>>
  todo,      \* steps left of the operation in progress
  fdata, config,  \* section data of the fuse commands; the words M480 gathers
  got, saved,     \* what read has fetched, and the file it wrote
  exit            \* "running", "ok", "error"

vars == <<driver, cmd, world, dev, connected, opt, plan, todo, fdata, config, got, saved, exit>>

-----------------------------------------------------------------------------
(* The device.  A reset while something is being written may tear it.      *)
FirstFlash(w) == [u \in Units |-> IF w.holds THEN FileByte(u) ELSE Old]
FirstFuses == [s \in FuseSections |-> [b \in FuseBits |-> 0]]
NewDevice(w) ==
  [flash |-> FirstFlash(w), fuses |-> FirstFuses, locked |-> w.locked, keyed |-> FALSE,
   err |-> FALSE, busy |-> {}, halting |-> FALSE, held |-> FALSE, low |-> FALSE]
Settle(d) == [d EXCEPT !.busy = {}]
Cut(d) ==
  [d EXCEPT !.flash = [u \in Units |-> IF u \in d.busy THEN Torn ELSE @[u]],
            !.fuses = [s \in FuseSections |-> IF FuseUnit(s) \in d.busy THEN FreeFuses ELSE @[s]],
            !.locked = @ /\ LockUnit \notin d.busy]
AfterReset(d) == {[x EXCEPT !.busy = {}, !.keyed = FALSE, !.err = FALSE] : x \in {d, Cut(d)}}

Refuses(d, units) ==
  \/ driver \in Keyed /\ ~d.keyed
  \/ world.locked /\ d.locked
  \/ world.bad \in units
Span(s) == s.at .. s.at + s.len - 1
Erased(d, s) ==
  IF Refuses(d, Span(s)) THEN [Settle(d) EXCEPT !.err = TRUE]
  ELSE [Settle(d) EXCEPT !.flash = [u \in Units |-> IF u \in Span(s) THEN Free ELSE @[u]],
                         !.busy = Span(s)]
Buffer(i) == IF i < opt.file THEN FileByte(i) ELSE Free
Programmed(d, s) ==
  IF Refuses(d, Span(s)) THEN [Settle(d) EXCEPT !.err = TRUE]
  ELSE [Settle(d) EXCEPT
          !.flash = [u \in Units |-> IF u \notin Span(s) THEN @[u]
                                    ELSE IF @[u] = Free THEN Buffer(s.from + u - s.at)
                                    ELSE Torn],
          !.err = @ \/ \E u \in Span(s) : d.flash[u] # Free,
          !.busy = Span(s)]
Wiped(d) == [Settle(d) EXCEPT !.flash = [u \in Units |-> Free], !.busy = Units]
Chip(d) == [Wiped(d) EXCEPT !.locked = FALSE]
PutFuses(d, s, value) ==
  IF Refuses(d, {FuseUnit(s)}) THEN [Settle(d) EXCEPT !.err = TRUE]
  ELSE [Settle(d) EXCEPT !.fuses[s] = value, !.busy = {FuseUnit(s)}]

-----------------------------------------------------------------------------
(* main.  The fuse commands come last; each is parsed when its turn comes. *)
Active == cmd.acts # {} \/ cmd.fuse # <<>>
Turn(act) == IF act \in cmd.acts THEN <<<<act, 0>>>> ELSE <<>>
Plan ==
  <<<<"open", 0>>>>
  \o (IF cmd.reset > 0 THEN <<<<"pulse", 0>>>> ELSE <<>>)
  \o (IF ~Active THEN <<>>
      ELSE <<<<"select", 0>>>>
           \o Turn("unlock") \o Turn("erase") \o Turn("program")
           \o Turn("verify") \o Turn("lock") \o Turn("read")
           \o [k \in DOMAIN cmd.fuse |-> <<"fuse", k>>]
           \o <<<<"deselect", 0>>, <<"restart", 0>>>>)
  \o <<<<"close", 0>>>>

Refused ==
  \/ ~Active /\ ~cmd.list /\ cmd.target = "none" /\ cmd.reset # 0
  \/ "read" \in cmd.acts /\ cmd.acts \cap {"erase", "program", "verify", "lock"} # {}
Listed == cmd.list \/ cmd.target = "list"

(* The debugger: by its index, by its serial number, or the only one.      *)
ByIndex == \E i \in 1 .. world.probes : cmd.serial = <<"first", "second">>[i]
BySerial == cmd.serial = "serial" /\ world.probes > 0
Found ==
  /\ cmd.serial # "any" => ByIndex \/ BySerial
  /\ world.probes > 0
  /\ world.probes > 1 => cmd.serial # "any"
Speaks == cmd.version \in {"best", "offered"}

Main ==
  /\ exit = "running" /\ plan = <<>> /\ todo = <<>> /\ ~connected
  /\ \/ Refused /\ exit' = "error" /\ plan' = <<>>
     \/ ~Refused /\ Listed /\ exit' = "ok" /\ plan' = <<>>
     \/ /\ ~Refused /\ ~Listed
        /\ \/ cmd.target # "known"
           \/ ~Found
           \/ ~Speaks
        /\ exit' = "error" /\ plan' = <<>>
     \/ /\ ~Refused /\ ~Listed /\ cmd.target = "known" /\ Found /\ Speaks
        /\ plan' = Plan /\ exit' = exit
  /\ UNCHANGED <<driver, cmd, world, dev, connected, opt, todo, fdata, config, got, saved>>

(* process_fuse_commands.  "what" is a range of bits, a file for the whole *)
(* section, a file that is too short, or everything.                       *)
Command == cmd.fuse[plan[1][2]]
HasFile(c) == c.what \in {"file", "short"}
Malformed(c) ==
  \/ c.ops = {}
  \/ c.ops \cap {"w", "v"} # {} /\ c.value = <<>>
  \/ c.hi < c.lo
  \/ HasFile(c) /\ "r" \in c.ops /\ c.ops \cap {"w", "v"} # {}
FuseSteps(c) ==
  LET ops == Ops(driver, NoOptions)
      write == IF "w" \in c.ops THEN <<Do("fapply")>> \o ops.fwrite ELSE <<>>
      verify == IF "v" \in c.ops THEN ops.fread \o <<Do("fmatch")>> ELSE <<>>
  IN  <<Do("fparse")>> \o ops.fread \o write \o verify
InRange(c, b) == c.what = "file" \/ (c.lo <= b /\ b <= c.hi)
Given(c, b) == IF c.what = "file" THEN c.value[b] ELSE c.value[b - c.lo]
ApplyValue(data, c) == [b \in FuseBits |-> IF InRange(c, b) THEN Given(c, b) ELSE data[b]]
ExtractValue(data, c) == \A b \in FuseBits : InRange(c, b) => data[b] = Given(c, b)

(* The steps of an operation.                                              *)
StepsOf(op) ==
  CASE op = "open" -> <<Do("disclose"), Do("disconnect"), Do("connect"), Do("configure")>>
    [] op = "pulse" -> <<Do("pinLow"), Do("pinHigh")>>
    [] op = "fuse" -> FuseSteps(Command)
    [] op = "restart" -> <<Do("restart")>>
    [] op = "close" -> <<Do("led"), Do("disconnect")>>
    [] OTHER -> Ops(driver, opt)[op]

(* The next operation begins when the last one is through; a fuse command  *)
(* keeps its place in the plan while it runs.                              *)
NextOperation ==
  /\ exit = "running" /\ plan # <<>> /\ todo = <<Do("next")>>
  /\ plan' = Tail(plan) /\ todo' = <<>>
  /\ exit' = IF Len(plan) = 1 THEN "ok" ELSE exit
  /\ UNCHANGED <<driver, cmd, world, dev, connected, opt, fdata, config, got, saved>>
Begin ==
  /\ exit = "running" /\ plan # <<>> /\ todo = <<>>
  /\ todo' = StepsOf(plan[1][1]) \o <<Do("next")>>
  /\ UNCHANGED <<driver, cmd, world, dev, connected, opt, plan, fdata, config, got, saved, exit>>

(* A step succeeds, or ends the process.                                   *)
Step(do) == exit = "running" /\ todo # <<>> /\ Head(todo).do = do
Continue == todo' = Tail(todo) /\ UNCHANGED <<plan, exit>>
Stop == exit' = "error" /\ todo' = <<>> /\ plan' = <<>>
Unless(failed) == IF failed THEN Stop ELSE Continue
OnlyDevice == UNCHANGED <<driver, cmd, world, connected, opt, fdata, config, got, saved>>
OnlyProgress == OnlyDevice /\ UNCHANGED dev

(* Any access of the probe or the target may fail.                         *)
Fail == exit = "running" /\ plan # <<>> /\ Stop /\ OnlyProgress

(* dap.c: the probe.                                                       *)
Disclose == Step("disclose") /\ Unless(~world.swd) /\ OnlyProgress
Connect ==
  /\ Step("connect") /\ Continue /\ connected' = TRUE
  /\ UNCHANGED <<driver, cmd, world, dev, opt, fdata, config, got, saved>>
Disconnect ==
  /\ Step("disconnect") /\ Continue /\ connected' = FALSE
  /\ UNCHANGED <<driver, cmd, world, dev, opt, fdata, config, got, saved>>
Configure == Step("configure") /\ Continue /\ OnlyProgress
Led == Step("led") /\ Continue /\ OnlyProgress
Link == Step("link") /\ Unless(~connected) /\ OnlyProgress

(* dap.c: the reset line, also with the clock held low for the extension.  *)
ResetPin ==
  \/ /\ Step("pinLow") /\ Continue /\ OnlyDevice
     /\ \E d \in AfterReset(dev) : dev' = [d EXCEPT !.low = TRUE]
  \/ /\ Step("pinHigh") /\ Continue /\ OnlyDevice
     /\ dev' = [dev EXCEPT !.low = FALSE]
ResetTarget ==
  /\ \/ Step("restart") /\ \E d \in AfterReset(dev) :
                              dev' = [d EXCEPT !.low = FALSE, !.held = FALSE]
     \/ Step("extend") /\ \E d \in AfterReset(dev) :
                              dev' = [d EXCEPT !.low = FALSE, !.held = TRUE]
  /\ Continue /\ OnlyDevice

(* The core: DHCSR, DEMCR and AIRCR, and the reset extension of the SAMs.  *)
Mute == driver \in Eefc /\ world.locked
DebugStep(do) == Step(do) /\ Unless(Mute) /\ OnlyDevice
Halt ==
  /\ DebugStep("halt")
  /\ \E d \in AfterReset(dev) : dev' = IF Mute THEN dev ELSE [d EXCEPT !.halting = TRUE]
Catch ==
  DebugStep("catch") /\ dev' = IF Mute THEN dev ELSE [dev EXCEPT !.halting = TRUE]
ReleaseCore ==
  \/ DebugStep("release") /\ \E d \in AfterReset(dev) : dev' = [d EXCEPT !.halting = FALSE]
  \/ DebugStep("letGo") /\ dev' = [dev EXCEPT !.halting = FALSE]
EndExtension == Step("endExtension") /\ Continue /\ OnlyDevice /\ dev' = [dev EXCEPT !.held = FALSE]
FinishIfOpen ==
  /\ Step("finishIfOpen") /\ Continue /\ OnlyDevice
  /\ \E d \in AfterReset(dev) :
       dev' = IF dev.locked THEN dev ELSE [d EXCEPT !.halting = TRUE, !.held = FALSE]

(* The checks of select, and the one that M480 makes after programming.    *)
Identify ==
  /\ \/ Step("identify") /\ Unless(world.listed = "no")
     \/ Step("describe") /\ Unless(world.listed # "first")
  /\ OnlyProgress
CheckLockedNever == Step("locked") /\ Continue /\ OnlyProgress
CheckLocked ==
  Step("locked") /\ Unless(dev.locked /\ "unlock" \notin cmd.acts) /\ OnlyProgress
Unlocked == Step("keys") /\ Continue /\ OnlyDevice /\ dev' = [dev EXCEPT !.keyed = TRUE]
FindErrors == Step("errors") /\ Unless(dev.err) /\ OnlyProgress
NotImplemented == Step("unimplemented") /\ Stop /\ OnlyProgress

(* target_check_options, with load_file: at most "size" of the file counts.*)
Offset == IF cmd.offset = -1 THEN 0 ELSE cmd.offset
Size == IF cmd.size = -1 THEN SizeFor(driver) - Offset ELSE cmd.size
FileSize ==
  IF cmd.acts \cap {"program", "verify"} # {} THEN (IF cmd.length < Size THEN cmd.length ELSE Size)
  ELSE IF "read" \in cmd.acts THEN Size ELSE 0
BadOptions ==
  \/ Offset % Align(driver) # 0 \/ Size % Align(driver) # 0
  \/ Size > SizeFor(driver) \/ Offset >= SizeFor(driver)
  \/ /\ cmd.acts \cap {"program", "verify"} # {}
     /\ \/ cmd.length = -1
        \/ FileSize + Offset > SizeFor(driver)
CheckOptions ==
  /\ Step("options") /\ Unless(BadOptions)
  /\ opt' = IF BadOptions THEN opt ELSE [offset |-> Offset, size |-> Size, file |-> FileSize]
  /\ UNCHANGED <<driver, cmd, world, dev, connected, fdata, config, got, saved>>

(* Commands of the flash controller.                                       *)
WaitDone == Step("wait") /\ Unless(dev.err) /\ OnlyDevice /\ dev' = Settle(dev)
WaitReady == Step("settle") /\ Continue /\ OnlyDevice /\ dev' = Settle(dev)
EraseArea == Step("erase") /\ Continue /\ OnlyDevice /\ dev' = Erased(dev, Head(todo))
ProgramArea == Step("program") /\ Continue /\ OnlyDevice /\ dev' = Programmed(dev, Head(todo))
EraseChip ==
  /\ \/ Step("chipErase") /\ dev' = Chip(dev)
     \/ Step("regress") /\ dev' = IF dev.locked THEN Chip(dev) ELSE Settle(dev)
  /\ Continue /\ OnlyDevice
SetLock ==
  /\ Step("setLock") /\ Continue /\ OnlyDevice
  /\ dev' = [Settle(dev) EXCEPT !.locked = TRUE, !.busy = {LockUnit}]

(* Verify compares what the file has; a locked device, or an address past  *)
(* the flash, does not answer.                                             *)
Unreadable(s) == s.at + s.len > Total \/ (world.locked /\ dev.locked)
Compare ==
  LET s == Head(todo)
      differs == \E i \in 0 .. s.len - 1 : /\ s.from + i < opt.file
                                           /\ dev.flash[s.at + i] # Buffer(s.from + i)
  IN  /\ Step("compare") /\ (Unless(Unreadable(s) \/ differs)) /\ OnlyDevice
      /\ dev' = Settle(dev)
Fetch ==
  LET s == Head(todo) IN
  /\ Step("fetch") /\ Unless(Unreadable(s)) /\ dev' = Settle(dev)
  /\ got' = IF Unreadable(s) THEN got
            ELSE [u \in Units |-> IF u \in s.from .. s.from + s.len - 1
                                  THEN dev.flash[s.at + u - s.from] ELSE got[u]]
  /\ UNCHANGED <<driver, cmd, world, connected, opt, fdata, config, saved>>
Save ==
  /\ Step("save") /\ Continue
  /\ saved' = [i \in 1 .. opt.size |-> got[i - 1]]
  /\ UNCHANGED <<driver, cmd, world, dev, connected, opt, fdata, config, got>>

(* Fuses.                                                                  *)
OnlyFuseData == UNCHANGED <<driver, cmd, world, dev, connected, opt, got, saved>>
FuseParse == Step("fparse") /\ Unless(Malformed(Command)) /\ OnlyProgress
FuseRead ==
  /\ Step("fread") /\ Unless(Command.section \notin SectionsOf(driver))
  /\ fdata' = IF Command.section \in SectionsOf(driver) THEN dev.fuses[Command.section] ELSE fdata
  /\ OnlyFuseData /\ UNCHANGED config
FuseApply ==
  /\ Step("fapply") /\ Unless(Command.what \in {"all", "short"})
  /\ fdata' = IF Command.what \in {"all", "short"} THEN fdata ELSE ApplyValue(fdata, Command)
  /\ OnlyFuseData /\ UNCHANGED config
Matches ==
  CASE Command.what = "all" -> FALSE
    [] Command.what = "short" -> fdata[0] = Command.value[0]
    [] OTHER -> ExtractValue(fdata, Command)
FuseMatch == Step("fmatch") /\ Unless(~Matches) /\ OnlyProgress

(* fwrite of the drivers; M480 keeps the debug interface of CONFIG0 open.  *)
OpenIce(c) == [c EXCEPT ![0][1] = 1]
FuseGather ==
  /\ Step("fgather") /\ Continue
  /\ config' = OpenIce([dev.fuses EXCEPT ![Command.section] = fdata])
  /\ OnlyFuseData /\ UNCHANGED fdata
FuseWrite ==
  LET section == Command.section
      bit == Head(todo).at
  IN
  /\ \/ Step("fput") /\ dev' = PutFuses(dev, section, fdata)
     \/ Step("fblank") /\ dev' = PutFuses(dev, section, FreeFuses)
     \/ Step("fword") /\ dev' = PutFuses(dev, bit, config[bit])
     \/ Step("fbit") /\ dev' = PutFuses(dev, section, [dev.fuses[section] EXCEPT ![bit] = fdata[bit]])
     \/ /\ Step("feraseAll")
        /\ dev' = IF Refuses(dev, {FuseUnit(s) : s \in FuseSections})
                  THEN [Settle(dev) EXCEPT !.err = TRUE]
                  ELSE [Settle(dev) EXCEPT !.fuses = [s \in FuseSections |-> FreeFuses],
                                           !.busy = {FuseUnit(s) : s \in FuseSections}]
  /\ Continue /\ OnlyDevice

-----------------------------------------------------------------------------
Init ==
  /\ driver \in RunDrivers /\ \E c \in Cases : cmd = c.cmd /\ world = c.world
  /\ dev = NewDevice(world) /\ connected = FALSE /\ opt = NoOptions
  /\ plan = <<>> /\ todo = <<>> /\ fdata = FreeFuses /\ config = FirstFuses
  /\ got = [u \in Units |-> Free] /\ saved = <<>> /\ exit = "running"

Probe == Disclose \/ Connect \/ Disconnect \/ Configure \/ Led \/ Link
Target == ResetPin \/ ResetTarget \/ Halt \/ Catch \/ ReleaseCore \/ EndExtension \/ FinishIfOpen
Checks ==
  Identify \/ CheckLocked \/ Unlocked \/ FindErrors \/ NotImplemented \/ CheckOptions
Flash == WaitDone \/ WaitReady \/ EraseArea \/ ProgramArea \/ EraseChip \/ SetLock
         \/ Compare \/ Fetch \/ Save
Fuses == FuseParse \/ FuseRead \/ FuseApply \/ FuseMatch \/ FuseGather \/ FuseWrite
Next == Main \/ Begin \/ NextOperation \/ Probe \/ Target \/ Checks \/ Flash \/ Fuses \/ Fail

Spec == Init /\ [][Next]_vars

-----------------------------------------------------------------------------
SessionTypeOK ==
  /\ driver \in RunDrivers /\ [cmd |-> cmd, world |-> world] \in Cases
  /\ dev.flash \in [Units -> {Torn, Old} \cup 0 .. Total]
  /\ dev.fuses \in [FuseSections -> [FuseBits -> 0 .. 1]]
  /\ dev.busy \subseteq 0 .. FuseUnit(1)
  /\ connected \in BOOLEAN
  /\ opt.offset \in Units /\ opt.size \in 0 .. Total /\ opt.file \in 0 .. opt.size
  /\ Len(saved) <= Total
  /\ exit \in {"running", "ok", "error"}

(* A run that ends without an error has stored its file: always when it    *)
(* verified it, and without a verification too when the driver looks at    *)
(* the error flags, or nothing was protected, if the last of it was waited *)
(* for and its pages were the ones addressed.                              *)
Blind == {"samd", "same5x", "sam3", "sam4", "same70"}
Sure ==
  \/ "verify" \in cmd.acts
  \/ /\ "program" \in cmd.acts
     /\ driver \notin {"samd", "m480"}
     /\ driver = "sam3" => opt.offset = 0
     /\ driver \in Blind => world.bad \notin Units
Stored == \A i \in 0 .. opt.file - 1 : dev.flash[opt.offset + i] = FileByte(i)
SuccessIsStored == exit = "ok" /\ Sure => Stored

(* Programming disturbs nothing but the pages its range lies in, or, on    *)
(* the GD32, the sectors; a chip erase stays below the secure flash.  Not  *)
(* so SAM3 at an offset, see OffsetIsUsed.                                 *)
Footprint ==
  IF cmd.acts \cap {"erase", "unlock"} # {} THEN 0 .. SizeFor(driver) - 1
  ELSE IF "program" \notin cmd.acts THEN {}
  ELSE IF driver = "gd32f4xx"
  THEN {u \in Units : \E s \in DOMAIN Sectors :
          /\ SectorStart(s) <= u /\ u < SectorEnd(s)
          /\ opt.offset < SectorEnd(s)
          /\ SectorStart(s) <= opt.offset \/ SectorStart(s) < opt.offset + opt.file}
  ELSE {u \in Units : opt.offset <= u /\ u < opt.offset + PagesOf(opt) * PageUnits}
OthersKept ==
  \/ driver = "sam3" /\ opt.offset # 0
  \/ \A u \in Units \ Footprint : dev.flash[u] = FirstFlash(world)[u]

(* A locked device is neither changed nor read unless unlock is asked for, *)
(* and unlocking gives away nothing of what it held.                       *)
LockedIsUntouched ==
  world.locked =>
    /\ "unlock" \notin cmd.acts => /\ dev.flash = FirstFlash(world) /\ dev.fuses = FirstFuses
                                   /\ saved = <<>>
    /\ \A i \in DOMAIN saved : saved[i] = Free

(* What read saves is what the flash holds.                                *)
ReadIsTrue == \A i \in DOMAIN saved : saved[i] = dev.flash[opt.offset + i - 1]

(* A run that did what it was asked to; "list" only lists.                 *)
Served == exit = "ok" /\ ~Listed

(* A run that ends without an error leaves the target running and the      *)
(* probe disconnected.                                                     *)
ReleasedAtExit == exit = "ok" => ~dev.halting /\ ~dev.held /\ ~dev.low /\ ~connected

(* A device is locked after a run that locked it without an error, where   *)
(* the driver waits for the bit to be written before it resets the target. *)
LockIsSet ==
  Served /\ "lock" \in cmd.acts /\ driver \in {"gd32f4xx", "m480", "py32f0"} => dev.locked

(* The fuse commands of a run that ends without an error, carried out in   *)
(* order, explain the fuses: on the drivers that look at the error flags,  *)
(* or when nothing was refused and the last write was waited for.          *)
Asked(fuses, c) ==
  IF "w" \in c.ops
  THEN LET new == [fuses EXCEPT ![c.section] = ApplyValue(@, c)]
       IN  IF driver = "m480" THEN OpenIce(new) ELSE new
  ELSE fuses
FusesAfter(n) ==
  LET after[k \in 0 .. Len(cmd.fuse)] ==
        IF k = 0 THEN FirstFuses ELSE Asked(after[k - 1], cmd.fuse[k])
  IN  after[n]
Seen ==
  \/ driver \notin Blind
  \/ /\ driver \in {"same5x", "sam4"}
     /\ world.bad \notin {FuseUnit(s) : s \in FuseSections}
     /\ ~(world.locked /\ "lock" \in cmd.acts)
FusesAsAsked == Served /\ Seen => dev.fuses = FusesAfter(Len(cmd.fuse))

(* A section no command names keeps its value, whenever and however the    *)
(* run ends, except on M480, which erases all of them to change one.       *)
OtherSectionsKept ==
  \A s \in FuseSections :
    driver # "m480" /\ (\A k \in DOMAIN cmd.fuse : cmd.fuse[k].section # s)
      => dev.fuses[s] = FirstFuses[s]

(* A run that ends without an error has done all that it was asked to, and *)
(* what it changed, however it ended, is no more than that.                *)
SuccessIsEarned ==
  SuccessIsStored /\ ReadIsTrue /\ LockIsSet /\ FusesAsAsked /\ ReleasedAtExit
OnlyAsked == OthersKept /\ OtherSectionsKept

(* edbg.c:390, "offset for the operation": what program writes lies at the *)
(* offset.  SAM3 counts the pages it commits from 0.                       *)
OffsetIsUsed ==
  \A u \in Units : u < opt.offset /\ cmd.acts = {"program"} => dev.flash[u] = FirstFlash(world)[u]
=============================================================================
