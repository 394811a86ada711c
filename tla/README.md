# A TLA+ model of the SKR Mini E3 SWD programmer

The repository is the firmware of a Wi-Fi box (ESP32 or ESP8266) that updates
the Marlin application of a BTT SKR Mini E3 V3.0 printer board over SWD: a
browser uploads an image, a read-only preflight identifies the controller and
compares the image with what is installed, and after a typed confirmation the
box saves the affected flash pages to a file, erases, programs, verifies, and
restores the saved pages if anything fails.  Beside it lie the two programs its
SWD code was studied from, the embedded-swd engine with its programmers and the
command-line programmer edbg, and a keypad script for the same kind of board.
This directory holds the TLA+ modules, the TLC runs and the TLAPS proofs about
all of them.  Paths below are relative to the repository's root; `ES` stands
for `.research/embedded-swd-master`, `EDBG` for `.research/edbg-master`.

## 1. The system

| Part | Source | State | Operations |
|---|---|---|---|
| Web handlers | `src/main.cpp` 90-131, 305-437 | `uploadFile`, `uploadFailed`, `/firmware.bin` | upload callbacks START / WRITE / END / ABORTED, `finishUpload`, `POST /api/flash`, `POST /api/restore`, `sendStatus` |
| Job engine | `src/main.cpp` 133-316, 541-552 | `jobRunning`, `pendingJob`, the locals of `executeJob` | `scheduleJob`, `jobTask`, `executeJob` (probe, flash, restore), `restoreBackup` |
| Job status | `include/Status.hpp`, `src/Status.cpp` | `gStatus` | `setStatus`; read by `sendStatus` and the handlers |
| STM32G0 programmer | `src/Stm32G0Programmer.cpp` | FLASH_CR / FLASH_SR of the target, `/backup.bin` | `attach`, `inspectApplication`, `backup`, `program`, `verify`, `detachAndRun` |
| Image inspection | `src/FirmwareImage.cpp` | the scanner's run buffer | `inspectMarlinImage`, `FirmwareMetadataScanner` |
| SWD transport | `src/SwdTransport.cpp` | TAR, SELECT, sticky flags of the debug port | `connect`, `read32`, `write32`, `readBlock`, `writeBlock` |
| Pins and supply | `src/HardwareAbstraction.cpp` | pin directions, reset gate, VTREF | `connectSwdPins`, `disconnectSwdPins`, `setTargetReset`, `readTargetVoltage` |
| Browser page | `include/WebUi.hpp` | `ready`, `lastStatus`, the open dialog | poll, upload, review and confirm |
| Keypad script | `main.py` | debounced keys | `scan_matrix`, `run` |
| embedded-swd engine | `ES/dap.c` | the SWDIO direction, sticky flags | `dap_init` to `dap_target_prepare`, `dap_read_word`, `dap_write_word` |
| embedded-swd programmers | `ES/dap_target.c`, `ES/main.c`, `ES/raspberry-pi/*` | the NVM controller, page buffer | erase, read, write, verify; `test_swd` |
| edbg queue and JTAG | `EDBG/dap.c` | request queue, remembered CSW and TAR, JTAG clock queue | `dap_add_req`, `dap_transfer`, block calls; `dap_jtag_*` |
| edbg drivers | `EDBG/target_*.c` | the flash controller of each family | select, erase, program, verify, read, lock, unlock, fuses |
| edbg command line | `EDBG/edbg.c`, `EDBG/target.c` | options, file buffer | `main`, fuse commands |

The handlers and the job share `gStatus`, `jobRunning` and the two files.  A
handler schedules a job by setting `jobRunning`; the job calls the programmer,
which calls the transport, which moves the pins.  On the ESP32 the job is a
FreeRTOS task at the priority of `loop()`, so that its steps interleave with
those of a request; on the ESP8266 `loop()` runs it between two calls of
`handleClient`.  The research programs are sequential processes over a probe or
over pins; what interleaves with them is the target and everything that can fail.

What is hard here:

- *interleaving*: an upload arrives callback by callback while the job task
  reads the same file; `sendStatus` reads `gStatus` while the job writes it; a
  page shows a dialog for minutes while other requests go on;
- *long-lived assumptions*: the UID, the image size and the file are read long
  after the request that relied on them was accepted, and the cable can be moved
  to another controller at any moment; edbg leaves out of a request what it
  believes it has told the access port before;
- *partial failure*: backup, erase, program, verify and the automatic restore
  can each stop at any access, with or without its effect, and the restore then
  meets a flash controller that is busy, locked or in error;
- *sticky state*: error flags of the debug port outlive the access that set
  them, keys sent twice jam the flash controller, and the embedded-swd engine
  hears of no failure at all;
- *crashes*: power can fail between the erase of a page and its last doubleword;
- *edges*: an address counter that wraps at 1 KB, packets that are exactly full,
  ranges that begin or end on the edge of a sector, a tick counter that wraps;
- *liveness*: each of a dozen early returns has to clear `jobRunning`, and some
  polls have no deadline.

What makes it correct: only an inspected image is offered and only the reviewed
image reaches the reviewed controller; the flash outside the application is
never touched; what an update destroys can always be put back; messages and exit
codes that promise something are true; every block of memory is read and written
where it was asked for; every accepted job, call and transfer ends.

## 2. Modules

### The service

`FlashService` models the first four parts together, because the properties that
matter relate them.  One action per callback, handler or step of `executeJob`:

| Code | Actions |
|---|---|
| `handleUploadData` | `UploadStart`, `UploadWrite`, `UploadEnd`, `UploadAbort` |
| `finishUpload` | `FinishBusy`, `FinishRejected`, `FinishAccepted` |
| `/api/flash`, `/api/restore`, `scheduleJob` | `FlashRequest`, `RestoreRequest`, operator `ScheduleJob` |
| `sendStatus` | `StatusBegin`, `StatusEnd` |
| `executeJob` up to the checks after `attach` | `Start`, `Attach`, `AttachFails` |
| `inspectApplication` | `Inspect`, `InspectFails` |
| `backup` | `OpenBackup`, `SaveChunk`, `SaveFails`, `BackupDone` |
| `restoreBackup` | `BeginRestore`, then the actions of `program` and `verify` |
| `program`, `erasePage`, `programPage`, `verify` | `Unlock`, `ErasePage`, `WriteChunk`, `Verify`, `ProgramStepFails` |
| the ends of `executeJob` | `Report`, `Release` |
| the cable; power loss and `setup()` | `Swap`, `Reboot` |

State.  `gStatus` keeps the fields some code decides by (state, image size, UID,
comparison flags, whether the image names another board or MCU) and the three final
messages that promise something.  `job` is the running call of `executeJob`: its
kind, a program counter, and the locals `target`, `expectedTargetUid`, the source
file, size, page and chunk.  `http` is the request being served; one at a time,
as `handleClient` does.  `firmware` and `backup` are the two files, `flash` the
flash of each controller, `connected` the controller on the cable.  `saved` is a
history variable: the controller and the contents the complete backup file was
taken from; no action's guard reads it.

Data.  A 256-byte transfer buffer (`kTransferSize`) is one chunk, an abstract
value; an erase page is `PageChunks` of them.  Offsets, page numbers and
`roundUpPage` are computed as in the code, in chunks.  `Corrupt` is a chunk
written wrongly or half.

Left out of `FlashService`: authentication, the CSRF token and the typed phrases (a
request of the model is one that passed them); progress percentages, LEDs and
display strings; `inspectApplication` and `verify` read the flash in one step,
which loses nothing because nobody else writes it while a job runs, and the
cable being moved during them is a failed step; the torn reads of Arduino
`String` objects that `gStatus` shares between two tasks, which no state of a
TLA+ record represents.  Files are written through, and a file opened for
writing is empty from then on until it is closed, because the LittleFS wrapper
of both cores synchronises after opening; this is the one assumption about
code outside the repository.

`MCFlashService` gives the constants values for TLC.

`WebClient` EXTENDS `FlashService` and puts the page of `include/WebUi.hpp` in
front of it: the composition takes the handlers' own actions for the requests.

| Code | Actions |
|---|---|
| `poll`: the fetch, the reply, the rest of the function | `Poll`, `Answer`, `Receive` |
| the upload button | `Upload` (`UploadStart` of the service) |
| the dialog, a confirmation, a phrase that does not match | `Review`, `Confirm` (`FlashRequest`), `Dismiss` |
| everything the service does by itself | `Service` |

An open dialog stops the scripts of its page, so that what it confirms is the
status fetched before it opened.  `reviewed`, and the `current` mark that an
upload clears, are history.

`MetadataScanner` is the printable-run scanner, `FeedChar` and `ConsumeRun` folded
over blocks of any cut.  `FlashService` keeps of it that the first board and the
first MCU an image names are found, each for itself, and each is compared
(`FirstIsForeign`, `NamesForeign`).

### The programmer and its target

`FlashController` opens up what `FlashService` does in one step each to erase a page
and to write a chunk: `unlockFlash`, the loops of `program`, `erasePage`,
`programPage`, `waitFlash` and `verify`, register access by register access, for
an update and the automatic restore after it in the same session.

| Code | Actions |
|---|---|
| `unlockFlash`: FLASH_CR, the two keys, FLASH_CR again, FLASH_SR | `ReadCr`, `Key1`, `Key2`, `Confirm`, `ClearStatus` |
| `program`: FLASH_CR to 0, FLASH_SR | `ResetControl`, `ClearAgain` |
| `erasePage` | `Configure`, `StartPage`, `WaitErase`, `FinishErase` |
| `programPage` | `Enable`, `WriteDoubleword`, `WaitCell`, `ClearEop`, `Disable` |
| `verify` | `Verify` |
| the failure tail of `executeJob`: restore, or the end | `RestoreAfter`, `GiveUp` |
| a job and the reset `attach` gives | `Begin` |
| the controller by itself | `Complete` |

Each access works, or fails before or after its effect (`Access`, `Broken`); a
wait may give up while the operation runs on.  The flash controller is hardware:
its lock, key sequence, busy and error bits are those the code tests and clears.
A write to FLASH_CR while it is busy waits until it is idle.

`SwdPins` models a job as the target board sees it: the pins and the reset gate
of `HardwareAbstraction.cpp` through `attach`, its failures and `detachAndRun`,
and the core of the controller with the debug registers these write.

| Code | Actions |
|---|---|
| `attach`: the supply check and `assertReset(true)` | `Sense`, `SenseFails` |
| `SwdTransport::connect` | `Connect` |
| DHCSR halt, DEMCR catch and `assertReset(false)`, DHCSR halt again | `Halt`, `CatchReset`, `HaltAgain` |
| device ID, flash size, unique ID | `Identify` |
| what the job does between `attach` and `detachAndRun` | `Work` |
| `detachAndRun`: DEMCR, AIRCR, `disconnect` and `assertReset(false)` | `ClearCatch`, `ResetTarget`, `Disconnect` |
| a restart of the programmer | `Reboot` |
| the printer's supply or cable, its reset button | `Supply`, `ResetButton` |

An access works or fails as a whole; a failed one may have reached the target
and always leaves SWDIO an output, as `operation` does.  The supply has three
values, below, in and above the range 2.7 to 3.6 V.  The controller is not in the
repository; it is modelled by what the code uses it for: with `VC_CORERESET` set
a core leaves reset halted, debug registers survive a reset and not a power
loss, and a debug port that lost its power does not answer until the next
`connect`.  The work of a job is one step because it moves neither pin nor core;
supply and button interleave with it all the same, before and after.
`SwdPins` needs no MC module: its constants are a Boolean and a number.  `FlashService`,
`SwdPins` and `FlashController` describe the same job at three grains and share
no variable.

### The SWD link

`DebugPort` has no variables: it is the other end of the wires, the debug port
and access port as operators on a record (`mem`, `tar`, `posted`, `sticky`,
`power`, `deaf`).  `Replies` gives every answer a request may get: a clean one,
or one with its request, answer or data disturbed; a disturbed write leaves a
parity flag, a disturbed request may leave the port deaf.  `SwdTransport` and
`EmbeddedSwd` both EXTEND it.

`SwdTransport` is `src/SwdTransport.cpp`, one request per step: `Connect`, `Access`
(the four memory calls), `Misaligned` (a block that is not whole words), `Request`
and `Collect` (`transfer` and the RDBUFF read that completes it), `PowerLoss`.  Its
`TransferDone` is where the register sequences of `connect` and of a block go on,
`Chunk` the cut at the address counter's wrap.  `BlockMemory` is the abstract
specification of what the programmer is promised, and `IsBlockMemory` the claim
that the transport implements it, with `mem <- target.mem, busy <- pc # "idle"`.

`EmbeddedSwd` is the engine of `ES/dap.c`: `Open`, `Read`, `Write`, `ReadIdcode`,
`Request`, `Collect`.  It differs where the code does: no result is reported, the
line stays released after an answer that is none, RDBUFF is retried on WAIT, and
one of the four sticky flags is never cleared.  `EmbeddedTarget` is the command
line above it, one action per register access of `dap_target.c` (`Begin`,
`SelectReset`, `SelectAutomatic`, `TargetId`, `Erase...`, `Row...`, `Write...`,
`ReadWord`, `Deselect`), over an NVM controller with a page buffer.  Of the engine
it keeps that a failure is silent: it ends the session, but for a read with bad
parity, which returns 0 and leaves the session alive.  `Astray` is the case the
engine does not exclude.  A page is programmed while the program goes on (`was` is
the flash before it): READY, or a read of the flash, waits for it, and a reset that
comes first, as that of `dap_target_deselect` does, may leave any of its bits as
they were (`Torn`).

`SwdHosts` composes the three hosts: a behavior is about one of them, `MCSwdHosts`
gives it constants.

### edbg

| Module | Code | Actions |
|---|---|---|
| `EdbgDap` | `dap.c`, SWD | `AddReq`, `ReadbackReq`, `Transfer`, `Block` (the block calls), `Exchange` (one packet) |
| `EdbgJtag` | `dap.c`, JTAG | `WriteIr`, `WriteDr`, `Idle`, `ReadDr`, `ScanChain`, `Flush`, `SendPacket`, `Refused` |
| `EdbgTargets` | eleven `target_*.c` | operators that give the steps of each operation of each driver |
| `EdbgSession` | `edbg.c`, `target.c`, the probe calls of `dap.c` | `Main`, `Begin`, `NextOperation`, one action per kind of step, the fuse commands |

`EdbgDap` counts bytes, each tagged with the request that wrote it, so that a lane,
an address or an order that is wrong shows; `Operations` and `Remembered` are the
packing of one request and what the host remembers afterwards.  `EdbgJtag` models
the TAP state machine bit by bit on the other side.  `EdbgTargets` reduces a driver
to sequences of steps (erase this range, wait, program that many units from
there), and `EdbgSession` carries them out over a device with a lock, protected
units and an error flag; any step may fail, and a failure ends the process.
Devices have one flash plane: with two, `target_atmel_cm3.c` and
`target_atmel_cm4.c` commit a page by a number counted across the planes, and what
a controller makes of one past its own plane is not in the repository.
`Edbg` composes the three layers, one of them moving in a behavior; `MCEdbg` gives
it constants.

### The keypad

`KeypadScan`: `ScanRow` is a pass of `scan_matrix`, `Debouncing` the rest of the loop
of `run`, `Move` a switch that opens, closes or bounces.  Wires are modelled:
switches that are closed together tie their rows.

## 3. Runs

| Run | Instance | States | Shows |
|---|---|---|---|
| `esp32_safety` | job as a task, one controller, one fault of a file, of the link or of the power, three jobs | 782,256 | types; image, snapshot and job stay consistent under every interleaving of requests and job steps; every job ends, every probe reaches a verdict |
| `esp8266_safety` | job inside `loop()`, controllers of full and of half size, good, invalid and oversize images, images of another board or MCU, two faults, three jobs | 2,880,063 | the backup undoes an update, the final message is true, the rest of the flash survives, an accepted upload is the one stored |
| `webclient` | one page, two controllers that are alike, the task may fail to start, three jobs | 2,461,290 | what is offered is acceptable, what is confirmed is what was reviewed |
| `scanner` | images of up to seven bytes in blocks of up to three | 27,884 | the first piece of text that names a board decides |
| `controller` | four pages of two doublewords, two files | 8,292 | the flash controller is ready for every command, `program` is whole or fails, other pages survive, every run ends |
| `pins` | four failed accesses or reboots | 943 | the core is halted while it is used, pins and reset are let go, nothing connects out of range |
| `swd_hosts` | four words, an increment that wraps after two, two attempts; pages of two words | 231,868 | the transport implements `BlockMemory`; `connect` revives the link; the silent engine does no harm; a programmer that exits with 0 has done it; calls return |
| `edbg` | eleven drivers, 1,550 pairs of a command line and a device; packets that hold one long request or a few short ones; chains of up to three devices | 830,848 | the queue cannot be noticed, registers are exact, a run without an error has done all it was asked and no more |
| `keypad` | two rows, two columns, two movements, a tick counter that wraps at 10 | 52,520 | scans are exact, reports are settled, reports catch up |
| `other_board` | two controllers, no fault | violation | one controller's backup is restored to another |
| `update_retry` | power and link faults | violation | a repeated update saves the half-programmed pages; "original firmware was restored" is then false |
| `sam3_offset` | the SAM3 driver with an offset | violation | the file is committed from page 0 |

The violations are disagreements between the code and its own messages and
documents, each quoted under `findings` in `PROJECT.json`.  `Recoverable` and
`update_retry` are two sides of one design: the backup undoes the *last* update,
and the code keeps no older one.

### Properties

The service:

- `ImageIsReviewed` is `ReadyIsValidated` (while the state is *ready*, the stored
  file is a whole, valid image for this board, as long as the status says, that
  fits the probed controller and differs from its contents) and `FlashAsReviewed`
  (a flash job works on the controller and the file of the preflight).
- `Recoverable`: no update erases before the backup is complete, and writing the
  backup back gives the controller what it held, at every moment afterwards.
- `OutcomeIsTrue`: "programmed, byte-verified" and "original firmware was
  restored" are true of the flash, chunk for chunk.
- `BootloaderKept`: cells below the offset and past the flash never change.
- `SnapshotIsConsistent`: a status reply that says *ready* or *current* carries the
  comparison that led to it, though the fields are read one by one.
- `JobIsExclusive` (action property): no request replaces the image or changes its
  size under a live job, and no second job starts.
- `AcceptedUploadIsStored` (action property): a 202 means the stored file is the one
  that was sent; it holds where the job cannot run inside an upload (ESP8266).
- `JobEnds`, `ProbeConcludes` (liveness).
- `OfferedIsAcceptable`, `ReviewHolds`: the page.  The second needs that nobody
  uploads after the reviewed status: the dialog names an image the server may
  have replaced since, and `/api/flash` names neither an image nor a controller.
  With two controllers the same is true of a controller: a file probed anew
  after the review, even one whose upload was not stored, may be compared with
  the other one, and `current` ends there too.  (With one controller TLC could
  not tell; the attempt to prove the invariant did.)
- `FirstPieceDecides`: the scanner, against its definition on the whole image.

The target:

- `CommandMeetsReady`, `ProgramIsWhole`, `OtherPagesKept`, `JammedIsUntouched`,
  `RunEnds`: an erase or a doubleword only ever meets a controller that is
  unlocked, idle, free of errors and set to it, after whatever failed before;
  true from `program` means the whole file, with nothing under way; other pages
  survive; a controller that refuses its keys has lost nothing.
- `UsedOnlyHalted`: while a job uses the target's memory, the core is halted and
  has executed nothing since the reset that `attach` gave it, whatever the board's
  supply and reset button do.
- `PrinterLeftAlone`: between two jobs no pin is driven and NRST is not pulled, at
  whichever step the last job failed; and without a failed access the printer
  runs.
- `NoConnectOutOfRange`: nothing connects before the supply was found in range.

The link:

- `IsBlockMemory` (refinement): a call that returns true has written or returned
  every word of its block; one that returns false has written words of its own
  only, each with its own value.
- `ConnectRevives`, `SessionRevives`: over an undisturbed wire the start of a session
  clears whatever failed before.
- `EngineIsSafe`: a write lands where it was aimed or nowhere and a read returns the
  word or 0, as long as no request ran out of attempts.
- `SuccessIsEarned` of `EmbeddedTarget`: a write that exits with 0 has put every page
  but its last into the flash, the last one may be missing or torn, and nothing
  else has changed; a verify has found the file, the words that are 0 excepted;
  and `test_swd` is honest.
- `HostsReturn` (liveness): every call returns; a run whose session is lost may not.

edbg:

- `QueueIsTransparent`: however requests are packed and whatever is left out as told
  already, they have the effect and the answers of one after the other; block
  calls touch every byte of their range and no other.
- `TransferProgresses`: every packet answers at least one more request, which is
  why the loop of `dap_transfer` ends.
- `RegistersAreExact`, `ScanFindsTheChain`: JTAG registers are written and read as if
  every clock went out by itself.
- `SuccessIsEarned` of `EdbgSession`: after a run without an error the file is
  stored, the saved file true, the lock and the fuses set as asked, and the
  target released.  `Sure` says where the first is claimed of a run that programs
  without verifying: not of SAMD and M480, which reset the target without waiting
  for the last of what they program; of a driver that looks at no error flag
  (`Blind`) only over a device that refuses nothing; of SAM3 only from offset 0.
- `OnlyAsked`, `LockedIsUntouched`: what a run changes, however it ends.

The keypad: `ScanIsExact`, `ReportedIsSettled`, `ReportsCatchUp`.

`HostsTypeOK`, `EdbgTypeOK` and `TypeOK` are the types of their runs; the types of
`SwdPins`, `KeypadScan`, `WebClient` and `FlashController` are proved (section 4).

### Bounds

The service: a bootloader of two chunks, an application area of four, pages of
two; images of one, two, three, five and six chunks, so that one ends inside a
page and one inside the last page, one is longer than the smaller controller, one
ends exactly a chunk past the limit and one goes on beyond that; images that name
this board and then another, this board and then another MCU, or another board.
`MaxFaults` and `MaxJobs` bound faults and accepted jobs:
three jobs are a probe, a flash and a restore, or two probes and a flash; the
runs that need a second update allow four.  Two faults are a failed update and a
failed automatic restore, or a power loss and a fault in the recovery.  Two
controllers suffice because a property compares at most two.  `Swap`, aborts and
status requests are not bounded.  `webclient` takes one page of one chunk each
and one browser; the proof covers any number.  In `pins` four faults fail one step
of `attach` or of the work and both writes of `detachAndRun`, and restart the
programmer once.  `controller` has a file that ends inside a page and one that is
shorter than the other, a page before and a page after; failures, resets and
restores are not bounded.  `swd_hosts` has a block that crosses the wrap, one that
ends on it and one inside a page; disturbances and outages are not bounded.  In
`edbg` a packet holds one request with every preliminary, a sequence three
clocks, a chain more devices than the scan has room for; files end inside a
row, inside a page, at the end of the flash and past it.  In `keypad` two
movements press a key and release it, before or after it is reported, or press two
keys; the counter wraps several times, and what is safety is proved for any number.

### Fairness

`FairSpec` of `FlashService` adds `WF_vars(JobStep)`: a job that can step does.  The
FreeRTOS task runs at the priority of `loop()` and is time-sliced; on the ESP8266
`loop()` calls `executeJob` itself; every wait inside a step (power-up, flash
busy, SWD WAIT) has a deadline or a retry limit.  Requests, the browser, the
cable and faults are not fair: nobody must send anything.  `FlashController` has
`WF_vars(Step)` for the same reason, and a wait may give up but need not, nor
need the controller ever finish: `RunEnds` follows from `waitFlash`'s deadline.
`SwdHosts` has weak fairness of each host's own steps while a call or a run is
under way, and strong fairness of `PollEnds`: the power-up poll of `connect` reads
STATUS for at most 250 ms.  The polls of `ES/dap_target.c` have no deadline and get
no such condition.  `KeypadScan` runs for ever, `WF_vars(Run)`.  edbg has no
fairness: `TransferProgresses` is the termination argument instead.

## 4. Proofs

Eight modules of proofs, each about the module it EXTENDS, for every value of
the constants the assumptions below allow.  `FlashServiceProofs` also holds the
proofs about `WebClient`, which extends the service, and `IoProofs` those about
both scanners, of an image and of the keypad, and about the pins; edbg is proved in
four modules, the probe below, the session above it, what a whole run achieves,
and what a run that programs achieves.

| Module | Theorem | Statement |
|---|---|---|
| `FlashServiceProofs` | `TypeCorrect` | `Spec => []TypeOK` |
| | `BootloaderSafe` | `Spec => []BootloaderKept` |
| | `AlwaysRecoverable` | `Spec => []Recoverable` |
| | `Invariance` | `Spec => []IInv` |
| | `ReviewInvariance` | `Spec => [](IInv /\ ReviewInv)` |
| | `ImageReviewed` | `Spec => []ImageIsReviewed` |
| | `SnapshotConsistent` | `Spec => []SnapshotIsConsistent` |
| | `JobsExclude` | `Spec => JobIsExclusive` |
| | `AcceptedStored` | `Spec => AcceptedUploadIsStored`, where `~Concurrent` (the ESP8266) |
| | `OutcomeTrue` | `Spec => []OutcomeIsTrue` |
| | `OffersAcceptable` | `ClientSpec => []OfferedIsAcceptable`, for any set of browsers |
| | `ReviewLasts` | `ClientSpec => []ReviewHolds`, the same |
| `IoProofs` | `FirstPieceFound` | `ScanSpec => []FirstPieceDecides`, for every image however it is cut into buffers |
| | `ReportedSettled` | `Spec => ReportedIsSettled` |
| | `ScanExact` | `Spec => []ScanIsExact` |
| | `PinsInvariance` | `PinsSpec => []PinsInv`, types included |
| | `CoreHaltedInUse` | `PinsSpec => []UsedOnlyHalted` |
| | `JobsLetGo` | `PinsSpec => []PrinterLeftAlone` |
| | `InRangeOnly` | `PinsSpec => []NoConnectOutOfRange`, where the supply reading does not saturate |
| `FlashControllerProofs` | `ControllerInvariance` | `Spec => []ControllerInv`, types included |
| | `CommandsMeetReady` | `Spec => []CommandMeetsReady` |
| | `ProgramsWhole` | `Spec => []ProgramIsWhole` |
| | `OthersUntouched` | `Spec => []OtherPagesKept` |
| | `JammedUntouched` | `Spec => []JammedIsUntouched` |
| `SwdHostsProofs` | `TransportIsMemory` | `Spec => IsBlockMemory`: the transport implements a memory of blocks |
| | `ConnectsRevive` | `Spec => []ConnectRevives` |
| | `EngineSafe` | `HostsSpec => []EngineIsSafe` |
| | `SessionsRevive` | `HostsSpec => []SessionRevives` |
| | `SuccessEarned` | `HostsSpec => []SuccessIsEarned`, of the research programmers |
| | `HostsTypes` | `HostsSpec => []HostsTypeOK` |
| `EdbgProbeProofs` | `QueueTransparent` | `EdbgSpec => []QueueIsTransparent` |
| | `QueueProgresses` | `EdbgSpec => []TransferProgresses` |
| | `RegistersExact` | `EdbgSpec => RegistersAreExact`, over JTAG |
| | `ScanFinds` | `EdbgSpec => ScanFindsTheChain` |
| `EdbgSessionProofs` | `LockedUntouched` | `EdbgSpec => []LockedIsUntouched`, on every one of the eleven drivers |
| | `AskedOnly` | `EdbgSpec => []OnlyAsked`, on every one of the eleven drivers |
| | `EdbgTypes` | `EdbgSpec => []EdbgTypeOK`, all three layers |
| `EdbgOutcomeProofs` | `TargetReleased` | `EdbgSpec => []ReleasedAtExit` |
| | `LocksAreSet` | `EdbgSpec => []LockIsSet` |
| | `ReadsAreTrue` | `EdbgSpec => []ReadIsTrue` |
| `EdbgProgramProofs` | `StoredIfSure` | `EdbgSpec => []SuccessIsStored`, that is `exit = "ok" /\ Sure => Stored` |

Assumptions on the constants.  `FlashService`: the bootloader fits every
controller, the largest image and every controller's application area are whole
pages (`SizeAssumption`); what the constants contain (`ContentAssumption`,
`TargetAssumption`, `ModeAssumption`).  They hold of `BoardConfig.hpp` and of both
flash sizes that `attach` accepts.  `FlashController`: pages are not empty and every
file fits behind the offset (its `SizeAssumption`), which the check of the
image size in `executeJob` and the length of the backup give.  `SwdTransport`: the
memory is whole pages of the address counter (`PortAssumption`) and there is at
least one attempt and one word (`TransportAssumption`).  `EmbeddedTarget`: the
test pattern fills a page and is not blank everywhere (`TargetAssumption`; the
code's is `page_buf[i] = i`, `ES/main.c:138`): with a blank one, a test that found its
page erased would pass.  `EdbgDap`: a word is two or four bytes, the increment and the
memory are whole words, requests are aligned and lie in the memory, as the
assertions of the block calls and the drivers' addresses give; blocks are not empty;
and a packet has room for the longest request, a write read back with both
preliminaries, 19 bytes and 4 operations (`QueueAssumption`; the smallest packet of
a probe is 64 bytes).  `EdbgJtag`: a packet has room for its header and a sequence, a
scan may find more than one device, no device of a chain names itself with zeros
only, and the registers shifted are no longer than what is captured
(`JtagAssumption`; a register read past its end would return what was shifted in).
`MaxClocks`, the longest queue the model follows, is a bound for TLC and no guard
of the code's: `dap_jtag_request` has room for 65536 clocks, and the assertion at
`EDBG/dap.c:1014` looks at the counter of the SWD queue.  The theorems hold for every
`MaxClocks`; of a queue that overflows nothing is said.  `EdbgTargets`: no size is 0,
pages are whole rows, the flash is an even number of pages (`GeometryAssumption`),
and the sectors of the GD32 are whole rows and add up to it (`SectorsAssumption`).
`EdbgSession`: the command line is one that
`parse_command_line` can return and the fuse commands are what
`process_fuse_commands` parses (`SessionAssumption`), with numbers of any size.
`KeypadScan`: the tick
counter is longer than four debounce intervals.  TLC evaluates each of them in a
run; those of the modules that `SwdHosts` and `Edbg` instantiate are named there.

### The arguments

*Recoverable and BootloaderKept.*  Neither is inductive: a state in which a job
programs page 7 of a two-page image satisfies both and its next step breaks
them.  `IInv` adds what the job knows where it is: `JobShape` (`jobRunning` is set
while a job lives, a job past `attach` has a controller, an upload has its file
open only while it is received and no job runs), `SaveShape` (before programming,
the pages to save fit, counters are zero, and the backup file is a prefix of the
controller's flash), `ProgramShape` (the rounded image fits, the current page
starts below its end, and the backup is as long as the rounded image or is
itself the source), and the two halves of `Recoverable` (`BackupTaken`,
`BackupRestores`) with the length of the backup a whole number of pages.  That
length is the heart of it: every edit of an update falls inside a page that
starts below the image's end, hence inside the rounded image, hence inside what
the backup gives back (`PageEditRestores`); it lies above the offset and, because
an application area is whole pages, below the end of the flash (`PageEditKept`).

*The reviewed image.*  `ReviewInv`, inductive relative to `IInv`, follows the image
from `finishUpload` to its last page: `Offered` (a *ready* or *current* state is about
the stored file), `Replying` (a reply that has read *ready* sees no new comparison
begin before it has read the rest), `Probed` and `Flashed` (what a job has
established by its program point).  `SnapshotIsConsistent` needs the order of the
writes in the job and of the reads in `sendStatus`, which is what `Replying` says.

*The final message.*  `OutcomeInv` carries what `verify` compared from its step to
the message, through the steps in between, up to the next job or upload.

*The page.*  A step of the composition is a step of `FlashService` or a stutter
(`ServiceSteps`), so that `IInv` and `ReviewInv` hold of it; `PagesInv` adds that a
status in flight or received is sound.  `ShownInv` says how long a page is right:
a *ready* status that is still `current` names the stored file and the
controller of the service's own comparison (`Live`), which every step keeps but
those that end `current` (`Keeps`), and a flash job goes on with the file and the
controller it began with (`Goes`).

*The scanner.*  `Scanned` says what it knows after n bytes: the run it collects is
the piece, from its start, that byte n lies in, and the board is decided by the
pieces before.  That a whole buffer keeps it is an induction over its bytes, by
the least byte that would not (`BufferFed`); a run that is cut at its capacity
goes on `Capacity` bytes later, which is arithmetic modulo it (`Periodic`).

*The flash controller.*  Each access may fail after its effect, so every effect
operator is shown to keep `DeviceSafe` by itself: protected doublewords are old,
the operation under way touches none of them, a controller that has been used is
unlocked, a jammed one is locked.  `Registers` says at which points it is unlocked,
idle, free of errors and how it is set; `Waits` what a wait that sees no error may
conclude; `Progress` which doublewords are written, which blank.  An error return
needs no more than `DeviceSafe` (`FailKeeps`), which is why a restore can begin
wherever an update has stopped.

*The transport.*  `BlockInv` relates the loop to the call (`CallShape`, `LoopShape`),
the words transferred so far to the memory (`Transferred`), and TAR to the word the
next DRW access is meant for (`Pointed`): this last holds unless the port is deaf or
an error flag is set, and then no access is accepted at all.  The arithmetic is
that a chunk ends at or before the wrap of the counter (`InsidePage`,
`IncrementInside`).

*Reviving.*  `Reviving` follows the flags of the port through `connect`: past the
line reset it hears, past the write to ABORT no flag is set, past the power-up
poll it has power, unless something was disturbed in between.  `Opening` says the
same of the engine, except for the flag that it never clears.

*The silent engine.*  `Aimed` says where the port's address register stands when
the data of a word is asked for: at the word, or the port accepts no access, or
the engine has run out of attempts and hears of nothing; so what it writes lands
where it was aimed or nowhere.

*The research programmers.*  A programmer cannot see that its session is lost,
so that `RunInv` says of each stage of a run what the flash, the page buffer and
the words read so far are when it is alive and when it is not: `WriteSoFar` (the
pages before this one are the file's, and the last of them may still be under way
until a poll of READY has been answered), `VerifySoFar` (every word read is the
flash's or 0), `TestSoFar` (a dead session reads nothing but zeros, and no wait for
an erase ends in one).  The test's verdict is honest because its pattern is not
blank: that is where the assumption above comes from.

*The pins.*  `PinsInv` strengthens the properties by `Wired` (power, reset gate and
core agree), `Driven` (which pins are driven at which step), `Prepared` (what
`attach` has made of the core so far, as long as the link lives) and `Undone`
(without a failed access the catch is gone before the core is let go).

*The keypad.*  `InStep` relates the difference of the tick counter to the history
of agreeing scans, modulo its wrap.  A scan is exact because rows of which no two
share a column are tied to none but themselves (`NoTies`), and because the rows
of the scan in progress were read while no key moved.

*The request queue.*  `Told` is what the host may rely on between two requests: the
remembered access size is the port's, if any is remembered, and the remembered
address is TAR or a multiple of the increment's reach, where it may have wrapped;
in the second case the code always tells the address anew.  From such a state the
operations of one request set the port for it, have its effect in their last
write, answer it in their last read, and lead to such a state again
(`OneRequest`).  A packet is whole requests one after the other (`PacketFilled`), the
first of which always fits (`OneFits`), so that the memory after any number of its
operations is the memory after some number of requests (`Between`), which is where
a failed transfer may stop.  The pieces of a block follow each other without a gap
(`PiecesCover`), hence writing them leaves every byte of the range written and
the answers put together are the range (`BlockWritten`, `BlockRead`).

*JTAG.*  `Path` says what a sequence of clocks makes of the port and of the bits
sampled when each goes out by itself; paths join (`PathJoins`).  A packet is cut
into runs of like clocks that follow each other (`SequencesCut`), and what the
probe does with a run is what its clocks do one by one (`PerformedIs`,
`AllPerformedIs`), so that whatever is left of the queue after a packet leads
where the whole queue led.  Where that is, is computed once for each call from the
state diagram of the port: from Run-Test/Idle through the shift of one register
and back (`WriteIrPath`, `DrPath`), from any state the port may be found in to
Run-Test/Idle (`ResetPath`), and from one code of a scan to the next
(`ScanPath`, `NextBit`).  `JtagInv`: when nothing is being sent, the queue leads to
Run-Test/Idle with the registers that were written last (`Resting`); while a
flush is under way, what is left of it does (`Registering`), with the answer of a
read along the way, or the codes found so far are the first of the chain and the
rest of the queue leads to the next (`Identifying`).

*A locked device.*  `LockedIsUntouched` is about the flash and the saved file, and
says nothing of the steps still to come, so that it is far from inductive: a state
with `plan` about to erase, or with a step of `program` at the head of `todo`,
satisfies it.  `LockInv` says what may be to do.  `InPlan`: the plan holds only what the
command line asked for, and options that passed the check lie in the flash.  Then
there are three cases of a locked device.
Without `unlock`, `Kept`: the plan is `open`, perhaps `pulse`, then `select`, and the
steps of these touch no memory; while `select` runs, the check that ends it at a
locked device (`locked`, or on the SAMs with an EEFC the access to the core, which
does not answer) is still to come, so that nothing behind it begins.
With `unlock` and `read`, `Blanked`: main turns down all other work
together with `read` (`Refused`), unlocking is a wipe of the whole flash and a wait
for it (`Winding`), nothing is being erased when a reset may tear it, and so the
device is locked or blank, and what is fetched is blank.
With `unlock` and without `read`, `NoFile`: no step that saves a file is in the plan.
What the drivers' operations consist of is what makes this go through: `select` has its
check (`SelectGated`), `unlock` winds up (`UnlockWinds`), `read` only fetches
(`ReadEasy`), fuse commands leave flash and lock alone (`FusesMild`), and only `read`
saves (`ProgramUnsaved`, `ShortUnsaved`).  Sequences of steps are typed by sets of
steps, so that concatenations and loops over pages (`Looped`) are typed by their
parts; a list is only followed by what its steps do where that is enough
(`Without`).

*What a run touches.*  `AskInv` has two phases.  Until `select` is through
(`Selecting`) the options are those of the start, the plan has its one `select`
ahead (`Guarded`, `Once`), no step of `todo` touches a memory (`Opening`), and the
device is as it was.  After it (`Serving`) the options stand, they passed the check,
and each operation works within `Reach`: every step that erases or programs spans
units of it only (`Within`).  This is where the drivers' loops are followed unit by
unit: the pages of a range lie in its pages and in the flash (`PagedWithin`), the
pages that SAM3 commits lie in the range if it begins at 0 (`A3Within`), and the
sectors that the GD32 erases are those of the range, because the sector starts add
up (`SectorStarts`, `GdWithin`).  A fuse command reads its section before it writes
it (`FuseOrder`): if the driver has no such section, the read ends the process with
no write behind it, and otherwise the write names that section (`FuseTodo`,
`FusesProper`).  A reset may tear only what is being written, so that `Proper` also
says where `busy` may lie.

*What a run achieves.*  `OutcomeInv` goes along the plan of main.  `OrderInv`: what is
left of the plan is in main's order and leaves out nothing that was asked for
(`Scheduled`, by the places `Place` gives the operations), so that a run that ends
without an error has been through all of it.  A fact that one operation
establishes (`Through`: once it is passed the fact holds, and while it is under way
its steps that are left will bring it about) then only has to survive the
operations behind it.  A step of an operation that must still come is a gate
(`HasGate`): until it is taken it is in what is left, and with it what it will
do.  `ReleaseInv` are the gates of `deselect`, `restart` and `close`; `RunLocks` the
lock, kept by everything behind it; `RunReads` and `RunVerifies` the blocks still to
fetch or to compare (`Reading`, `Comparing`: each unit of the file is in a block that
is left or is as it should be).

*What a run programs.*  A run that does not verify has only its steps to show for
it.  `Leads` follows one unit of the flash through a sequence of steps: nothing is
known of it (0), it is erased (1), it holds its unit of the file (2); `Moves` says
which step takes it from one to the next, and for each driver that `Sure` names the
steps of `program` lead every unit of the file from 0 to 2 and end with a wait
(`ProgramLeads`, by rounds over pages, rows and sectors: `RoundsLead`).
`Programming` carries this from step to step, unless an error has been noted that
the last wait will see.  A driver that looks at no error needs the device open
before it programs: `RunAnswers` (a locked EEFC does not answer) and `RunOpens` (a
SAME5x that was locked has been refused, or wiped) say that it is.  `RunPrograms`
is the result, kept by the rest of the plan.

Only model-checked: the liveness properties (`ProbeConcludes`, `JobEnds`, `RunEnds`,
`HostsReturn`, `ReportsCatchUp`), which are outside the prover's reach, and of
`SuccessIsEarned` of `EdbgSession` what it says of fuses (`FusesAsAsked`); its other
parts, `SuccessIsStored`, `ReleasedAtExit`, `LockIsSet` and `ReadIsTrue`, are proved.
What a recursive function computes is proved by the least argument that would
refute it (`LeastNat`), because the library's induction theorems take an
operator as a parameter, which no installed prover can instantiate.

## 5. Not modelled

- Wi-Fi association and station fallback, serial output, LEDs, HTML layout,
  authentication and tokens, the CRC and version texts: they hold no state the
  rest depends on.
- `EDBG/target_mchp_cm23.c` (its device is driven through a boot ROM),
  `target_rpi_rp2040.c` (a stub that runs on the target) and
  `target_lattice_lcmxo2.c` (a PLD over JTAG): each would need a model of a device
  the repository says little about.  `dbg_lin.c`, `dbg_win.c`, `dbg_mac.c`: USB input
  and output.
- Single bits on the SWD wires; torn reads of Arduino `String` objects.
- edbg's lists and help texts; drivers for hosts, schematics, renderings.

Behaviour met while modelling that no run is about:

- `src/SwdTransport.cpp:119`: a WAIT answer to the RDBUFF read that collects a posted
  result fails the access; every other request is tried again.
- `src/FirmwareImage.cpp:122`: a name that straddles the 384-character limit of a
  run is not seen (`Pieces` in `MetadataScanner` says exactly which are).
- `include/WebUi.hpp:30`: a dialog may confirm an image that was uploaded after the
  status it shows (`current` in `WebClient`).
- `main.py:62`: two closed switches of one column tie their rows, and a third key is
  seen or missed (`SharesColumn`).
- `src/main.cpp:264` and `495`: a backup that fails has already truncated the last
  one, and a mount that fails once formats the file system; the backup that could
  undo an interrupted update is gone.
- `src/main.cpp:319`: on the ESP32 an upload that starts during a job and ends after
  it is answered 202 though none of it was stored.
- `src/main.cpp:165`: a backup cut short is accepted by a restore, and the rest of its
  last page is lost.
- `src/main.cpp:310`: the result of creating the job task is ignored; a task that was
  not created leaves `jobRunning` set.
- `src/main.cpp:292`: after `attach` refused the supply, the failure tail drives
  SWDIO; `src/HardwareAbstraction.cpp:47`: on the ESP8266 a supply above the range
  reads as 3.3 V; `src/Stm32G0Programmer.cpp:160`: "... and target reset" is reported
  though the core may stay halted.
- `EDBG/target.c:150`: `load_file` truncates what it reads to the size of the
  buffer, so that the check for a file that is too big is reached only with
  `--size`.
- `EDBG/target_atmel_cm0p.c:351` and the other Atmel drivers: no error flag is looked
  at, and this one does not wait for its last row; nor does `target_nu_m480.c:290` for
  its last doubleword, of which it reads the failure flag at once; and to change
  one bit of a fuse section that driver erases all of them.
- `ES/dap_target.c:76`: the reset of `dap_target_deselect` follows the last page at
  once, so that a write may exit with 0 though its last page is torn;
  `ES/dap_target.c:87`:
  the polls of an erase and of READY have no deadline, and over a lost session they
  read 0 for ever; `ES/dap.c:403`: the value written to ABORT leaves a parity error of
  a write pending, over which no later session reads or writes.
- `EDBG/dap.c:1014`: the assertion before a JTAG clock is queued tests the number of
  SWD requests.

## 6. What could follow

The fuses of `SuccessIsEarned` of `EdbgSession` proved as its other parts are; `FlashService`
refined by `FlashController` at the grain of a page; the remaining three drivers of edbg.
