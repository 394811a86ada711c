---------------------------- MODULE FlashService ----------------------------
(***************************************************************************)
(* The Wi-Fi programmer as a whole: the web handlers and the job of        *)
(* src/main.cpp, with the application-flash loops of                       *)
(* src/Stm32G0Programmer.cpp they drive.                                   *)
(*                                                                         *)
(* One web request is served at a time (server.handleClient in loop), one  *)
(* job runs at a time (jobRunning).  On the ESP32 the job is a FreeRTOS    *)
(* task, so that its steps interleave with those of a request; on the      *)
(* ESP8266 loop() runs it between two requests.                            *)
(*                                                                         *)
(* Data is counted in chunks of kTransferSize = 256 bytes, the unit in     *)
(* which backup, programming and comparison proceed; an erase page is      *)
(* PageChunks of them.  A chunk is a member of Content, a file a sequence  *)
(* of chunks, the flash of a target a function from Cells to Content.      *)
(***************************************************************************)
EXTENDS Integers, Sequences, FiniteSets

CONSTANTS
  Content,      \* what a 256-byte chunk can hold
  Blank,        \* the erased chunk, all 0xff
  Corrupt,      \* a chunk left half written
  Vectors,      \* first chunks whose SP and reset vector pass the inspection
  Native,       \* chunks that name the supported board; that name its MCU
  Foreign,      \* chunks that name another board; that name another MCU
  Uploads,      \* the files a browser may send
  NoFile,       \* the contents of a file that does not exist
  Targets,      \* controllers, by unique ID
  NoTarget,     \* no controller, or the empty unique ID
  InitialFlash, \* what every controller holds at first
  Capacity,     \* flash chunks of each controller (target.flashBytes)
  Offset,       \* chunks of the bootloader (kMarlinOffset)
  MaxImage,     \* largest accepted image (kMaximumImageSize)
  PageChunks,   \* chunks in an erase page (kPageSize / kTransferSize)
  Concurrent,   \* TRUE on the ESP32: the job is a task of its own
  Faults,       \* the kinds of fault that may happen
  MaxFaults,    \* bound: faults in a behaviour
  MaxJobs       \* bound: accepted jobs in a behaviour

Cells == 1 .. (Offset + MaxImage)

\* The two names the metadata scanner looks for in an image.
Markers == {"board", "mcu"}

ASSUME SizeAssumption ==
  /\ Offset \in Nat /\ MaxImage \in Nat \ {0} /\ PageChunks \in Nat \ {0}
  /\ MaxFaults \in Nat /\ MaxJobs \in Nat
  /\ MaxImage % PageChunks = 0
  /\ Capacity \in [Targets -> Nat]
  /\ \A t \in Targets : /\ Offset <= Capacity[t] /\ Capacity[t] <= Offset + MaxImage
                        /\ (Capacity[t] - Offset) % PageChunks = 0

ASSUME ContentAssumption ==
  /\ Blank \in Content /\ Corrupt \in Content
  /\ Vectors \subseteq Content
  /\ Native \in [Markers -> SUBSET Content] /\ Foreign \in [Markers -> SUBSET Content]
  /\ \A kind \in Markers : Native[kind] \cap Foreign[kind] = {}
  /\ Uploads \subseteq Seq(Content) \ {<<>>}
  /\ InitialFlash \in [Cells -> Content]
  /\ NoFile \notin Seq(Content)

ASSUME TargetAssumption == NoTarget \notin Targets
ASSUME ModeAssumption ==
  /\ Concurrent \in BOOLEAN
  /\ Faults \subseteq {"link", "corrupt", "fs", "power", "mount", "task"}

VARIABLES
  gStatus,      \* the JobStatus fields that decide anything
  jobRunning,   \* the flag that excludes a second job
  job,          \* the job: kind, program counter, locals
  uploadFailed, \* a START, WRITE or ABORT callback failed
  uploadOpen,   \* uploadFile is open for writing
  http,         \* the request being served
  firmware,     \* /firmware.bin
  backup,       \* /backup.bin
  flash,        \* the flash of every controller
  connected,    \* the controller on the cable
  faults,       \* faults so far
  jobs,         \* jobs accepted so far
  saved         \* history: what the complete backup file was taken from

vars == <<gStatus, jobRunning, job, uploadFailed, uploadOpen, http, firmware,
          backup, flash, connected, faults, jobs, saved>>

statusVars == <<gStatus, jobRunning>>
uploadVars == <<uploadFailed, uploadOpen>>
fileVars   == <<firmware, backup, saved>>
boardVars  == <<flash, connected>>

-----------------------------------------------------------------------------
(* Files, pages and cells *)

File == Seq(Content) \union {NoFile}

Size(file) == IF file = NoFile THEN 0 ELSE Len(file)

\* Mutant: the backup stops at the end of the image.
RoundUpNot(n) == n

RoundUp(n) == ((n + PageChunks - 1) \div PageChunks) * PageChunks

\* Chunk i of an image of the given size; past the end 0xff is programmed.
Padded(file, size, i) == IF i <= size THEN file[i] ELSE Blank

\* Mutant: flash cells counted from zero.
CellFromZero(page, chunk) == Offset + page * PageChunks + chunk

Cell(page, chunk) == Offset + page * PageChunks + chunk + 1

PageCells(page) == Cell(page, 0) .. Cell(page, PageChunks - 1)

\* The flash f once the contents of file are written at the offset.
Overlay(f, file) ==
  [c \in Cells |-> IF c > Offset /\ c <= Offset + Len(file) THEN file[c - Offset] ELSE f[c]]

Holds(f, file) == \A i \in 1 .. Len(file) : f[Offset + i] = file[i]

\* inspectMarlinImage accepts: size in range, SP and reset vector plausible.
Acceptable(file) ==
  /\ file # NoFile
  /\ Len(file) \in 1 .. MaxImage
  /\ file[1] \in Vectors

\* The first board and the first MCU the metadata scanner meets are kept; each
\* of the two is compared for itself.
FirstIsForeign(file, kind) ==
  \E i \in DOMAIN file :
    file[i] \in Foreign[kind] /\ \A j \in 1 .. i - 1 : file[j] \notin Native[kind]

\* Mutant: the first marker of either kind decides for both.
ForeignByAnyMarker(file) ==
  \E i \in DOMAIN file :
    /\ \E kind \in Markers : file[i] \in Foreign[kind]
    /\ \A j \in 1 .. i - 1, kind \in Markers : file[j] \notin Native[kind]

NamesForeign(file) == \E kind \in Markers : FirstIsForeign(file, kind)

-----------------------------------------------------------------------------
(* The state *)

States == {"Idle", "Uploading", "Probing", "Ready", "Current", "Connecting",
           "BackingUp", "Erasing", "Programming", "Verifying", "Restoring",
           "Success", "Error"}

\* The final messages that promise something about the controller.
Messages == {"", "programmed", "previous restored", "original restored"}

Kinds == {"none", "Probe", "Flash", "Restore"}
Verdicts == {"", "ready", "current", "programmed", "previous", "original", "failed"}
Points == {"none", "queued", "attach", "inspect", "open backup", "save",
           "restore", "unlock", "erase", "write", "verify", "report", "release"}

NoJob == [kind |-> "none", pc |-> "none", target |-> NoTarget,
          expected |-> NoTarget, source |-> "firmware", size |-> 0,
          page |-> 0, chunk |-> 0, verdict |-> ""]

NoRequest == [req |-> "none", body |-> <<>>, sent |-> 0, seen |-> "Idle"]

BootStatus == [state |-> "Idle", message |-> "", imageSize |-> 0, foreign |-> FALSE,
               uid |-> NoTarget, complete |-> FALSE, identical |-> FALSE]

NothingSaved == [target |-> NoTarget, flash |-> InitialFlash]

JobStatus == [state : States, message : Messages, imageSize : Nat, foreign : BOOLEAN,
              uid : Targets \union {NoTarget}, complete : BOOLEAN, identical : BOOLEAN]

Job == [kind : Kinds, pc : Points, target : Targets \union {NoTarget},
        expected : Targets \union {NoTarget}, source : {"firmware", "backup"},
        size : Nat, page : Nat, chunk : Nat, verdict : Verdicts]

Request == [req : {"none", "receiving", "received", "status"},
            body : Uploads \union {<<>>}, sent : Nat, seen : States]

\* Type correctness.
TypeOK ==
  /\ gStatus \in JobStatus
  /\ jobRunning \in BOOLEAN
  /\ job \in Job
  /\ uploadFailed \in BOOLEAN /\ uploadOpen \in BOOLEAN
  /\ http \in Request
  /\ firmware \in File /\ backup \in File
  /\ flash \in [Targets -> [Cells -> Content]]
  /\ connected \in Targets \union {NoTarget}
  /\ faults \in 0 .. MaxFaults /\ jobs \in 0 .. MaxJobs
  /\ saved \in [target : Targets \union {NoTarget}, flash : [Cells -> Content]]

Init ==
  /\ gStatus = BootStatus
  /\ jobRunning = FALSE
  /\ job = NoJob
  /\ uploadFailed = FALSE
  /\ uploadOpen = FALSE
  /\ http = NoRequest
  /\ firmware = NoFile
  /\ backup = NoFile
  /\ flash = [t \in Targets |-> InitialFlash]
  /\ connected \in Targets \union {NoTarget}
  /\ faults = 0
  /\ jobs = 0
  /\ saved = NothingSaved

Fault(f) ==
  /\ f \in Faults
  /\ faults < MaxFaults
  /\ faults' = faults + 1

\* Mutant: the arguments swapped.
SetStatusSwapped(state, message) ==
  gStatus' = [gStatus EXCEPT !.state = message, !.message = state]

SetStatus(state, message) ==
  gStatus' = [gStatus EXCEPT !.state = state, !.message = message]

-----------------------------------------------------------------------------
(* Web requests.  loop() serves them one after the other.                  *)

\* On the ESP8266 handleClient and executeJob alternate in loop().
HandlersRun == Concurrent \/ job.pc = "none"

\* Mutant: no jobRunning test in handleUploadData.
UploadsNeverIgnored == FALSE

\* handleUploadData returns at once while a job runs.
UploadsIgnored == jobRunning

\* Mutant: a short write goes unnoticed.
WriteErrorIgnored == UNCHANGED uploadFailed

WriteError == uploadFailed' = TRUE

\* scheduleJob, called with jobRunning known to be false.  The result of
\* xTaskCreatePinnedToCore is ignored: without a task nobody clears the flag.
ScheduleJob(kind) ==
  /\ jobs < MaxJobs /\ jobs' = jobs + 1
  /\ jobRunning' = TRUE
  /\ \/ job' = [NoJob EXCEPT !.kind = kind, !.pc = "queued"] /\ UNCHANGED faults
     \/ Concurrent /\ Fault("task") /\ UNCHANGED job

\* UPLOAD_FILE_START replaces the stored image by an empty file.
UploadStart(body) ==
  /\ HandlersRun /\ http.req = "none"
  /\ http' = [NoRequest EXCEPT !.req = "receiving", !.body = body]
  /\ \/ /\ UploadsIgnored
        /\ UNCHANGED <<gStatus, uploadVars, firmware, faults>>
     \/ /\ ~UploadsIgnored
        /\ \/ /\ firmware' = <<>> /\ UNCHANGED faults
              /\ uploadOpen' = TRUE /\ uploadFailed' = FALSE
           \/ /\ firmware' = NoFile /\ Fault("fs")
              /\ uploadOpen' = FALSE /\ uploadFailed' = TRUE
        /\ SetStatus("Uploading", "")
  /\ UNCHANGED <<jobRunning, job, backup, saved, boardVars, jobs>>

\* UPLOAD_FILE_WRITE: totalSize does not count the chunk being delivered.
UploadWrite ==
  /\ HandlersRun /\ http.req = "receiving" /\ http.sent < Len(http.body)
  /\ http' = [http EXCEPT !.sent = @ + 1]
  /\ LET writes == ~UploadsIgnored /\ ~uploadFailed /\ http.sent <= MaxImage
     IN  \/ /\ writes /\ uploadOpen
            /\ firmware' = Append(firmware, http.body[http.sent + 1])
            /\ UNCHANGED <<uploadFailed, faults>>
         \/ /\ writes /\ uploadOpen /\ Fault("fs")
            /\ WriteError
            /\ UNCHANGED firmware
         \/ /\ writes /\ ~uploadOpen
            /\ WriteError
            /\ UNCHANGED <<firmware, faults>>
         \/ /\ ~UploadsIgnored /\ http.sent > MaxImage
            /\ uploadFailed' = TRUE
            /\ UNCHANGED <<firmware, faults>>
         \/ /\ UploadsIgnored \/ (uploadFailed /\ http.sent <= MaxImage)
            /\ UNCHANGED <<firmware, uploadFailed, faults>>
  /\ UNCHANGED <<statusVars, job, uploadOpen, backup, saved, boardVars, jobs>>

\* UPLOAD_FILE_END closes the file; the handler finishUpload comes next.
UploadEnd ==
  /\ HandlersRun /\ http.req = "receiving" /\ http.sent = Len(http.body)
  /\ http' = [http EXCEPT !.req = "received"]
  /\ uploadOpen' = IF UploadsIgnored THEN uploadOpen ELSE FALSE
  /\ UNCHANGED <<statusVars, job, uploadFailed, fileVars, boardVars, faults, jobs>>

\* UPLOAD_FILE_ABORTED: the browser is gone and no handler follows.
UploadAbort ==
  /\ HandlersRun /\ http.req = "receiving"
  /\ http' = NoRequest
  /\ uploadOpen' = IF UploadsIgnored THEN uploadOpen ELSE FALSE
  /\ uploadFailed' = IF UploadsIgnored THEN uploadFailed ELSE TRUE
  /\ UNCHANGED <<statusVars, job, fileVars, boardVars, faults, jobs>>

\* finishUpload while a job runs: 409.
FinishBusy ==
  /\ HandlersRun /\ http.req = "received" /\ jobRunning
  /\ http' = NoRequest
  /\ UNCHANGED <<statusVars, job, uploadVars, fileVars, boardVars, faults, jobs>>

\* finishUpload of a failed or unacceptable upload: the file is removed.
FinishRejected ==
  /\ HandlersRun /\ http.req = "received" /\ ~jobRunning
  /\ uploadFailed \/ ~Acceptable(firmware)
  /\ http' = NoRequest
  /\ firmware' = NoFile
  /\ SetStatus("Error", "")
  /\ UNCHANGED <<jobRunning, job, uploadVars, backup, saved, boardVars, faults, jobs>>

\* finishUpload of an acceptable file: every comparison field is cleared and
\* the read-only probe is scheduled.
FinishAccepted ==
  /\ HandlersRun /\ http.req = "received" /\ ~jobRunning
  /\ ~uploadFailed /\ Acceptable(firmware)
  /\ http' = NoRequest
  /\ gStatus' = [BootStatus EXCEPT !.state = "Probing", !.imageSize = Len(firmware),
                                   !.foreign = NamesForeign(firmware)]
  /\ ScheduleJob("Probe")
  /\ UNCHANGED <<uploadVars, fileVars, boardVars>>

\* POST /api/flash, authorised; every other case is an error reply.
FlashRequest ==
  /\ HandlersRun /\ http.req = "none"
  /\ gStatus.state = "Ready" /\ firmware # NoFile /\ ~jobRunning
  /\ ScheduleJob("Flash")
  /\ UNCHANGED <<gStatus, http, uploadVars, fileVars, boardVars>>

\* POST /api/restore, authorised.
RestoreRequest ==
  /\ HandlersRun /\ http.req = "none"
  /\ backup # NoFile /\ ~jobRunning
  /\ ScheduleJob("Restore")
  /\ UNCHANGED <<gStatus, http, uploadVars, fileVars, boardVars>>

\* GET /api/status builds its reply field by field, the state first and the
\* comparison fields last; a concurrent job may move in between.
StatusBegin ==
  /\ HandlersRun /\ http.req = "none"
  /\ http' = [NoRequest EXCEPT !.req = "status", !.seen = gStatus.state]
  /\ UNCHANGED <<statusVars, job, uploadVars, fileVars, boardVars, faults, jobs>>

StatusEnd ==
  /\ HandlersRun /\ http.req = "status"
  /\ http' = NoRequest
  /\ UNCHANGED <<statusVars, job, uploadVars, fileVars, boardVars, faults, jobs>>

-----------------------------------------------------------------------------
(* The job: executeJob, with the loops of Stm32G0Programmer.               *)

source == IF job.source = "firmware" THEN firmware ELSE backup

At(pc) == job.pc = pc
Goto(pc) == job' = [job EXCEPT !.pc = pc]

\* Mutant: a failed path returns without its final setStatus.
ConcludeSilently(verdict) == job' = [job EXCEPT !.pc = "release", !.verdict = verdict]

\* The job is decided: detach, tell, release.
Conclude(verdict) == job' = [job EXCEPT !.pc = "report", !.verdict = verdict]

\* Every SWD access reaches the attached controller or fails; it fails when
\* that controller has been unplugged or exchanged, or by a fault of the link.
LinkWorks == connected = job.target /\ UNCHANGED faults
LinkFails == \/ connected # job.target /\ UNCHANGED faults
             \/ Fault("link")

\* A failed program or verify of an update turns to restoreBackup; every other
\* failure ends the job.
UpdateFails ==
  IF job.kind = "Flash" /\ job.source = "firmware" THEN Goto("restore") ELSE Conclude("failed")

\* jobTask, or the end of loop(): the expected UID is read from the status.
Start ==
  /\ At("queued")
  /\ job' = [job EXCEPT !.pc = "attach", !.expected = gStatus.uid]
  /\ SetStatus(IF job.kind = "Probe" THEN "Probing" ELSE "Connecting", "")
  /\ UNCHANGED <<jobRunning, http, uploadVars, fileVars, boardVars, faults, jobs>>

FitsTarget(t) == Offset + gStatus.imageSize <= Capacity[t]

\* Mutant: whichever controller answers is taken.
AnyController(t) == TRUE

\* A flash or restore must find the UID of the preflight, if there was one.
SameController(t) == job.kind = "Probe" \/ job.expected \in {NoTarget, t}

\* attach and the size and identity checks that follow it.
Attach ==
  /\ At("attach")
  /\ connected # NoTarget
  /\ SameController(connected)
  /\ gStatus' = [gStatus EXCEPT !.uid = connected]
  /\ LET admitted == CASE job.kind = "Probe"   -> FitsTarget(connected) /\ ~gStatus.foreign
                       [] job.kind = "Flash"   -> FitsTarget(connected)
                       [] job.kind = "Restore" -> TRUE
         next == CASE job.kind = "Probe"   -> "inspect"
                   [] job.kind = "Flash"   -> "open backup"
                   [] job.kind = "Restore" -> "restore"
     IN  job' = [job EXCEPT !.target  = connected,
                            !.pc      = IF admitted THEN next ELSE "report",
                            !.verdict = IF admitted THEN "" ELSE "failed"]
  /\ UNCHANGED <<jobRunning, http, uploadVars, fileVars, boardVars, faults, jobs>>

AttachFails ==
  /\ At("attach")
  /\ \/ /\ UNCHANGED faults
        /\ \/ connected = NoTarget
           \/ ~SameController(connected)
     \/ Fault("link")
  /\ Conclude("failed")
  /\ UNCHANGED <<statusVars, http, uploadVars, fileVars, boardVars, jobs>>

\* inspectApplication: whole pages are compared, the tail against 0xff.
Identical(f) ==
  \A i \in 1 .. RoundUp(gStatus.imageSize) :
    f[Offset + i] = Padded(firmware, gStatus.imageSize, i)

\* Mutant: only completion is recorded.
ComparedOnly(same) == gStatus' = [gStatus EXCEPT !.complete = TRUE]

Compared(same) == gStatus' = [gStatus EXCEPT !.complete = TRUE, !.identical = same]

Inspect ==
  /\ At("inspect")
  /\ LinkWorks
  /\ firmware # NoFile /\ gStatus.imageSize <= Size(firmware)
  /\ LET same == Identical(flash[job.target])
     IN  /\ Compared(same)
         /\ Conclude(IF same THEN "current" ELSE "ready")
  /\ UNCHANGED <<jobRunning, http, uploadVars, fileVars, boardVars, jobs>>

InspectFails ==
  /\ At("inspect")
  /\ \/ LinkFails
     \/ (firmware = NoFile \/ gStatus.imageSize > Size(firmware)) /\ UNCHANGED faults
  /\ Conclude("failed")
  /\ UNCHANGED <<statusVars, http, uploadVars, fileVars, boardVars, jobs>>

\* backup: the file is truncated first, then filled chunk by chunk.
OpenBackup ==
  /\ At("open backup")
  /\ \/ /\ backup' = <<>> /\ saved' = NothingSaved
        /\ Goto("save") /\ UNCHANGED faults
     \/ /\ Fault("fs") /\ UNCHANGED <<backup, saved>>
        /\ Conclude("failed")
  /\ UNCHANGED <<statusVars, http, uploadVars, firmware, boardVars, jobs>>

SaveChunk ==
  /\ At("save") /\ Len(backup) < RoundUp(gStatus.imageSize)
  /\ LinkWorks
  /\ backup' = Append(backup, flash[job.target][Offset + Len(backup) + 1])
  /\ SetStatus("BackingUp", "")
  /\ UNCHANGED <<jobRunning, job, http, uploadVars, firmware, saved, boardVars, jobs>>

SaveFails ==
  /\ At("save") /\ Len(backup) < RoundUp(gStatus.imageSize)
  /\ LinkFails \/ Fault("fs")
  /\ Conclude("failed")
  /\ UNCHANGED <<statusVars, http, uploadVars, fileVars, boardVars, jobs>>

BackupDone ==
  /\ At("save") /\ Len(backup) = RoundUp(gStatus.imageSize)
  /\ saved' = [target |-> job.target, flash |-> flash[job.target]]
  /\ job' = [job EXCEPT !.pc = "unlock", !.source = "firmware", !.size = gStatus.imageSize]
  /\ UNCHANGED <<statusVars, http, uploadVars, firmware, backup, boardVars, faults, jobs>>

\* restoreBackup, of a Restore job or after a failed update: the file must be
\* non-empty and fit; who it was read from is not recorded.
BeginRestore ==
  /\ At("restore")
  /\ \/ /\ backup \notin {NoFile, <<>>} /\ Offset + Len(backup) <= Capacity[job.target]
        /\ job' = [job EXCEPT !.pc = "unlock", !.source = "backup", !.size = Len(backup),
                              !.page = 0, !.chunk = 0]
        /\ SetStatus("Restoring", "")
     \/ /\ backup \in {NoFile, <<>>} \/ Offset + Len(backup) > Capacity[job.target]
        /\ Conclude("failed")
        /\ UNCHANGED gStatus
  /\ UNCHANGED <<jobRunning, http, uploadVars, fileVars, boardVars, faults, jobs>>

\* program, first part: open the file, unlock the flash, clear its flags.
Unlock ==
  /\ At("unlock")
  /\ source # NoFile
  /\ LinkWorks
  /\ Goto(IF job.size > 0 THEN "erase" ELSE "verify")
  /\ UNCHANGED <<statusVars, http, uploadVars, fileVars, boardVars, jobs>>

Progress(state) ==
  SetStatus(IF job.source = "backup" THEN "Restoring" ELSE state, "")

Erased(f, page) == [c \in Cells |-> IF c \in PageCells(page) THEN Blank ELSE f[c]]

ErasePage ==
  /\ At("erase")
  /\ LinkWorks
  /\ flash' = [flash EXCEPT ![job.target] = Erased(@, job.page)]
  /\ job' = [job EXCEPT !.pc = "write", !.chunk = 0]
  /\ Progress("Erasing")
  /\ UNCHANGED <<jobRunning, http, uploadVars, fileVars, connected, jobs>>

\* programPage, one transfer buffer: chunks past the end of the image are 0xff.
Wanted == Padded(source, job.size, job.page * PageChunks + job.chunk + 1)

AfterChunk ==
  IF job.chunk + 1 < PageChunks
    THEN [job EXCEPT !.chunk = @ + 1]
    ELSE IF (job.page + 1) * PageChunks < job.size
           THEN [job EXCEPT !.pc = "erase", !.page = @ + 1, !.chunk = 0]
           ELSE [job EXCEPT !.pc = "verify"]

ShortSource == job.page * PageChunks + job.chunk + 1 \in Size(source) + 1 .. job.size

Put(content) ==
  flash' = [flash EXCEPT ![job.target] = [@ EXCEPT ![Cell(job.page, job.chunk)] = content]]

WriteChunk ==
  /\ At("write") /\ ~ShortSource
  /\ \/ LinkWorks /\ Put(Wanted)
     \/ connected = job.target /\ Fault("corrupt") /\ Put(Corrupt)
  /\ job' = AfterChunk
  /\ Progress("Programming")
  /\ UNCHANGED <<jobRunning, http, uploadVars, fileVars, connected, jobs>>

\* Mutant: the file is read back and compared with nothing.
MatchesAlways == TRUE

\* verify compares the chunks of the file, not the padding after them.
Matches == \A i \in 1 .. job.size : flash[job.target][Offset + i] = source[i]

Verify ==
  /\ At("verify")
  /\ LinkWorks
  /\ job.size <= Size(source)
  /\ Matches
  /\ Progress("Verifying")
  /\ Conclude(CASE job.kind = "Restore" -> "previous"
                [] job.source = "firmware" -> "programmed"
                [] OTHER -> "original")
  /\ UNCHANGED <<jobRunning, http, uploadVars, fileVars, boardVars, jobs>>

\* A step of program or verify fails.  An erase whose completion was not seen
\* may have happened; a write that failed leaves the chunk old, new or torn.
ProgramFails ==
  \/ /\ At("unlock")
     /\ \/ LinkFails
        \/ source = NoFile /\ UNCHANGED faults
     /\ UNCHANGED flash
  \/ /\ At("erase") /\ LinkFails
     /\ \/ UNCHANGED flash
        \/ flash' = [flash EXCEPT ![job.target] = Erased(@, job.page)]
  \/ /\ At("write") /\ ShortSource
     /\ UNCHANGED <<flash, faults>>
  \/ /\ At("write") /\ ~ShortSource /\ LinkFails
     /\ \/ UNCHANGED flash
        \/ Put(Wanted)
        \/ Put(Corrupt)
  \/ /\ At("verify")
     /\ \/ LinkFails
        \/ UNCHANGED faults /\ job.size > Size(source)
        \/ UNCHANGED faults /\ job.size <= Size(source) /\ ~Matches
     /\ UNCHANGED flash

ProgramStepFails ==
  /\ ProgramFails
  /\ UpdateFails
  /\ UNCHANGED <<statusVars, http, uploadVars, fileVars, connected, jobs>>

\* detachAndRun, whose accesses are best effort, then the final setStatus.
Report ==
  /\ At("report")
  /\ CASE job.verdict = "ready"      -> SetStatus("Ready", "")
       [] job.verdict = "current"    -> SetStatus("Current", "")
       [] job.verdict = "programmed" -> SetStatus("Success", "programmed")
       [] job.verdict = "previous"   -> SetStatus("Success", "previous restored")
       [] job.verdict = "original"   -> SetStatus("Error", "original restored")
       [] job.verdict = "failed"     -> SetStatus("Error", "")
  /\ Goto("release")
  /\ UNCHANGED <<jobRunning, http, uploadVars, fileVars, boardVars, faults, jobs>>

\* Mutant: the probe path returns without clearing the flag.
ReleaseNotProbe ==
  /\ At("release")
  /\ jobRunning' = (job.kind = "Probe")
  /\ job' = NoJob
  /\ UNCHANGED <<gStatus, http, uploadVars, fileVars, boardVars, faults, jobs>>

\* The last statement of every path: jobRunning = false.
Release ==
  /\ At("release")
  /\ jobRunning' = FALSE
  /\ job' = NoJob
  /\ UNCHANGED <<gStatus, http, uploadVars, fileVars, boardVars, faults, jobs>>

JobStep ==
  \/ Start \/ Attach \/ AttachFails \/ Inspect \/ InspectFails
  \/ OpenBackup \/ SaveChunk \/ SaveFails \/ BackupDone \/ BeginRestore
  \/ Unlock \/ ErasePage \/ WriteChunk \/ Verify \/ ProgramStepFails
  \/ Report \/ Release

-----------------------------------------------------------------------------
(* The surroundings *)

\* The cable is pulled, plugged in, or moved to another controller.
Swap(t) ==
  /\ t # connected
  /\ connected' = t
  /\ UNCHANGED <<statusVars, job, http, uploadVars, fileVars, flash, faults, jobs>>

\* The programmer loses power and setup() runs again.  LittleFS commits a file
\* when it is closed: one that was open for writing is left empty.  A write to
\* the controller may have been cut short.  If the mount fails, setup formats.
Reboot(formatted) ==
  /\ Fault(IF formatted THEN "mount" ELSE "power")
  /\ gStatus' = BootStatus /\ jobRunning' = FALSE /\ job' = NoJob
  /\ uploadFailed' = FALSE /\ uploadOpen' = FALSE /\ http' = NoRequest
  /\ firmware' = IF formatted THEN NoFile ELSE IF uploadOpen THEN <<>> ELSE firmware
  /\ backup' = IF formatted THEN NoFile ELSE IF At("save") THEN <<>> ELSE backup
  /\ saved' = IF formatted THEN NothingSaved ELSE saved
  /\ \/ UNCHANGED flash
     \/ At("write") /\ connected = job.target /\ Put(Corrupt)
  /\ UNCHANGED <<connected, jobs>>

Environment ==
  \/ \E t \in Targets \union {NoTarget} : Swap(t)
  \/ \E formatted \in BOOLEAN : Reboot(formatted)

WebStep ==
  \/ \E body \in Uploads : UploadStart(body)
  \/ UploadWrite \/ UploadEnd \/ UploadAbort
  \/ FinishBusy \/ FinishRejected \/ FinishAccepted
  \/ FlashRequest \/ RestoreRequest
  \/ StatusBegin \/ StatusEnd

Next == WebStep \/ JobStep \/ Environment

Spec == Init /\ [][Next]_vars

\* A job that exists is scheduled: the FreeRTOS task on the ESP32, the end of
\* loop() on the ESP8266.  Every wait inside a step has a timeout.
FairSpec == Spec /\ WF_vars(JobStep)

-----------------------------------------------------------------------------
(* Properties *)

Programs == {"unlock", "erase", "write", "verify"}

\* An image is offered for flashing (setStatus(Ready) in executeJob) only when
\* the stored file passed the inspection, names no other board and no other MCU
\* before its own, is as long as the status says, fits the probed controller and
\* differs from its contents.
ReadyIsValidated ==
  gStatus.state = "Ready" =>
    /\ gStatus.complete /\ ~gStatus.identical
    /\ gStatus.uid \in Targets
    /\ Acceptable(firmware)
    /\ \A kind \in Markers : \A i \in DOMAIN firmware :
         firmware[i] \in Foreign[kind] => \E j \in 1 .. i - 1 : firmware[j] \in Native[kind]
    /\ gStatus.imageSize = Size(firmware)
    /\ Offset + gStatus.imageSize <= Capacity[gStatus.uid]

\* A flash job erases and programs the very controller the preflight identified
\* and exactly the file it inspected (the UID check of executeJob, the reads of
\* gStatus.imageSize and /firmware.bin long after the request was accepted).
FlashAsReviewed ==
  job.kind = "Flash" /\ job.pc \in Programs \union {"save", "restore"} =>
    /\ job.target \in Targets
    /\ job.target = job.expected /\ job.target = gStatus.uid
    /\ gStatus.complete /\ ~gStatus.identical
    /\ Acceptable(firmware) /\ ~NamesForeign(firmware)
    /\ gStatus.imageSize = Len(firmware)
    /\ job.source = "firmware" => job.size \in {0, Len(firmware)}

\* From the verdict to the last write: what is offered is validated, and what is
\* flashed is what was offered (executeJob from one job to the next).
ImageIsReviewed == ReadyIsValidated /\ FlashAsReviewed

\* No update erases anything before the controller's pages are in the backup
\* file, and as long as that file is there, through failures, restores, reboots
\* and jobs on other controllers, writing it back gives the controller the
\* contents it had when it was saved (backup, program and restoreBackup).
Recoverable ==
  /\ job.kind = "Flash" /\ job.pc \in Programs \union {"restore"}
       => saved.target = job.target
  /\ saved.target # NoTarget
       => /\ backup # NoFile
          /\ Overlay(flash[saved.target], backup) = saved.flash

\* What the final messages of executeJob promise: "programmed, byte-verified"
\* means that the image is in place, "original firmware was restored" that the
\* controller is what it was before the update, chunk for chunk.
OutcomeIsTrue ==
  /\ gStatus.message = "programmed" =>
       /\ gStatus.uid \in Targets
       /\ gStatus.uid = saved.target
       /\ Holds(flash[gStatus.uid], firmware)
       /\ \A c \in Cells : c <= Offset \/ c > Offset + RoundUp(Len(firmware))
            => flash[gStatus.uid][c] = saved.flash[c]
  /\ gStatus.message = "original restored" =>
       /\ gStatus.uid = saved.target
       /\ flash[gStatus.uid] = saved.flash

\* The bootloader below kMarlinOffset and whatever lies past the flash of the
\* detected controller are never touched, by an update, a restore or a failure.
BootloaderKept ==
  \A t \in Targets : \A c \in Cells :
    c <= Offset \/ c > Capacity[t] => flash[t][c] = InitialFlash[c]

\* A status reply that says "ready" or "current" carries the comparison that
\* led to it, though sendStatus reads the fields while a job may change them
\* (the browser enables its Flash button from such a reply).
SnapshotIsConsistent ==
  http.req = "status" =>
    /\ http.seen = "Ready"   => gStatus.complete /\ ~gStatus.identical
    /\ http.seen = "Current" => gStatus.complete /\ gStatus.identical

\* While a job lives nothing else starts one, replaces the image under it or
\* changes the size it works with, whatever requests arrive (the jobRunning
\* tests of handleUploadData, finishUpload and scheduleJob).
JobIsExclusive ==
  [][job.kind # "none" /\ job'.kind # "none" =>
       /\ job'.kind = job.kind
       /\ firmware' = firmware
       /\ gStatus'.imageSize = gStatus.imageSize]_vars

\* Every accepted job ends and lets the next one in (jobRunning = false on
\* every path of executeJob).
JobEnds == jobRunning ~> ~jobRunning

\* A probe, once accepted, is followed by a verdict the browser can act on.
ProbeConcludes ==
  gStatus.state = "Probing" ~> gStatus.state \in {"Ready", "Current", "Error", "Idle"}

\* An upload that is answered 202 is the file that was stored, inspected and is
\* now being probed.
AcceptedUploadIsStored ==
  [][http.req = "received" /\ ~jobRunning /\ jobRunning' => firmware = http.body]_vars

\* "Previous firmware restored and verified": a backup is written back to the
\* controller it was read from.
RestoreKeepsBoardsApart ==
  gStatus.message = "previous restored" /\ saved.target # NoTarget =>
    gStatus.uid = saved.target

\* "Update failed; original firmware was restored": the controller then holds
\* a whole application, the one it came with or an image that was uploaded,
\* and not what an earlier, interrupted update had left behind.
OriginalIsWhole ==
  gStatus.message = "original restored" =>
    \/ flash[gStatus.uid] = InitialFlash
    \/ \E body \in Uploads : Acceptable(body) /\ Holds(flash[gStatus.uid], body)
=============================================================================
