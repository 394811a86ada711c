------------------------- MODULE FlashServiceProofs -------------------------
(***************************************************************************)
(* What holds of FlashService for every number of controllers, every chunk *)
(* content, every image, page and flash size and any number of faults and  *)
(* jobs: its types, that the bootloader is never touched, that an update   *)
(* can always be undone from the backup file, that what is flashed is what *)
(* was inspected, compared and offered, and that the final messages of a   *)
(* job are true.                                                           *)
(*                                                                         *)
(* The inductive invariant IInv adds to the first of these what a job      *)
(* knows at each of its program points: one lemma per action shows that it *)
(* keeps the types (Type...), one that it keeps the rest (Keep...).  The   *)
(* invariants ReviewInv and OutcomeInv, on top of it, are for the others.  *)
(*                                                                         *)
(* The last part is about the pages in front of the service, for any       *)
(* number of them.  A step of that composition is a step of FlashService   *)
(* or none, so that the invariants proved before hold; the ones added      *)
(* there are about the statuses that are under way to a page, have arrived *)
(* or are being reviewed: PagesInv says what they show, ShownInv how long  *)
(* the service still is what they show.                                    *)
(***************************************************************************)
EXTENDS WebClient, TLAPS

(* The invariant *)

\* Points at which executeJob has attached to a controller.
Attached == Programs \union {"inspect", "open backup", "save", "restore"}

\* The job and the flags around it: jobRunning is set while a job lives, and a
\* file is open for an upload only between START and END, with no job running.
JobShape ==
  /\ job.pc = "none" <=> job.kind = "none"
  /\ job.pc # "none" => jobRunning
  /\ uploadOpen => ~jobRunning /\ firmware # NoFile /\ http.req = "receiving"
  /\ job.pc = "report" => job.verdict # ""
  /\ job.pc \in Attached => job.target \in Targets
  /\ job.pc \in {"open backup", "save"} => job.kind = "Flash"

\* Up to the end of the backup: the pages to save fit the controller, nothing is
\* programmed yet, and the file holds a prefix of them.
SaveShape ==
  /\ job.pc \in {"inspect", "open backup", "save"} =>
       Offset + RoundUp(gStatus.imageSize) <= Capacity[job.target]
  /\ job.pc \in {"queued", "attach", "open backup", "save", "unlock"} =>
       job.page = 0 /\ job.chunk = 0
  /\ job.pc = "save" =>
       /\ backup # NoFile
       /\ Len(backup) <= RoundUp(gStatus.imageSize)
       /\ saved.target = NoTarget
       /\ \A i \in 1 .. Len(backup) : backup[i] = flash[job.target][Offset + i]

\* While pages are programmed: the image fits, and the backup file covers every
\* page of it.  Without the backup's length nothing would confine the edits of
\* an update to the cells the backup gives back.
ProgramShape ==
  /\ job.pc \in Programs =>
       /\ Offset + RoundUp(job.size) <= Capacity[job.target]
       /\ job.source = "backup" => backup # NoFile /\ job.size = Len(backup)
       /\ job.source = "firmware" =>
            /\ job.kind = "Flash"
            /\ backup # NoFile /\ Len(backup) = RoundUp(job.size)
  /\ job.pc \in {"erase", "write"} => job.page * PageChunks < job.size
  /\ job.pc = "write" => job.chunk < PageChunks

\* An update that programs, or undoes itself, has saved this controller.
BackupTaken ==
  job.kind = "Flash" /\ job.pc \in Programs \union {"restore"} => saved.target = job.target

\* A complete backup file gives its controller back what it held.
BackupRestores ==
  saved.target # NoTarget =>
    /\ backup # NoFile
    /\ RoundUp(Len(backup)) = Len(backup)
    /\ Overlay(flash[saved.target], backup) = saved.flash

\* The inductive invariant.
IInv ==
  /\ TypeOK /\ JobShape /\ SaveShape /\ ProgramShape
  /\ BackupTaken /\ BackupRestores /\ BootloaderKept

-----------------------------------------------------------------------------
(* Whole pages *)

\* Quotient and remainder of natural numbers.
LEMMA DivMod ==
  ASSUME NEW a \in Nat, NEW b \in Nat \ {0}
  PROVE  /\ a \div b \in Nat
         /\ (a \div b) * b <= a
         /\ a < (a \div b) * b + b
  BY Z3

\* A multiple is its quotient times the divisor.
LEMMA ModZero ==
  ASSUME NEW a \in Nat, NEW b \in Nat \ {0}, a % b = 0
  PROVE  (a \div b) * b = a
  BY Z3

\* Less than one page more is at most as many pages.
LEMMA Mult ==
  ASSUME NEW p \in Nat, NEW q \in Nat, NEW b \in Nat \ {0}, p * b < q * b + b
  PROVE  p * b <= q * b
  <1>1. CASE p <= q BY <1>1, Z3
  <1>2. CASE p >= q + 1
    <2>1. p * b >= (q+1) * b BY <1>2, Z3
    <2>2. (q+1) * b = q * b + b BY Z3
    <2> QED BY <2>1, <2>2, Z3
  <1> QED BY <1>1, <1>2

\* alignUp of Stm32G0Programmer.cpp: a whole number of pages that covers n and
\* wastes less than one.
LEMMA RoundUpNat ==
  ASSUME NEW n \in Nat
  PROVE  /\ RoundUp(n) \in Nat
         /\ n <= RoundUp(n)
         /\ RoundUp(n) < n + PageChunks
         /\ RoundUp(n) = ((n + PageChunks - 1) \div PageChunks) * PageChunks
         /\ (n + PageChunks - 1) \div PageChunks \in Nat
  <1> DEFINE q == (n + PageChunks - 1) \div PageChunks
  <1>1. PageChunks \in Nat \ {0} BY SizeAssumption
  <1>2. n + PageChunks - 1 \in Nat BY <1>1
  <1>3. /\ q \in Nat /\ q * PageChunks <= n + PageChunks - 1
        /\ n + PageChunks - 1 < q * PageChunks + PageChunks
    BY <1>1, <1>2, DivMod
  <1>4. RoundUp(n) = q * PageChunks BY DEF RoundUp
  <1>5. q * PageChunks \in Nat BY <1>1, <1>3
  <1> HIDE DEF q
  <1> QED BY <1>1, <1>3, <1>4, <1>5 DEF q

\* alignUp returns the least such number.
LEMMA RoundUpLeast ==
  ASSUME NEW n \in Nat, NEW p \in Nat, n <= p * PageChunks
  PROVE  RoundUp(n) <= p * PageChunks
  <1>1. PageChunks \in Nat \ {0} BY SizeAssumption
  <1>2. PICK q \in Nat : RoundUp(n) = q * PageChunks BY RoundUpNat
  <1>3. p * PageChunks \in Nat /\ q * PageChunks \in Nat BY <1>1
  <1>4. RoundUp(n) < n + PageChunks BY RoundUpNat
  <1>5. q * PageChunks < p * PageChunks + PageChunks BY <1>1, <1>2, <1>3, <1>4
  <1> QED BY <1>1, <1>2, <1>5, Mult

\* A page that starts below n ends at most at alignUp(n).
LEMMA RoundUpPage ==
  ASSUME NEW n \in Nat, NEW p \in Nat, p * PageChunks < n
  PROVE  p * PageChunks + PageChunks <= RoundUp(n)
  <1>1. PageChunks \in Nat \ {0} BY SizeAssumption
  <1>2. PICK q \in Nat : RoundUp(n) = q * PageChunks BY RoundUpNat
  <1>3. /\ (p + 1) * PageChunks = p * PageChunks + PageChunks
        /\ p * PageChunks \in Nat /\ q * PageChunks \in Nat
    BY <1>1
  <1>4. n <= RoundUp(n) BY RoundUpNat
  <1>5. (p + 1) * PageChunks < q * PageChunks + PageChunks BY <1>1, <1>2, <1>3, <1>4
  <1>6. (p + 1) * PageChunks <= q * PageChunks BY <1>1, <1>5, Mult
  <1> QED BY <1>2, <1>3, <1>6

\* alignUp of a whole number of pages changes nothing: a complete backup is as
\* long as the pages it is restored to.
LEMMA RoundUpTwice ==
  ASSUME NEW n \in Nat
  PROVE  RoundUp(RoundUp(n)) = RoundUp(n)
  <1>2. PICK q \in Nat : RoundUp(n) = q * PageChunks BY RoundUpNat
  <1>3. RoundUp(n) \in Nat BY RoundUpNat
  <1>4. RoundUp(RoundUp(n)) <= RoundUp(n) BY <1>2, <1>3, RoundUpLeast
  <1>5. RoundUp(RoundUp(n)) \in Nat /\ RoundUp(n) <= RoundUp(RoundUp(n)) BY <1>3, RoundUpNat
  <1> QED BY <1>3, <1>4, <1>5

\* The application area is a whole number of pages, so that what fits it still
\* fits once rounded up: the checks of executeJob and restoreBackup compare the
\* exact size.
LEMMA RoundUpFits ==
  ASSUME NEW n \in Nat, NEW t \in Targets, Offset + n <= Capacity[t]
  PROVE  Offset + RoundUp(n) <= Capacity[t]
  <1>1. /\ PageChunks \in Nat \ {0} /\ Offset \in Nat /\ Capacity[t] \in Nat
        /\ Offset <= Capacity[t] /\ (Capacity[t] - Offset) % PageChunks = 0
    BY SizeAssumption
  <1> DEFINE room == Capacity[t] - Offset
             p == room \div PageChunks
  <1>2. room \in Nat BY <1>1
  <1>3. p \in Nat /\ p * PageChunks = room BY <1>1, <1>2, DivMod, ModZero
  <1>4. n <= p * PageChunks BY <1>1, <1>3
  <1> HIDE DEF p
  <1>5. RoundUp(n) <= p * PageChunks BY <1>3, <1>4, RoundUpLeast
  <1>6. RoundUp(n) \in Nat BY RoundUpNat
  <1> QED BY <1>1, <1>3, <1>5, <1>6

-----------------------------------------------------------------------------
(* Types of the constants and of the common updates *)

\* A file just opened for writing is a file.
LEMMA EmptyFile == <<>> \in File
  BY DEF File

\* A sequence of chunks is a file that exists.
LEMMA SomeFile ==
  ASSUME NEW s \in Seq(Content)
  PROVE  s \in File /\ s # NoFile
  BY ContentAssumption DEF File

\* Appending one chunk.
LEMMA AppendChunk ==
  ASSUME NEW s \in Seq(Content), NEW c \in Content
  PROVE  /\ Len(s) \in Nat
         /\ Append(s, c) \in Seq(Content)
         /\ Len(Append(s, c)) = Len(s) + 1
         /\ \A i \in 1 .. Len(s) : Append(s, c)[i] = s[i]
         /\ Append(s, c)[Len(s) + 1] = c
  OBVIOUS

\* The chunk after the first n of an image that fits is a cell of the flash.
LEMMA CellWithin ==
  ASSUME NEW n \in Nat, NEW r \in Nat, NEW t \in Targets,
         n < r, Offset + r <= Capacity[t]
  PROVE  Offset + n + 1 \in Cells /\ Offset + n + 1 = Offset + (n + 1)
  BY SizeAssumption DEF Cells

\* Writing a chunk to an open file.
LEMMA AppendFile ==
  ASSUME NEW file \in File, file # NoFile, NEW c \in Content
  PROVE  Append(file, c) \in File /\ Append(file, c) # NoFile
  <1>1. file \in Seq(Content) BY DEF File
  <1>2. Append(file, c) \in Seq(Content) BY <1>1
  <1> QED BY <1>2, SomeFile

\* The chunk an upload callback is given.
LEMMA UploadedChunk ==
  ASSUME TypeOK, UploadWrite
  PROVE  http.body[http.sent + 1] \in Content
  <1>1. http.body \in Uploads \union {<<>>} /\ http.sent \in Nat BY DEF TypeOK, Request
  <1>2. http.body \in Seq(Content)
    <2>1. CASE http.body \in Uploads BY <2>1, ContentAssumption
    <2>2. CASE http.body = <<>> BY <2>2
    <2> QED BY <1>1, <2>1, <2>2
  <1>3. http.sent < Len(http.body) BY DEF UploadWrite
  <1> QED BY <1>1, <1>2, <1>3

\* The size of a file.
LEMMA SizeNat ==
  ASSUME NEW file \in File
  PROVE  /\ Size(file) \in Nat
         /\ file # NoFile => file \in Seq(Content) /\ Size(file) = Len(file)
  BY DEF File, Size

\* A chunk of an image that is as long as it should be, padding included.
LEMMA ChunkOf ==
  ASSUME NEW file \in File, NEW size \in Nat, NEW i \in Nat \ {0},
         i \notin Size(file) + 1 .. size
  PROVE  Padded(file, size, i) \in Content
  <1>1. CASE i <= size
    <2>1. Size(file) \in Nat /\ i <= Size(file) BY <1>1, SizeNat
    <2>2. file # NoFile BY <2>1 DEF Size
    <2>3. file \in Seq(Content) /\ i \in 1 .. Len(file) BY <2>1, <2>2, SizeNat
    <2>4. file[i] \in Content BY <2>3
    <2> QED BY <1>1, <2>4 DEF Padded
  <1>2. CASE i > size BY <1>2, ContentAssumption DEF Padded
  <1> QED BY <1>1, <1>2

\* The values setup() starts from have their types.
LEMMA IdleTypes ==
  /\ NoJob \in Job
  /\ NoRequest \in Request
  /\ BootStatus \in JobStatus
  /\ NothingSaved \in [target : Targets \union {NoTarget}, flash : [Cells -> Content]]
  <1>1. NoJob \in Job BY DEF NoJob, Job, Kinds, Points, Verdicts
  <1>2. NoRequest \in Request BY DEF NoRequest, Request, States
  <1>3. BootStatus \in JobStatus BY DEF BootStatus, JobStatus, States, Messages
  <1>4. InitialFlash \in [Cells -> Content] BY ContentAssumption
  <1> QED BY <1>1, <1>2, <1>3, <1>4 DEF NothingSaved

\* Counting one more fault.
LEMMA FaultCount ==
  ASSUME faults \in 0 .. MaxFaults,
         UNCHANGED faults \/ (faults < MaxFaults /\ faults' = faults + 1)
  PROVE  faults' \in 0 .. MaxFaults
  BY SizeAssumption

\* scheduleJob sets the flag and queues the job, or loses the task.
LEMMA QueuedJob ==
  ASSUME NEW kind \in {"Probe", "Flash", "Restore"}, TypeOK, ScheduleJob(kind)
  PROVE  /\ job' = job \/ job' = [NoJob EXCEPT !.kind = kind, !.pc = "queued"]
         /\ job' \in Job
         /\ jobRunning' = TRUE
         /\ faults' \in 0 .. MaxFaults
         /\ jobs' \in 0 .. MaxJobs
  <1>1. job' = job \/ job' = [NoJob EXCEPT !.kind = kind, !.pc = "queued"]
    BY DEF ScheduleJob
  <1>8. job \in Job BY DEF TypeOK
  <1>2. job' \in Job
    <2>1. CASE job' = job BY <1>8, <2>1
    <2>2. CASE job' = [NoJob EXCEPT !.kind = kind, !.pc = "queued"]
      BY <2>2 DEF NoJob, Job, Points, Kinds, Verdicts
    <2> QED BY <1>1, <2>1, <2>2
  <1>3. faults \in 0 .. MaxFaults /\ jobs \in 0 .. MaxJobs BY DEF TypeOK
  <1>4. UNCHANGED faults \/ (faults < MaxFaults /\ faults' = faults + 1)
    BY DEF ScheduleJob, Fault
  <1>5. jobs < MaxJobs /\ jobs' = jobs + 1 BY DEF ScheduleJob
  <1>6. jobs' \in 0 .. MaxJobs BY <1>3, <1>5, SizeAssumption
  <1>7. jobRunning' = TRUE BY DEF ScheduleJob
  <1> QED BY <1>1, <1>2, <1>3, <1>4, <1>6, <1>7, FaultCount

\* The job after a chunk is a job.
LEMMA NextChunk ==
  ASSUME job \in Job
  PROVE  AfterChunk \in Job
  <1>1. job.chunk + 1 \in Nat /\ job.page + 1 \in Nat BY DEF Job
  <1>2. [job EXCEPT !.chunk = job.chunk + 1] \in Job BY <1>1 DEF Job
  <1>3. [job EXCEPT !.pc = "erase", !.page = job.page + 1, !.chunk = 0] \in Job
    BY <1>1 DEF Job, Points
  <1>4. [job EXCEPT !.pc = "verify"] \in Job BY DEF Job, Points
  <1> QED BY <1>2, <1>3, <1>4 DEF AfterChunk

-----------------------------------------------------------------------------
(* Edits of the flash *)

\* Writing a chunk keeps the type of the flash.
LEMMA PutType ==
  ASSUME TypeOK, NEW c \in Content, Put(c)
  PROVE  flash' \in [Targets -> [Cells -> Content]]
  BY DEF TypeOK, Put

\* Erasing a page keeps the type of a controller's flash.
LEMMA ErasedType ==
  ASSUME NEW f \in [Cells -> Content], NEW page
  PROVE  Erased(f, page) \in [Cells -> Content]
  BY ContentAssumption DEF Erased

\* Erasing a page keeps the type of the flash.
LEMMA EraseType ==
  ASSUME TypeOK, NEW page, flash' = [flash EXCEPT ![job.target] = Erased(@, page)]
  PROVE  flash' \in [Targets -> [Cells -> Content]]
  <1>1. flash \in [Targets -> [Cells -> Content]] BY DEF TypeOK
  <1>2. \A t \in Targets : Erased(flash[t], page) \in [Cells -> Content] BY <1>1, ErasedType
  <1> QED BY <1>1, <1>2

\* programPage writes a chunk of the image or padding.
LEMMA WantedType ==
  ASSUME TypeOK, ~ShortSource
  PROVE  Wanted \in Content
  <1>1. source \in File BY DEF TypeOK, source
  <1>2. /\ job.size \in Nat /\ job.page \in Nat /\ job.chunk \in Nat BY DEF TypeOK, Job
  <1>3. job.page * PageChunks \in Nat BY <1>2, SizeAssumption
  <1>4. job.page * PageChunks + job.chunk + 1 \in Nat \ {0} BY <1>2, <1>3
  <1> QED BY <1>1, <1>2, <1>4, ChunkOf DEF Wanted, ShortSource

\* The page being programmed lies between the offset and the end of the rounded
\* image.
LEMMA PageOfImage ==
  ASSUME TypeOK, JobShape, ProgramShape, job.pc \in {"erase", "write"}
  PROVE  /\ job.target \in Targets
         /\ RoundUp(job.size) \in Nat
         /\ Offset + RoundUp(job.size) <= Capacity[job.target]
         /\ \A c \in PageCells(job.page) : Offset < c /\ c <= Offset + RoundUp(job.size)
  <1>1. job.target \in Targets BY DEF JobShape, Attached, Programs
  <1>2. /\ Offset + RoundUp(job.size) <= Capacity[job.target]
        /\ job.page * PageChunks < job.size
    BY DEF ProgramShape, Programs
  <1>3. job.size \in Nat /\ job.page \in Nat BY DEF TypeOK, Job
  <1>4. RoundUp(job.size) \in Nat BY <1>3, RoundUpNat
  <1>5. job.page * PageChunks + PageChunks <= RoundUp(job.size) BY <1>2, <1>3, RoundUpPage
  <1>6. /\ Offset \in Nat /\ PageChunks \in Nat \ {0} BY SizeAssumption
  <1>7. job.page * PageChunks \in Nat BY <1>3, <1>6
  <1>8. \A c \in PageCells(job.page) :
          Offset < c /\ c <= Offset + RoundUp(job.size)
    BY <1>4, <1>5, <1>6, <1>7 DEF PageCells, Cell
  <1> QED BY <1>1, <1>2, <1>4, <1>8

\* The chunk being written is one of the page.
LEMMA ChunkInPage ==
  ASSUME TypeOK, ProgramShape, job.pc = "write"
  PROVE  Cell(job.page, job.chunk) \in PageCells(job.page)
  <1>1. job.page \in Nat /\ job.chunk \in Nat BY DEF TypeOK, Job
  <1>2. PageChunks \in Nat \ {0} /\ Offset \in Nat BY SizeAssumption
  <1>3. job.chunk < PageChunks BY DEF ProgramShape
  <1>4. job.page * PageChunks \in Nat BY <1>1, <1>2
  <1> QED BY <1>1, <1>2, <1>3, <1>4 DEF PageCells, Cell

\* An edit of the page being programmed leaves the bootloader, and what lies
\* past the flash, alone.
LEMMA PageEditKept ==
  ASSUME IInv, job.pc \in {"erase", "write"}, NEW g \in [Cells -> Content],
         \A c \in Cells \ PageCells(job.page) : g[c] = flash[job.target][c],
         flash' = [flash EXCEPT ![job.target] = g]
  PROVE  BootloaderKept'
  <1>0. TypeOK /\ JobShape /\ ProgramShape /\ BootloaderKept BY DEF IInv
  <1>1. /\ job.target \in Targets
        /\ RoundUp(job.size) \in Nat
        /\ Offset + RoundUp(job.size) <= Capacity[job.target]
        /\ \A c \in PageCells(job.page) : Offset < c /\ c <= Offset + RoundUp(job.size)
    BY <1>0, PageOfImage
  <1>2. flash \in [Targets -> [Cells -> Content]] BY <1>0 DEF TypeOK
  <1>3. Offset \in Nat /\ Capacity[job.target] \in Nat /\ MaxImage \in Nat
    BY <1>1, SizeAssumption
  <1>4. \A c \in Cells : c <= Offset \/ c > Capacity[job.target] => c \notin PageCells(job.page)
    BY <1>1, <1>3 DEF Cells
  <1>5. \A c \in Cells : c <= Offset \/ c > Capacity[job.target] => g[c] = InitialFlash[c]
    BY <1>0, <1>1, <1>4 DEF BootloaderKept
  <1>6. \A t \in Targets : flash'[t] = IF t = job.target THEN g ELSE flash[t] BY <1>2
  <1> QED BY <1>0, <1>5, <1>6 DEF BootloaderKept

\* An edit of the page being programmed leaves the backup good: the file covers
\* the page.
LEMMA PageEditRestores ==
  ASSUME IInv, job.pc \in {"erase", "write"}, NEW g \in [Cells -> Content],
         \A c \in Cells \ PageCells(job.page) : g[c] = flash[job.target][c],
         flash' = [flash EXCEPT ![job.target] = g],
         UNCHANGED <<backup, saved>>
  PROVE  BackupRestores'
  <1>0. TypeOK /\ JobShape /\ ProgramShape /\ BackupRestores BY DEF IInv
  <1>1. /\ job.target \in Targets
        /\ RoundUp(job.size) \in Nat
        /\ \A c \in PageCells(job.page) : Offset < c /\ c <= Offset + RoundUp(job.size)
    BY <1>0, PageOfImage
  <1>2. flash \in [Targets -> [Cells -> Content]] BY <1>0 DEF TypeOK
  <1> SUFFICES ASSUME saved.target # NoTarget
               PROVE  /\ backup # NoFile
                      /\ RoundUp(Len(backup)) = Len(backup)
                      /\ Overlay(flash'[saved.target], backup) = saved.flash
    BY DEF BackupRestores
  <1>3. /\ backup # NoFile
        /\ RoundUp(Len(backup)) = Len(backup)
        /\ Overlay(flash[saved.target], backup) = saved.flash
    BY <1>0 DEF BackupRestores
  <1>4. CASE saved.target # job.target
    <2>1. flash'[saved.target] = flash[saved.target] BY <1>0, <1>2, <1>4 DEF TypeOK
    <2> QED BY <1>3, <2>1
  <1>5. CASE saved.target = job.target
    <2>1. Len(backup) = RoundUp(job.size)
      BY <1>0, <1>3 DEF ProgramShape, Programs, TypeOK, Job
    <2>2. flash'[job.target] = g BY <1>1, <1>2
    <2>3. \A c \in Cells : ~(c > Offset /\ c <= Offset + Len(backup))
                             => g[c] = flash[job.target][c]
      BY <1>1, <2>1 DEF Cells
    <2>4. Overlay(g, backup) = Overlay(flash[job.target], backup) BY <2>3 DEF Overlay
    <2> QED BY <1>3, <1>5, <2>2, <2>4
  <1> QED BY <1>4, <1>5

\* Writing a chunk, whole or torn, edits only the page being programmed.
LEMMA PutInPage ==
  ASSUME TypeOK, JobShape, ProgramShape, job.pc = "write", NEW v \in Content, Put(v)
  PROVE  \E g \in [Cells -> Content] :
           /\ \A c \in Cells \ PageCells(job.page) : g[c] = flash[job.target][c]
           /\ flash' = [flash EXCEPT ![job.target] = g]
  <1> DEFINE g == [flash[job.target] EXCEPT ![Cell(job.page, job.chunk)] = v]
  <1>1. Cell(job.page, job.chunk) \in PageCells(job.page) BY ChunkInPage
  <1>2. job.target \in Targets BY DEF JobShape, Attached, Programs
  <1>3. flash[job.target] \in [Cells -> Content] BY <1>2 DEF TypeOK
  <1>4. g \in [Cells -> Content] BY <1>3
  <1>5. \A c \in Cells \ PageCells(job.page) : g[c] = flash[job.target][c] BY <1>1, <1>3
  <1>6. flash' = [flash EXCEPT ![job.target] = g] BY DEF Put
  <1> QED BY <1>4, <1>5, <1>6

\* Erasing edits only the page being programmed.
LEMMA EraseInPage ==
  ASSUME TypeOK, JobShape, job.pc \in Programs,
         flash' = [flash EXCEPT ![job.target] = Erased(@, job.page)]
  PROVE  \E g \in [Cells -> Content] :
           /\ \A c \in Cells \ PageCells(job.page) : g[c] = flash[job.target][c]
           /\ flash' = [flash EXCEPT ![job.target] = g]
  <1> DEFINE g == Erased(flash[job.target], job.page)
  <1>1. job.target \in Targets BY DEF JobShape, Attached
  <1>2. flash[job.target] \in [Cells -> Content] BY <1>1 DEF TypeOK
  <1>3. g \in [Cells -> Content] BY <1>2, ErasedType
  <1>4. \A c \in Cells \ PageCells(job.page) : g[c] = flash[job.target][c] BY DEF Erased
  <1>5. flash' = [flash EXCEPT ![job.target] = g] OBVIOUS
  <1> HIDE DEF g
  <1> QED BY <1>3, <1>4, <1>5

-----------------------------------------------------------------------------
(* Every action preserves the types *)

\* UPLOAD_FILE_START keeps the types.
LEMMA TypeUploadStart ==
  ASSUME IInv, NEW body \in Uploads, UploadStart(body)
  PROVE  TypeOK'
  <1>0. TypeOK /\ JobShape /\ SaveShape /\ ProgramShape BY DEF IInv
  <1>1. UNCHANGED <<jobRunning, job, backup, flash, connected, jobs, saved>>
    BY DEF UploadStart, statusVars, fileVars, boardVars
  <1>2. http' \in Request
    <2>1. http \in Request BY <1>0 DEF TypeOK
    <2> QED BY <2>1 DEF UploadStart, NoRequest, States, Request, File
  <1>3. gStatus' \in JobStatus
    <2>1. gStatus \in JobStatus BY <1>0 DEF TypeOK
    <2> QED BY <2>1 DEF UploadStart, SetStatus, States, Messages, JobStatus
  <1>4. uploadFailed' \in BOOLEAN
    <2>1. uploadFailed' \in {uploadFailed, TRUE, FALSE} BY DEF UploadStart, uploadVars
    <2>2. uploadFailed \in BOOLEAN BY <1>0 DEF TypeOK
    <2> QED BY <2>1, <2>2
  <1>5. uploadOpen' \in BOOLEAN
    <2>1. uploadOpen' \in {uploadOpen, TRUE, FALSE} BY DEF UploadStart, uploadVars
    <2>2. uploadOpen \in BOOLEAN BY <1>0 DEF TypeOK
    <2> QED BY <2>1, <2>2
  <1>6. firmware' \in File
    <2>1. firmware' \in {firmware, <<>>, NoFile} BY DEF UploadStart
    <2> QED BY <1>0, <2>1, EmptyFile DEF TypeOK, File
  <1>7. faults' \in 0 .. MaxFaults
    <2>1. faults \in 0 .. MaxFaults BY <1>0 DEF TypeOK
    <2>2. UNCHANGED faults \/ (faults < MaxFaults /\ faults' = faults + 1)
      BY DEF UploadStart, Fault
    <2> QED BY <2>1, <2>2, FaultCount
  <1> QED BY <1>0, <1>1, <1>2, <1>3, <1>4, <1>5, <1>6, <1>7 DEF TypeOK

\* UPLOAD_FILE_WRITE keeps the types.
LEMMA TypeUploadWrite ==
  ASSUME IInv, UploadWrite
  PROVE  TypeOK'
  <1>0. TypeOK /\ JobShape /\ SaveShape /\ ProgramShape BY DEF IInv
  <1>1. UNCHANGED <<gStatus, jobRunning, job, uploadOpen, backup, flash,
                    connected, jobs, saved>>
    BY DEF UploadWrite, statusVars, uploadVars, fileVars, boardVars
  <1>2. http' \in Request
    <2>1. http \in Request BY <1>0 DEF TypeOK
    <2> QED BY <2>1 DEF UploadWrite, Request, File
  <1>3. uploadFailed' \in BOOLEAN
    <2>1. uploadFailed \in BOOLEAN BY <1>0 DEF TypeOK
    <2> QED BY <2>1 DEF UploadWrite, WriteError
  <1>4. firmware' \in File
    <2>1. \/ firmware' = firmware
          \/ uploadOpen /\ firmware' = Append(firmware, http.body[http.sent + 1])
      BY DEF UploadWrite
    <2>2. firmware \in File BY <1>0 DEF TypeOK
    <2>3. http.body[http.sent + 1] \in Content BY <1>0, UploadedChunk
    <2>4. uploadOpen => firmware # NoFile BY <1>0 DEF JobShape
    <2> QED BY <2>1, <2>2, <2>3, <2>4, AppendFile
  <1>5. faults' \in 0 .. MaxFaults
    <2>1. faults \in 0 .. MaxFaults BY <1>0 DEF TypeOK
    <2>2. UNCHANGED faults \/ (faults < MaxFaults /\ faults' = faults + 1)
      BY DEF UploadWrite, Fault
    <2> QED BY <2>1, <2>2, FaultCount
  <1> QED BY <1>0, <1>1, <1>2, <1>3, <1>4, <1>5 DEF TypeOK

\* UPLOAD_FILE_END keeps the types.
LEMMA TypeUploadEnd ==
  ASSUME IInv, UploadEnd
  PROVE  TypeOK'
  <1>0. TypeOK /\ JobShape /\ SaveShape /\ ProgramShape BY DEF IInv
  <1>1. UNCHANGED <<gStatus, jobRunning, job, uploadFailed, firmware, backup,
                    flash, connected, faults, jobs, saved>>
    BY DEF UploadEnd, statusVars, uploadVars, fileVars, boardVars
  <1>2. http' \in Request
    <2>1. http \in Request BY <1>0 DEF TypeOK
    <2> QED BY <2>1 DEF UploadEnd, Request, File
  <1>3. uploadOpen' \in BOOLEAN
    <2>1. uploadOpen \in BOOLEAN BY <1>0 DEF TypeOK
    <2> QED BY <2>1 DEF UploadEnd, UploadsIgnored
  <1> QED BY <1>0, <1>1, <1>2, <1>3 DEF TypeOK

\* UPLOAD_FILE_ABORTED keeps the types.
LEMMA TypeUploadAbort ==
  ASSUME IInv, UploadAbort
  PROVE  TypeOK'
  <1>0. TypeOK /\ JobShape /\ SaveShape /\ ProgramShape BY DEF IInv
  <1>1. UNCHANGED <<gStatus, jobRunning, job, firmware, backup, flash, connected,
                    faults, jobs, saved>>
    BY DEF UploadAbort, statusVars, fileVars, boardVars
  <1>2. http' \in Request BY IdleTypes DEF UploadAbort
  <1>3. uploadOpen' \in BOOLEAN
    <2>1. uploadOpen \in BOOLEAN BY <1>0 DEF TypeOK
    <2> QED BY <2>1 DEF UploadAbort, UploadsIgnored
  <1>4. uploadFailed' \in BOOLEAN
    <2>1. uploadFailed \in BOOLEAN BY <1>0 DEF TypeOK
    <2> QED BY <2>1 DEF UploadAbort, UploadsIgnored
  <1> QED BY <1>0, <1>1, <1>2, <1>3, <1>4 DEF TypeOK

\* finishUpload's 409 keeps the types.
LEMMA TypeFinishBusy ==
  ASSUME IInv, FinishBusy
  PROVE  TypeOK'
  <1>0. TypeOK /\ JobShape /\ SaveShape /\ ProgramShape BY DEF IInv
  <1>1. UNCHANGED <<gStatus, jobRunning, job, uploadFailed, uploadOpen, firmware,
                    backup, flash, connected, faults, jobs, saved>>
    BY DEF FinishBusy, statusVars, uploadVars, fileVars, boardVars
  <1>2. http' \in Request BY IdleTypes DEF FinishBusy
  <1> QED BY <1>0, <1>1, <1>2 DEF TypeOK

\* finishUpload of a bad file keeps the types.
LEMMA TypeFinishRejected ==
  ASSUME IInv, FinishRejected
  PROVE  TypeOK'
  <1>0. TypeOK /\ JobShape /\ SaveShape /\ ProgramShape BY DEF IInv
  <1>1. UNCHANGED <<jobRunning, job, uploadFailed, uploadOpen, backup, flash,
                    connected, faults, jobs, saved>>
    BY DEF FinishRejected, statusVars, uploadVars, fileVars, boardVars
  <1>2. http' \in Request BY IdleTypes DEF FinishRejected
  <1>3. firmware' \in File
    <2>1. firmware \in File BY <1>0 DEF TypeOK
    <2> QED BY <2>1 DEF FinishRejected, File, Request
  <1>4. gStatus' \in JobStatus
    <2>1. gStatus \in JobStatus BY <1>0 DEF TypeOK
    <2> QED BY <2>1 DEF FinishRejected, SetStatus, States, Messages, JobStatus
  <1> QED BY <1>0, <1>1, <1>2, <1>3, <1>4 DEF TypeOK

\* finishUpload of a good file keeps the types.
LEMMA TypeFinishAccepted ==
  ASSUME IInv, FinishAccepted
  PROVE  TypeOK'
  <1>0. TypeOK /\ JobShape /\ SaveShape /\ ProgramShape BY DEF IInv
  <1>1. UNCHANGED <<uploadFailed, uploadOpen, firmware, backup, flash, connected,
                    saved>>
    BY DEF FinishAccepted, uploadVars, fileVars, boardVars
  <1>2. /\ job' \in Job /\ jobRunning' = TRUE
        /\ faults' \in 0 .. MaxFaults /\ jobs' \in 0 .. MaxJobs
    BY <1>0, QueuedJob DEF FinishAccepted
  <1>3. http' \in Request BY IdleTypes DEF FinishAccepted
  <1>4. gStatus' \in JobStatus
    <2>1. gStatus' = [BootStatus EXCEPT !.state = "Probing", !.imageSize = Len(firmware),
                                        !.foreign = NamesForeign(firmware)]
      BY DEF FinishAccepted
    <2>2. firmware \in File /\ firmware # NoFile
      BY <1>0 DEF TypeOK, FinishAccepted, Acceptable
    <2>3. Len(firmware) \in Nat BY <2>2, SizeNat
    <2>4. NamesForeign(firmware) \in BOOLEAN BY DEF NamesForeign, FirstIsForeign
    <2> QED BY <2>1, <2>3, <2>4, IdleTypes DEF JobStatus, States
  <1> QED BY <1>0, <1>1, <1>2, <1>3, <1>4 DEF TypeOK

\* POST /api/flash keeps the types.
LEMMA TypeFlashRequest ==
  ASSUME IInv, FlashRequest
  PROVE  TypeOK'
  <1>0. TypeOK /\ JobShape /\ SaveShape /\ ProgramShape BY DEF IInv
  <1>1. UNCHANGED <<gStatus, uploadFailed, uploadOpen, http, firmware, backup,
                    flash, connected, saved>>
    BY DEF FlashRequest, statusVars, uploadVars, fileVars, boardVars
  <1>2. /\ job' \in Job /\ jobRunning' = TRUE
        /\ faults' \in 0 .. MaxFaults /\ jobs' \in 0 .. MaxJobs
    BY <1>0, QueuedJob DEF FlashRequest
  <1> QED BY <1>0, <1>1, <1>2 DEF TypeOK

\* POST /api/restore keeps the types.
LEMMA TypeRestoreRequest ==
  ASSUME IInv, RestoreRequest
  PROVE  TypeOK'
  <1>0. TypeOK /\ JobShape /\ SaveShape /\ ProgramShape BY DEF IInv
  <1>1. UNCHANGED <<gStatus, uploadFailed, uploadOpen, http, firmware, backup,
                    flash, connected, saved>>
    BY DEF RestoreRequest, statusVars, uploadVars, fileVars, boardVars
  <1>2. /\ job' \in Job /\ jobRunning' = TRUE
        /\ faults' \in 0 .. MaxFaults /\ jobs' \in 0 .. MaxJobs
    BY <1>0, QueuedJob DEF RestoreRequest
  <1> QED BY <1>0, <1>1, <1>2 DEF TypeOK

\* The start of sendStatus keeps the types.
LEMMA TypeStatusBegin ==
  ASSUME IInv, StatusBegin
  PROVE  TypeOK'
  <1>0. TypeOK /\ JobShape /\ SaveShape /\ ProgramShape BY DEF IInv
  <1>1. UNCHANGED <<gStatus, jobRunning, job, uploadFailed, uploadOpen, firmware,
                    backup, flash, connected, faults, jobs, saved>>
    BY DEF StatusBegin, statusVars, uploadVars, fileVars, boardVars
  <1>2. http' \in Request
    <2>1. http' = [NoRequest EXCEPT !.req = "status", !.seen = gStatus.state] BY DEF StatusBegin
    <2>2. gStatus.state \in States BY <1>0 DEF TypeOK, JobStatus
    <2> QED BY <2>1, <2>2, IdleTypes DEF Request
  <1> QED BY <1>0, <1>1, <1>2 DEF TypeOK

\* The end of sendStatus keeps the types.
LEMMA TypeStatusEnd ==
  ASSUME IInv, StatusEnd
  PROVE  TypeOK'
  <1>0. TypeOK /\ JobShape /\ SaveShape /\ ProgramShape BY DEF IInv
  <1>1. UNCHANGED <<gStatus, jobRunning, job, uploadFailed, uploadOpen, firmware,
                    backup, flash, connected, faults, jobs, saved>>
    BY DEF StatusEnd, statusVars, uploadVars, fileVars, boardVars
  <1>2. http' \in Request BY IdleTypes DEF StatusEnd
  <1> QED BY <1>0, <1>1, <1>2 DEF TypeOK

\* The start of executeJob keeps the types.
LEMMA TypeStart ==
  ASSUME IInv, Start
  PROVE  TypeOK'
  <1>0. TypeOK /\ JobShape /\ SaveShape /\ ProgramShape BY DEF IInv
  <1>1. UNCHANGED <<jobRunning, uploadFailed, uploadOpen, http, firmware, backup,
                    flash, connected, faults, jobs, saved>>
    BY DEF Start, statusVars, uploadVars, fileVars, boardVars
  <1>2. gStatus' \in JobStatus
    <2>1. gStatus \in JobStatus BY <1>0 DEF TypeOK
    <2> QED BY <2>1 DEF Start, SetStatus, States, Messages, JobStatus
  <1>3. job' \in Job
    <2>1. job' = [job EXCEPT !.pc = "attach", !.expected = gStatus.uid] BY DEF Start
    <2>2. job \in Job /\ gStatus.uid \in Targets \union {NoTarget} BY <1>0 DEF TypeOK, JobStatus
    <2> QED BY <2>1, <2>2 DEF Job, Points
  <1> QED BY <1>0, <1>1, <1>2, <1>3 DEF TypeOK

\* Attach and the checks after it keeps the types.
LEMMA TypeAttach ==
  ASSUME IInv, Attach
  PROVE  TypeOK'
  <1>0. TypeOK /\ JobShape /\ SaveShape /\ ProgramShape BY DEF IInv
  <1>1. UNCHANGED <<jobRunning, uploadFailed, uploadOpen, http, firmware, backup,
                    flash, connected, faults, jobs, saved>>
    BY DEF Attach, statusVars, uploadVars, fileVars, boardVars
  <1>2. gStatus' \in JobStatus
    <2>1. gStatus' = [gStatus EXCEPT !.uid = connected] BY DEF Attach
    <2> QED BY <1>0, <2>1 DEF TypeOK, JobStatus
  <1>3. job' \in Job
    <2>1. job.kind \in {"Probe", "Flash", "Restore"}
      BY <1>0 DEF Attach, At, TypeOK, Job, Kinds, JobShape
    <2>2. PICK pc \in Points, verdict \in Verdicts :
            job' = [job EXCEPT !.target = connected, !.pc = pc, !.verdict = verdict]
      BY <2>1 DEF Attach, Points, Verdicts
    <2>3. job \in Job /\ connected \in Targets \union {NoTarget} BY <1>0 DEF TypeOK
    <2> QED BY <2>2, <2>3 DEF Job
  <1> QED BY <1>0, <1>1, <1>2, <1>3 DEF TypeOK

\* A failed attach keeps the types.
LEMMA TypeAttachFails ==
  ASSUME IInv, AttachFails
  PROVE  TypeOK'
  <1>0. TypeOK /\ JobShape /\ SaveShape /\ ProgramShape BY DEF IInv
  <1>1. UNCHANGED <<gStatus, jobRunning, uploadFailed, uploadOpen, http, firmware,
                    backup, flash, connected, jobs, saved>>
    BY DEF AttachFails, statusVars, uploadVars, fileVars, boardVars
  <1>2. job' \in Job
    <2>1. job \in Job BY <1>0 DEF TypeOK
    <2> QED BY <2>1 DEF AttachFails, Conclude, Points, Verdicts, Job
  <1>3. faults' \in 0 .. MaxFaults
    <2>1. faults \in 0 .. MaxFaults BY <1>0 DEF TypeOK
    <2>2. UNCHANGED faults \/ (faults < MaxFaults /\ faults' = faults + 1)
      BY DEF AttachFails, Fault
    <2> QED BY <2>1, <2>2, FaultCount
  <1> QED BY <1>0, <1>1, <1>2, <1>3 DEF TypeOK

\* inspectApplication keeps the types.
LEMMA TypeInspect ==
  ASSUME IInv, Inspect
  PROVE  TypeOK'
  <1>0. TypeOK /\ JobShape /\ SaveShape /\ ProgramShape BY DEF IInv
  <1>1. UNCHANGED <<jobRunning, uploadFailed, uploadOpen, http, firmware, backup,
                    flash, connected, jobs, saved>>
    BY DEF Inspect, statusVars, uploadVars, fileVars, boardVars
  <1>2. gStatus' \in JobStatus
    <2>1. \A f : Identical(f) \in BOOLEAN BY DEF Identical
    <2>2. PICK same \in BOOLEAN : gStatus' = [gStatus EXCEPT !.complete = TRUE, !.identical = same]
      BY <2>1 DEF Inspect, Compared
    <2> QED BY <1>0, <2>2 DEF TypeOK, JobStatus
  <1>3. job' \in Job
    <2>1. job \in Job BY <1>0 DEF TypeOK
    <2> QED BY <2>1 DEF Inspect, Conclude, Points, Verdicts, Job
  <1>4. faults' \in 0 .. MaxFaults
    <2>1. faults \in 0 .. MaxFaults BY <1>0 DEF TypeOK
    <2>2. UNCHANGED faults \/ (faults < MaxFaults /\ faults' = faults + 1)
      BY DEF Inspect, LinkWorks
    <2> QED BY <2>1, <2>2, FaultCount
  <1> QED BY <1>0, <1>1, <1>2, <1>3, <1>4 DEF TypeOK

\* A failed inspectApplication keeps the types.
LEMMA TypeInspectFails ==
  ASSUME IInv, InspectFails
  PROVE  TypeOK'
  <1>0. TypeOK /\ JobShape /\ SaveShape /\ ProgramShape BY DEF IInv
  <1>1. UNCHANGED <<gStatus, jobRunning, uploadFailed, uploadOpen, http, firmware,
                    backup, flash, connected, jobs, saved>>
    BY DEF InspectFails, statusVars, uploadVars, fileVars, boardVars
  <1>2. job' \in Job
    <2>1. job \in Job BY <1>0 DEF TypeOK
    <2> QED BY <2>1 DEF InspectFails, Conclude, Points, Verdicts, Job
  <1>3. faults' \in 0 .. MaxFaults
    <2>1. faults \in 0 .. MaxFaults BY <1>0 DEF TypeOK
    <2>2. UNCHANGED faults \/ (faults < MaxFaults /\ faults' = faults + 1)
      BY DEF InspectFails, LinkFails, Fault
    <2> QED BY <2>1, <2>2, FaultCount
  <1> QED BY <1>0, <1>1, <1>2, <1>3 DEF TypeOK

\* The opening of the backup file keeps the types.
LEMMA TypeOpenBackup ==
  ASSUME IInv, OpenBackup
  PROVE  TypeOK'
  <1>0. TypeOK /\ JobShape /\ SaveShape /\ ProgramShape BY DEF IInv
  <1>1. UNCHANGED <<gStatus, jobRunning, uploadFailed, uploadOpen, http, firmware,
                    flash, connected, jobs>>
    BY DEF OpenBackup, statusVars, uploadVars, fileVars, boardVars
  <1>2. job' \in Job
    <2>1. job \in Job BY <1>0 DEF TypeOK
    <2> QED BY <2>1 DEF OpenBackup, Goto, Points, Conclude, Verdicts, Job
  <1>3. backup' \in File
    <2>1. backup' \in {backup, <<>>} BY DEF OpenBackup
    <2> QED BY <1>0, <2>1, EmptyFile DEF TypeOK
  <1>4. saved' \in [target : Targets \union {NoTarget}, flash : [Cells -> Content]]
    <2>1. saved' \in {saved, NothingSaved} BY DEF OpenBackup
    <2> QED BY <1>0, <2>1, IdleTypes DEF TypeOK
  <1>5. faults' \in 0 .. MaxFaults
    <2>1. faults \in 0 .. MaxFaults BY <1>0 DEF TypeOK
    <2>2. UNCHANGED faults \/ (faults < MaxFaults /\ faults' = faults + 1)
      BY DEF OpenBackup, Fault
    <2> QED BY <2>1, <2>2, FaultCount
  <1> QED BY <1>0, <1>1, <1>2, <1>3, <1>4, <1>5 DEF TypeOK

\* One chunk of backup keeps the types.
LEMMA TypeSaveChunk ==
  ASSUME IInv, SaveChunk
  PROVE  TypeOK'
  <1>0. TypeOK /\ JobShape /\ SaveShape /\ ProgramShape BY DEF IInv
  <1>1. UNCHANGED <<jobRunning, job, uploadFailed, uploadOpen, http, firmware,
                    flash, connected, jobs, saved>>
    BY DEF SaveChunk, statusVars, uploadVars, fileVars, boardVars
  <1>2. gStatus' \in JobStatus
    <2>1. gStatus \in JobStatus BY <1>0 DEF TypeOK
    <2> QED BY <2>1 DEF SaveChunk, SetStatus, States, Messages, JobStatus
  <1>3. backup' \in File
    <2>1. /\ job.pc = "save"
          /\ Len(backup) < RoundUp(gStatus.imageSize)
          /\ backup' = Append(backup, flash[job.target][Offset + Len(backup) + 1])
      BY DEF SaveChunk, At
    <2>2. /\ job.target \in Targets
          /\ Offset + RoundUp(gStatus.imageSize) <= Capacity[job.target]
          /\ backup \in File /\ backup # NoFile
          /\ gStatus.imageSize \in Nat
          /\ flash[job.target] \in [Cells -> Content]
      BY <1>0, <2>1 DEF JobShape, Attached, SaveShape, TypeOK, JobStatus
    <2>3. /\ Capacity[job.target] \in Nat /\ Capacity[job.target] <= Offset + MaxImage
          /\ Offset \in Nat /\ MaxImage \in Nat
      BY <2>2, SizeAssumption
    <2>4. RoundUp(gStatus.imageSize) \in Nat /\ Len(backup) \in Nat
      BY <2>2, RoundUpNat, SizeNat
    <2>5. Offset + Len(backup) + 1 \in Cells BY <2>1, <2>2, <2>3, <2>4 DEF Cells
    <2> QED BY <2>1, <2>2, <2>5, AppendFile
  <1>4. faults' \in 0 .. MaxFaults
    <2>1. faults \in 0 .. MaxFaults BY <1>0 DEF TypeOK
    <2>2. UNCHANGED faults \/ (faults < MaxFaults /\ faults' = faults + 1)
      BY DEF SaveChunk, LinkWorks
    <2> QED BY <2>1, <2>2, FaultCount
  <1> QED BY <1>0, <1>1, <1>2, <1>3, <1>4 DEF TypeOK

\* A failed backup keeps the types.
LEMMA TypeSaveFails ==
  ASSUME IInv, SaveFails
  PROVE  TypeOK'
  <1>0. TypeOK /\ JobShape /\ SaveShape /\ ProgramShape BY DEF IInv
  <1>1. UNCHANGED <<gStatus, jobRunning, uploadFailed, uploadOpen, http, firmware,
                    backup, flash, connected, jobs, saved>>
    BY DEF SaveFails, statusVars, uploadVars, fileVars, boardVars
  <1>2. job' \in Job
    <2>1. job \in Job BY <1>0 DEF TypeOK
    <2> QED BY <2>1 DEF SaveFails, Conclude, Points, Verdicts, Job
  <1>3. faults' \in 0 .. MaxFaults
    <2>1. faults \in 0 .. MaxFaults BY <1>0 DEF TypeOK
    <2>2. UNCHANGED faults \/ (faults < MaxFaults /\ faults' = faults + 1)
      BY DEF SaveFails, LinkFails, Fault
    <2> QED BY <2>1, <2>2, FaultCount
  <1> QED BY <1>0, <1>1, <1>2, <1>3 DEF TypeOK

\* The end of backup keeps the types.
LEMMA TypeBackupDone ==
  ASSUME IInv, BackupDone
  PROVE  TypeOK'
  <1>0. TypeOK /\ JobShape /\ SaveShape /\ ProgramShape BY DEF IInv
  <1>1. UNCHANGED <<gStatus, jobRunning, uploadFailed, uploadOpen, http, firmware,
                    backup, flash, connected, faults, jobs>>
    BY DEF BackupDone, statusVars, uploadVars, fileVars, boardVars
  <1>2. job' \in Job
    <2>1. job' = [job EXCEPT !.pc = "unlock", !.source = "firmware", !.size = gStatus.imageSize]
      BY DEF BackupDone
    <2>2. job \in Job /\ gStatus.imageSize \in Nat BY <1>0 DEF TypeOK, JobStatus
    <2> QED BY <2>1, <2>2 DEF Job, Points
  <1>3. saved' \in [target : Targets \union {NoTarget}, flash : [Cells -> Content]]
    <2>1. saved' = [target |-> job.target, flash |-> flash[job.target]] /\ job.pc = "save"
      BY DEF BackupDone, At
    <2>2. job.target \in Targets BY <1>0, <2>1 DEF JobShape, Attached
    <2> QED BY <1>0, <2>1, <2>2 DEF TypeOK
  <1> QED BY <1>0, <1>1, <1>2, <1>3 DEF TypeOK

\* The checks of restoreBackup keeps the types.
LEMMA TypeBeginRestore ==
  ASSUME IInv, BeginRestore
  PROVE  TypeOK'
  <1>0. TypeOK /\ JobShape /\ SaveShape /\ ProgramShape BY DEF IInv
  <1>1. UNCHANGED <<jobRunning, uploadFailed, uploadOpen, http, firmware, backup,
                    flash, connected, faults, jobs, saved>>
    BY DEF BeginRestore, statusVars, uploadVars, fileVars, boardVars
  <1>2. job' \in Job
    <2>1. \/ /\ job' = [job EXCEPT !.pc = "unlock", !.source = "backup", !.size = Len(backup),
                                  !.page = 0, !.chunk = 0]
             /\ backup # NoFile
          \/ job' = [job EXCEPT !.pc = "report", !.verdict = "failed"]
      BY DEF BeginRestore, Conclude
    <2>2. job \in Job /\ backup \in File BY <1>0 DEF TypeOK
    <2>3. CASE /\ job' = [job EXCEPT !.pc = "unlock", !.source = "backup",
                                     !.size = Len(backup), !.page = 0, !.chunk = 0]
               /\ backup # NoFile
      <3>1. Len(backup) \in Nat BY <2>2, <2>3, SizeNat
      <3> QED BY <2>2, <2>3, <3>1 DEF Job, Points
    <2>4. CASE job' = [job EXCEPT !.pc = "report", !.verdict = "failed"]
      BY <2>2, <2>4 DEF Job, Points, Verdicts
    <2> QED BY <2>1, <2>3, <2>4
  <1>3. gStatus' \in JobStatus
    <2>1. gStatus \in JobStatus BY <1>0 DEF TypeOK
    <2> QED BY <2>1 DEF BeginRestore, SetStatus, States, Messages, JobStatus
  <1> QED BY <1>0, <1>1, <1>2, <1>3 DEF TypeOK

\* The end of a job and a progress message keep their types.
LEMMA ConcludeTyped ==
  ASSUME job \in Job, NEW v \in Verdicts, Conclude(v)
  PROVE  job' \in Job
  <1>1. "report" \in Points BY DEF Points
  <1> QED BY <1>1 DEF Conclude, Job

LEMMA ProgressTyped ==
  ASSUME gStatus \in JobStatus, NEW s \in States, Progress(s)
  PROVE  gStatus' \in JobStatus
  <1>1. "Restoring" \in States /\ "" \in Messages BY DEF States, Messages
  <1>2. PICK t \in States : SetStatus(t, "") BY <1>1 DEF Progress
  <1> QED BY <1>1, <1>2 DEF SetStatus, JobStatus

\* unlockFlash keeps the types.
LEMMA TypeUnlock ==
  ASSUME IInv, Unlock
  PROVE  TypeOK'
  <1>0. TypeOK /\ JobShape /\ SaveShape /\ ProgramShape BY DEF IInv
  <1>1. UNCHANGED <<gStatus, jobRunning, uploadFailed, uploadOpen, http, firmware,
                    backup, flash, connected, jobs, saved>>
    BY DEF Unlock, statusVars, uploadVars, fileVars, boardVars
  <1>2. job' \in Job
    <2>1. job \in Job BY <1>0 DEF TypeOK
    <2> QED BY <2>1 DEF Unlock, Goto, Points, Job
  <1>3. faults' \in 0 .. MaxFaults
    <2>1. faults \in 0 .. MaxFaults BY <1>0 DEF TypeOK
    <2>2. UNCHANGED faults \/ (faults < MaxFaults /\ faults' = faults + 1)
      BY DEF Unlock, LinkWorks
    <2> QED BY <2>1, <2>2, FaultCount
  <1> QED BY <1>0, <1>1, <1>2, <1>3 DEF TypeOK

\* erasePage keeps the types.
LEMMA TypeErasePage ==
  ASSUME IInv, ErasePage
  PROVE  TypeOK'
  <1>0. TypeOK /\ JobShape /\ SaveShape /\ ProgramShape BY DEF IInv
  <1>1. UNCHANGED <<jobRunning, uploadFailed, uploadOpen, http, firmware, backup,
                    connected, jobs, saved>>
    BY DEF ErasePage, statusVars, uploadVars, fileVars, boardVars
  <1>2. gStatus' \in JobStatus
    <2>1. gStatus \in JobStatus BY <1>0 DEF TypeOK
    <2>2. PICK s \in States : Progress(s) BY DEF ErasePage, States
    <2> QED BY <2>1, <2>2, ProgressTyped
  <1>3. job' \in Job
    <2>1. job \in Job BY <1>0 DEF TypeOK
    <2> QED BY <2>1 DEF ErasePage, Points, Job
  <1>4. flash' \in [Targets -> [Cells -> Content]]
    <2>1. flash' = [flash EXCEPT ![job.target] = Erased(@, job.page)] BY DEF ErasePage
    <2> QED BY <1>0, <2>1, EraseType
  <1>5. faults' \in 0 .. MaxFaults
    <2>1. faults \in 0 .. MaxFaults BY <1>0 DEF TypeOK
    <2>2. UNCHANGED faults \/ (faults < MaxFaults /\ faults' = faults + 1)
      BY DEF ErasePage, LinkWorks
    <2> QED BY <2>1, <2>2, FaultCount
  <1> QED BY <1>0, <1>1, <1>2, <1>3, <1>4, <1>5 DEF TypeOK

\* One chunk of programPage keeps the types.
LEMMA TypeWriteChunk ==
  ASSUME IInv, WriteChunk
  PROVE  TypeOK'
  <1>0. TypeOK /\ JobShape /\ SaveShape /\ ProgramShape BY DEF IInv
  <1>1. UNCHANGED <<jobRunning, uploadFailed, uploadOpen, http, firmware, backup,
                    connected, jobs, saved>>
    BY DEF WriteChunk, statusVars, uploadVars, fileVars, boardVars
  <1>2. gStatus' \in JobStatus
    <2>1. gStatus \in JobStatus BY <1>0 DEF TypeOK
    <2>2. PICK s \in States : Progress(s) BY DEF WriteChunk, States
    <2> QED BY <2>1, <2>2, ProgressTyped
  <1>3. job' \in Job BY <1>0, NextChunk DEF WriteChunk, TypeOK
  <1>4. flash' \in [Targets -> [Cells -> Content]]
    <2>1. PICK c \in {Wanted, Corrupt} : Put(c) BY DEF WriteChunk
    <2>2. c \in Content BY <1>0, <2>1, WantedType, ContentAssumption DEF WriteChunk
    <2> QED BY <1>0, <2>1, <2>2, PutType
  <1>5. faults' \in 0 .. MaxFaults
    <2>1. faults \in 0 .. MaxFaults BY <1>0 DEF TypeOK
    <2>2. UNCHANGED faults \/ (faults < MaxFaults /\ faults' = faults + 1)
      BY DEF WriteChunk, LinkWorks, Fault
    <2> QED BY <2>1, <2>2, FaultCount
  <1> QED BY <1>0, <1>1, <1>2, <1>3, <1>4, <1>5 DEF TypeOK

\* verify keeps the types.
LEMMA TypeVerify ==
  ASSUME IInv, Verify
  PROVE  TypeOK'
  <1>0. TypeOK /\ JobShape /\ SaveShape /\ ProgramShape BY DEF IInv
  <1>1. UNCHANGED <<jobRunning, uploadFailed, uploadOpen, http, firmware, backup,
                    flash, connected, jobs, saved>>
    BY DEF Verify, statusVars, uploadVars, fileVars, boardVars
  <1>2. gStatus' \in JobStatus
    <2>1. gStatus \in JobStatus BY <1>0 DEF TypeOK
    <2>2. Progress("Verifying") /\ "Verifying" \in States BY DEF Verify, States
    <2> QED BY <2>1, <2>2, ProgressTyped
  <1>3. job' \in Job
    <2>1. job \in Job BY <1>0 DEF TypeOK
    <2>2. PICK v \in {"previous", "programmed", "original"} : Conclude(v) BY DEF Verify
    <2>3. v \in Verdicts BY DEF Verdicts
    <2> QED BY <2>1, <2>2, <2>3, ConcludeTyped
  <1>4. faults' \in 0 .. MaxFaults
    <2>1. faults \in 0 .. MaxFaults BY <1>0 DEF TypeOK
    <2>2. UNCHANGED faults \/ (faults < MaxFaults /\ faults' = faults + 1)
      BY DEF Verify, LinkWorks
    <2> QED BY <2>1, <2>2, FaultCount
  <1> QED BY <1>0, <1>1, <1>2, <1>3, <1>4 DEF TypeOK

\* A failure in program or verify keeps the types.
LEMMA TypeProgramStepFails ==
  ASSUME IInv, ProgramStepFails
  PROVE  TypeOK'
  <1>0. TypeOK /\ JobShape /\ SaveShape /\ ProgramShape BY DEF IInv
  <1>1. UNCHANGED <<gStatus, jobRunning, uploadFailed, uploadOpen, http, firmware,
                    backup, connected, jobs, saved>>
    BY DEF ProgramStepFails, statusVars, uploadVars, fileVars, boardVars
  <1>2. job' \in Job
    <2>1. job \in Job BY <1>0 DEF TypeOK
    <2>2. Goto("restore") \/ Conclude("failed") BY DEF ProgramStepFails, UpdateFails
    <2>3. "failed" \in Verdicts /\ "restore" \in Points BY DEF Verdicts, Points
    <2>4. CASE Goto("restore") BY <2>1, <2>3, <2>4 DEF Goto, Job
    <2>5. CASE Conclude("failed") BY <2>1, <2>3, <2>5, ConcludeTyped
    <2> QED BY <2>2, <2>4, <2>5
  <1>3. flash' \in [Targets -> [Cells -> Content]]
    <2>1. \/ UNCHANGED flash
          \/ flash' = [flash EXCEPT ![job.target] = Erased(@, job.page)]
          \/ ~ShortSource /\ \E c \in {Wanted, Corrupt} : Put(c)
      BY DEF ProgramStepFails, ProgramFails
    <2>2. CASE UNCHANGED flash BY <1>0, <2>2 DEF TypeOK
    <2>3. CASE flash' = [flash EXCEPT ![job.target] = Erased(@, job.page)] BY <1>0, <2>3, EraseType
    <2>4. CASE ~ShortSource /\ \E c \in {Wanted, Corrupt} : Put(c)
      BY <1>0, <2>4, WantedType, ContentAssumption, PutType
    <2> QED BY <2>1, <2>2, <2>3, <2>4
  <1>4. faults' \in 0 .. MaxFaults
    <2>1. faults \in 0 .. MaxFaults BY <1>0 DEF TypeOK
    <2>2. UNCHANGED faults \/ (faults < MaxFaults /\ faults' = faults + 1)
      BY DEF ProgramStepFails, ProgramFails, LinkFails, Fault
    <2> QED BY <2>1, <2>2, FaultCount
  <1> QED BY <1>0, <1>1, <1>2, <1>3, <1>4 DEF TypeOK

\* The last setStatus of executeJob keeps the types.
LEMMA TypeReport ==
  ASSUME IInv, Report
  PROVE  TypeOK'
  <1>0. TypeOK /\ JobShape /\ SaveShape /\ ProgramShape BY DEF IInv
  <1>1. UNCHANGED <<jobRunning, uploadFailed, uploadOpen, http, firmware, backup,
                    flash, connected, faults, jobs, saved>>
    BY DEF Report, statusVars, uploadVars, fileVars, boardVars
  <1>2. gStatus' \in JobStatus
    <2>1. job.verdict \in Verdicts \ {""} BY <1>0 DEF Report, At, TypeOK, Job, JobShape
    <2>2. PICK s \in States, m \in Messages : SetStatus(s, m)
      <3>1. CASE job.verdict = "ready" BY <3>1 DEF Report, States, Messages
      <3>2. CASE job.verdict = "current" BY <3>2 DEF Report, States, Messages
      <3>3. CASE job.verdict = "programmed" BY <3>3 DEF Report, States, Messages
      <3>4. CASE job.verdict = "previous" BY <3>4 DEF Report, States, Messages
      <3>5. CASE job.verdict = "original" BY <3>5 DEF Report, States, Messages
      <3>6. CASE job.verdict = "failed" BY <3>6 DEF Report, States, Messages
      <3> QED BY <2>1, <3>1, <3>2, <3>3, <3>4, <3>5, <3>6 DEF Verdicts
    <2> QED BY <1>0, <2>2 DEF SetStatus, TypeOK, JobStatus
  <1>3. job' \in Job
    <2>1. job \in Job BY <1>0 DEF TypeOK
    <2> QED BY <2>1 DEF Report, Goto, Points, Job
  <1> QED BY <1>0, <1>1, <1>2, <1>3 DEF TypeOK

\* The end of executeJob keeps the types.
LEMMA TypeRelease ==
  ASSUME IInv, Release
  PROVE  TypeOK'
  <1>0. TypeOK /\ JobShape /\ SaveShape /\ ProgramShape BY DEF IInv
  <1>1. UNCHANGED <<gStatus, uploadFailed, uploadOpen, http, firmware, backup,
                    flash, connected, faults, jobs, saved>>
    BY DEF Release, statusVars, uploadVars, fileVars, boardVars
  <1>2. job' \in Job
    <2>1. job \in Job BY <1>0 DEF TypeOK
    <2> QED BY <2>1 DEF Release, NoJob, Kinds, Points, Verdicts, Job
  <1>3. jobRunning' \in BOOLEAN
    <2>1. jobRunning \in BOOLEAN BY <1>0 DEF TypeOK
    <2> QED BY <2>1 DEF Release
  <1> QED BY <1>0, <1>1, <1>2, <1>3 DEF TypeOK

\* Moving the cable keeps the types.
LEMMA TypeSwap ==
  ASSUME IInv, NEW t \in Targets \union {NoTarget}, Swap(t)
  PROVE  TypeOK'
  <1>0. TypeOK /\ JobShape /\ SaveShape /\ ProgramShape BY DEF IInv
  <1>1. UNCHANGED <<gStatus, jobRunning, job, uploadFailed, uploadOpen, http,
                    firmware, backup, flash, faults, jobs, saved>>
    BY DEF Swap, statusVars, uploadVars, fileVars, boardVars
  <1>2. connected' \in Targets \union {NoTarget}
    <2>1. connected \in Targets \union {NoTarget} BY <1>0 DEF TypeOK
    <2> QED BY <2>1 DEF Swap
  <1> QED BY <1>0, <1>1, <1>2 DEF TypeOK

\* A reboot and setup keeps the types.
LEMMA TypeReboot ==
  ASSUME IInv, NEW formatted \in BOOLEAN, Reboot(formatted)
  PROVE  TypeOK'
  <1>0. TypeOK /\ JobShape /\ SaveShape /\ ProgramShape BY DEF IInv
  <1>1. UNCHANGED <<connected, jobs>> BY DEF Reboot, boardVars
  <1>2. gStatus' \in JobStatus BY IdleTypes DEF Reboot
  <1>3. jobRunning' \in BOOLEAN
    <2>1. jobRunning \in BOOLEAN BY <1>0 DEF TypeOK
    <2> QED BY <2>1 DEF Reboot
  <1>4. job' \in Job BY IdleTypes DEF Reboot
  <1>5. uploadFailed' \in BOOLEAN
    <2>1. uploadFailed \in BOOLEAN BY <1>0 DEF TypeOK
    <2> QED BY <2>1 DEF Reboot
  <1>6. uploadOpen' \in BOOLEAN
    <2>1. uploadOpen \in BOOLEAN BY <1>0 DEF TypeOK
    <2> QED BY <2>1 DEF Reboot
  <1>7. http' \in Request BY IdleTypes DEF Reboot
  <1>8. firmware' \in File
    <2>1. firmware' \in {firmware, <<>>, NoFile} BY DEF Reboot
    <2> QED BY <1>0, <2>1, EmptyFile DEF TypeOK, File
  <1>9. backup' \in File
    <2>1. backup' \in {backup, <<>>, NoFile} BY DEF Reboot
    <2> QED BY <1>0, <2>1, EmptyFile DEF TypeOK, File
  <1>10. flash' \in [Targets -> [Cells -> Content]]
    <2>1. UNCHANGED flash \/ Put(Corrupt) BY DEF Reboot
    <2>2. CASE UNCHANGED flash BY <1>0, <2>2 DEF TypeOK
    <2>3. CASE Put(Corrupt) BY <1>0, <2>3, ContentAssumption, PutType
    <2> QED BY <2>1, <2>2, <2>3
  <1>11. faults' \in 0 .. MaxFaults
    <2>1. faults \in 0 .. MaxFaults BY <1>0 DEF TypeOK
    <2>2. UNCHANGED faults \/ (faults < MaxFaults /\ faults' = faults + 1)
      BY DEF Reboot, Fault
    <2> QED BY <2>1, <2>2, FaultCount
  <1>12. saved' \in [target : Targets \union {NoTarget}, flash : [Cells -> Content]]
    <2>1. saved' \in {saved, NothingSaved} BY DEF Reboot
    <2> QED BY <1>0, <2>1, IdleTypes DEF TypeOK
  <1> QED BY <1>0, <1>1, <1>2, <1>3, <1>4, <1>5, <1>6, <1>7, <1>8, <1>9, <1>10, <1>11, <1>12 DEF TypeOK

-----------------------------------------------------------------------------
(* Every action keeps the rest of the invariant *)

\* setStatus leaves the image size alone.
LEMMA ImageSizeKept ==
  ASSUME TypeOK, NEW s, NEW m, SetStatus(s, m)
  PROVE  gStatus'.imageSize = gStatus.imageSize
  BY DEF SetStatus, TypeOK, JobStatus

\* A step that touches neither flash nor backup keeps both properties of them.
LEMMA FlashKept ==
  ASSUME IInv, UNCHANGED <<flash, backup, saved>>
  PROVE  BackupRestores' /\ BootloaderKept'
  BY DEF IInv, BackupRestores, BootloaderKept

\* A step that leaves the job and the image size alone keeps what the job
\* relies on.
LEMMA JobKept ==
  ASSUME IInv, UNCHANGED <<job, flash, backup, saved>>,
         gStatus'.imageSize = gStatus.imageSize
  PROVE  SaveShape' /\ ProgramShape' /\ BackupTaken'
  <1>1. SaveShape /\ ProgramShape /\ BackupTaken BY DEF IInv
  <1>2. SaveShape' BY <1>1 DEF SaveShape
  <1>3. ProgramShape' BY <1>1 DEF ProgramShape
  <1>4. BackupTaken' BY <1>1 DEF BackupTaken
  <1> QED BY <1>2, <1>3, <1>4

\* A job that has not attached relies on nothing.
LEMMA JobAway ==
  ASSUME job'.pc \in {"none", "queued", "attach"},
         job'.pc # "none" => job'.page = 0 /\ job'.chunk = 0
  PROVE  SaveShape' /\ ProgramShape' /\ BackupTaken'
  <1>1. SaveShape' BY DEF SaveShape
  <1>2. ProgramShape' BY DEF ProgramShape, Programs
  <1>3. BackupTaken' BY DEF BackupTaken, Programs
  <1> QED BY <1>1, <1>2, <1>3

\* A job that has its verdict relies on nothing.
LEMMA JobDecided ==
  ASSUME IInv, job.kind # "none", job'.kind = job.kind,
         job'.pc = "report", job'.verdict # "",
         UNCHANGED <<jobRunning, uploadOpen, firmware, http>>
  PROVE  JobShape' /\ SaveShape' /\ ProgramShape' /\ BackupTaken'
  <1>0. JobShape BY DEF IInv
  <1>1. JobShape' BY <1>0 DEF JobShape, Attached, Programs
  <1>2. SaveShape' BY DEF SaveShape
  <1>3. ProgramShape' BY DEF ProgramShape, Programs
  <1>4. BackupTaken' BY DEF BackupTaken, Programs
  <1> QED BY <1>1, <1>2, <1>3, <1>4

\* Every early return of executeJob keeps the invariant.
LEMMA Concluded ==
  ASSUME IInv, job.pc # "none", NEW verdict \in Verdicts \ {""}, Conclude(verdict),
         UNCHANGED <<jobRunning, uploadOpen, firmware, http>>
  PROVE  JobShape' /\ SaveShape' /\ ProgramShape' /\ BackupTaken'
  <1>1. job \in Job /\ JobShape BY DEF IInv, TypeOK
  <1>2. job' = [job EXCEPT !.pc = "report", !.verdict = verdict] BY DEF Conclude
  <1>3. job.kind # "none" BY <1>1 DEF JobShape
  <1>4. /\ job'.kind = job.kind /\ job'.pc = "report" /\ job'.verdict # ""
    BY <1>1, <1>2 DEF Job
  <1> QED BY <1>3, <1>4, JobDecided

\* The invariant without the types.
Rest == JobShape /\ SaveShape /\ ProgramShape /\ BackupTaken /\ BackupRestores /\ BootloaderKept

\* UPLOAD_FILE_START: the stored image may be replaced because no job runs.
LEMMA KeepUploadStart ==
  ASSUME IInv, NEW body \in Uploads, UploadStart(body)
  PROVE  Rest'
  <1>0. TypeOK /\ JobShape BY DEF IInv
  <1>1. UNCHANGED <<jobRunning, job, backup, flash, saved>>
    BY DEF UploadStart, boardVars
  <1>2. /\ http.req = "none" /\ http'.req = "receiving"
        /\ \/ UNCHANGED <<gStatus, uploadOpen, firmware>>
           \/ /\ ~jobRunning /\ SetStatus("Uploading", "")
              /\ \/ uploadOpen' = FALSE
                 \/ firmware' = <<>>
    BY DEF UploadStart, UploadsIgnored, NoRequest, uploadVars
  <1>3. gStatus'.imageSize = gStatus.imageSize BY <1>0, <1>2, ImageSizeKept
  <1>4. <<>> # NoFile BY <<>> \in Seq(Content), SomeFile
  <1>6. uploadOpen' => ~jobRunning /\ firmware' # NoFile BY <1>0, <1>2, <1>4 DEF JobShape
  <1>5. JobShape' BY <1>0, <1>1, <1>2, <1>6 DEF JobShape
  <1> QED BY <1>1, <1>3, <1>5, JobKept, FlashKept DEF Rest

\* UPLOAD_FILE_WRITE: the file open for the upload exists.
LEMMA KeepUploadWrite ==
  ASSUME IInv, UploadWrite
  PROVE  Rest'
  <1>0. TypeOK /\ JobShape BY DEF IInv
  <1>1. UNCHANGED <<gStatus, jobRunning, job, uploadOpen, backup, flash, saved>>
    BY DEF UploadWrite, statusVars, boardVars
  <1>2. /\ http.req = "receiving" /\ http' = [http EXCEPT !.sent = @ + 1]
        /\ \/ UNCHANGED firmware
           \/ firmware' = Append(firmware, http.body[http.sent + 1])
    BY DEF UploadWrite
  <1>3. http'.req = "receiving" BY <1>0, <1>2 DEF TypeOK, Request
  <1>4. firmware # NoFile => firmware' # NoFile
    <2>1. firmware \in File BY <1>0 DEF TypeOK
    <2>2. http.body[http.sent + 1] \in Content BY <1>0, UploadedChunk
    <2> QED BY <1>2, <2>1, <2>2, AppendFile
  <1>5. JobShape' BY <1>0, <1>1, <1>2, <1>3, <1>4 DEF JobShape
  <1> QED BY <1>1, <1>5, JobKept, FlashKept DEF Rest

\* The other requests that schedule nothing.
LEMMA KeepQuiet ==
  ASSUME IInv, UploadEnd \/ UploadAbort \/ FinishBusy \/ FinishRejected
                 \/ StatusBegin \/ StatusEnd
  PROVE  Rest'
  <1>0. TypeOK /\ JobShape BY DEF IInv
  <1>1. /\ UNCHANGED <<jobRunning, job, backup, flash, saved>>
        /\ UNCHANGED gStatus \/ SetStatus("Error", "")
    BY DEF UploadEnd, UploadAbort, FinishBusy, FinishRejected, StatusBegin, StatusEnd,
           statusVars, fileVars, boardVars
  <1>2. gStatus'.imageSize = gStatus.imageSize BY <1>0, <1>1, ImageSizeKept
  <1>3. ~uploadOpen'
    <2>1. CASE UploadEnd BY <1>0, <2>1 DEF UploadEnd, UploadsIgnored, JobShape
    <2>2. CASE UploadAbort BY <1>0, <2>2 DEF UploadAbort, UploadsIgnored, JobShape
    <2>3. CASE FinishBusy \/ FinishRejected \/ StatusBegin \/ StatusEnd
      BY <1>0, <2>3 DEF FinishBusy, FinishRejected, StatusBegin, StatusEnd, JobShape, uploadVars
    <2> QED BY <2>1, <2>2, <2>3
  <1>4. JobShape' BY <1>0, <1>1, <1>3 DEF JobShape
  <1> QED BY <1>1, <1>2, <1>4, JobKept, FlashKept DEF Rest

\* An accepted request finds no job and no open upload.
LEMMA KeepSchedule ==
  ASSUME IInv, FinishAccepted \/ FlashRequest \/ RestoreRequest
  PROVE  Rest'
  <1>0. TypeOK /\ JobShape BY DEF IInv
  <1>1. /\ UNCHANGED <<uploadOpen, backup, flash, saved>>
        /\ ~jobRunning /\ http.req # "receiving"
        /\ \E kind \in {"Probe", "Flash", "Restore"} : ScheduleJob(kind)
    BY DEF FinishAccepted, FlashRequest, RestoreRequest, uploadVars, fileVars, boardVars
  <1>2. PICK kind \in {"Probe", "Flash", "Restore"} :
          /\ job' = job \/ job' = [NoJob EXCEPT !.kind = kind, !.pc = "queued"]
          /\ jobRunning' = TRUE
    BY <1>0, <1>1, QueuedJob
  <1>3. job.pc = "none" BY <1>0, <1>1 DEF JobShape
  <1>4. CASE job' = job
    <2>1. JobShape' BY <1>0, <1>1, <1>2, <1>3, <1>4 DEF JobShape
    <2>2. SaveShape' /\ ProgramShape' /\ BackupTaken' BY <1>3, <1>4, JobAway
    <2> QED BY <1>1, <2>1, <2>2, FlashKept DEF Rest
  <1>5. CASE job' = [NoJob EXCEPT !.kind = kind, !.pc = "queued"]
    <2>1. job'.kind # "none" /\ job'.pc = "queued" /\ job'.page = 0 /\ job'.chunk = 0
      BY <1>5 DEF NoJob
    <2>2. JobShape' BY <1>0, <1>1, <1>2, <2>1 DEF JobShape, Attached, Programs
    <2>3. SaveShape' /\ ProgramShape' /\ BackupTaken' BY <2>1, JobAway
    <2> QED BY <1>1, <2>2, <2>3, FlashKept DEF Rest
  <1> QED BY <1>2, <1>4, <1>5

\* A job that starts has done nothing yet.
LEMMA KeepStart ==
  ASSUME IInv, Start
  PROVE  Rest'
  <1>0. TypeOK /\ JobShape /\ SaveShape BY DEF IInv
  <1>1. /\ UNCHANGED <<jobRunning, uploadOpen, http, firmware, backup, flash, saved>>
        /\ job.pc = "queued" /\ job' = [job EXCEPT !.pc = "attach", !.expected = gStatus.uid]
    BY DEF Start, At, uploadVars, fileVars, boardVars
  <1>2. job \in Job /\ job.page = 0 /\ job.chunk = 0 BY <1>0, <1>1 DEF TypeOK, SaveShape
  <1>3. /\ job'.kind = job.kind /\ job'.pc = "attach"
        /\ job'.page = 0 /\ job'.chunk = 0
    BY <1>1, <1>2 DEF Job
  <1>4. JobShape' BY <1>0, <1>1, <1>3 DEF JobShape, Attached, Programs
  <1>5. SaveShape' /\ ProgramShape' /\ BackupTaken' BY <1>3, JobAway
  <1> QED BY <1>1, <1>4, <1>5, FlashKept DEF Rest

\* An attached job has the controller's unique ID and an image that fits.
LEMMA KeepAttach ==
  ASSUME IInv, Attach
  PROVE  Rest'
  <1>0. TypeOK /\ JobShape /\ SaveShape BY DEF IInv
  <1>1. /\ UNCHANGED <<jobRunning, uploadOpen, http, firmware, backup, flash, saved>>
        /\ job.pc = "attach" /\ connected # NoTarget
        /\ gStatus' = [gStatus EXCEPT !.uid = connected]
    BY DEF Attach, At, uploadVars, fileVars, boardVars
  <1>2. /\ job \in Job /\ job.page = 0 /\ job.chunk = 0 /\ job.kind # "none"
        /\ connected \in Targets /\ gStatus.imageSize \in Nat
        /\ gStatus'.imageSize = gStatus.imageSize
    BY <1>0, <1>1 DEF TypeOK, JobStatus, JobShape, SaveShape
  <1>3. PICK pc, verdict :
          /\ job' = [job EXCEPT !.target = connected, !.pc = pc, !.verdict = verdict]
          /\ \/ pc = "inspect" /\ FitsTarget(connected)
             \/ pc = "open backup" /\ FitsTarget(connected) /\ job.kind = "Flash"
             \/ pc = "restore" /\ job.kind = "Restore"
             \/ pc = "report" /\ verdict = "failed"
    <2>1. job.kind \in {"Probe", "Flash", "Restore"} BY <1>2 DEF Job, Kinds
    <2>2. CASE job.kind = "Probe" BY <2>2 DEF Attach
    <2>3. CASE job.kind = "Flash" BY <2>3 DEF Attach
    <2>4. CASE job.kind = "Restore" BY <2>4 DEF Attach
    <2> QED BY <2>1, <2>2, <2>3, <2>4
  <1>4. /\ job'.kind = job.kind /\ job'.pc = pc /\ job'.target = connected
        /\ job'.verdict = verdict /\ job'.page = 0 /\ job'.chunk = 0
    BY <1>2, <1>3 DEF Job
  <1>5. CASE pc = "report" BY <1>1, <1>2, <1>3, <1>4, <1>5, JobDecided, FlashKept DEF Rest
  <1>6. CASE pc \in {"inspect", "open backup", "restore"}
    <2>1. JobShape' BY <1>0, <1>1, <1>2, <1>3, <1>4, <1>6 DEF JobShape, Attached, Programs
    <2>2. pc # "restore" => Offset + RoundUp(gStatus.imageSize) <= Capacity[connected]
      BY <1>2, <1>3, <1>6, RoundUpFits DEF FitsTarget
    <2>3. SaveShape' BY <1>2, <1>4, <1>6, <2>2 DEF SaveShape
    <2>4. ProgramShape' BY <1>4, <1>6 DEF ProgramShape, Programs
    <2>5. BackupTaken' BY <1>3, <1>4, <1>6 DEF BackupTaken, Programs
    <2> QED BY <1>1, <2>1, <2>3, <2>4, <2>5, FlashKept DEF Rest
  <1> QED BY <1>3, <1>5, <1>6

\* Opening the backup file for writing forgets what it held.
LEMMA KeepOpenBackup ==
  ASSUME IInv, OpenBackup
  PROVE  Rest'
  <1>0. TypeOK /\ JobShape /\ SaveShape /\ BootloaderKept BY DEF IInv
  <1>1. /\ UNCHANGED <<gStatus, jobRunning, uploadOpen, http, firmware, flash>>
        /\ job.pc = "open backup"
        /\ \/ backup' = <<>> /\ saved' = NothingSaved /\ job' = [job EXCEPT !.pc = "save"]
           \/ UNCHANGED <<backup, saved>> /\ Conclude("failed")
    BY DEF OpenBackup, At, Goto, statusVars, uploadVars, boardVars
  <1>2. /\ job \in Job /\ job.page = 0 /\ job.chunk = 0 /\ gStatus.imageSize \in Nat
        /\ job.kind = "Flash" /\ job.target \in Targets /\ jobRunning
        /\ Offset + RoundUp(gStatus.imageSize) <= Capacity[job.target]
    BY <1>0, <1>1 DEF TypeOK, JobStatus, JobShape, Attached, SaveShape
  <1>3. CASE UNCHANGED <<backup, saved>> /\ Conclude("failed")
    BY <1>1, <1>3, Concluded, FlashKept DEF Rest, Verdicts
  <1>4. CASE /\ backup' = <<>> /\ saved' = NothingSaved
             /\ job' = [job EXCEPT !.pc = "save"]
    <2>1. job'.pc = "save" /\ \A f \in {"kind", "target", "page", "chunk"} : job'[f] = job[f]
      BY <1>2, <1>4 DEF Job
    <2>2. /\ backup' # NoFile /\ Len(backup') = 0
          /\ RoundUp(gStatus.imageSize) \in Nat /\ saved'.target = NoTarget
      BY <1>2, <1>4, <<>> \in Seq(Content), SomeFile, RoundUpNat DEF NothingSaved
    <2>3. JobShape' BY <1>0, <1>1, <1>2, <2>1 DEF JobShape
    <2>9. \A i \in 1 .. Len(backup') : backup'[i] = flash[job.target][Offset + i] BY <2>2
    <2>10. Len(backup') <= RoundUp(gStatus.imageSize) BY <2>2
    <2>4. SaveShape' BY <1>1, <1>2, <2>1, <2>2, <2>9, <2>10 DEF SaveShape
    <2>5. ProgramShape' BY <2>1 DEF ProgramShape, Programs
    <2>6. BackupTaken' BY <2>1 DEF BackupTaken, Programs
    <2>7. BackupRestores' BY <2>2 DEF BackupRestores
    <2>8. BootloaderKept' BY <1>0, <1>1 DEF BootloaderKept
    <2> QED BY <2>3, <2>4, <2>5, <2>6, <2>7, <2>8 DEF Rest
  <1> QED BY <1>1, <1>3, <1>4

\* Every chunk saved is the controller's own: the backup stays a prefix of what
\* it must hold.
LEMMA KeepSaveChunk ==
  ASSUME IInv, SaveChunk
  PROVE  Rest'
  <1>0. TypeOK /\ JobShape /\ SaveShape /\ BootloaderKept BY DEF IInv
  <1>1. /\ UNCHANGED <<jobRunning, job, uploadOpen, http, firmware, saved, flash>>
        /\ job.pc = "save" /\ Len(backup) < RoundUp(gStatus.imageSize)
        /\ SetStatus("BackingUp", "")
        /\ backup' = Append(backup, flash[job.target][Offset + Len(backup) + 1])
    BY DEF SaveChunk, At, uploadVars, boardVars
  <1>2. /\ gStatus'.imageSize = gStatus.imageSize /\ gStatus.imageSize \in Nat
        /\ job.target \in Targets /\ saved.target = NoTarget
        /\ backup \in Seq(Content) /\ flash[job.target] \in [Cells -> Content]
        /\ \A i \in 1 .. Len(backup) : backup[i] = flash[job.target][Offset + i]
        /\ Offset + RoundUp(gStatus.imageSize) <= Capacity[job.target]
    BY <1>0, <1>1, ImageSizeKept DEF TypeOK, JobStatus, JobShape, Attached, SaveShape, File
  <1>3. /\ RoundUp(gStatus.imageSize) \in Nat /\ Offset \in Nat /\ MaxImage \in Nat
        /\ Capacity[job.target] \in Nat /\ Capacity[job.target] <= Offset + MaxImage
    BY <1>2, RoundUpNat, SizeAssumption
  <1>4. Len(backup) \in Nat BY <1>2
  <1>15. Len(backup) < RoundUp(gStatus.imageSize) BY <1>1
  <1>12. flash[job.target][Offset + Len(backup) + 1] \in Content
    <2>1. Offset + Len(backup) + 1 \in Cells BY <1>2, <1>3, <1>4, <1>15, CellWithin
    <2> QED BY <1>2, <2>1
  <1>13. backup \in Seq(Content) /\ backup' = Append(backup, flash[job.target][Offset + Len(backup) + 1])
    BY <1>1, <1>2
  <1>14. /\ backup' \in Seq(Content) /\ Len(backup') = Len(backup) + 1
         /\ \A i \in 1 .. Len(backup) : backup'[i] = backup[i]
         /\ backup'[Len(backup) + 1] = flash[job.target][Offset + Len(backup) + 1]
    BY <1>12, <1>13, AppendChunk
  <1>5. \A i \in 1 .. Len(backup') : backup'[i] = flash[job.target][Offset + i]
    <2> DEFINE n == Len(backup)
    <2>1. n \in Nat /\ Len(backup') = n + 1 BY <1>4, <1>14
    <2>6. \A i \in 1 .. n : backup'[i] = backup[i] BY <1>14
    <2>7. \A i \in 1 .. n : backup[i] = flash[job.target][Offset + i] BY <1>2
    <2>2. \A i \in 1 .. n : backup'[i] = flash[job.target][Offset + i] BY <2>6, <2>7
    <2>3. Offset + n + 1 = Offset + (n + 1) BY <1>2, <1>3, <1>4, <1>15, CellWithin
    <2>8. backup'[n + 1] = flash[job.target][Offset + n + 1] BY <1>14
    <2>4. backup'[n + 1] = flash[job.target][Offset + (n + 1)] BY <2>3, <2>8
    <2> HIDE DEF n
    <2> SUFFICES ASSUME NEW i \in 1 .. n + 1
                 PROVE  backup'[i] = flash[job.target][Offset + i]
      BY <2>1
    <2>5. i \in 1 .. n \/ i = n + 1 BY <2>1
    <2> QED BY <2>2, <2>4, <2>5
  <1>6. JobShape' BY <1>0, <1>1 DEF JobShape
  <1>7. SaveShape'
    <2>1. backup' # NoFile BY <1>14, SomeFile
    <2>3. Len(backup') = Len(backup) + 1 BY <1>14
    <2>2. Len(backup') <= RoundUp(gStatus.imageSize) BY <1>3, <1>4, <1>15, <2>3
    <2> QED BY <1>0, <1>1, <1>2, <1>5, <2>1, <2>2 DEF SaveShape
  <1>8. ProgramShape' BY <1>1 DEF ProgramShape, Programs
  <1>9. BackupTaken' BY <1>1 DEF BackupTaken, Programs
  <1>10. BackupRestores' BY <1>1, <1>2 DEF BackupRestores
  <1>11. BootloaderKept' BY <1>0, <1>1 DEF BootloaderKept
  <1> QED BY <1>6, <1>7, <1>8, <1>9, <1>10, <1>11 DEF Rest

\* A complete backup covers the pages the update is about to erase.
LEMMA KeepBackupDone ==
  ASSUME IInv, BackupDone
  PROVE  Rest'
  <1>0. TypeOK /\ JobShape /\ SaveShape /\ BootloaderKept BY DEF IInv
  <1>1. /\ UNCHANGED <<gStatus, jobRunning, uploadOpen, http, firmware, backup, flash>>
        /\ job.pc = "save" /\ Len(backup) = RoundUp(gStatus.imageSize)
        /\ saved' = [target |-> job.target, flash |-> flash[job.target]]
        /\ job' = [job EXCEPT !.pc = "unlock", !.source = "firmware", !.size = gStatus.imageSize]
    BY DEF BackupDone, At, statusVars, uploadVars, boardVars
  <1>2. /\ job \in Job /\ job.page = 0 /\ job.chunk = 0 /\ gStatus.imageSize \in Nat
        /\ job.kind = "Flash" /\ job.target \in Targets /\ backup # NoFile
        /\ Offset + RoundUp(gStatus.imageSize) <= Capacity[job.target]
        /\ \A i \in 1 .. Len(backup) : backup[i] = flash[job.target][Offset + i]
        /\ flash[job.target] \in [Cells -> Content] /\ backup \in Seq(Content)
    BY <1>0, <1>1 DEF TypeOK, JobStatus, JobShape, Attached, SaveShape, File
  <1>3. /\ job'.kind = job.kind /\ job'.pc = "unlock" /\ job'.target = job.target
        /\ job'.source = "firmware" /\ job'.size = gStatus.imageSize
        /\ job'.page = 0 /\ job'.chunk = 0
    BY <1>1, <1>2 DEF Job
  <1>4. JobShape' BY <1>0, <1>1, <1>2, <1>3 DEF JobShape
  <1>5. SaveShape' BY <1>3 DEF SaveShape
  <1>6. ProgramShape' BY <1>1, <1>2, <1>3 DEF ProgramShape, Programs
  <1>7. BackupTaken' BY <1>1, <1>3 DEF BackupTaken, Programs
  <1>8. BackupRestores'
    <2>1. RoundUp(Len(backup)) = Len(backup) BY <1>1, <1>2, RoundUpTwice
    <2>2. \A c \in Cells : c > Offset /\ c <= Offset + Len(backup)
                             => backup[c - Offset] = flash[job.target][c]
      <3>1. Offset \in Nat /\ Len(backup) \in Nat BY <1>2, SizeAssumption
      <3> SUFFICES ASSUME NEW c \in Cells, c > Offset, c <= Offset + Len(backup)
                   PROVE  backup[c - Offset] = flash[job.target][c]
        OBVIOUS
      <3>2. c - Offset \in 1 .. Len(backup) /\ Offset + (c - Offset) = c BY <3>1 DEF Cells
      <3> QED BY <1>2, <3>2
    <2>3. Overlay(flash[job.target], backup) = [c \in Cells |-> flash[job.target][c]]
      BY <2>2 DEF Overlay
    <2>4. Overlay(flash[job.target], backup) = flash[job.target] BY <1>2, <2>3
    <2> QED BY <1>1, <1>2, <2>1, <2>4 DEF BackupRestores
  <1>9. BootloaderKept' BY <1>0, <1>1 DEF BootloaderKept
  <1> QED BY <1>4, <1>5, <1>6, <1>7, <1>8, <1>9 DEF Rest

\* restoreBackup: the file is whole pages when it is complete, and fits.
LEMMA KeepBeginRestore ==
  ASSUME IInv, BeginRestore
  PROVE  Rest'
  <1>0. TypeOK /\ JobShape /\ BackupTaken BY DEF IInv
  <1>1. /\ UNCHANGED <<jobRunning, uploadOpen, http, firmware, backup, flash, saved>>
        /\ job.pc = "restore"
        /\ \/ /\ backup # NoFile /\ Offset + Len(backup) <= Capacity[job.target]
              /\ job' = [job EXCEPT !.pc = "unlock", !.source = "backup",
                                    !.size = Len(backup), !.page = 0, !.chunk = 0]
           \/ Conclude("failed")
    BY DEF BeginRestore, At, uploadVars, fileVars, boardVars
  <1>2. job \in Job /\ job.target \in Targets /\ backup \in File
    BY <1>0, <1>1 DEF TypeOK, JobShape, Attached
  <1>3. CASE Conclude("failed") BY <1>1, <1>3, Concluded, FlashKept DEF Rest, Verdicts
  <1>4. CASE /\ backup # NoFile /\ Offset + Len(backup) <= Capacity[job.target]
             /\ job' = [job EXCEPT !.pc = "unlock", !.source = "backup",
                                   !.size = Len(backup), !.page = 0, !.chunk = 0]
    <2>1. /\ job'.kind = job.kind /\ job'.pc = "unlock" /\ job'.target = job.target
          /\ job'.source = "backup" /\ job'.size = Len(backup)
          /\ job'.page = 0 /\ job'.chunk = 0
      BY <1>2, <1>4 DEF Job
    <2>2. Offset + RoundUp(Len(backup)) <= Capacity[job.target]
      <3>1. Len(backup) \in Nat BY <1>2, <1>4, SizeNat
      <3> QED BY <1>2, <1>4, <3>1, RoundUpFits
    <2>3. JobShape' BY <1>0, <1>1, <1>2, <2>1 DEF JobShape
    <2>4. SaveShape' BY <2>1 DEF SaveShape
    <2>5. ProgramShape' BY <1>1, <1>4, <2>1, <2>2 DEF ProgramShape, Programs
    <2>6. BackupTaken' BY <1>0, <1>1, <2>1 DEF BackupTaken, Programs
    <2> QED BY <1>1, <2>3, <2>4, <2>5, <2>6, FlashKept DEF Rest
  <1> QED BY <1>1, <1>3, <1>4

\* The first page of an image that is not empty starts below its end.
LEMMA KeepUnlock ==
  ASSUME IInv, Unlock
  PROVE  Rest'
  <1>0. TypeOK /\ JobShape /\ SaveShape /\ ProgramShape /\ BackupTaken BY DEF IInv
  <1>1. /\ UNCHANGED <<gStatus, jobRunning, uploadOpen, http, firmware, backup, flash, saved>>
        /\ job.pc = "unlock"
        /\ job' = [job EXCEPT !.pc = IF job.size > 0 THEN "erase" ELSE "verify"]
    BY DEF Unlock, At, Goto, statusVars, uploadVars, fileVars, boardVars
  <1>2. job \in Job /\ job.page = 0 /\ job.chunk = 0 /\ PageChunks \in Nat
    BY <1>0, <1>1, SizeAssumption DEF TypeOK, SaveShape
  <1>3. /\ job'.pc \in {"erase", "verify"}
        /\ job'.pc = "erase" => job'.page * PageChunks < job'.size
    BY <1>1, <1>2 DEF Job
  <1>4. /\ job'.kind = job.kind /\ job'.target = job.target
        /\ job'.source = job.source /\ job'.size = job.size
    BY <1>1, <1>2 DEF Job
  <1>5. JobShape' BY <1>0, <1>1, <1>3, <1>4 DEF JobShape, Attached, Programs
  <1>6. SaveShape' BY <1>3 DEF SaveShape
  <1>7. ProgramShape' BY <1>0, <1>1, <1>3, <1>4 DEF ProgramShape, Programs
  <1>8. BackupTaken' BY <1>0, <1>1, <1>3, <1>4 DEF BackupTaken, Programs
  <1> QED BY <1>1, <1>5, <1>6, <1>7, <1>8, FlashKept DEF Rest

\* erasePage: the backup covers the page.
LEMMA KeepErasePage ==
  ASSUME IInv, ErasePage
  PROVE  Rest'
  <1>0. TypeOK /\ JobShape /\ ProgramShape /\ BackupTaken BY DEF IInv
  <1>1. /\ UNCHANGED <<jobRunning, uploadOpen, http, firmware, backup, saved>>
        /\ job.pc = "erase" /\ job' = [job EXCEPT !.pc = "write", !.chunk = 0]
        /\ flash' = [flash EXCEPT ![job.target] = Erased(@, job.page)]
    BY DEF ErasePage, At, uploadVars, fileVars
  <1>2. job \in Job /\ 0 < PageChunks BY <1>0, SizeAssumption DEF TypeOK
  <1>3. /\ job'.pc = "write" /\ job'.chunk = 0
        /\ \A f \in {"kind", "target", "source", "size", "page"} : job'[f] = job[f]
    BY <1>1, <1>2 DEF Job
  <1>4. JobShape' BY <1>0, <1>1, <1>3 DEF JobShape, Attached, Programs
  <1>5. SaveShape' BY <1>3 DEF SaveShape
  <1>6. ProgramShape' BY <1>0, <1>1, <1>2, <1>3 DEF ProgramShape, Programs
  <1>7. BackupTaken' BY <1>0, <1>1, <1>3 DEF BackupTaken, Programs
  <1>8. BackupRestores' /\ BootloaderKept'
    BY <1>0, <1>1, EraseInPage, PageEditKept, PageEditRestores DEF Programs
  <1> QED BY <1>4, <1>5, <1>6, <1>7, <1>8 DEF Rest

\* The page, chunk and program counter after a chunk stay within the image.
LEMMA NextChunkShape ==
  ASSUME TypeOK, ProgramShape, job.pc = "write", job' = AfterChunk
  PROVE  /\ job'.pc \in {"erase", "write", "verify"}
         /\ job'.pc # "verify" => job'.page * PageChunks < job'.size
         /\ job'.pc = "write" => job'.chunk < PageChunks
         /\ \A f \in {"kind", "target", "source", "size"} : job'[f] = job[f]
  <1>1. job \in Job /\ job.page * PageChunks < job.size BY DEF TypeOK, ProgramShape
  <1>2. CASE job.chunk + 1 < PageChunks
    <2>1. job' = [job EXCEPT !.chunk = job.chunk + 1] BY <1>2 DEF AfterChunk
    <2> QED BY <1>1, <1>2, <2>1 DEF Job
  <1>3. CASE ~(job.chunk + 1 < PageChunks) /\ (job.page + 1) * PageChunks < job.size
    <2>1. job' = [job EXCEPT !.pc = "erase", !.page = job.page + 1, !.chunk = 0]
      BY <1>3 DEF AfterChunk
    <2> QED BY <1>1, <1>3, <2>1 DEF Job
  <1>4. CASE ~(job.chunk + 1 < PageChunks) /\ ~((job.page + 1) * PageChunks < job.size)
    <2>1. job' = [job EXCEPT !.pc = "verify"] BY <1>4 DEF AfterChunk
    <2> QED BY <1>1, <2>1 DEF Job
  <1> QED BY <1>2, <1>3, <1>4

\* programPage: the backup covers the page, whatever the write leaves in it.
LEMMA KeepWriteChunk ==
  ASSUME IInv, WriteChunk
  PROVE  Rest'
  <1>0. TypeOK /\ JobShape /\ ProgramShape /\ BackupTaken BY DEF IInv
  <1>1. /\ UNCHANGED <<jobRunning, uploadOpen, http, firmware, backup, saved>>
        /\ job.pc = "write" /\ job' = AfterChunk /\ ~ShortSource
        /\ \E v \in {Wanted, Corrupt} : Put(v)
    BY DEF WriteChunk, At, uploadVars, fileVars
  <1>2. /\ job'.pc \in {"erase", "write", "verify"}
        /\ job'.pc # "verify" => job'.page * PageChunks < job'.size
        /\ job'.pc = "write" => job'.chunk < PageChunks
        /\ \A f \in {"kind", "target", "source", "size"} : job'[f] = job[f]
    BY <1>0, <1>1, NextChunkShape
  <1>3. JobShape' BY <1>0, <1>1, <1>2 DEF JobShape, Attached, Programs
  <1>4. SaveShape' BY <1>2 DEF SaveShape
  <1>5. ProgramShape' BY <1>0, <1>1, <1>2 DEF ProgramShape, Programs
  <1>6. BackupTaken' BY <1>0, <1>1, <1>2 DEF BackupTaken, Programs
  <1>7. BackupRestores' /\ BootloaderKept'
    <2>1. Wanted \in Content /\ Corrupt \in Content BY <1>0, <1>1, WantedType, ContentAssumption
    <2>2. PICK g \in [Cells -> Content] :
            /\ \A c \in Cells \ PageCells(job.page) : g[c] = flash[job.target][c]
            /\ flash' = [flash EXCEPT ![job.target] = g]
      BY <1>0, <1>1, <2>1, PutInPage
    <2> QED BY <1>1, <2>2, PageEditKept, PageEditRestores
  <1> QED BY <1>3, <1>4, <1>5, <1>6, <1>7 DEF Rest

\* The actions that only end the job.
LEMMA KeepConclusion ==
  ASSUME IInv, AttachFails \/ Inspect \/ InspectFails \/ SaveFails \/ Verify
  PROVE  Rest'
  <1>1. /\ UNCHANGED <<jobRunning, uploadOpen, http, firmware, backup, flash, saved>>
        /\ job.pc # "none" /\ \E verdict \in Verdicts \ {""} : Conclude(verdict)
    <2>1. CASE AttachFails
      BY <2>1 DEF AttachFails, At, Verdicts, statusVars, uploadVars, fileVars, boardVars
    <2>2. CASE Inspect
      BY <2>2 DEF Inspect, At, Verdicts, statusVars, uploadVars, fileVars, boardVars
    <2>3. CASE InspectFails
      BY <2>3 DEF InspectFails, At, Verdicts, statusVars, uploadVars, fileVars, boardVars
    <2>4. CASE SaveFails
      BY <2>4 DEF SaveFails, At, Verdicts, statusVars, uploadVars, fileVars, boardVars
    <2>5. CASE Verify
      BY <2>5 DEF Verify, At, Verdicts, statusVars, uploadVars, fileVars, boardVars
    <2> QED BY <2>1, <2>2, <2>3, <2>4, <2>5
  <1> QED BY <1>1, Concluded, FlashKept DEF Rest

\* A failure inside program or verify, wherever the flash was left.
LEMMA KeepProgramStepFails ==
  ASSUME IInv, ProgramStepFails
  PROVE  Rest'
  <1>0. TypeOK /\ JobShape /\ ProgramShape /\ BackupTaken BY DEF IInv
  <1>1. /\ UNCHANGED <<gStatus, jobRunning, uploadOpen, http, firmware, backup, saved>>
        /\ UpdateFails /\ job.pc \in Programs
        /\ \/ UNCHANGED flash
           \/ job.pc = "erase" /\ flash' = [flash EXCEPT ![job.target] = Erased(@, job.page)]
           \/ job.pc = "write" /\ ~ShortSource /\ \E v \in {Wanted, Corrupt} : Put(v)
    BY DEF ProgramStepFails, ProgramFails, At, Programs, statusVars, uploadVars, fileVars
  <1>2. BackupRestores' /\ BootloaderKept'
    <2>1. CASE UNCHANGED flash BY <1>1, <2>1, FlashKept
    <2>2. CASE job.pc = "erase" /\ flash' = [flash EXCEPT ![job.target] = Erased(@, job.page)]
      BY <1>0, <1>1, <2>2, EraseInPage, PageEditKept, PageEditRestores
    <2>3. CASE job.pc = "write" /\ ~ShortSource /\ \E v \in {Wanted, Corrupt} : Put(v)
      <3>1. Wanted \in Content /\ Corrupt \in Content
        BY <1>0, <2>3, WantedType, ContentAssumption
      <3>2. PICK g \in [Cells -> Content] :
              /\ \A c \in Cells \ PageCells(job.page) : g[c] = flash[job.target][c]
              /\ flash' = [flash EXCEPT ![job.target] = g]
        BY <1>0, <2>3, <3>1, PutInPage
      <3> QED BY <1>1, <2>3, <3>2, PageEditKept, PageEditRestores
    <2> QED BY <1>1, <2>1, <2>2, <2>3
  <1>3. CASE Conclude("failed")
    BY <1>1, <1>2, <1>3, Concluded DEF Rest, Verdicts, Programs
  <1>4. CASE job.kind = "Flash" /\ Goto("restore")
    <2>1. /\ job'.pc = "restore" /\ job'.kind = job.kind /\ job'.target = job.target
      BY <1>0, <1>4 DEF Goto, TypeOK, Job
    <2>2. JobShape' BY <1>0, <1>1, <1>4, <2>1 DEF JobShape, Attached, Programs
    <2>3. SaveShape' BY <2>1 DEF SaveShape
    <2>4. ProgramShape' BY <2>1 DEF ProgramShape, Programs
    <2>5. BackupTaken' BY <1>0, <1>1, <1>4, <2>1 DEF BackupTaken
    <2> QED BY <1>2, <2>2, <2>3, <2>4, <2>5 DEF Rest
  <1> QED BY <1>1, <1>3, <1>4 DEF UpdateFails

\* The end of executeJob.
LEMMA KeepEnd ==
  ASSUME IInv, Report \/ Release
  PROVE  Rest'
  <1>0. TypeOK /\ JobShape BY DEF IInv
  <1>1. UNCHANGED <<uploadOpen, http, firmware, backup, flash, saved>>
    BY DEF Report, Release, uploadVars, fileVars, boardVars
  <1>2. CASE Report
    <2>1. job.pc = "report" /\ Goto("release") /\ UNCHANGED jobRunning
      BY <1>2 DEF Report, At
    <2>2. job'.pc = "release" /\ job'.kind = job.kind BY <1>0, <2>1 DEF Goto, TypeOK, Job
    <2>3. JobShape' BY <1>0, <1>1, <2>1, <2>2 DEF JobShape, Attached, Programs
    <2>4. SaveShape' BY <2>2 DEF SaveShape
    <2>5. ProgramShape' BY <2>2 DEF ProgramShape, Programs
    <2>6. BackupTaken' BY <2>2 DEF BackupTaken, Programs
    <2> QED BY <1>1, <2>3, <2>4, <2>5, <2>6, FlashKept DEF Rest
  <1>3. CASE Release
    <2>1. job'.pc = "none" /\ job'.kind = "none" /\ jobRunning' = FALSE
      BY <1>3 DEF Release, NoJob
    <2>2. JobShape' BY <1>0, <1>1, <2>1 DEF JobShape, Attached, Programs
    <2> QED BY <1>1, <2>1, <2>2, JobAway, FlashKept DEF Rest
  <1> QED BY <1>2, <1>3

\* Moving the cable touches nothing but the connection.
LEMMA KeepSwap ==
  ASSUME IInv, NEW t \in Targets \union {NoTarget}, Swap(t)
  PROVE  Rest'
  <1>1. UNCHANGED <<gStatus, jobRunning, job, uploadOpen, http, firmware, backup, flash, saved>>
    BY DEF Swap, statusVars, uploadVars, fileVars
  <1>2. JobShape' BY <1>1 DEF IInv, JobShape
  <1> QED BY <1>1, <1>2, JobKept, FlashKept DEF Rest

\* A reboot ends the job wherever it was; the backup file survives unless it
\* was being written or the file system is formatted, and then nothing was saved.
LEMMA KeepReboot ==
  ASSUME IInv, NEW formatted \in BOOLEAN, Reboot(formatted)
  PROVE  Rest'
  <1>0. TypeOK /\ JobShape /\ SaveShape /\ ProgramShape /\ BackupRestores BY DEF IInv
  <1>1. /\ job'.pc = "none" /\ job'.kind = "none" /\ uploadOpen' = FALSE
        /\ backup' = IF formatted THEN NoFile ELSE IF job.pc = "save" THEN <<>> ELSE backup
        /\ saved' = IF formatted THEN NothingSaved ELSE saved
        /\ UNCHANGED flash \/ (job.pc = "write" /\ Put(Corrupt))
    BY DEF Reboot, NoJob, At
  <1>2. JobShape' BY <1>1 DEF JobShape, Attached, Programs
  <1>3. SaveShape' /\ ProgramShape' /\ BackupTaken' BY <1>1, JobAway
  <1>4. saved'.target = NoTarget \/ UNCHANGED <<backup, saved>>
    <2>1. CASE formatted BY <1>1, <2>1 DEF NothingSaved
    <2>2. CASE ~formatted /\ job.pc = "save" BY <1>0, <1>1, <2>2 DEF SaveShape
    <2>3. CASE ~formatted /\ job.pc # "save" BY <1>1, <2>3
    <2> QED BY <2>1, <2>2, <2>3
  <1>5. CASE UNCHANGED flash
    <2>1. BootloaderKept' BY <1>5 DEF IInv, BootloaderKept
    <2>2. BackupRestores' BY <1>0, <1>4, <1>5 DEF BackupRestores
    <2> QED BY <1>2, <1>3, <2>1, <2>2 DEF Rest
  <1>6. CASE job.pc = "write" /\ Put(Corrupt)
    <2>1. PICK g \in [Cells -> Content] :
            /\ \A c \in Cells \ PageCells(job.page) : g[c] = flash[job.target][c]
            /\ flash' = [flash EXCEPT ![job.target] = g]
      BY <1>0, <1>6, ContentAssumption, PutInPage
    <2>2. BootloaderKept' BY <1>6, <2>1, PageEditKept
    <2>3. BackupRestores'
      <3>1. CASE saved'.target = NoTarget BY <3>1 DEF BackupRestores
      <3>2. CASE UNCHANGED <<backup, saved>> BY <1>6, <2>1, <3>2, PageEditRestores
      <3> QED BY <1>4, <3>1, <3>2
    <2> QED BY <1>2, <1>3, <2>2, <2>3 DEF Rest
  <1> QED BY <1>1, <1>5, <1>6

-----------------------------------------------------------------------------
(* The theorems *)

\* The state setup() leaves satisfies the invariant.
THEOREM InitInvariant == Init => IInv
  <1> SUFFICES ASSUME Init PROVE IInv OBVIOUS
  <1>1. TypeOK
    <2>1. /\ gStatus \in JobStatus /\ job \in Job /\ http \in Request
          /\ saved \in [target : Targets \union {NoTarget}, flash : [Cells -> Content]]
      BY IdleTypes DEF Init
    <2>2. firmware \in File /\ backup \in File BY DEF Init, File
    <2>3. flash \in [Targets -> [Cells -> Content]] BY ContentAssumption DEF Init
    <2>4. faults \in 0 .. MaxFaults /\ jobs \in 0 .. MaxJobs BY SizeAssumption DEF Init
    <2>5. /\ jobRunning \in BOOLEAN /\ uploadFailed \in BOOLEAN /\ uploadOpen \in BOOLEAN
          /\ connected \in Targets \union {NoTarget}
      BY DEF Init
    <2> QED BY <2>1, <2>2, <2>3, <2>4, <2>5 DEF TypeOK
  <1>2. /\ job.pc = "none" /\ job.kind = "none" /\ ~uploadOpen /\ saved.target = NoTarget
    BY DEF Init, NoJob, NothingSaved
  <1>3. JobShape BY <1>2 DEF JobShape, Attached, Programs
  <1>4. SaveShape BY <1>2 DEF SaveShape
  <1>5. ProgramShape BY <1>2 DEF ProgramShape, Programs
  <1>6. BackupTaken BY <1>2 DEF BackupTaken, Programs
  <1>7. BackupRestores BY <1>2 DEF BackupRestores
  <1>8. BootloaderKept BY DEF Init, BootloaderKept
  <1> QED BY <1>1, <1>3, <1>4, <1>5, <1>6, <1>7, <1>8 DEF IInv

\* Every request, job step, cable change, reboot and fault keeps the invariant.
THEOREM NextInvariant == IInv /\ [Next]_vars => IInv'
  <1> SUFFICES ASSUME IInv, [Next]_vars PROVE IInv' OBVIOUS
  <1> USE DEF Rest
  <1>1. CASE WebStep
    <2>1. CASE \E body \in Uploads : UploadStart(body)
      BY <2>1, TypeUploadStart, KeepUploadStart DEF IInv
    <2>2. CASE UploadWrite BY <2>2, TypeUploadWrite, KeepUploadWrite DEF IInv
    <2>3. CASE UploadEnd BY <2>3, TypeUploadEnd, KeepQuiet DEF IInv
    <2>4. CASE UploadAbort BY <2>4, TypeUploadAbort, KeepQuiet DEF IInv
    <2>5. CASE FinishBusy BY <2>5, TypeFinishBusy, KeepQuiet DEF IInv
    <2>6. CASE FinishRejected BY <2>6, TypeFinishRejected, KeepQuiet DEF IInv
    <2>7. CASE FinishAccepted BY <2>7, TypeFinishAccepted, KeepSchedule DEF IInv
    <2>8. CASE FlashRequest BY <2>8, TypeFlashRequest, KeepSchedule DEF IInv
    <2>9. CASE RestoreRequest BY <2>9, TypeRestoreRequest, KeepSchedule DEF IInv
    <2>10. CASE StatusBegin BY <2>10, TypeStatusBegin, KeepQuiet DEF IInv
    <2>11. CASE StatusEnd BY <2>11, TypeStatusEnd, KeepQuiet DEF IInv
    <2> QED BY <1>1, <2>1, <2>2, <2>3, <2>4, <2>5, <2>6, <2>7, <2>8, <2>9, <2>10, <2>11
            DEF WebStep
  <1>2. CASE JobStep
    <2>1. CASE Start BY <2>1, TypeStart, KeepStart DEF IInv
    <2>2. CASE Attach BY <2>2, TypeAttach, KeepAttach DEF IInv
    <2>3. CASE AttachFails BY <2>3, TypeAttachFails, KeepConclusion DEF IInv
    <2>4. CASE Inspect BY <2>4, TypeInspect, KeepConclusion DEF IInv
    <2>5. CASE InspectFails BY <2>5, TypeInspectFails, KeepConclusion DEF IInv
    <2>6. CASE OpenBackup BY <2>6, TypeOpenBackup, KeepOpenBackup DEF IInv
    <2>7. CASE SaveChunk BY <2>7, TypeSaveChunk, KeepSaveChunk DEF IInv
    <2>8. CASE SaveFails BY <2>8, TypeSaveFails, KeepConclusion DEF IInv
    <2>9. CASE BackupDone BY <2>9, TypeBackupDone, KeepBackupDone DEF IInv
    <2>10. CASE BeginRestore BY <2>10, TypeBeginRestore, KeepBeginRestore DEF IInv
    <2>11. CASE Unlock BY <2>11, TypeUnlock, KeepUnlock DEF IInv
    <2>12. CASE ErasePage BY <2>12, TypeErasePage, KeepErasePage DEF IInv
    <2>13. CASE WriteChunk BY <2>13, TypeWriteChunk, KeepWriteChunk DEF IInv
    <2>14. CASE Verify BY <2>14, TypeVerify, KeepConclusion DEF IInv
    <2>15. CASE ProgramStepFails BY <2>15, TypeProgramStepFails, KeepProgramStepFails DEF IInv
    <2>16. CASE Report BY <2>16, TypeReport, KeepEnd DEF IInv
    <2>17. CASE Release BY <2>17, TypeRelease, KeepEnd DEF IInv
    <2> QED BY <1>2, <2>1, <2>2, <2>3, <2>4, <2>5, <2>6, <2>7, <2>8, <2>9, <2>10, <2>11,
               <2>12, <2>13, <2>14, <2>15, <2>16, <2>17
            DEF JobStep
  <1>3. CASE Environment
    <2>1. CASE \E t \in Targets \union {NoTarget} : Swap(t)
      BY <2>1, TypeSwap, KeepSwap DEF IInv
    <2>2. CASE \E formatted \in BOOLEAN : Reboot(formatted)
      BY <2>2, TypeReboot, KeepReboot DEF IInv
    <2> QED BY <1>3, <2>1, <2>2 DEF Environment
  <1>4. CASE UNCHANGED vars
    <2>1. /\ UNCHANGED <<gStatus, jobRunning, job, uploadFailed, uploadOpen, http, firmware>>
          /\ UNCHANGED <<backup, flash, connected, faults, jobs, saved>>
      BY <1>4 DEF vars
    <2>2. TypeOK' BY <2>1 DEF IInv, TypeOK
    <2>3. JobShape' BY <2>1 DEF IInv, JobShape
    <2> QED BY <2>1, <2>2, <2>3, JobKept, FlashKept DEF IInv
  <1> QED BY <1>1, <1>2, <1>3, <1>4 DEF Next

\* The invariant holds in every reachable state, whatever the constants.
THEOREM Invariance == Spec => []IInv
  BY InitInvariant, NextInvariant, PTL DEF Spec

\* Type correctness, for every value of the constants.
THEOREM TypeCorrect == Spec => []TypeOK
  <1>1. IInv => TypeOK BY DEF IInv
  <1> QED BY <1>1, Invariance, PTL

\* The bootloader below kMarlinOffset and whatever lies past the flash of the
\* detected controller are never touched, by an update, a restore or a failure.
THEOREM BootloaderSafe == Spec => []BootloaderKept
  <1>1. IInv => BootloaderKept BY DEF IInv
  <1> QED BY <1>1, Invariance, PTL

\* No update erases anything before the controller's pages are in the backup
\* file, and as long as that file is there, through failures, restores, reboots
\* and jobs on other controllers, writing it back gives the controller what it
\* held.
THEOREM AlwaysRecoverable == Spec => []Recoverable
  <1>1. IInv => Recoverable
    BY DEF IInv, BackupTaken, BackupRestores, Recoverable
  <1> QED BY <1>1, Invariance, PTL

-----------------------------------------------------------------------------
(***************************************************************************)
(* The image between its upload and the last page of it that is            *)
(* programmed.  ReviewInv says what a job, and a status reply under way,   *)
(* know of the uploaded image; it is inductive relative to IInv.           *)
(***************************************************************************)

\* The stored file is the one finishUpload inspected.
Inspected ==
  /\ firmware # NoFile /\ Acceptable(firmware)
  /\ gStatus.imageSize = Len(firmware)
  /\ gStatus.foreign = NamesForeign(firmware)

\* It was found fit for the controller the status names ...
Fitting ==
  /\ Inspected
  /\ ~gStatus.foreign
  /\ gStatus.uid \in Targets
  /\ Offset + gStatus.imageSize <= Capacity[gStatus.uid]

\* ... and different from what that controller holds.
Reviewed == Fitting /\ gStatus.complete /\ ~gStatus.identical

\* Where a status of a finished probe may stand: at rest, or waiting for a job
\* that has not begun or has only its flag left to clear.
Settled == job.pc \in {"none", "queued", "release"} /\ (job.kind = "Probe" => job.pc = "release")

Offered ==
  /\ gStatus.state = "Ready" => Reviewed
  /\ gStatus.state = "Current" => gStatus.complete /\ gStatus.identical
  /\ gStatus.state \in {"Ready", "Current"} => Settled
  /\ uploadOpen => gStatus.state = "Uploading"

\* A status reply under way: no new comparison has begun since its first field.
Replying ==
  http.req = "status" =>
    /\ http.seen = "Ready" => Reviewed
    /\ http.seen = "Current" => gStatus.complete /\ gStatus.identical
    /\ http.seen \in {"Ready", "Current"} /\ job.kind = "Probe" => job.pc = "release"

Probed ==
  /\ job.kind = "Probe" =>
       /\ job.pc \in {"queued", "attach"} => Inspected
       /\ job.pc = "inspect" => Fitting /\ job.target = gStatus.uid
  /\ job.pc = "inspect" => job.kind = "Probe"
  /\ job.pc = "report" =>
       /\ job.verdict = "ready" => Reviewed /\ job.kind = "Probe"
       /\ job.verdict = "current" =>
            gStatus.complete /\ gStatus.identical /\ job.kind = "Probe"

Flashed ==
  /\ job.pc = "attach" => job.expected = gStatus.uid
  /\ job.kind = "Flash" =>
       /\ job.pc \notin {"report", "release"} => Reviewed
       /\ job.pc \in Attached => job.target = gStatus.uid /\ job.expected = gStatus.uid
       /\ job.source = "firmware" => job.size \in {0, gStatus.imageSize}

ReviewInv == Offered /\ Replying /\ Probed /\ Flashed

-----------------------------------------------------------------------------
(* Updates that leave the reviewed image alone *)

\* The verdict on the image depends on the file and five fields of the status.
LEMMA ReviewKept ==
  ASSUME UNCHANGED firmware,
         gStatus'.imageSize = gStatus.imageSize, gStatus'.foreign = gStatus.foreign,
         gStatus'.uid = gStatus.uid,
         gStatus'.complete = gStatus.complete, gStatus'.identical = gStatus.identical
  PROVE  /\ Inspected' <=> Inspected
         /\ Fitting' <=> Fitting
         /\ Reviewed' <=> Reviewed
  <1>1. Inspected' <=> Inspected BY DEF Inspected, Acceptable, NamesForeign, FirstIsForeign
  <1>2. Fitting' <=> Fitting BY <1>1 DEF Fitting
  <1> QED BY <1>1, <1>2 DEF Reviewed

\* setStatus changes the state and the message only.
LEMMA StatusFields ==
  ASSUME gStatus \in JobStatus, NEW s, NEW m, SetStatus(s, m)
  PROVE  /\ gStatus'.state = s
         /\ gStatus'.imageSize = gStatus.imageSize /\ gStatus'.foreign = gStatus.foreign
         /\ gStatus'.uid = gStatus.uid
         /\ gStatus'.complete = gStatus.complete /\ gStatus'.identical = gStatus.identical
  BY DEF SetStatus, JobStatus

\* A step of a job between attach and the report: it goes on, or is decided with
\* a verdict that is not that of a probe.
Moves ==
  /\ job.pc \in Attached \union {"attach"}
  /\ UNCHANGED <<firmware, http, uploadOpen>>
  /\ \/ gStatus' = gStatus
     \/ \E s \in States \ {"Ready", "Current"} : SetStatus(s, "")
  /\ job'.kind = job.kind /\ job'.expected = job.expected /\ job'.target = job.target
  /\ \/ job.pc \in Attached /\ job'.pc \in Attached \ {"inspect"} /\ job.pc # "inspect"
     \/ job'.pc = "report" /\ job'.verdict \notin {"ready", "current"}
  /\ job'.source = "firmware" =>
       job'.size = gStatus.imageSize \/ (job.source = "firmware" /\ job'.size = job.size)
  /\ job'.pc \in Programs =>
       job.pc \in Programs \/ job'.source = "backup" \/ job'.size = gStatus.imageSize

\* Such a step keeps the invariant.
LEMMA MoveKeeps ==
  ASSUME IInv, ReviewInv, Moves
  PROVE  ReviewInv'
  <1>1. gStatus \in JobStatus /\ job \in Job /\ JobShape BY DEF IInv, TypeOK
  <1>2. /\ gStatus'.imageSize = gStatus.imageSize /\ gStatus'.foreign = gStatus.foreign
        /\ gStatus'.uid = gStatus.uid
        /\ gStatus'.complete = gStatus.complete /\ gStatus'.identical = gStatus.identical
        /\ gStatus'.state = gStatus.state \/ gStatus'.state \notin {"Ready", "Current"}
    BY <1>1, StatusFields DEF Moves
  <1>3. /\ Inspected' <=> Inspected
        /\ Fitting' <=> Fitting
        /\ Reviewed' <=> Reviewed
    BY <1>2, ReviewKept DEF Moves
  <1>4. job.pc \notin {"none", "queued", "release", "report"} BY DEF Moves, Attached, Programs
  <1>5. gStatus.state \notin {"Ready", "Current"}
    BY <1>4 DEF ReviewInv, Offered, Settled
  <1>6. ~uploadOpen BY <1>1, <1>4 DEF JobShape
  <1>7. Offered' BY <1>2, <1>5, <1>6 DEF Offered, Moves
  <1>8. Replying' BY <1>2, <1>3, <1>4 DEF ReviewInv, Replying, Moves
  <1>9. Probed' BY DEF Moves, Probed, Attached, Programs
  <1>10. Flashed'
    <2>1. job'.pc # "attach" BY DEF Moves, Attached, Programs
    <2>2. SUFFICES ASSUME job.kind = "Flash" PROVE Flashed' BY <2>1 DEF Flashed, Moves
    <2>3. Reviewed' BY <1>3, <1>4, <2>2 DEF ReviewInv, Flashed
    <2>4. job'.pc \in Attached => job'.target = gStatus'.uid /\ job'.expected = gStatus'.uid
      <3>1. job'.pc \in Attached => job.pc \in Attached BY DEF Moves, Attached, Programs
      <3> QED BY <1>2, <2>2, <3>1 DEF ReviewInv, Flashed, Moves
    <2>5. job'.source = "firmware" => job'.size \in {0, gStatus'.imageSize}
      BY <1>2, <2>2 DEF ReviewInv, Flashed, Moves
    <2> QED BY <2>1, <2>3, <2>4, <2>5 DEF Flashed
  <1> QED BY <1>7, <1>8, <1>9, <1>10 DEF ReviewInv

-----------------------------------------------------------------------------
(* The steps of a job *)

\* The states program and verify show are none of a probe.
LEMMA ProgressStates ==
  ASSUME NEW s \in {"Erasing", "Programming", "Verifying"}, Progress(s)
  PROVE  \E state \in States \ {"Ready", "Current"} : SetStatus(state, "")
  <1>1. CASE job.source = "backup" BY <1>1 DEF Progress, States
  <1>2. CASE job.source # "backup" BY <1>2 DEF Progress, States
  <1> QED BY <1>1, <1>2

\* A step that fails ends the job, or turns an update to its backup.
LEMMA FailureMoves ==
  ASSUME job \in Job, UNCHANGED <<gStatus, firmware, http, uploadOpen>>,
         \/ job.pc \in Attached \union {"attach"} /\ Conclude("failed")
         \/ job.pc \in Programs /\ UpdateFails
  PROVE  Moves
  <1>1. CASE Conclude("failed") /\ job.pc \in Attached \union {"attach"}
    <2>1. /\ job'.kind = job.kind /\ job'.expected = job.expected /\ job'.target = job.target
          /\ job'.source = job.source /\ job'.size = job.size
          /\ job'.pc = "report" /\ job'.verdict = "failed"
      BY <1>1 DEF Conclude, Job
    <2> QED BY <1>1, <2>1 DEF Moves, Programs
  <1>2. CASE Goto("restore") /\ job.pc \in Programs
    <2>1. /\ job'.kind = job.kind /\ job'.expected = job.expected /\ job'.target = job.target
          /\ job'.source = job.source /\ job'.size = job.size
          /\ job'.pc = "restore"
      BY <1>2 DEF Goto, Job
    <2> QED BY <1>2, <2>1 DEF Moves, Attached, Programs
  <1>3. job.pc \in Programs => job.pc \in Attached \union {"attach"} BY DEF Attached
  <1> QED BY <1>1, <1>2, <1>3 DEF UpdateFails

\* Every step between attach and the report is such a step.
LEMMA StepMoves ==
  ASSUME TypeOK,
         \/ AttachFails \/ InspectFails \/ OpenBackup \/ SaveChunk \/ SaveFails
         \/ BackupDone \/ BeginRestore \/ Unlock \/ ErasePage \/ WriteChunk
         \/ Verify \/ ProgramStepFails
  PROVE  Moves
  <1>0. job \in Job BY DEF TypeOK
  <1> USE DEF Attached, Programs, At
  <1>1. CASE AttachFails BY <1>0, <1>1, FailureMoves DEF AttachFails, statusVars, uploadVars, fileVars
  <1>2. CASE InspectFails BY <1>0, <1>2, FailureMoves DEF InspectFails, statusVars, uploadVars, fileVars
  <1>3. CASE OpenBackup
    <2>1. CASE Goto("save") BY <1>0, <1>3, <2>1 DEF OpenBackup, Goto, Moves, Job, statusVars, uploadVars
    <2>2. CASE Conclude("failed")
      BY <1>0, <1>3, <2>2, FailureMoves DEF OpenBackup, statusVars, uploadVars
    <2> QED BY <1>3, <2>1, <2>2 DEF OpenBackup
  <1>4. CASE SaveChunk
    <2>1. \E s \in States \ {"Ready", "Current"} : SetStatus(s, "") BY <1>4 DEF SaveChunk, States
    <2> QED BY <1>4, <2>1 DEF SaveChunk, Moves, uploadVars
  <1>5. CASE SaveFails BY <1>0, <1>5, FailureMoves DEF SaveFails, statusVars, uploadVars, fileVars
  <1>6. CASE BackupDone BY <1>0, <1>6 DEF BackupDone, Moves, Job, statusVars, uploadVars
  <1>7. CASE BeginRestore
    <2>1. CASE SetStatus("Restoring", "")
               /\ job' = [job EXCEPT !.pc = "unlock", !.source = "backup", !.size = Len(backup),
                              !.page = 0, !.chunk = 0]
      <3>1. \E s \in States \ {"Ready", "Current"} : SetStatus(s, "") BY <2>1 DEF States
      <3> QED BY <1>0, <1>7, <2>1, <3>1 DEF BeginRestore, Moves, Job, uploadVars, fileVars
    <2>2. CASE Conclude("failed") /\ UNCHANGED gStatus
      BY <1>0, <1>7, <2>2, FailureMoves DEF BeginRestore, uploadVars, fileVars
    <2> QED BY <1>7, <2>1, <2>2 DEF BeginRestore
  <1>8. CASE Unlock
    BY <1>0, <1>8 DEF Unlock, Goto, Moves, Job, statusVars, uploadVars, fileVars
  <1>9. CASE ErasePage
    <2>1. \E s \in States \ {"Ready", "Current"} : SetStatus(s, "")
      BY <1>9, ProgressStates DEF ErasePage
    <2> QED BY <1>0, <1>9, <2>1 DEF ErasePage, Moves, Job, uploadVars, fileVars
  <1>10. CASE WriteChunk
    <2>1. \E s \in States \ {"Ready", "Current"} : SetStatus(s, "")
      BY <1>10, ProgressStates DEF WriteChunk
    <2> QED BY <1>0, <1>10, <2>1 DEF WriteChunk, AfterChunk, Moves, Job, uploadVars, fileVars
  <1>11. CASE Verify
    <2>1. \E s \in States \ {"Ready", "Current"} : SetStatus(s, "")
      BY <1>11, ProgressStates DEF Verify
    <2>2. PICK v \in {"previous", "programmed", "original"} : Conclude(v)
      BY <1>11 DEF Verify
    <2>3. /\ job'.kind = job.kind /\ job'.expected = job.expected /\ job'.target = job.target
          /\ job'.source = job.source /\ job'.size = job.size
          /\ job'.pc = "report" /\ job'.verdict = v
      BY <1>0, <2>2 DEF Conclude, Job
    <2> QED BY <1>11, <2>1, <2>3 DEF Verify, Moves, uploadVars, fileVars
  <1>12. CASE ProgramStepFails
    <2>1. job.pc \in Programs BY <1>12 DEF ProgramStepFails, ProgramFails
    <2> QED BY <1>0, <1>12, <2>1, FailureMoves
            DEF ProgramStepFails, statusVars, uploadVars, fileVars
  <1> QED BY <1>1, <1>2, <1>3, <1>4, <1>5, <1>6, <1>7, <1>8, <1>9, <1>10, <1>11, <1>12

\* The job takes the UID of the status with it.
LEMMA ReviewStart ==
  ASSUME IInv, ReviewInv, Start
  PROVE  ReviewInv'
  <1>1. gStatus \in JobStatus /\ job \in Job /\ JobShape BY DEF IInv, TypeOK
  <1>2. PICK s \in {"Probing", "Connecting"} : SetStatus(s, "") BY DEF Start
  <1>3. /\ gStatus'.state \notin {"Ready", "Current"}
        /\ gStatus'.imageSize = gStatus.imageSize /\ gStatus'.foreign = gStatus.foreign
        /\ gStatus'.uid = gStatus.uid
        /\ gStatus'.complete = gStatus.complete /\ gStatus'.identical = gStatus.identical
    BY <1>1, <1>2, StatusFields
  <1>4. UNCHANGED <<firmware, http, uploadOpen>> BY DEF Start, uploadVars, fileVars
  <1>5. /\ Inspected' <=> Inspected
        /\ Reviewed' <=> Reviewed
    BY <1>3, <1>4, ReviewKept
  <1>6. /\ job.pc = "queued" /\ job'.pc = "attach" /\ job'.expected = gStatus.uid
        /\ job'.kind = job.kind /\ job'.source = job.source /\ job'.size = job.size
    BY <1>1 DEF Start, At, Job
  <1>7. ~uploadOpen BY <1>1, <1>6 DEF JobShape
  <1>8. Offered' BY <1>3, <1>4, <1>7 DEF Offered
  <1>9. Replying' BY <1>3, <1>4, <1>5, <1>6 DEF ReviewInv, Replying
  <1>10. Probed' BY <1>5, <1>6 DEF ReviewInv, Probed
  <1>11. Flashed' BY <1>3, <1>5, <1>6 DEF ReviewInv, Flashed, Attached, Programs
  <1> QED BY <1>8, <1>9, <1>10, <1>11 DEF ReviewInv

\* attach: the controller is the one of the status, if that names one.
LEMMA ReviewAttach ==
  ASSUME IInv, ReviewInv, Attach
  PROVE  ReviewInv'
  <1>1. /\ gStatus \in JobStatus /\ job \in Job /\ JobShape
        /\ connected \in Targets \union {NoTarget}
    BY DEF IInv, TypeOK
  <1>2. /\ gStatus'.uid = connected /\ connected \in Targets
        /\ gStatus'.state = gStatus.state
        /\ gStatus'.imageSize = gStatus.imageSize /\ gStatus'.foreign = gStatus.foreign
        /\ gStatus'.complete = gStatus.complete /\ gStatus'.identical = gStatus.identical
    BY <1>1 DEF Attach, JobStatus
  <1>3. UNCHANGED <<firmware, http, uploadOpen>> BY DEF Attach, uploadVars, fileVars
  <1>4. job.pc = "attach" /\ job.expected = gStatus.uid /\ ~uploadOpen
    BY <1>1 DEF Attach, At, ReviewInv, Flashed, JobShape
  <1>5. job.kind # "Probe" /\ gStatus.uid # NoTarget => gStatus'.uid = gStatus.uid
    BY <1>2, <1>4 DEF Attach, SameController
  <1>6. Inspected' <=> Inspected
    BY <1>2, <1>3 DEF Inspected, Acceptable, NamesForeign, FirstIsForeign
  <1>7. Reviewed /\ job.kind # "Probe" => Reviewed'
    <2>1. SUFFICES ASSUME Reviewed, job.kind # "Probe" PROVE Reviewed' OBVIOUS
    <2>2. gStatus.uid # NoTarget BY <2>1, TargetAssumption DEF Reviewed, Fitting
    <2> QED BY <1>2, <1>3, <1>5, <2>1, <2>2, ReviewKept
  <1>8. /\ job'.kind = job.kind /\ job'.expected = job.expected /\ job'.target = connected
        /\ job'.source = job.source /\ job'.size = job.size
        /\ job'.pc \in {"inspect", "open backup", "restore", "report"}
        /\ job'.pc = "report" => job'.verdict = "failed"
        /\ job'.pc = "inspect" => job.kind = "Probe" /\ FitsTarget(connected) /\ ~gStatus.foreign
        /\ job.kind = "Probe" => job'.pc \in {"inspect", "report"}
    <2>1. job.kind \in {"Probe", "Flash", "Restore"} BY <1>1, <1>4 DEF Job, Kinds, JobShape
    <2>2. CASE job.kind = "Probe" BY <1>1, <2>2 DEF Attach, Job
    <2>3. CASE job.kind = "Flash" BY <1>1, <2>3 DEF Attach, Job
    <2>4. CASE job.kind = "Restore" BY <1>1, <2>4 DEF Attach, Job
    <2> QED BY <2>1, <2>2, <2>3, <2>4
  <1>9. gStatus.state \notin {"Ready", "Current"}
    BY <1>4 DEF ReviewInv, Offered, Settled
  <1>10. Offered' BY <1>2, <1>3, <1>4, <1>9 DEF Offered
  <1>11. Replying' BY <1>2, <1>3, <1>4, <1>7, <1>8 DEF ReviewInv, Replying
  <1>12. Probed'
    <2>1. job'.pc = "inspect" => Fitting' /\ job'.target = gStatus'.uid
      BY <1>2, <1>4, <1>6, <1>8 DEF ReviewInv, Probed, Fitting, FitsTarget
    <2> QED BY <1>8, <2>1 DEF Probed
  <1>13. Flashed'
    <2>1. CASE job.kind = "Flash"
      <3>1. Reviewed /\ gStatus.uid # NoTarget
        BY <1>4, <2>1, TargetAssumption DEF ReviewInv, Flashed, Reviewed, Fitting
      <3> QED BY <1>2, <1>4, <1>5, <1>7, <1>8, <2>1, <3>1 DEF ReviewInv, Flashed
    <2>2. CASE job.kind # "Flash" BY <1>8, <2>2 DEF Flashed
    <2> QED BY <2>1, <2>2
  <1> QED BY <1>10, <1>11, <1>12, <1>13 DEF ReviewInv

\* inspectApplication: the comparison is recorded and decides the verdict.
LEMMA ReviewInspect ==
  ASSUME IInv, ReviewInv, Inspect
  PROVE  ReviewInv'
  <1>1. gStatus \in JobStatus /\ job \in Job /\ JobShape BY DEF IInv, TypeOK
  <1> DEFINE same == Identical(flash[job.target])
  <1>2. /\ gStatus' = [gStatus EXCEPT !.complete = TRUE, !.identical = same]
        /\ job' = [job EXCEPT !.pc = "report", !.verdict = IF same THEN "current" ELSE "ready"]
        /\ UNCHANGED <<firmware, http, uploadOpen>>
    BY DEF Inspect, Compared, Conclude, uploadVars, fileVars
  <1>3. same \in BOOLEAN BY Zenon DEF Identical
  <1> HIDE DEF same
  <1>4. /\ gStatus'.state = gStatus.state /\ gStatus'.uid = gStatus.uid
        /\ gStatus'.imageSize = gStatus.imageSize /\ gStatus'.foreign = gStatus.foreign
        /\ gStatus'.complete = TRUE /\ gStatus'.identical = same
    BY <1>1, <1>2 DEF JobStatus
  <1>5. /\ job'.kind = job.kind /\ job'.pc = "report"
        /\ job'.verdict = IF same THEN "current" ELSE "ready"
    BY <1>1, <1>2 DEF Job
  <1>6. job.pc = "inspect" /\ job.kind = "Probe" /\ Fitting /\ ~uploadOpen
    BY <1>1 DEF Inspect, At, ReviewInv, Probed, JobShape
  <1>7. Inspected' <=> Inspected
    BY <1>2, <1>4 DEF Inspected, Acceptable, NamesForeign, FirstIsForeign
  <1>8. Fitting' BY <1>4, <1>6, <1>7 DEF Fitting
  <1>9. gStatus.state \notin {"Ready", "Current"}
    BY <1>6 DEF ReviewInv, Offered, Settled
  <1>10. Offered' BY <1>2, <1>4, <1>6, <1>9 DEF Offered
  <1>11. Replying' BY <1>2, <1>5, <1>6 DEF ReviewInv, Replying
  <1>12. Probed' BY <1>3, <1>4, <1>5, <1>6, <1>8 DEF Probed, Reviewed
  <1>13. Flashed' BY <1>5, <1>6 DEF Flashed
  <1> QED BY <1>10, <1>11, <1>12, <1>13 DEF ReviewInv

\* The verdict and the state it becomes.
LEMMA ReportedStatus ==
  ASSUME job \in Job, JobShape, Report
  PROVE  \E s \in States, m \in Messages :
           /\ SetStatus(s, m)
           /\ s = "Ready" => job.verdict = "ready"
           /\ s = "Current" => job.verdict = "current"
  <1>1. job.verdict \in Verdicts \ {""} BY DEF Report, At, JobShape, Job
  <1>2. CASE job.verdict = "ready" BY <1>2 DEF Report, States, Messages
  <1>3. CASE job.verdict = "current" BY <1>3 DEF Report, States, Messages
  <1>4. CASE job.verdict = "programmed" BY <1>4 DEF Report, States, Messages
  <1>5. CASE job.verdict = "previous" BY <1>5 DEF Report, States, Messages
  <1>6. CASE job.verdict = "original" BY <1>6 DEF Report, States, Messages
  <1>7. CASE job.verdict = "failed" BY <1>7 DEF Report, States, Messages
  <1> QED BY <1>1, <1>2, <1>3, <1>4, <1>5, <1>6, <1>7 DEF Verdicts

\* The verdict becomes the state.
LEMMA ReviewReport ==
  ASSUME IInv, ReviewInv, Report
  PROVE  ReviewInv'
  <1>1. gStatus \in JobStatus /\ job \in Job /\ JobShape BY DEF IInv, TypeOK
  <1>2. PICK s \in States, m \in Messages :
          /\ SetStatus(s, m)
          /\ s = "Ready" => job.verdict = "ready"
          /\ s = "Current" => job.verdict = "current"
    BY <1>1, ReportedStatus
  <1>3. /\ gStatus'.state = s
        /\ gStatus'.imageSize = gStatus.imageSize /\ gStatus'.foreign = gStatus.foreign
        /\ gStatus'.uid = gStatus.uid
        /\ gStatus'.complete = gStatus.complete /\ gStatus'.identical = gStatus.identical
    BY <1>1, <1>2, StatusFields
  <1>4. UNCHANGED <<firmware, http, uploadOpen>> BY DEF Report, uploadVars, fileVars
  <1>5. Reviewed' <=> Reviewed BY <1>3, <1>4, ReviewKept
  <1>6. job.pc = "report" /\ job'.pc = "release" /\ job'.kind = job.kind
        /\ job'.source = job.source /\ job'.size = job.size
    BY <1>1 DEF Report, At, Goto, Job
  <1>7. ~uploadOpen BY <1>1, <1>6 DEF JobShape
  <1>8. Offered'
    <2>1. s = "Ready" => Reviewed BY <1>2, <1>6 DEF ReviewInv, Probed
    <2>2. s = "Current" => gStatus.complete /\ gStatus.identical
      BY <1>2, <1>6 DEF ReviewInv, Probed
    <2> QED BY <1>3, <1>4, <1>5, <1>6, <1>7, <2>1, <2>2 DEF Offered, Settled
  <1>9. Replying' BY <1>3, <1>4, <1>5, <1>6 DEF ReviewInv, Replying
  <1>10. Probed' BY <1>6 DEF Probed
  <1>11. Flashed' BY <1>3, <1>6 DEF ReviewInv, Flashed, Attached, Programs
  <1> QED BY <1>8, <1>9, <1>10, <1>11 DEF ReviewInv

\* The flag is cleared; nothing else moves.
LEMMA ReviewRelease ==
  ASSUME IInv, ReviewInv, Release
  PROVE  ReviewInv'
  <1>1. UNCHANGED <<gStatus, firmware, http, uploadOpen>> BY DEF Release, uploadVars, fileVars
  <1>2. Reviewed' <=> Reviewed BY <1>1, ReviewKept
  <1>3. job'.pc = "none" /\ job'.kind = "none" BY DEF Release, NoJob
  <1>4. Offered' BY <1>1, <1>2, <1>3 DEF ReviewInv, Offered, Settled
  <1>5. Replying' BY <1>1, <1>2, <1>3 DEF ReviewInv, Replying
  <1>6. Probed' BY <1>3 DEF Probed
  <1>7. Flashed' BY <1>3 DEF Flashed
  <1> QED BY <1>4, <1>5, <1>6, <1>7 DEF ReviewInv

-----------------------------------------------------------------------------
(* Web requests and the surroundings *)

\* A request that changes neither the image nor the status; if it begins a
\* status reply, the status it has seen is the present one.
LEMMA ReviewQuiet ==
  ASSUME IInv, ReviewInv, UNCHANGED <<gStatus, job, firmware>>,
         uploadOpen' => uploadOpen,
         http'.req = "status" => http' = http \/ http'.seen = gStatus.state
  PROVE  ReviewInv'
  <1>1. Reviewed' <=> Reviewed BY ReviewKept
  <1>2. Inspected' <=> Inspected BY ReviewKept
  <1>3. Fitting' <=> Fitting BY ReviewKept
  <1>4. Offered' BY <1>1 DEF ReviewInv, Offered, Settled
  <1>5. Replying' BY <1>1 DEF ReviewInv, Replying, Offered, Settled
  <1>6. Probed' BY <1>1, <1>2, <1>3 DEF ReviewInv, Probed
  <1>7. Flashed' BY <1>1 DEF ReviewInv, Flashed
  <1> QED BY <1>4, <1>5, <1>6, <1>7 DEF ReviewInv

\* The requests of ReviewQuiet.
LEMMA QuietRequests ==
  ASSUME TypeOK, UploadEnd \/ UploadAbort \/ FinishBusy \/ StatusBegin \/ StatusEnd
  PROVE  /\ UNCHANGED <<gStatus, job, firmware>>
         /\ uploadOpen' => uploadOpen
         /\ http'.req = "status" => http' = http \/ http'.seen = gStatus.state
  <1>0. http \in Request BY DEF TypeOK
  <1> USE DEF statusVars, uploadVars, fileVars, NoRequest
  <1>1. CASE UploadEnd BY <1>0, <1>1 DEF UploadEnd, Request
  <1>2. CASE UploadAbort BY <1>2 DEF UploadAbort
  <1>3. CASE FinishBusy BY <1>3 DEF FinishBusy
  <1>4. CASE StatusBegin BY <1>4 DEF StatusBegin
  <1>5. CASE StatusEnd BY <1>5 DEF StatusEnd
  <1> QED BY <1>1, <1>2, <1>3, <1>4, <1>5

\* With no job and no reply under way little can be wrong.
LEMMA ReviewRest ==
  ASSUME job'.kind = "none", job'.pc = "none", http'.req # "status",
         gStatus'.state \notin {"Ready", "Current"},
         uploadOpen' => gStatus'.state = "Uploading"
  PROVE  ReviewInv'
  BY DEF ReviewInv, Offered, Replying, Probed, Flashed

\* UPLOAD_FILE_START, of any file.
LEMMA ReviewUploadStart ==
  ASSUME IInv, ReviewInv, NEW body \in Uploads, UploadStart(body)
  PROVE  ReviewInv'
  <1>1. gStatus \in JobStatus /\ JobShape BY DEF IInv, TypeOK
  <1>2. http'.req = "receiving" /\ UNCHANGED job BY DEF UploadStart, NoRequest
  <1>3. CASE UploadsIgnored
    <2>1. UNCHANGED <<gStatus, job, firmware, uploadOpen>>
      BY <1>3 DEF UploadStart, uploadVars
    <2> QED BY <1>2, <2>1, ReviewQuiet
  <1>4. CASE ~UploadsIgnored
    <2>1. job.pc = "none" /\ job.kind = "none" BY <1>1, <1>4 DEF UploadsIgnored, JobShape
    <2>2. SetStatus("Uploading", "") BY <1>4 DEF UploadStart
    <2>3. gStatus'.state = "Uploading" BY <1>1, <2>2, StatusFields
    <2> QED BY <1>2, <2>1, <2>3, ReviewRest
  <1> QED BY <1>3, <1>4

\* UPLOAD_FILE_WRITE changes the file only while it is open and no job runs.
LEMMA ReviewUploadWrite ==
  ASSUME IInv, ReviewInv, UploadWrite
  PROVE  ReviewInv'
  <1>1. http \in Request /\ JobShape BY DEF IInv, TypeOK
  <1>2. http.req = "receiving" /\ http'.req = "receiving"
    BY <1>1 DEF UploadWrite, Request
  <1>3. UNCHANGED <<gStatus, job, uploadOpen>> BY DEF UploadWrite, statusVars
  <1>4. CASE uploadOpen
    <2>1. job.pc = "none" /\ job.kind = "none" BY <1>1, <1>4 DEF JobShape
    <2>2. gStatus.state = "Uploading" BY <1>4 DEF ReviewInv, Offered
    <2> QED BY <1>2, <1>3, <2>1, <2>2, ReviewRest
  <1>5. CASE ~uploadOpen
    <2>1. UNCHANGED firmware BY <1>5 DEF UploadWrite
    <2> QED BY <1>2, <1>3, <2>1, ReviewQuiet
  <1> QED BY <1>4, <1>5

\* finishUpload of an unacceptable file removes it; there is no job.
LEMMA ReviewFinishRejected ==
  ASSUME IInv, ReviewInv, FinishRejected
  PROVE  ReviewInv'
  <1>1. gStatus \in JobStatus /\ JobShape BY DEF IInv, TypeOK
  <1>2. /\ http'.req = "none" /\ http.req = "received"
        /\ UNCHANGED <<job, uploadOpen>> /\ ~jobRunning /\ SetStatus("Error", "")
    BY DEF FinishRejected, NoRequest, uploadVars
  <1>3. job.pc = "none" /\ job.kind = "none" /\ ~uploadOpen BY <1>1, <1>2 DEF JobShape
  <1>4. gStatus'.state = "Error" BY <1>1, <1>2, StatusFields
  <1> QED BY <1>2, <1>3, <1>4, ReviewRest

\* finishUpload of an acceptable file: everything the status said of an image is
\* replaced at once.
LEMMA ReviewFinishAccepted ==
  ASSUME IInv, ReviewInv, FinishAccepted
  PROVE  ReviewInv'
  <1>1. TypeOK /\ JobShape /\ firmware \in File BY DEF IInv, TypeOK
  <1>2. /\ http'.req = "none" /\ http.req = "received"
        /\ UNCHANGED <<firmware, uploadOpen>> /\ ~jobRunning /\ Acceptable(firmware)
    BY DEF FinishAccepted, NoRequest, uploadVars, fileVars
  <1>3. job.pc = "none" /\ job.kind = "none" /\ ~uploadOpen BY <1>1, <1>2 DEF JobShape
  <1>4. /\ gStatus'.state = "Probing" /\ gStatus'.imageSize = Len(firmware)
        /\ gStatus'.foreign = NamesForeign(firmware) /\ gStatus'.complete = FALSE
    BY DEF FinishAccepted, BootStatus
  <1>5. \/ job'.kind = "none" /\ job'.pc = "none"
        \/ job'.kind = "Probe" /\ job'.pc = "queued"
    BY <1>1, <1>3, QueuedJob DEF FinishAccepted, NoJob
  <1>6. Inspected'
    <2>1. firmware # NoFile BY <1>2 DEF Acceptable
    <2>2. Acceptable(firmware)' BY <1>2 DEF Acceptable
    <2>3. NamesForeign(firmware)' = NamesForeign(firmware) BY <1>2 DEF NamesForeign, FirstIsForeign
    <2> QED BY <1>2, <1>4, <2>1, <2>2, <2>3 DEF Inspected
  <1>7. Offered' BY <1>2, <1>3, <1>4 DEF Offered
  <1>8. Replying' BY <1>2 DEF Replying
  <1>9. Probed' BY <1>5, <1>6 DEF Probed
  <1>10. Flashed' BY <1>5 DEF Flashed
  <1> QED BY <1>7, <1>8, <1>9, <1>10 DEF ReviewInv

\* A flash request is taken for what the status offers; a restore for anything.
LEMMA ReviewRequest ==
  ASSUME IInv, ReviewInv, FlashRequest \/ RestoreRequest
  PROVE  ReviewInv'
  <1>1. TypeOK /\ JobShape BY DEF IInv
  <1>2. /\ http.req = "none" /\ ~jobRunning
        /\ UNCHANGED <<gStatus, http, firmware, uploadOpen>>
    BY DEF FlashRequest, RestoreRequest, uploadVars, fileVars
  <1>3. job.pc = "none" /\ job.kind = "none" BY <1>1, <1>2 DEF JobShape
  <1>4. Reviewed' <=> Reviewed BY <1>2, ReviewKept
  <1>5. PICK kind \in {"Flash", "Restore"} :
          /\ ScheduleJob(kind)
          /\ kind = "Flash" => gStatus.state = "Ready"
    BY DEF FlashRequest, RestoreRequest
  <1>6. \/ job'.kind = "none" /\ job'.pc = "none"
        \/ job'.kind = kind /\ job'.pc = "queued" /\ job'.size = 0
    BY <1>1, <1>3, <1>5, QueuedJob DEF NoJob
  <1>7. Offered' BY <1>2, <1>3, <1>4, <1>6 DEF ReviewInv, Offered, Settled
  <1>8. Replying' BY <1>2 DEF Replying
  <1>9. Probed' BY <1>6 DEF Probed
  <1>10. Flashed'
    <2>1. kind = "Flash" => Reviewed BY <1>5 DEF ReviewInv, Offered
    <2> QED BY <1>4, <1>6, <2>1 DEF Flashed, Attached, Programs
  <1> QED BY <1>7, <1>8, <1>9, <1>10 DEF ReviewInv

\* setup() runs again.
LEMMA ReviewReboot ==
  ASSUME NEW formatted \in BOOLEAN, Reboot(formatted)
  PROVE  ReviewInv'
  <1>1. /\ gStatus'.state = "Idle" /\ job'.kind = "none" /\ job'.pc = "none"
        /\ http'.req = "none" /\ uploadOpen' = FALSE
    BY DEF Reboot, BootStatus, NoJob, NoRequest
  <1> QED BY <1>1, ReviewRest

-----------------------------------------------------------------------------
(* The theorems *)

\* The state setup() leaves satisfies the invariant.
THEOREM InitReview == Init => ReviewInv
  <1> SUFFICES ASSUME Init PROVE ReviewInv OBVIOUS
  <1>1. /\ gStatus.state = "Idle" /\ job.kind = "none" /\ job.pc = "none"
        /\ http.req = "none" /\ uploadOpen = FALSE
    BY DEF Init, BootStatus, NoJob, NoRequest
  <1> QED BY <1>1 DEF ReviewInv, Offered, Replying, Probed, Flashed

\* Every step keeps it.
THEOREM NextReview == IInv /\ ReviewInv /\ [Next]_vars => ReviewInv'
  <1> SUFFICES ASSUME IInv, ReviewInv, [Next]_vars PROVE ReviewInv' OBVIOUS
  <1>0. TypeOK BY DEF IInv
  <1>1. CASE WebStep
    <2>1. CASE \E body \in Uploads : UploadStart(body) BY <2>1, ReviewUploadStart
    <2>2. CASE UploadWrite BY <2>2, ReviewUploadWrite
    <2>3. CASE UploadEnd \/ UploadAbort \/ FinishBusy \/ StatusBegin \/ StatusEnd
      <3>1. /\ UNCHANGED <<gStatus, job, firmware>>
            /\ uploadOpen' => uploadOpen
            /\ http'.req = "status" => http' = http \/ http'.seen = gStatus.state
        BY <1>0, <2>3, QuietRequests
      <3> QED BY <3>1, ReviewQuiet
    <2>4. CASE FinishRejected BY <2>4, ReviewFinishRejected
    <2>5. CASE FinishAccepted BY <2>5, ReviewFinishAccepted
    <2>6. CASE FlashRequest \/ RestoreRequest BY <2>6, ReviewRequest
    <2> QED BY <1>1, <2>1, <2>2, <2>3, <2>4, <2>5, <2>6 DEF WebStep
  <1>2. CASE JobStep
    <2>1. CASE Start BY <2>1, ReviewStart
    <2>2. CASE Attach BY <2>2, ReviewAttach
    <2>3. CASE Inspect BY <2>3, ReviewInspect
    <2>4. CASE Report BY <2>4, ReviewReport
    <2>5. CASE Release BY <2>5, ReviewRelease
    <2>6. CASE \/ AttachFails \/ InspectFails \/ OpenBackup \/ SaveChunk \/ SaveFails
               \/ BackupDone \/ BeginRestore \/ Unlock \/ ErasePage \/ WriteChunk
               \/ Verify \/ ProgramStepFails
      BY <1>0, <2>6, StepMoves, MoveKeeps
    <2> QED BY <1>2, <2>1, <2>2, <2>3, <2>4, <2>5, <2>6 DEF JobStep
  <1>3. CASE Environment
    <2>1. CASE \E t \in Targets \union {NoTarget} : Swap(t)
      <3>1. UNCHANGED <<gStatus, job, firmware, uploadOpen, http>>
        BY <2>1 DEF Swap, statusVars, uploadVars, fileVars
      <3> QED BY <3>1, ReviewQuiet
    <2>2. CASE \E formatted \in BOOLEAN : Reboot(formatted) BY <2>2, ReviewReboot
    <2> QED BY <1>3, <2>1, <2>2 DEF Environment
  <1>4. CASE UNCHANGED vars
    <2>1. UNCHANGED <<gStatus, job, firmware, uploadOpen, http>> BY <1>4 DEF vars
    <2> QED BY <2>1, ReviewQuiet
  <1> QED BY <1>1, <1>2, <1>3, <1>4 DEF Next

\* The invariant holds in every reachable state, whatever the constants.
THEOREM ReviewInvariance == Spec => [](IInv /\ ReviewInv)
  BY InitInvariant, NextInvariant, InitReview, NextReview, PTL DEF Spec

\* What the invariant says of an image is what the runs check of it.
LEMMA ReviewedImage ==
  ASSUME TypeOK, ReviewInv
  PROVE  ImageIsReviewed
  <1>1. ReadyIsValidated
    <2>1. SUFFICES ASSUME gStatus.state = "Ready" PROVE ReadyIsValidated
      BY DEF ReadyIsValidated
    <2>2. Reviewed BY <2>1 DEF ReviewInv, Offered
    <2>3. /\ firmware # NoFile /\ Acceptable(firmware) /\ ~NamesForeign(firmware)
          /\ gStatus.imageSize = Len(firmware)
      BY <2>2 DEF Reviewed, Fitting, Inspected
    <2>4. ASSUME NEW kind \in Markers, NEW i \in DOMAIN firmware, firmware[i] \in Foreign[kind]
          PROVE  \E j \in 1 .. i - 1 : firmware[j] \in Native[kind]
      <3>1. ~FirstIsForeign(firmware, kind) BY <2>3 DEF NamesForeign
      <3> QED BY <2>4, <3>1 DEF FirstIsForeign
    <2> QED BY <2>2, <2>3, <2>4 DEF ReadyIsValidated, Reviewed, Fitting, Size
  <1>2. FlashAsReviewed
    <2>1. SUFFICES ASSUME job.kind = "Flash", job.pc \in Programs \union {"save", "restore"}
                   PROVE  FlashAsReviewed
      BY DEF FlashAsReviewed
    <2>2. Reviewed /\ job.target = gStatus.uid /\ job.expected = gStatus.uid
          /\ (job.source = "firmware" => job.size \in {0, gStatus.imageSize})
      BY <2>1 DEF ReviewInv, Flashed, Attached, Programs
    <2> QED BY <2>2 DEF FlashAsReviewed, Reviewed, Fitting, Inspected
  <1> QED BY <1>1, <1>2 DEF ImageIsReviewed

\* From the verdict to the last write: an image is offered only when the stored
\* file passed the inspection, names no other board or MCU, fits and differs from
\* the controller, and a flash job programs that very file into that very
\* controller, through concurrent requests, exchanged controllers and restarts.
THEOREM ImageReviewed == Spec => []ImageIsReviewed
  <1>1. IInv /\ ReviewInv => ImageIsReviewed BY ReviewedImage DEF IInv
  <1> QED BY <1>1, ReviewInvariance, PTL

\* A status reply that says "ready" or "current" carries the comparison that led
\* to it, though the job runs while sendStatus reads the fields one by one.
THEOREM SnapshotConsistent == Spec => []SnapshotIsConsistent
  <1>1. IInv /\ ReviewInv => SnapshotIsConsistent
    BY DEF ReviewInv, Replying, Reviewed, SnapshotIsConsistent
  <1> QED BY <1>1, ReviewInvariance, PTL

\* What JobIsExclusive says of one step.
Excludes ==
  job.kind # "none" /\ job'.kind # "none" =>
    /\ job'.kind = job.kind
    /\ firmware' = firmware
    /\ gStatus'.imageSize = gStatus.imageSize

\* No request and no job step replaces the image, its size or the job.
LEMMA StepExcludes ==
  ASSUME IInv, [Next]_vars
  PROVE  [Excludes]_vars
  <1>0. /\ TypeOK /\ JobShape /\ gStatus \in JobStatus /\ job \in Job
    BY DEF IInv, TypeOK
  <1>1. SUFFICES ASSUME job.kind # "none", job'.kind # "none", Next PROVE Excludes
    BY DEF Excludes
  <1>2. jobRunning /\ ~uploadOpen BY <1>0, <1>1 DEF JobShape
  <1>3. CASE WebStep
    <2>1. CASE \E body \in Uploads : UploadStart(body)
      BY <1>2, <2>1 DEF UploadStart, UploadsIgnored, Excludes
    <2>2. CASE UploadWrite BY <1>2, <2>2 DEF UploadWrite, UploadsIgnored, statusVars, Excludes
    <2>3. CASE UploadEnd \/ UploadAbort \/ FinishBusy \/ StatusBegin \/ StatusEnd
      BY <1>0, <2>3, QuietRequests DEF Excludes
    <2>4. CASE FinishRejected \/ FinishAccepted \/ FlashRequest \/ RestoreRequest
      BY <1>2, <2>4 DEF FinishRejected, FinishAccepted, FlashRequest, RestoreRequest
    <2> QED BY <1>3, <2>1, <2>2, <2>3, <2>4 DEF WebStep
  <1>4. CASE JobStep
    <2>1. CASE Start
      <3>1. \E s \in States : SetStatus(s, "") BY <2>1 DEF Start, States
      <3>2. gStatus'.imageSize = gStatus.imageSize BY <1>0, <3>1, StatusFields
      <3> QED BY <1>0, <2>1, <3>2 DEF Start, Job, fileVars, Excludes
    <2>2. CASE Attach BY <1>0, <2>2 DEF Attach, Job, JobStatus, fileVars, Excludes
    <2>3. CASE Inspect
      BY <1>0, <2>3 DEF Inspect, Compared, Conclude, Job, JobStatus, fileVars, Excludes
    <2>4. CASE Report
      <3>1. \E s \in States, m \in Messages : SetStatus(s, m)
        BY <1>0, <2>4, ReportedStatus
      <3>2. gStatus'.imageSize = gStatus.imageSize BY <1>0, <3>1, StatusFields
      <3> QED BY <1>0, <2>4, <3>2 DEF Report, Goto, Job, fileVars, Excludes
    <2>5. CASE Release BY <1>1, <2>5 DEF Release, NoJob
    <2>6. CASE \/ AttachFails \/ InspectFails \/ OpenBackup \/ SaveChunk \/ SaveFails
               \/ BackupDone \/ BeginRestore \/ Unlock \/ ErasePage \/ WriteChunk
               \/ Verify \/ ProgramStepFails
      <3>1. Moves BY <1>0, <2>6, StepMoves
      <3>2. gStatus'.imageSize = gStatus.imageSize BY <1>0, <3>1, StatusFields DEF Moves
      <3> QED BY <3>1, <3>2 DEF Moves, Excludes
    <2> QED BY <1>4, <2>1, <2>2, <2>3, <2>4, <2>5, <2>6 DEF JobStep
  <1>5. CASE Environment
    <2>1. CASE \E t \in Targets \union {NoTarget} : Swap(t)
      BY <2>1 DEF Swap, statusVars, fileVars, Excludes
    <2>2. CASE \E formatted \in BOOLEAN : Reboot(formatted)
      <3>1. job' = NoJob BY <2>2 DEF Reboot
      <3> QED BY <1>1, <3>1 DEF NoJob
    <2> QED BY <1>5, <2>1, <2>2 DEF Environment
  <1> QED BY <1>1, <1>3, <1>4, <1>5 DEF Next

\* While a job lives nothing else starts one, replaces the image under it or
\* changes the size it works with, whatever requests arrive and when.
THEOREM JobsExclude == Spec => JobIsExclusive
  <1>1. IInv /\ [Next]_vars => [Excludes]_vars BY StepExcludes
  <1>2. [][Excludes]_vars => JobIsExclusive BY DEF Excludes, JobIsExclusive
  <1> QED BY <1>1, <1>2, Invariance, PTL DEF Spec

-----------------------------------------------------------------------------
(* The ESP8266, where no job runs while a request is served *)

\* Up to the end of an upload the file holds what has been sent of it.
StoredSoFar ==
  /\ Len(firmware) = http.sent
  /\ \A i \in 1 .. http.sent : firmware[i] = http.body[i]

Storing ==
  /\ jobRunning => job.pc # "none"
  /\ http.req \in {"receiving", "received"} => job.pc = "none"
  /\ http.req = "receiving" /\ ~uploadFailed => uploadOpen /\ StoredSoFar
  /\ http.req = "received" /\ ~uploadFailed =>
       firmware # NoFile /\ StoredSoFar /\ http.sent = Len(http.body)

\* A step that does not touch an upload.
LEMMA StoringKept ==
  ASSUME Storing, UNCHANGED <<http, firmware, uploadOpen, uploadFailed>>,
         jobRunning' => job'.pc # "none",
         http.req \in {"receiving", "received"} => job'.pc = "none"
  PROVE  Storing'
  BY DEF Storing, StoredSoFar

\* A request that ends, or a status reply, leaves no upload to speak of.
LEMMA StoringDone ==
  ASSUME http'.req \notin {"receiving", "received"},
         jobRunning' => job'.pc # "none"
  PROVE  Storing'
  BY DEF Storing

\* What scheduleJob leaves where there are no tasks.
LEMMA ScheduledJob ==
  ASSUME ~Concurrent, NEW kind, ScheduleJob(kind)
  PROVE  job'.pc = "queued"
  BY DEF ScheduleJob, NoJob

\* The steps of an upload add to the file what they take from the request.
LEMMA StoringUpload ==
  ASSUME ~Concurrent, IInv, Storing,
         \/ \E body \in Uploads : UploadStart(body)
         \/ UploadWrite
         \/ UploadEnd
  PROVE  Storing'
  <1>0. TypeOK /\ http \in Request /\ JobShape /\ firmware \in File BY DEF IInv, TypeOK
  <1>1. job.pc = "none" /\ ~jobRunning /\ UNCHANGED <<job, jobRunning>>
    BY DEF UploadStart, UploadWrite, UploadEnd, HandlersRun, Storing, statusVars
  <1>2. CASE \E body \in Uploads : UploadStart(body)
    <2>1. PICK body \in Uploads : UploadStart(body) BY <1>2
    <2>2. http'.req = "receiving" /\ http'.sent = 0 BY <2>1 DEF UploadStart, NoRequest
    <2>3. \/ firmware' = <<>> /\ uploadOpen' = TRUE
          \/ uploadFailed' = TRUE
      BY <1>1, <2>1 DEF UploadStart, UploadsIgnored
    <2> QED BY <1>1, <2>2, <2>3 DEF Storing, StoredSoFar
  <1>3. CASE UploadWrite
    <2>1. /\ http.req = "receiving" /\ http'.req = "receiving" /\ http'.body = http.body
          /\ http'.sent = http.sent + 1 /\ http.sent \in Nat
      BY <1>0, <1>3 DEF UploadWrite, Request
    <2>2. UNCHANGED uploadOpen BY <1>3 DEF UploadWrite
    <2>3. CASE uploadFailed'
      BY <1>1, <2>1, <2>3 DEF Storing
    <2>4. CASE ~uploadFailed'
      <3>1. /\ ~uploadFailed /\ uploadOpen
            /\ firmware' = Append(firmware, http.body[http.sent + 1])
        BY <1>1, <1>3, <2>1, <2>4 DEF UploadWrite, UploadsIgnored, Storing, WriteError
      <3>2. firmware \in Seq(Content) BY <1>0, <3>1 DEF JobShape, File
      <3>3. http.body[http.sent + 1] \in Content BY <1>0, <1>3, UploadedChunk
      <3>4. Len(firmware) = http.sent /\ \A i \in 1 .. http.sent : firmware[i] = http.body[i]
        BY <2>1, <3>1 DEF Storing, StoredSoFar
      <3>5. StoredSoFar' BY <2>1, <3>1, <3>2, <3>3, <3>4 DEF StoredSoFar
      <3> QED BY <1>1, <2>1, <2>2, <3>1, <3>5 DEF Storing
    <2> QED BY <2>3, <2>4
  <1>4. CASE UploadEnd
    <2>1. /\ http.req = "receiving" /\ http'.req = "received" /\ http'.body = http.body
          /\ http'.sent = http.sent /\ http.sent = Len(http.body)
          /\ UNCHANGED <<firmware, uploadFailed>>
      BY <1>0, <1>4 DEF UploadEnd, Request, fileVars
    <2>2. ~uploadFailed => firmware # NoFile /\ StoredSoFar
      BY <1>0, <2>1 DEF Storing, JobShape
    <2>3. StoredSoFar' <=> StoredSoFar BY <2>1 DEF StoredSoFar
    <2> QED BY <1>1, <2>1, <2>2, <2>3 DEF Storing
  <1> QED BY <1>2, <1>3, <1>4

\* Every step keeps what is known of an upload.
LEMMA NextStoring ==
  ASSUME ~Concurrent, IInv, Storing, [Next]_vars
  PROVE  Storing'
  <1>0. TypeOK /\ JobShape /\ job \in Job BY DEF IInv, TypeOK
  <1>1. CASE WebStep
    <2>1. CASE \/ \E body \in Uploads : UploadStart(body)
               \/ UploadWrite
               \/ UploadEnd
      BY <2>1, StoringUpload
    <2>2. CASE UploadAbort \/ FinishBusy \/ FinishRejected \/ StatusBegin \/ StatusEnd
      <3>1. http'.req \in {"none", "status"}
        <4>1. CASE StatusBegin BY <4>1 DEF StatusBegin, NoRequest
        <4>2. CASE UploadAbort BY <4>2 DEF UploadAbort, NoRequest
        <4>3. CASE FinishBusy BY <4>3 DEF FinishBusy, NoRequest
        <4>4. CASE FinishRejected BY <4>4 DEF FinishRejected, NoRequest
        <4>5. CASE StatusEnd BY <4>5 DEF StatusEnd, NoRequest
        <4> QED BY <2>2, <4>1, <4>2, <4>3, <4>4, <4>5
      <3>2. UNCHANGED <<job, jobRunning>>
        BY <2>2 DEF UploadAbort, FinishBusy, FinishRejected, StatusBegin, StatusEnd, statusVars
      <3> QED BY <3>1, <3>2, StoringDone DEF Storing
    <2>3. CASE FinishAccepted
      <3>1. http'.req = "none" /\ job'.pc = "queued"
        BY <2>3, ScheduledJob DEF FinishAccepted, NoRequest
      <3> QED BY <3>1, StoringDone
    <2>4. CASE FlashRequest \/ RestoreRequest
      <3>1. http'.req = "none" /\ job'.pc = "queued"
        BY <2>4, ScheduledJob DEF FlashRequest, RestoreRequest
      <3> QED BY <3>1, StoringDone
    <2> QED BY <1>1, <2>1, <2>2, <2>3, <2>4 DEF WebStep
  <1>2. CASE JobStep
    <2>1. job.pc # "none" /\ UNCHANGED http
      BY <1>2 DEF JobStep, Start, Attach, AttachFails, Inspect, InspectFails, OpenBackup,
                  SaveChunk, SaveFails, BackupDone, BeginRestore, Unlock, ErasePage,
                  WriteChunk, Verify, ProgramStepFails, ProgramFails, Report, Release, At
    <2>2. http'.req \notin {"receiving", "received"} BY <2>1 DEF Storing
    <2>3. jobRunning' => job'.pc # "none"
      <3>1. CASE Release BY <3>1 DEF Release
      <3>2. CASE Start \/ Attach \/ Inspect \/ Report
        <4>1. CASE Start BY <1>0, <4>1 DEF Start, Job
        <4>2. CASE Inspect BY <1>0, <4>2 DEF Inspect, Conclude, Job
        <4>3. CASE Report BY <1>0, <4>3 DEF Report, Goto, Job
        <4>4. CASE Attach
          <5>1. job.kind \in {"Probe", "Flash", "Restore"}
            BY <1>0, <2>1 DEF Job, Kinds, JobShape
          <5>2. CASE job.kind = "Probe" BY <1>0, <4>4, <5>2 DEF Attach, Job
          <5>3. CASE job.kind = "Flash" BY <1>0, <4>4, <5>3 DEF Attach, Job
          <5>4. CASE job.kind = "Restore" BY <1>0, <4>4, <5>4 DEF Attach, Job
          <5> QED BY <5>1, <5>2, <5>3, <5>4
        <4> QED BY <3>2, <4>1, <4>2, <4>3, <4>4
      <3>3. CASE \/ AttachFails \/ InspectFails \/ OpenBackup \/ SaveChunk \/ SaveFails
                 \/ BackupDone \/ BeginRestore \/ Unlock \/ ErasePage \/ WriteChunk
                 \/ Verify \/ ProgramStepFails
        BY <1>0, <3>3, StepMoves DEF Moves, Attached, Programs
      <3> QED BY <1>2, <3>1, <3>2, <3>3 DEF JobStep
    <2> QED BY <2>2, <2>3, StoringDone
  <1>3. CASE Environment
    <2>1. CASE \E t \in Targets \union {NoTarget} : Swap(t)
      BY <2>1, StoringKept DEF Swap, statusVars, uploadVars, fileVars, Storing
    <2>2. CASE \E formatted \in BOOLEAN : Reboot(formatted)
      <3>1. http'.req = "none" /\ jobRunning' = FALSE BY <2>2 DEF Reboot, NoRequest
      <3> QED BY <3>1, StoringDone
    <2> QED BY <1>3, <2>1, <2>2 DEF Environment
  <1>4. CASE UNCHANGED vars BY <1>4, StoringKept DEF vars, Storing
  <1> QED BY <1>1, <1>2, <1>3, <1>4 DEF Next

\* A job that begins after an upload was received is the probe of that upload.
LEMMA StoredWhenAccepted ==
  ASSUME IInv, Storing, [Next]_vars, http.req = "received", ~jobRunning, jobRunning'
  PROVE  firmware = http.body
  <1>1. /\ http \in Request /\ JobShape /\ job \in Job /\ firmware \in File
    BY DEF IInv, TypeOK
  <1>2. FinishAccepted
    <2>1. job.pc = "none" BY <1>1 DEF JobShape
    <2>2. ~JobStep
      BY <2>1 DEF JobStep, Start, Attach, AttachFails, Inspect, InspectFails, OpenBackup,
                  SaveChunk, SaveFails, BackupDone, BeginRestore, Unlock, ErasePage,
                  WriteChunk, Verify, ProgramStepFails, ProgramFails, Report, Release, At
    <2>3. ~Environment BY DEF Environment, Swap, Reboot, statusVars
    <2>4. ~UNCHANGED vars BY DEF vars
    <2>5. WebStep BY <2>2, <2>3, <2>4 DEF Next
    <2> QED BY <2>5 DEF WebStep, UploadStart, UploadWrite, UploadEnd, UploadAbort, FinishBusy,
                FinishRejected, FlashRequest, RestoreRequest, StatusBegin, StatusEnd, statusVars
  <1>3. ~uploadFailed BY <1>2 DEF FinishAccepted
  <1>4. /\ firmware \in Seq(Content) /\ Len(firmware) = Len(http.body)
        /\ \A i \in 1 .. Len(http.body) : firmware[i] = http.body[i]
    BY <1>1, <1>3 DEF Storing, StoredSoFar, File
  <1>5. http.body \in Seq(Content)
    <2>1. http.body \in Uploads \union {<<>>} BY <1>1 DEF Request
    <2>2. CASE http.body \in Uploads BY <2>2, ContentAssumption
    <2>3. CASE http.body = <<>> BY <2>3
    <2> QED BY <2>1, <2>2, <2>3
  <1> QED BY <1>4, <1>5

\* On the ESP8266 an upload that is answered 202 is the file that was stored,
\* inspected and is now being probed.
THEOREM AcceptedStored ==
  ASSUME ~Concurrent
  PROVE  Spec => AcceptedUploadIsStored
  <1>1. Init => Storing BY DEF Init, NoRequest, Storing
  <1>2. IInv /\ Storing /\ [Next]_vars => Storing' BY NextStoring
  <1>3. IInv /\ Storing /\ [Next]_vars =>
          [http.req = "received" /\ ~jobRunning /\ jobRunning' => firmware = http.body]_vars
    BY StoredWhenAccepted
  <1> QED BY <1>1, <1>2, <1>3, Invariance, PTL DEF Spec, AcceptedUploadIsStored

-----------------------------------------------------------------------------
(***************************************************************************)
(* The final messages of a job: "programmed, byte-verified" and "original  *)
(* firmware was restored" say what the flash of that controller holds, up  *)
(* to the next job or upload.                                              *)
(***************************************************************************)

\* The image is in place and nothing else has changed since the backup.
Programmed ==
  /\ gStatus.uid \in Targets
  /\ gStatus.uid = saved.target
  /\ Holds(flash[gStatus.uid], firmware)
  /\ \A c \in Cells : c <= Offset \/ c > Offset + RoundUp(Len(firmware))
       => flash[gStatus.uid][c] = saved.flash[c]

\* The controller is as the backup found it.
Original ==
  /\ gStatus.uid = saved.target
  /\ flash[gStatus.uid] = saved.flash

OutcomeInv ==
  /\ gStatus.message = "programmed" => Programmed
  /\ gStatus.message = "original restored" => Original
  /\ gStatus.message # "" => job.pc \in {"none", "queued", "release"} /\ ~uploadOpen
  /\ job.pc = "report" /\ job.verdict = "programmed" => Programmed
  /\ job.pc = "report" /\ job.verdict = "original" => Original
  /\ job.kind = "Flash" /\ job.pc \in Programs /\ job.source = "firmware" =>
       job.size = gStatus.imageSize
  /\ job.kind = "Probe" /\ job.pc \in Attached => job.pc = "inspect"

-----------------------------------------------------------------------------
\* Neither depends on anything but the flash, the files and the UID.
LEMMA OutcomeKept ==
  ASSUME UNCHANGED <<flash, saved, firmware>>, gStatus'.uid = gStatus.uid
  PROVE  /\ Programmed' <=> Programmed
         /\ Original' <=> Original
  BY DEF Programmed, Original, Holds

\* setStatus shows the message.
LEMMA StatusMessage ==
  ASSUME gStatus \in JobStatus, NEW s, NEW m, SetStatus(s, m)
  PROVE  gStatus'.message = m /\ gStatus'.uid = gStatus.uid
  BY DEF SetStatus, JobStatus

\* A step that says nothing and decides nothing of that kind.
LEMMA SilentKeeps ==
  ASSUME gStatus'.message = "",
         job'.pc = "report" => job'.verdict \notin {"programmed", "original"},
         job'.kind = "Flash" /\ job'.pc \in Programs /\ job'.source = "firmware" =>
           job'.size = gStatus'.imageSize,
         job'.kind = "Probe" /\ job'.pc \in Attached => job'.pc = "inspect"
  PROVE  OutcomeInv'
  BY DEF OutcomeInv

\* With no job only the message matters.
LEMMA NoJobKeeps ==
  ASSUME gStatus'.message = "", job'.pc \in {"none", "queued"}
  PROVE  OutcomeInv'
  BY DEF OutcomeInv, Programs, Attached

\* Between attach and the report there is no message.
LEMMA MessageGone ==
  ASSUME OutcomeInv, Moves
  PROVE  gStatus.message = ""
  BY DEF OutcomeInv, Moves, Attached, Programs

\* A step of a job between attach and the report, other than a verify that
\* finds everything in place.
LEMMA MoveOutcome ==
  ASSUME IInv, OutcomeInv, Moves
  PROVE  /\ gStatus'.message = ""
         /\ job'.kind = "Flash" /\ job'.pc \in Programs /\ job'.source = "firmware" =>
              job'.size = gStatus'.imageSize
         /\ job'.kind = "Probe" /\ job'.pc \in Attached => job'.pc = "inspect"
  <1>1. gStatus \in JobStatus BY DEF IInv, TypeOK
  <1>2. gStatus.message = "" BY MessageGone
  <1>3. gStatus'.message = "" /\ gStatus'.imageSize = gStatus.imageSize
    <2>1. CASE gStatus' = gStatus BY <1>2, <2>1
    <2>2. CASE \E s \in States \ {"Ready", "Current"} : SetStatus(s, "")
      BY <1>1, <2>2, StatusFields, StatusMessage
    <2> QED BY <2>1, <2>2 DEF Moves
  <1>4. job'.kind = "Probe" /\ job'.pc \in Attached => job'.pc = "inspect"
    BY DEF OutcomeInv, Moves, Attached, Programs
  <1>5. job'.kind = "Flash" /\ job'.pc \in Programs /\ job'.source = "firmware" =>
          job'.size = gStatus.imageSize
    BY DEF OutcomeInv, Moves
  <1> QED BY <1>3, <1>4, <1>5

\* verify has compared every chunk of the image: the backup, which covers the
\* whole pages of it, says that the others are as they were.
LEMMA VerifiedImage ==
  ASSUME IInv, ReviewInv, OutcomeInv, Verify, job.kind # "Restore", job.source = "firmware"
  PROVE  Programmed
  <1>1. /\ job.pc = "verify" /\ job.kind = "Flash" /\ job.target \in Targets
        /\ backup # NoFile /\ Len(backup) = RoundUp(job.size)
    BY DEF IInv, Verify, At, ProgramShape, JobShape, Programs, Attached
  <1>2. /\ job.target = gStatus.uid /\ job.size = Len(firmware)
        /\ job.size = gStatus.imageSize
    BY <1>1 DEF ReviewInv, Flashed, Reviewed, Fitting, Inspected, OutcomeInv, Attached, Programs
  <1>3. saved.target = job.target BY <1>1 DEF IInv, BackupTaken, Programs
  <1>4. Holds(flash[gStatus.uid], firmware)
    BY <1>2 DEF Verify, Matches, source, Holds
  <1>5. saved.target # NoTarget BY <1>1, <1>3, TargetAssumption
  <1>6. Overlay(flash[gStatus.uid], backup) = saved.flash
    BY <1>2, <1>3, <1>5 DEF IInv, BackupRestores
  <1>7. \A c \in Cells : c <= Offset \/ c > Offset + RoundUp(Len(firmware))
          => flash[gStatus.uid][c] = saved.flash[c]
    <2>1. SUFFICES ASSUME NEW c \in Cells, c <= Offset \/ c > Offset + RoundUp(Len(firmware))
                   PROVE  flash[gStatus.uid][c] = saved.flash[c]
      OBVIOUS
    <2>2. ~(c > Offset /\ c <= Offset + Len(backup))
      <3>1. Offset \in Nat /\ c \in Int BY SizeAssumption DEF Cells
      <3>2. Len(firmware) \in Nat BY <1>2 DEF IInv, TypeOK, Job
      <3>3. RoundUp(Len(firmware)) \in Nat BY <3>2, RoundUpNat
      <3> QED BY <1>1, <1>2, <2>1, <3>1, <3>3
    <2> QED BY <1>6, <2>2 DEF Overlay
  <1> QED BY <1>1, <1>2, <1>3, <1>4, <1>7 DEF Programmed

\* verify has compared every chunk of the backup: writing it back once more
\* would change nothing.
LEMMA VerifiedBackup ==
  ASSUME IInv, ReviewInv, OutcomeInv, Verify, job.kind # "Restore", job.source # "firmware"
  PROVE  Original
  <1>1. job.pc = "verify" BY DEF Verify, At
  <1>2. job.kind = "Flash" /\ job.target \in Targets /\ job.source = "backup"
    <2>1. job.kind \in {"Probe", "Flash"} /\ job.source = "backup"
      BY <1>1 DEF IInv, TypeOK, Job, Kinds, JobShape
    <2> QED BY <1>1, <2>1 DEF IInv, JobShape, OutcomeInv, Attached, Programs
  <1>3. backup # NoFile /\ job.size = Len(backup)
    BY <1>1, <1>2 DEF IInv, ProgramShape, Programs
  <1>4. job.target = gStatus.uid BY <1>1, <1>2 DEF ReviewInv, Flashed, Attached, Programs
  <1>5. saved.target = job.target BY <1>1, <1>2 DEF IInv, BackupTaken, Programs
  <1>6. saved.target # NoTarget BY <1>2, <1>5, TargetAssumption
  <1>7. Overlay(flash[gStatus.uid], backup) = saved.flash
    BY <1>4, <1>5, <1>6 DEF IInv, BackupRestores
  <1>8. \A i \in 1 .. Len(backup) : flash[gStatus.uid][Offset + i] = backup[i]
    BY <1>2, <1>3, <1>4 DEF Verify, Matches, source
  <1>9. flash[gStatus.uid] \in [Cells -> Content] BY <1>2, <1>4 DEF IInv, TypeOK
  <1>10. Overlay(flash[gStatus.uid], backup) = flash[gStatus.uid]
    <2>1. \A c \in Cells : c > Offset /\ c <= Offset + Len(backup)
            => backup[c - Offset] = flash[gStatus.uid][c]
      <3>1. SUFFICES ASSUME NEW c \in Cells, c > Offset, c <= Offset + Len(backup)
                     PROVE  backup[c - Offset] = flash[gStatus.uid][c]
        OBVIOUS
      <3>2. Offset \in Nat /\ c \in Int BY SizeAssumption DEF Cells
      <3>3. Len(backup) \in Nat BY <1>3 DEF IInv, TypeOK, Job
      <3>4. c - Offset \in 1 .. Len(backup) /\ Offset + (c - Offset) = c BY <3>1, <3>2, <3>3
      <3> QED BY <1>8, <3>4
    <2> QED BY <1>9, <2>1 DEF Overlay
  <1> QED BY <1>4, <1>5, <1>7, <1>10 DEF Original

\* verify: what it claims is so.
LEMMA OutcomeVerify ==
  ASSUME IInv, ReviewInv, OutcomeInv, Verify
  PROVE  OutcomeInv'
  <1>0. TypeOK /\ gStatus \in JobStatus /\ job \in Job BY DEF IInv, TypeOK
  <1>1. Moves BY <1>0, StepMoves
  <1>2. /\ gStatus'.message = "" /\ gStatus'.uid = gStatus.uid
        /\ job'.kind = "Probe" /\ job'.pc \in Attached => job'.pc = "inspect"
    <2>1. \E s \in States \ {"Ready", "Current"} : SetStatus(s, "")
      BY ProgressStates DEF Verify
    <2>2. gStatus'.uid = gStatus.uid BY <1>0, <2>1, StatusFields
    <2> QED BY <1>1, <2>2, MoveOutcome
  <1>3. UNCHANGED <<flash, saved, firmware>> BY DEF Verify, fileVars, boardVars
  <1>4. PICK v \in {"previous", "programmed", "original"} :
          /\ Conclude(v)
          /\ v # "previous" => job.kind # "Restore"
          /\ v = "programmed" => job.source = "firmware"
          /\ v = "original" => job.source # "firmware"
    <2>1. CASE job.kind = "Restore"
      <3>1. job.source # "firmware"
        BY <2>1 DEF IInv, ProgramShape, Verify, At, Programs
      <3> QED BY <2>1, <3>1 DEF Verify
    <2>2. CASE job.kind # "Restore" /\ job.source = "firmware" BY <2>2 DEF Verify
    <2>3. CASE job.kind # "Restore" /\ job.source # "firmware" BY <2>3 DEF Verify
    <2> QED BY <2>1, <2>2, <2>3
  <1>5. job'.pc = "report" /\ job'.verdict = v BY <1>0, <1>4 DEF Conclude, Job
  <1>6. v = "programmed" => Programmed' BY <1>2, <1>3, <1>4, OutcomeKept, VerifiedImage
  <1>7. v = "original" => Original' BY <1>2, <1>3, <1>4, OutcomeKept, VerifiedBackup
  <1> QED BY <1>2, <1>5, <1>6, <1>7 DEF OutcomeInv, Programs

\* The other steps between attach and the report.
LEMMA OutcomeStep ==
  ASSUME IInv, OutcomeInv,
         \/ AttachFails \/ InspectFails \/ OpenBackup \/ SaveChunk \/ SaveFails
         \/ BackupDone \/ BeginRestore \/ Unlock \/ ErasePage \/ WriteChunk
         \/ ProgramStepFails
  PROVE  OutcomeInv'
  <1>0. TypeOK /\ job \in Job BY DEF IInv, TypeOK
  <1>1. Moves BY <1>0, StepMoves
  <1>2. job'.pc = "report" => job'.verdict \notin {"programmed", "original"}
    <2>1. CASE Conclude("failed") BY <1>0, <2>1 DEF Conclude, Job
    <2>2. CASE SaveChunk BY <2>2 DEF SaveChunk, At
    <2>3. CASE \E p \in {"save", "restore", "erase", "verify"} : Goto(p)
      BY <1>0, <2>3 DEF Goto, Job
    <2>4. CASE BackupDone BY <1>0, <2>4 DEF BackupDone, Job
    <2>5. CASE BeginRestore /\ ~Conclude("failed") BY <1>0, <2>5 DEF BeginRestore, Job
    <2>6. CASE ErasePage BY <1>0, <2>6 DEF ErasePage, Job
    <2>7. CASE WriteChunk BY <1>0, <2>7 DEF WriteChunk, AfterChunk, At, Job
    <2> QED BY <2>1, <2>2, <2>3, <2>4, <2>5, <2>6, <2>7
            DEF AttachFails, InspectFails, OpenBackup, SaveFails, Unlock, ProgramStepFails,
                UpdateFails
  <1> QED BY <1>1, <1>2, MoveOutcome, SilentKeeps

\* Start shows the beginning of a job.
LEMMA OutcomeStart ==
  ASSUME IInv, Start
  PROVE  OutcomeInv'
  <1>1. gStatus \in JobStatus /\ job \in Job BY DEF IInv, TypeOK
  <1>2. PICK s \in {"Probing", "Connecting"} : SetStatus(s, "") BY DEF Start
  <1>3. gStatus'.message = "" BY <1>1, <1>2, StatusMessage
  <1>4. job'.pc = "attach" BY <1>1 DEF Start, Job
  <1> QED BY <1>3, <1>4, SilentKeeps DEF Programs, Attached

\* attach decides nothing but failure.
LEMMA OutcomeAttach ==
  ASSUME IInv, OutcomeInv, Attach
  PROVE  OutcomeInv'
  <1>1. gStatus \in JobStatus /\ job \in Job /\ JobShape BY DEF IInv, TypeOK
  <1>2. job.pc = "attach" BY DEF Attach, At
  <1>3. gStatus'.message = ""
    <2>1. gStatus.message = "" BY <1>2 DEF OutcomeInv
    <2> QED BY <1>1, <2>1 DEF Attach, JobStatus
  <1>4. /\ job'.kind = job.kind
        /\ job'.pc \in {"inspect", "open backup", "restore", "report"}
        /\ job'.pc = "report" => job'.verdict = "failed"
        /\ job.kind = "Probe" => job'.pc \in {"inspect", "report"}
    <2>1. job.kind \in {"Probe", "Flash", "Restore"} BY <1>1, <1>2 DEF Job, Kinds, JobShape
    <2>2. CASE job.kind = "Probe" BY <1>1, <2>2 DEF Attach, Job
    <2>3. CASE job.kind = "Flash" BY <1>1, <2>3 DEF Attach, Job
    <2>4. CASE job.kind = "Restore" BY <1>1, <2>4 DEF Attach, Job
    <2> QED BY <2>1, <2>2, <2>3, <2>4
  <1> QED BY <1>3, <1>4, SilentKeeps DEF Programs, Attached

\* A comparison decides a probe, not an update.
LEMMA OutcomeInspect ==
  ASSUME IInv, OutcomeInv, Inspect
  PROVE  OutcomeInv'
  <1>1. gStatus \in JobStatus /\ job \in Job BY DEF IInv, TypeOK
  <1> DEFINE same == Identical(flash[job.target])
  <1>2. /\ gStatus' = [gStatus EXCEPT !.complete = TRUE, !.identical = same]
        /\ job' = [job EXCEPT !.pc = "report", !.verdict = IF same THEN "current" ELSE "ready"]
        /\ job.pc = "inspect"
    BY DEF Inspect, Compared, Conclude, At
  <1> HIDE DEF same
  <1>3. gStatus'.message = ""
    <2>1. gStatus.message = "" BY <1>2 DEF OutcomeInv
    <2> QED BY <1>1, <1>2, <2>1 DEF JobStatus
  <1>4. job'.pc = "report" /\ job'.verdict \in {"current", "ready"} BY <1>1, <1>2 DEF Job
  <1> QED BY <1>3, <1>4, SilentKeeps DEF Programs, Attached

\* The verdict becomes the message.
LEMMA OutcomeReport ==
  ASSUME IInv, OutcomeInv, Report
  PROVE  OutcomeInv'
  <1>1. gStatus \in JobStatus /\ job \in Job /\ JobShape BY DEF IInv, TypeOK
  <1>2. PICK s \in States, m \in Messages :
          /\ SetStatus(s, m)
          /\ m = "programmed" => job.verdict = "programmed"
          /\ m = "original restored" => job.verdict = "original"
    <2>1. job.verdict \in Verdicts \ {""} BY <1>1 DEF Report, At, JobShape, Job
    <2> USE DEF States, Messages
    <2>2. CASE job.verdict = "ready" BY <2>2 DEF Report
    <2>3. CASE job.verdict = "current" BY <2>3 DEF Report
    <2>4. CASE job.verdict = "programmed" BY <2>4 DEF Report
    <2>5. CASE job.verdict = "previous" BY <2>5 DEF Report
    <2>6. CASE job.verdict = "original" BY <2>6 DEF Report
    <2>7. CASE job.verdict = "failed" BY <2>7 DEF Report
    <2> QED BY <2>1, <2>2, <2>3, <2>4, <2>5, <2>6, <2>7 DEF Verdicts
  <1>3. gStatus'.message = m /\ gStatus'.uid = gStatus.uid BY <1>1, <1>2, StatusMessage
  <1>4. UNCHANGED <<flash, saved, firmware, uploadOpen>>
    BY DEF Report, fileVars, boardVars, uploadVars
  <1>5. job.pc = "report" /\ job'.pc = "release" BY <1>1 DEF Report, At, Goto, Job
  <1>6. ~uploadOpen BY <1>1, <1>5 DEF JobShape
  <1>7. /\ m = "programmed" => Programmed'
        /\ m = "original restored" => Original'
    BY <1>2, <1>3, <1>4, <1>5, OutcomeKept DEF OutcomeInv
  <1> QED BY <1>3, <1>4, <1>5, <1>6, <1>7 DEF OutcomeInv, Programs, Attached

-----------------------------------------------------------------------------
(* Requests and the surroundings *)

\* A step that touches neither the status nor what the messages speak of.
LEMMA OutcomeQuiet ==
  ASSUME OutcomeInv, UNCHANGED <<gStatus, flash, saved, firmware>>, uploadOpen' => uploadOpen,
         UNCHANGED job \/ job'.pc \in {"none", "queued"}
  PROVE  OutcomeInv'
  <1>1. (Programmed' <=> Programmed) /\ (Original' <=> Original) BY OutcomeKept
  <1>2. CASE UNCHANGED job BY <1>1, <1>2 DEF OutcomeInv
  <1>3. CASE job'.pc \in {"none", "queued"} BY <1>1, <1>3 DEF OutcomeInv, Programs, Attached
  <1> QED BY <1>2, <1>3

\* An upload takes the message away before it touches the file.
LEMMA OutcomeUpload ==
  ASSUME IInv, OutcomeInv, (\E body \in Uploads : UploadStart(body)) \/ UploadWrite
  PROVE  OutcomeInv'
  <1>1. gStatus \in JobStatus /\ JobShape BY DEF IInv, TypeOK
  <1>2. UNCHANGED <<flash, saved, job>>
    BY DEF UploadStart, UploadWrite, boardVars
  <1>3. CASE UploadWrite
    <2>1. UNCHANGED <<gStatus, uploadOpen>> BY <1>3 DEF UploadWrite, statusVars
    <2>2. CASE uploadOpen
      <3>1. job.pc = "none" /\ gStatus.message = "" BY <1>1, <2>2 DEF JobShape, OutcomeInv
      <3> QED BY <1>2, <2>1, <3>1, NoJobKeeps
    <2>3. CASE ~uploadOpen
      <3>1. UNCHANGED firmware BY <1>3, <2>3 DEF UploadWrite
      <3> QED BY <1>2, <2>1, <3>1, OutcomeQuiet
    <2> QED BY <2>2, <2>3
  <1>4. CASE \E body \in Uploads : UploadStart(body)
    <2>1. PICK body \in Uploads : UploadStart(body) BY <1>4
    <2>2. CASE UploadsIgnored
      <3>1. UNCHANGED <<gStatus, firmware, uploadOpen>> BY <2>1, <2>2 DEF UploadStart, uploadVars
      <3> QED BY <1>2, <3>1, OutcomeQuiet
    <2>3. CASE ~UploadsIgnored
      <3>1. SetStatus("Uploading", "") BY <2>1, <2>3 DEF UploadStart
      <3>2. gStatus'.message = "" BY <1>1, <3>1, StatusMessage
      <3>3. job.pc = "none" BY <1>1, <2>3 DEF UploadsIgnored, JobShape
      <3> QED BY <1>2, <3>2, <3>3, NoJobKeeps
    <2> QED BY <2>2, <2>3
  <1> QED BY <1>3, <1>4

\* finishUpload, whichever way it ends, says nothing of a controller.
LEMMA OutcomeFinish ==
  ASSUME IInv, OutcomeInv, FinishRejected \/ FinishAccepted
  PROVE  OutcomeInv'
  <1>1. gStatus \in JobStatus /\ TypeOK /\ JobShape BY DEF IInv, TypeOK
  <1>2. job.pc = "none" BY <1>1 DEF FinishRejected, FinishAccepted, JobShape
  <1>3. CASE FinishRejected
    <2>1. SetStatus("Error", "") /\ UNCHANGED job BY <1>3 DEF FinishRejected
    <2>2. gStatus'.message = "" BY <1>1, <2>1, StatusMessage
    <2> QED BY <1>2, <2>1, <2>2, NoJobKeeps
  <1>4. CASE FinishAccepted
    <2>1. gStatus'.message = "" BY <1>4 DEF FinishAccepted, BootStatus
    <2>2. job'.pc \in {"none", "queued"} BY <1>2, <1>4 DEF FinishAccepted, ScheduleJob, NoJob
    <2> QED BY <2>1, <2>2, NoJobKeeps
  <1> QED BY <1>3, <1>4

\* A flash or restore request leaves the message until its job begins.
LEMMA OutcomeRequest ==
  ASSUME IInv, OutcomeInv, FlashRequest \/ RestoreRequest
  PROVE  OutcomeInv'
  <1>1. JobShape BY DEF IInv
  <1>2. UNCHANGED <<gStatus, flash, saved, firmware, uploadOpen>>
    BY DEF FlashRequest, RestoreRequest, uploadVars, fileVars, boardVars
  <1>3. UNCHANGED job \/ job'.pc = "queued"
    BY DEF FlashRequest, RestoreRequest, ScheduleJob, NoJob
  <1> QED BY <1>2, <1>3, OutcomeQuiet

-----------------------------------------------------------------------------
(* The theorem *)

\* Every step keeps the invariant.
LEMMA NextOutcome ==
  ASSUME IInv, ReviewInv, OutcomeInv, [Next]_vars
  PROVE  OutcomeInv'
  <1>0. TypeOK BY DEF IInv
  <1>1. CASE WebStep
    <2>1. CASE (\E body \in Uploads : UploadStart(body)) \/ UploadWrite
      BY <2>1, OutcomeUpload
    <2>2. CASE UploadEnd \/ UploadAbort \/ FinishBusy \/ StatusBegin \/ StatusEnd
      <3>1. UNCHANGED <<gStatus, job, firmware>> /\ (uploadOpen' => uploadOpen)
        BY <1>0, <2>2, QuietRequests
      <3>2. UNCHANGED <<flash, saved>>
        BY <2>2 DEF UploadEnd, UploadAbort, FinishBusy, StatusBegin, StatusEnd, fileVars, boardVars
      <3> QED BY <3>1, <3>2, OutcomeQuiet
    <2>3. CASE FinishRejected \/ FinishAccepted BY <2>3, OutcomeFinish
    <2>4. CASE FlashRequest \/ RestoreRequest BY <2>4, OutcomeRequest
    <2> QED BY <1>1, <2>1, <2>2, <2>3, <2>4 DEF WebStep
  <1>2. CASE JobStep
    <2>1. CASE Start BY <2>1, OutcomeStart
    <2>2. CASE Attach BY <2>2, OutcomeAttach
    <2>3. CASE Inspect BY <2>3, OutcomeInspect
    <2>4. CASE Verify BY <2>4, OutcomeVerify
    <2>5. CASE Report BY <2>5, OutcomeReport
    <2>6. CASE Release
      <3>1. UNCHANGED <<gStatus, flash, saved, firmware, uploadOpen>> /\ job'.pc = "none"
        BY <2>6 DEF Release, NoJob, uploadVars, fileVars, boardVars
      <3> QED BY <3>1, OutcomeQuiet
    <2>7. CASE \/ AttachFails \/ InspectFails \/ OpenBackup \/ SaveChunk \/ SaveFails
               \/ BackupDone \/ BeginRestore \/ Unlock \/ ErasePage \/ WriteChunk
               \/ ProgramStepFails
      BY <2>7, OutcomeStep
    <2> QED BY <1>2, <2>1, <2>2, <2>3, <2>4, <2>5, <2>6, <2>7 DEF JobStep
  <1>3. CASE Environment
    <2>1. CASE \E t \in Targets \union {NoTarget} : Swap(t)
      <3>1. UNCHANGED <<gStatus, flash, saved, firmware, uploadOpen, job>>
        BY <2>1 DEF Swap, statusVars, uploadVars, fileVars
      <3> QED BY <3>1, OutcomeQuiet
    <2>2. CASE \E formatted \in BOOLEAN : Reboot(formatted)
      <3>1. gStatus'.message = "" /\ job'.pc = "none"
        <4>1. gStatus' = BootStatus /\ job' = NoJob BY <2>2 DEF Reboot
        <4> QED BY <4>1 DEF BootStatus, NoJob
      <3> QED BY <3>1, NoJobKeeps
    <2> QED BY <1>3, <2>1, <2>2 DEF Environment
  <1>4. CASE UNCHANGED vars
    <2>1. UNCHANGED <<gStatus, flash, saved, firmware, uploadOpen, job>> BY <1>4 DEF vars
    <2> QED BY <2>1, OutcomeQuiet
  <1> QED BY <1>1, <1>2, <1>3, <1>4 DEF Next

\* "Programmed, byte-verified" means that the image is in place and nothing
\* else changed, "original firmware was restored" that the controller is what it
\* was before the update, chunk for chunk, for as long as the message stands.
THEOREM OutcomeTrue == Spec => []OutcomeIsTrue
  <1>1. Init => OutcomeInv
    <2>1. Init => gStatus = BootStatus /\ job = NoJob BY DEF Init
    <2>2. ASSUME gStatus = BootStatus, job = NoJob
          PROVE  gStatus.message = "" /\ job.pc = "none"
      BY <2>2 DEF BootStatus, NoJob
    <2> QED BY <2>1, <2>2 DEF OutcomeInv, Programs, Attached
  <1>2. IInv /\ ReviewInv /\ OutcomeInv /\ [Next]_vars => OutcomeInv' BY NextOutcome
  <1>3. OutcomeInv => OutcomeIsTrue BY DEF OutcomeInv, Programmed, Original, OutcomeIsTrue
  <1> QED BY <1>1, <1>2, <1>3, ReviewInvariance, PTL DEF Spec

-----------------------------------------------------------------------------
(* What the pages of include/WebUi.hpp offer                               *)

\* A status that enables the Flash button shows an image that passed its
\* preflight on the controller that is shown with it.
Sound(status) ==
  status.ready =>
    /\ status.uid \in Targets
    /\ Acceptable(status.image) /\ ~NamesForeign(status.image)
    /\ Offset + Len(status.image) <= Capacity[status.uid]

PagesInv ==
  /\ ClientTypeOK
  /\ \A b \in Browsers : Sound(reply[b]) /\ Sound(last[b]) /\ Sound(dialog[b])

\* A status that offers an image, and no upload since: no probe is under way, the
\* file is that image or gone, and the controller is that one or forgotten.
Live(status) ==
  status.ready /\ status.current =>
    /\ ~uploadOpen
    /\ job.kind = "Probe" => job.pc = "release"
    /\ firmware \in {status.image, NoFile}
    /\ gStatus.uid = status.uid \/ ~gStatus.complete

\* What the pages have, and what a flash job was asked for.
ShownInv ==
  /\ \A b \in Browsers :
       /\ Live(reply[b]) /\ Live(last[b]) /\ Live(dialog[b])
       /\ Open(b) => dialog[b].ready
  /\ job.kind = "Flash" /\ reviewed.current =>
       firmware = reviewed.image /\ gStatus.uid = reviewed.uid

-----------------------------------------------------------------------------
\* The pages do nothing to the service but send it requests.
LEMMA ServiceSteps ==
  ASSUME [ClientNext]_allVars
  PROVE  [Next]_vars
  <1>1. CASE \E b \in Browsers : Poll(b) BY <1>1 DEF Poll, Next, WebStep
  <1>2. CASE \E b \in Browsers : Receive(b) \/ Review(b) \/ Dismiss(b)
    BY <1>2 DEF Receive, Review, Dismiss
  <1>3. CASE \E b \in Browsers : Confirm(b) BY <1>3 DEF Confirm, Next, WebStep
  <1>4. CASE \E b \in Browsers, body \in Uploads : Upload(b, body)
    BY <1>4 DEF Upload, Next, WebStep
  <1>5. CASE Answer \/ Accepted BY <1>5 DEF Answer, Accepted, Next, WebStep
  <1>6. CASE Service BY <1>6 DEF Service, Next, WebStep
  <1>7. CASE UNCHANGED allVars BY <1>7 DEF allVars
  <1> QED BY <1>1, <1>2, <1>3, <1>4, <1>5, <1>6, <1>7 DEF ClientNext

\* The reply that is completed describes a finished probe, though its first
\* field was read earlier.
LEMMA AnswerSound ==
  ASSUME TypeOK, ReviewInv, StatusEnd
  PROVE  LET status == [ready |-> ReadyFor(http.seen), uid |-> gStatus.uid,
                        image |-> firmware, current |-> TRUE]
         IN  status \in Status /\ Sound(status)
  <1> DEFINE status == [ready |-> ReadyFor(http.seen), uid |-> gStatus.uid,
                        image |-> firmware, current |-> TRUE]
  <1>1. status \in Status
    <2>1. ReadyFor(http.seen) \in BOOLEAN BY Zenon DEF ReadyFor
    <2>2. gStatus.uid \in Targets \cup {NoTarget} /\ firmware \in File BY DEF TypeOK, JobStatus
    <2> QED BY <2>1, <2>2 DEF Status
  <1>2. ReadyFor(http.seen) => Reviewed
    BY DEF StatusEnd, ReadyFor, ReviewInv, Replying
  <1>3. Reviewed =>
          /\ gStatus.uid \in Targets
          /\ Acceptable(firmware) /\ ~NamesForeign(firmware)
          /\ Offset + Len(firmware) <= Capacity[gStatus.uid]
    BY DEF Reviewed, Fitting, Inspected
  <1>4. Sound(status) BY <1>2, <1>3 DEF Sound
  <1> QED BY <1>1, <1>4

\* A status stays what it is while it ages.
LEMMA AgedSound ==
  ASSUME NEW pages \in [Browsers -> Status]
  PROVE  /\ Aged(pages) \in [Browsers -> Status]
         /\ \A b \in Browsers : Sound(pages[b]) => Sound(Aged(pages)[b])
  <1>1. \A b \in Browsers :
          /\ Aged(pages)[b] \in Status
          /\ Aged(pages)[b].ready = pages[b].ready
          /\ Aged(pages)[b].uid = pages[b].uid
          /\ Aged(pages)[b].image = pages[b].image
    BY DEF Aged, Status
  <1> QED BY <1>1 DEF Aged, Sound

\* Every step keeps what the pages have.
LEMMA NextPages ==
  ASSUME TypeOK, ReviewInv, PagesInv, [ClientNext]_allVars
  PROVE  PagesInv'
  <1>0. /\ ClientTypeOK
        /\ \A b \in Browsers : Sound(reply[b]) /\ Sound(last[b]) /\ Sound(dialog[b])
    BY DEF PagesInv
  <1>1. CASE \E b \in Browsers : Poll(b)
    <2>1. UNCHANGED <<reply, last, dialog, reviewed>> /\ poller' \in Browsers BY <1>1 DEF Poll
    <2> QED BY <1>0, <2>1 DEF PagesInv, ClientTypeOK
  <1>2. CASE Answer
    <2> DEFINE status == [ready |-> ReadyFor(http.seen), uid |-> gStatus.uid,
                          image |-> firmware, current |-> TRUE]
    <2>1. status \in Status /\ Sound(status) BY <1>2, AnswerSound DEF Answer
    <2>2. reply' = [reply EXCEPT ![poller] = status] /\ UNCHANGED <<last, dialog, poller, reviewed>>
      BY <1>2 DEF Answer
    <2> HIDE DEF status
    <2>3. reply' \in [Browsers -> Status] /\ \A b \in Browsers : Sound(reply'[b])
      BY <1>0, <2>1, <2>2 DEF ClientTypeOK
    <2> QED BY <1>0, <2>2, <2>3 DEF PagesInv, ClientTypeOK
  <1>3. CASE \E b \in Browsers : Receive(b)
    <2>1. PICK b \in Browsers : Receive(b) BY <1>3
    <2>2. /\ last' = [last EXCEPT ![b] = reply[b]] /\ reply' = [reply EXCEPT ![b] = Nothing]
          /\ UNCHANGED <<dialog, poller, reviewed>>
      BY <2>1 DEF Receive
    <2>3. Nothing \in Status /\ Sound(Nothing) BY DEF Nothing, Status, File, Sound
    <2> HIDE DEF Nothing
    <2>4. /\ last' \in [Browsers -> Status] /\ \A c \in Browsers : Sound(last'[c])
          /\ reply' \in [Browsers -> Status] /\ \A c \in Browsers : Sound(reply'[c])
      BY <1>0, <2>2, <2>3 DEF ClientTypeOK
    <2> QED BY <1>0, <2>2, <2>4 DEF PagesInv, ClientTypeOK
  <1>4. CASE Age
    <2>1. /\ reply' = Aged(reply) /\ last' = Aged(last) /\ dialog' = Aged(dialog)
          /\ UNCHANGED <<poller, reviewed>>
      BY <1>4 DEF Age
    <2>2. /\ reply' \in [Browsers -> Status] /\ \A c \in Browsers : Sound(reply'[c])
          /\ last' \in [Browsers -> Status] /\ \A c \in Browsers : Sound(last'[c])
          /\ dialog' \in [Browsers -> Status] /\ \A c \in Browsers : Sound(dialog'[c])
      BY <1>0, <2>1, AgedSound DEF ClientTypeOK
    <2> QED BY <1>0, <2>1, <2>2 DEF PagesInv, ClientTypeOK
  <1>5. CASE \E b \in Browsers : Review(b) \/ Confirm(b) \/ Dismiss(b)
    <2>1. PICK b \in Browsers : Review(b) \/ Confirm(b) \/ Dismiss(b) BY <1>5
    <2>2. UNCHANGED <<reply, last, poller>> BY <2>1 DEF Review, Confirm, Dismiss
    <2>3. Nothing \in Status /\ Sound(Nothing) BY DEF Nothing, Status, File, Sound
    <2> HIDE DEF Nothing
    <2>4. PICK status \in {last[b], Nothing} : dialog' = [dialog EXCEPT ![b] = status]
      BY <2>1 DEF Review, Confirm, Dismiss
    <2>5. dialog' \in [Browsers -> Status] /\ \A c \in Browsers : Sound(dialog'[c])
      BY <1>0, <2>3, <2>4 DEF ClientTypeOK
    <2>6. reviewed' \in Status BY <1>0, <2>1 DEF Review, Confirm, Dismiss, ClientTypeOK
    <2> QED BY <1>0, <2>2, <2>5, <2>6 DEF PagesInv, ClientTypeOK
  <1>6. CASE UNCHANGED clientVars
    <2>1. UNCHANGED <<reply, last, dialog, poller, reviewed>> BY <1>6 DEF clientVars
    <2> QED BY <1>0, <2>1 DEF PagesInv, ClientTypeOK
  <1>7. (\E b \in Browsers, body \in Uploads : Upload(b, body)) => Age \/ UNCHANGED clientVars
    BY DEF Upload
  <1>8. Accepted => Age BY DEF Accepted
  <1>9. Service \/ UNCHANGED allVars => UNCHANGED clientVars BY DEF Service, allVars
  <1> QED BY <1>1, <1>2, <1>3, <1>4, <1>5, <1>6, <1>7, <1>8, <1>9 DEF ClientNext

-----------------------------------------------------------------------------
(* Reviewed long ago *)

\* What a step that takes no upload in leaves of a status that is shown: the file
\* may go, a restart may forget the comparison, and no probe begins.
Keeps ==
  /\ uploadOpen' => uploadOpen
  /\ job'.kind = "Probe" => job.kind = "Probe" /\ (job.pc = "release" => job'.pc = "release")
  /\ ~uploadOpen => firmware' \in {firmware, NoFile}
  /\ (job.kind = "Probe" => job.pc = "release") =>
       /\ gStatus'.complete => gStatus.complete
       /\ gStatus.uid = NoTarget \/ gStatus'.uid = gStatus.uid \/ ~gStatus'.complete

\* A flash job goes on with the file and the controller it began with.
Goes ==
  job'.kind = "Flash" =>
    job.kind = "Flash" /\ firmware' = firmware /\ gStatus'.uid = gStatus.uid

\* A step that changes neither, nor the fields of the comparison.
LEMMA SameImage ==
  ASSUME UNCHANGED firmware, uploadOpen' => uploadOpen,
         gStatus'.uid = gStatus.uid, gStatus'.complete = gStatus.complete,
         job'.kind = job.kind, job'.pc = job.pc \/ job.pc # "release"
  PROVE  Keeps /\ Goes
  BY DEF Keeps, Goes

\* attach takes the controller the status names; the probe looks for one.
LEMMA AttachQuiet ==
  ASSUME IInv, ReviewInv, Attach
  PROVE  Keeps /\ Goes
  <1>1. /\ gStatus \in JobStatus /\ job \in Job /\ JobShape
        /\ UNCHANGED <<firmware, uploadOpen>>
    BY DEF IInv, TypeOK, Attach, uploadVars, fileVars
  <1>2. /\ gStatus'.uid = connected /\ gStatus'.complete = gStatus.complete
        /\ job.pc = "attach" /\ job.expected = gStatus.uid /\ SameController(connected)
    BY <1>1 DEF Attach, At, JobStatus, ReviewInv, Flashed
  <1>3. job'.kind = job.kind BY <1>1 DEF Attach, Job
  <1>4. job.kind # "Probe" => gStatus.uid = NoTarget \/ gStatus'.uid = gStatus.uid
    BY <1>2 DEF SameController
  <1>5. job.kind = "Flash" => gStatus.uid # NoTarget
    BY <1>2, TargetAssumption DEF ReviewInv, Flashed, Reviewed, Fitting
  <1> QED BY <1>1, <1>2, <1>3, <1>4, <1>5 DEF Keeps, Goes

\* Every step of a job is such a step.
LEMMA JobQuiet ==
  ASSUME IInv, ReviewInv, JobStep
  PROVE  Keeps /\ Goes
  <1>0. /\ TypeOK /\ JobShape /\ gStatus \in JobStatus /\ job \in Job
    BY DEF IInv, TypeOK
  <1> USE DEF At
  <1>1. CASE Start
    <2>1. \E s \in States : SetStatus(s, "") BY <1>1 DEF Start, States
    <2>2. gStatus'.uid = gStatus.uid /\ gStatus'.complete = gStatus.complete
      BY <1>0, <2>1, StatusFields
    <2>3. job'.kind = job.kind /\ job.pc = "queued" BY <1>0, <1>1 DEF Start, Job
    <2> QED BY <1>1, <2>2, <2>3, SameImage DEF Start, uploadVars, fileVars
  <1>2. CASE Attach BY <1>2, AttachQuiet
  <1>3. CASE Inspect
    <2>1. job.kind = "Probe" /\ job'.kind = "Probe" /\ job.pc = "inspect"
      BY <1>0, <1>3 DEF Inspect, Conclude, Job, ReviewInv, Probed
    <2> QED BY <1>3, <2>1 DEF Inspect, Keeps, Goes, uploadVars, fileVars
  <1>4. CASE Report
    <2>1. \E s \in States, m \in Messages : SetStatus(s, m) BY <1>0, <1>4, ReportedStatus
    <2>2. gStatus'.uid = gStatus.uid /\ gStatus'.complete = gStatus.complete
      BY <1>0, <2>1, StatusFields
    <2>3. job'.kind = job.kind /\ job.pc = "report" BY <1>0, <1>4 DEF Report, Goto, Job
    <2> QED BY <1>4, <2>2, <2>3, SameImage DEF Report, uploadVars, fileVars
  <1>5. CASE Release
    <2>1. job'.kind = "none" /\ UNCHANGED <<gStatus, firmware, uploadOpen>>
      BY <1>5 DEF Release, NoJob, uploadVars, fileVars
    <2> QED BY <2>1 DEF Keeps, Goes
  <1>6. CASE \/ AttachFails \/ InspectFails \/ OpenBackup \/ SaveChunk \/ SaveFails
             \/ BackupDone \/ BeginRestore \/ Unlock \/ ErasePage \/ WriteChunk
             \/ Verify \/ ProgramStepFails
    <2>1. Moves BY <1>0, <1>6, StepMoves
    <2>2. gStatus'.uid = gStatus.uid /\ gStatus'.complete = gStatus.complete
      BY <1>0, <2>1, StatusFields DEF Moves
    <2>3. job'.kind = job.kind /\ job.pc # "release" /\ UNCHANGED <<firmware, uploadOpen>>
      BY <2>1 DEF Moves, Attached, Programs
    <2> QED BY <2>2, <2>3, SameImage
  <1> QED BY <1>1, <1>2, <1>3, <1>4, <1>5, <1>6 DEF JobStep

\* So is everything else the service does, but to take an upload in or a flash
\* request.
LEMMA ServiceQuiet ==
  ASSUME IInv, ReviewInv,
         \/ \E body \in Uploads : UploadStart(body) /\ UploadsIgnored
         \/ UploadWrite \/ UploadEnd \/ UploadAbort \/ FinishBusy \/ FinishRejected
         \/ RestoreRequest \/ StatusBegin \/ StatusEnd
         \/ JobStep \/ Environment \/ UNCHANGED vars
  PROVE  Keeps /\ Goes
  <1>0. /\ TypeOK /\ JobShape /\ gStatus \in JobStatus /\ job \in Job
    BY DEF IInv, TypeOK
  <1>1. CASE \E body \in Uploads : UploadStart(body) /\ UploadsIgnored
    <2>1. UNCHANGED <<gStatus, job, firmware, uploadOpen>> BY <1>1 DEF UploadStart, uploadVars
    <2> QED BY <2>1, SameImage
  <1>2. CASE UploadWrite
    <2>1. UNCHANGED <<gStatus, job, uploadOpen>> /\ (~uploadOpen => UNCHANGED firmware)
      BY <1>2 DEF UploadWrite, statusVars
    <2>2. job.kind = "Flash" => ~uploadOpen BY <1>0 DEF JobShape
    <2> QED BY <2>1, <2>2 DEF Keeps, Goes
  <1>3. CASE UploadEnd \/ UploadAbort \/ FinishBusy \/ StatusBegin \/ StatusEnd
    BY <1>0, <1>3, QuietRequests, SameImage
  <1>4. CASE FinishRejected
    <2>1. /\ UNCHANGED <<job, uploadOpen>> /\ firmware' = NoFile
          /\ ~jobRunning /\ SetStatus("Error", "")
      BY <1>4 DEF FinishRejected, uploadVars
    <2>2. gStatus'.uid = gStatus.uid /\ gStatus'.complete = gStatus.complete
      BY <1>0, <2>1, StatusFields
    <2>3. job.kind = "none" BY <1>0, <2>1 DEF JobShape
    <2> QED BY <2>1, <2>2, <2>3 DEF Keeps, Goes
  <1>5. CASE RestoreRequest
    <2>1. UNCHANGED <<gStatus, firmware, uploadOpen>> /\ ~jobRunning /\ ScheduleJob("Restore")
      BY <1>5 DEF RestoreRequest, uploadVars, fileVars
    <2>2. job.kind = "none" BY <1>0, <2>1 DEF JobShape
    <2>3. job'.kind \in {"none", "Restore"} BY <2>1, <2>2 DEF ScheduleJob, NoJob
    <2> QED BY <2>1, <2>3 DEF Keeps, Goes
  <1>6. CASE JobStep BY <1>6, JobQuiet
  <1>7. CASE \E t \in Targets \union {NoTarget} : Swap(t)
    BY <1>7, SameImage DEF Swap, statusVars, uploadVars, fileVars
  <1>8. CASE \E formatted \in BOOLEAN : Reboot(formatted)
    <2>1. PICK formatted \in BOOLEAN : Reboot(formatted) BY <1>8
    <2>2. job'.kind = "none" /\ uploadOpen' = FALSE /\ gStatus'.complete = FALSE
      BY <2>1 DEF Reboot, BootStatus, NoJob
    <2>3. ~uploadOpen => firmware' \in {firmware, NoFile} BY <2>1 DEF Reboot
    <2> QED BY <2>2, <2>3 DEF Keeps, Goes
  <1>9. CASE UNCHANGED vars BY <1>9, SameImage DEF vars
  <1> QED BY <1>1, <1>2, <1>3, <1>4, <1>5, <1>6, <1>7, <1>8, <1>9 DEF Environment

\* A status that was live stays so.
LEMMA LiveKept ==
  ASSUME Keeps, NEW status, Sound(status), Live(status), status.ready, status.current
  PROVE  /\ ~uploadOpen'
         /\ job'.kind = "Probe" => job'.pc = "release"
         /\ firmware' \in {status.image, NoFile}
         /\ gStatus'.uid = status.uid \/ ~gStatus'.complete
  BY TargetAssumption DEF Keeps, Sound, Live

\* A page that has none yet has none that is live, and none to review.
LEMMA NothingLive == ~Nothing.ready /\ ~Nothing.current /\ Live(Nothing)
  BY DEF Nothing, Live

\* Nothing does not age.
LEMMA NothingAges == [Nothing EXCEPT !.current = FALSE] = Nothing
  <1> DEFINE aged == [Nothing EXCEPT !.current = FALSE]
  <1>1. Nothing \in Status BY DEF Nothing, Status, File
  <1>2. aged \in Status BY <1>1 DEF Status
  <1>3. /\ aged.ready = Nothing.ready /\ aged.uid = Nothing.uid
        /\ aged.image = Nothing.image /\ aged.current = Nothing.current
    BY <1>1 DEF Status, Nothing
  <1> HIDE DEF aged, Nothing
  <1>4. aged = Nothing BY <1>1, <1>2, <1>3 DEF Status
  <1> QED BY <1>4 DEF aged

\* Once an upload is taken in no status counts any more, and no job flashes.
LEMMA AgeShown ==
  ASSUME ClientTypeOK, ShownInv, Age, job'.kind # "Flash"
  PROVE  ShownInv'
  <1>1. \A pages \in [Browsers -> Status] : \A b \in Browsers :
          /\ ~Aged(pages)[b].current
          /\ Aged(pages)[b].ready = pages[b].ready
          /\ pages[b] = Nothing => Aged(pages)[b] = Nothing
    <2>1. SUFFICES ASSUME NEW pages \in [Browsers -> Status], NEW b \in Browsers
                   PROVE  /\ ~Aged(pages)[b].current
                          /\ Aged(pages)[b].ready = pages[b].ready
                          /\ pages[b] = Nothing => Aged(pages)[b] = Nothing
      OBVIOUS
    <2>2. Aged(pages)[b] = [pages[b] EXCEPT !.current = FALSE] /\ pages[b] \in Status
      BY DEF Aged
    <2> QED BY <2>2, NothingAges DEF Status
  <1>2. /\ reply' = Aged(reply) /\ last' = Aged(last) /\ dialog' = Aged(dialog)
    BY DEF Age
  <1>3. \A b \in Browsers : ~reply'[b].current /\ ~last'[b].current /\ ~dialog'[b].current
    BY <1>1, <1>2 DEF ClientTypeOK
  <1>4. \A b \in Browsers : dialog'[b] # Nothing => dialog'[b].ready
    BY <1>1, <1>2 DEF ClientTypeOK, ShownInv, Open
  <1> QED BY <1>3, <1>4 DEF ShownInv, Live, Open

\* A reply that offers something says what the service has at that moment.
LEMMA AnswerLive ==
  ASSUME IInv, ReviewInv, StatusEnd, ReadyFor(http.seen)
  PROVE  /\ ~uploadOpen
         /\ job.kind = "Probe" => job.pc = "release"
  <1>1. http.req = "status" /\ http.seen = "Ready" BY DEF StatusEnd, ReadyFor
  <1> QED BY <1>1 DEF IInv, JobShape, ReviewInv, Replying

\* What the service does by itself, or for one page, keeps the statuses of all.
LEMMA PagesLive ==
  ASSUME Keeps, PagesInv, ShownInv
  PROVE  \A b \in Browsers :
           \A status \in {reply[b], last[b], dialog[b], Nothing} :
             status.ready /\ status.current =>
               /\ ~uploadOpen'
               /\ job'.kind = "Probe" => job'.pc = "release"
               /\ firmware' \in {status.image, NoFile}
               /\ gStatus'.uid = status.uid \/ ~gStatus'.complete
  <1>1. SUFFICES ASSUME NEW b \in Browsers, NEW status \in {reply[b], last[b], dialog[b], Nothing},
                        status.ready, status.current
                 PROVE  Sound(status) /\ Live(status)
    BY LiveKept
  <1>2. status # Nothing BY <1>1, NothingLive
  <1> QED BY <1>1, <1>2 DEF PagesInv, ShownInv

\* Every step keeps the statuses and the request of a flash job.
LEMMA NextShown ==
  ASSUME IInv, ReviewInv, PagesInv, ShownInv, [ClientNext]_allVars
  PROVE  ShownInv'
  <1>0. /\ ClientTypeOK /\ TypeOK /\ JobShape BY DEF PagesInv, IInv
  <1> DEFINE Lives(status) ==
               status.ready /\ status.current =>
                 /\ ~uploadOpen'
                 /\ job'.kind = "Probe" => job'.pc = "release"
                 /\ firmware' \in {status.image, NoFile}
                 /\ gStatus'.uid = status.uid \/ ~gStatus'.complete
  <1>1. Keeps => \A b \in Browsers :
          Lives(reply[b]) /\ Lives(last[b]) /\ Lives(dialog[b]) /\ Lives(Nothing)
    BY PagesLive
  <1>2. ASSUME \A b \in Browsers :
                 /\ Lives(reply'[b]) /\ Lives(last'[b]) /\ Lives(dialog'[b])
                 /\ dialog'[b] # Nothing => dialog'[b].ready,
               job'.kind = "Flash" /\ reviewed'.current =>
                 firmware' = reviewed'.image /\ gStatus'.uid = reviewed'.uid
        PROVE  ShownInv'
    BY <1>2 DEF ShownInv, Live, Open
  <1>3. \A b \in Browsers : dialog[b] # Nothing => dialog[b].ready BY DEF ShownInv, Open
  <1>4. Goes /\ reviewed' = reviewed =>
          (job'.kind = "Flash" /\ reviewed'.current =>
             firmware' = reviewed'.image /\ gStatus'.uid = reviewed'.uid)
    BY DEF Goes, ShownInv
  <1> HIDE DEF Lives
  <1>5. CASE Keeps /\ Goes /\ reviewed' = reviewed /\ UNCHANGED <<reply, last, dialog>>
    BY <1>1, <1>2, <1>3, <1>4, <1>5
  <1>6. CASE UNCHANGED allVars
    BY <1>5, <1>6, ServiceQuiet DEF allVars, clientVars
  <1>7. CASE Service
    BY <1>5, <1>7, ServiceQuiet DEF Service, clientVars
  <1>8. CASE Accepted
    <2>1. /\ Age /\ ~jobRunning /\ ScheduleJob("Probe") BY <1>8 DEF Accepted, FinishAccepted
    <2>2. job.kind = "none" BY <1>0, <2>1 DEF JobShape
    <2>3. job'.kind # "Flash" BY <2>1, <2>2 DEF ScheduleJob, NoJob
    <2> QED BY <1>0, <2>1, <2>3, AgeShown
  <1>9. CASE Answer
    <2> DEFINE status == [ready |-> ReadyFor(http.seen), uid |-> gStatus.uid,
                          image |-> firmware, current |-> TRUE]
    <2>1. Keeps /\ Goes /\ reviewed' = reviewed /\ UNCHANGED <<last, dialog>>
          /\ reply' = [reply EXCEPT ![poller] = status]
      BY <1>9, ServiceQuiet DEF Answer
    <2>2. UNCHANGED <<gStatus, job, firmware, uploadOpen>>
      BY <1>9 DEF Answer, StatusEnd, statusVars, uploadVars, fileVars
    <2>3. Lives(status) BY <1>9, <2>2, AnswerLive DEF Lives, Answer
    <2> HIDE DEF status
    <2>4. \A b \in Browsers : reply'[b] \in {status, reply[b]} BY <1>0, <2>1 DEF ClientTypeOK
    <2> QED BY <1>1, <1>2, <1>3, <1>4, <2>1, <2>3, <2>4
  <1>10. CASE \E b \in Browsers, body \in Uploads : Upload(b, body)
    <2>1. PICK b \in Browsers, body \in Uploads : Upload(b, body) BY <1>10
    <2>2. CASE UploadsIgnored
      BY <1>5, <2>1, <2>2, ServiceQuiet DEF Upload, clientVars
    <2>3. CASE ~UploadsIgnored
      <3>1. Age /\ ~jobRunning /\ UNCHANGED job
        BY <2>1, <2>3 DEF Upload, UploadStart, UploadsIgnored
      <3>2. job'.kind # "Flash" BY <1>0, <3>1 DEF JobShape
      <3> QED BY <1>0, <3>1, <3>2, AgeShown
    <2> QED BY <2>2, <2>3
  <1>11. CASE \E b \in Browsers : Poll(b)
    BY <1>5, <1>11, ServiceQuiet DEF Poll
  <1>12. CASE \E b \in Browsers : Receive(b) \/ Review(b) \/ Dismiss(b)
    <2>1. PICK b \in Browsers : Receive(b) \/ Review(b) \/ Dismiss(b) BY <1>12
    <2>2. Keeps /\ Goes /\ reviewed' = reviewed
      BY <2>1, ServiceQuiet DEF Receive, Review, Dismiss
    <2>3. \A c \in Browsers :
            /\ reply'[c] \in {reply[c], Nothing} /\ last'[c] \in {last[c], reply[c]}
            /\ dialog'[c] \in {dialog[c], last[c], Nothing}
            /\ dialog'[c] \notin {dialog[c], Nothing} => dialog'[c].ready
      BY <1>0, <2>1 DEF Receive, Review, Dismiss, ClientTypeOK
    <2> QED BY <1>1, <1>2, <1>3, <1>4, <2>2, <2>3
  <1>13. CASE \E b \in Browsers : Confirm(b)
    <2>1. PICK b \in Browsers : Confirm(b) BY <1>13
    <2>2. /\ UNCHANGED <<gStatus, firmware, uploadOpen>> /\ ~jobRunning /\ ScheduleJob("Flash")
          /\ gStatus.state = "Ready"
      BY <2>1 DEF Confirm, FlashRequest, uploadVars, fileVars
    <2>3. job.kind = "none" BY <1>0, <2>2 DEF JobShape
    <2>4. job'.kind \in {"none", "Flash"} BY <2>2, <2>3 DEF ScheduleJob, NoJob
    <2>5. Keeps BY <2>2, <2>4 DEF Keeps
    <2>6. gStatus.complete /\ firmware # NoFile
      BY <2>2 DEF ReviewInv, Offered, Reviewed, Fitting, Inspected
    <2>7. /\ dialog[b].ready /\ Live(dialog[b]) /\ reviewed' = dialog[b]
          /\ dialog' = [dialog EXCEPT ![b] = Nothing] /\ UNCHANGED <<reply, last>>
      BY <2>1 DEF Confirm, ShownInv
    <2>8. reviewed'.current => firmware' = reviewed'.image /\ gStatus'.uid = reviewed'.uid
      BY <2>2, <2>6, <2>7 DEF Live
    <2>9. \A c \in Browsers : dialog'[c] \in {dialog[c], Nothing} BY <1>0, <2>7 DEF ClientTypeOK
    <2> QED BY <1>1, <1>2, <1>3, <2>5, <2>7, <2>8, <2>9
  <1> QED BY <1>6, <1>7, <1>8, <1>9, <1>10, <1>11, <1>12, <1>13 DEF ClientNext

-----------------------------------------------------------------------------
\* Every page begins with nothing.
LEMMA ClientStart == ClientInit => PagesInv
  <1>1. Nothing \in Status /\ Sound(Nothing) BY DEF Nothing, Status, File, Sound
  <1> HIDE DEF Nothing
  <1> QED BY <1>1 DEF ClientInit, PagesInv, ClientTypeOK

\* Flash is offered by a page only for an image that passed its preflight on
\* the controller that is shown with it, however late the reply arrives and
\* however many pages, uploads and jobs there are meanwhile.
THEOREM OffersAcceptable == ClientSpec => []OfferedIsAcceptable
  <1>1. ClientInit => Init /\ PagesInv BY ClientStart DEF ClientInit
  <1>2. Init => IInv /\ ReviewInv BY InitInvariant, InitReview
  <1>3. IInv /\ ReviewInv /\ PagesInv /\ [ClientNext]_allVars
          => IInv' /\ ReviewInv' /\ PagesInv'
    <2> SUFFICES ASSUME IInv, ReviewInv, PagesInv, [ClientNext]_allVars
                 PROVE  IInv' /\ ReviewInv' /\ PagesInv'
      OBVIOUS
    <2>1. TypeOK BY DEF IInv
    <2>2. [Next]_vars BY ServiceSteps
    <2> QED BY <2>1, <2>2, NextInvariant, NextReview, NextPages
  <1>4. PagesInv => OfferedIsAcceptable BY DEF PagesInv, Sound, OfferedIsAcceptable
  <1> QED BY <1>1, <1>2, <1>3, <1>4, PTL DEF ClientSpec

\* As long as no upload is stored or probed after the status a page reviews, its
\* confirmation programs that image into that controller, though the request
\* names neither: whatever restores, exchanged controllers, restarts and dialogs
\* of other pages come between, for any number of pages and of controllers.
THEOREM ReviewLasts == ClientSpec => []ReviewHolds
  <1>1. ClientInit => IInv /\ ReviewInv /\ PagesInv /\ ShownInv
    <2> SUFFICES ASSUME ClientInit PROVE PagesInv /\ ShownInv
      BY ClientStart, InitInvariant, InitReview DEF ClientInit
    <2>1. job.kind = "none" BY DEF ClientInit, Init, NoJob
    <2> QED BY <2>1, ClientStart, NothingLive DEF ClientInit, ShownInv, Open
  <1>2. IInv /\ ReviewInv /\ PagesInv /\ ShownInv /\ [ClientNext]_allVars
          => IInv' /\ ReviewInv' /\ PagesInv' /\ ShownInv'
    <2> SUFFICES ASSUME IInv, ReviewInv, PagesInv, ShownInv, [ClientNext]_allVars
                 PROVE  IInv' /\ ReviewInv' /\ PagesInv' /\ ShownInv'
      OBVIOUS
    <2>1. TypeOK BY DEF IInv
    <2> QED BY <2>1, ServiceSteps, NextInvariant, NextReview, NextPages, NextShown
  <1>3. ReviewInv /\ ShownInv => ReviewHolds
    <2> SUFFICES ASSUME ReviewInv, ShownInv, Writing, reviewed.current PROVE IsReviewed
      BY DEF ReviewHolds
    <2>1. job.target = gStatus.uid BY DEF ReviewInv, Flashed, Writing, Attached, Programs
    <2> QED BY <2>1 DEF ShownInv, Writing, IsReviewed
  <1> QED BY <1>1, <1>2, <1>3, PTL DEF ClientSpec
=============================================================================
