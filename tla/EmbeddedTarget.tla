---------------------------- MODULE EmbeddedTarget ----------------------------
(***************************************************************************)
(* The research programmers on top of EmbeddedSwd: dap_target.c with the   *)
(* command line of raspberry-pi/main.c and test_swd of main.c, both in     *)
(* .research/embedded-swd-master.  A run is one process, or one press of   *)
(* the button; the controller under it keeps its flash from run to run.    *)
(*                                                                         *)
(* Of EmbeddedSwd three things are kept.  A failure is silent and most end *)
(* the session (nothing later gets through, reads return 0).  A read whose *)
(* parity is wrong returns 0 too and leaves the session as it was.  And    *)
(* once a write has run out of attempts a word may be missing or on        *)
(* another address, which is action Astray: what that run does then is not *)
(* followed.                                                               *)
(***************************************************************************)
EXTENDS Integers, Sequences

CONSTANTS
  Pages, PageWords, RowPages,
  Bits,      \* of a word; a word is the set of its ones
  Files,     \* contents of the file named on the command line
  Pattern,   \* what test_swd writes
  TestPage   \* and the page it writes it to

Cells == 0 .. Pages * PageWords - 1
Word == SUBSET Bits
Blank == Bits
BlankPage == [w \in 0 .. PageWords - 1 |-> Blank]

TargetAssumption ==
  /\ Pages \in Nat \ {0} /\ PageWords \in Nat \ {0} /\ RowPages \in Nat \ {0}
  /\ \A f \in Files \cup {Pattern} : f \in Seq(Word)
  /\ \A f \in Files : Len(f) <= Pages * PageWords
  /\ Len(Pattern) = PageWords /\ \E w \in 1 .. PageWords : Pattern[w] # {}
  /\ TestPage \in 0 .. Pages - 1

VARIABLES
  chip,    \* external: [flash, was, buffer, manual, done, row]
  up,      \* the session gets through
  run,     \* [cmd, file]: the command in progress
  pc, page, word,
  data,    \* words read so far
  exit,    \* what the last run reported: 0 or 1
  before   \* history: the flash when the run began

vars == <<chip, up, run, pc, page, word, data, exit, before>>

(* The controller and its non-volatile memory.  A store into the flash     *)
(* goes to the page buffer, and in automatic mode the last word of a page  *)
(* begins to program it, which clears bits and sets none: "flash" is what  *)
(* comes of it, "was" what it began from, until something has waited for   *)
(* it.  A reset meanwhile leaves any of those bits as they were; it also   *)
(* brings the manual write mode back and clears the buffer.                *)
Torn(c) == {f \in [Cells -> Word] : \A i \in Cells : c.flash[i] \subseteq f[i]
                                                  /\ f[i] \subseteq c.was[i]}
Reset(c, f) ==
  [c EXCEPT !.flash = f, !.was = f, !.manual = TRUE, !.buffer = BlankPage]
Waited(c) == [c EXCEPT !.was = c.flash]
Automatic(c) == [c EXCEPT !.manual = FALSE]
ClearFlags(c) == [c EXCEPT !.done = FALSE]
EraseChip(c) ==
  LET erased == [i \in Cells |-> Blank]
  IN  [c EXCEPT !.flash = erased, !.was = erased, !.done = TRUE]
SetAddress(c, p) == [c EXCEPT !.row = p \div RowPages]
EraseRow(c) ==
  LET erased == [i \in Cells |-> IF i \div (PageWords * RowPages) = c.row
                                 THEN Blank ELSE c.flash[i]]
  IN  [c EXCEPT !.flash = erased, !.was = erased]
Commit(c, p) ==
  [c EXCEPT !.buffer = BlankPage,
            !.was = c.flash,
            !.flash = [i \in Cells |-> IF i \div PageWords = p
                                       THEN @[i] \cap c.buffer[i % PageWords] ELSE @[i]]]
Store(c, i, value) ==
  LET filled == [c EXCEPT !.buffer[i % PageWords] = value]
  IN  IF ~c.manual /\ i % PageWords = PageWords - 1
      THEN Commit(filled, i \div PageWords) ELSE filled

Chips == [flash: [Cells -> Word], was: [Cells -> Word], buffer: [0 .. PageWords - 1 -> Word],
          manual: BOOLEAN, done: BOOLEAN, row: 0 .. Pages - 1]

-----------------------------------------------------------------------------
Init ==
  /\ chip \in [flash: [Cells -> Word], was: [Cells -> Word], buffer: {BlankPage},
               manual: {TRUE}, done: {FALSE}, row: {0}]
  /\ chip.was = chip.flash
  /\ up = FALSE
  /\ run = [cmd |-> "none", file |-> <<>>]
  /\ pc = "idle" /\ page = 0 /\ word = 0 /\ data = <<>>
  /\ exit = 0
  /\ before = chip.flash

Commands == {"erase", "read", "write", "verify", "test"}

(* dap_init to dap_target_prepare: the session gets through or it does not *)
(* (SessionRevives of EmbeddedSwd says when); nobody hears which.  A page  *)
(* that the run before left under way is finished by the time of the next. *)
Begin ==
  /\ pc = "idle"
  /\ run' \in [cmd: {"erase", "read"}, file: {<<>>}]
              \cup [cmd: {"write", "verify"}, file: Files]
              \cup [cmd: {"test"}, file: {Pattern}]
  /\ up' \in BOOLEAN
  /\ pc' = "reset" /\ page' = 0 /\ word' = 0 /\ data' = <<>>
  /\ chip' = Waited(chip) /\ before' = chip.flash
  /\ UNCHANGED exit

(* dap_write_word: it gets through or nothing does from here on.           *)
PutOneOf(effects) ==
  \/ up /\ chip' \in effects /\ UNCHANGED up
  \/ up' = FALSE /\ UNCHANGED chip

Put(effect) == PutOneOf({effect})

PutReset == PutOneOf({Reset(chip, f) : f \in Torn(chip)})

(* dap_read_word: 0 where the session does not get through, and where it   *)
(* does but the word arrives with bad parity.  What is read leaves the     *)
(* chip as "after" says.                                                   *)
Get(got, value, zero, after) ==
  \/ up /\ UNCHANGED up /\ got = value /\ chip' = after
  \/ up' \in {up, FALSE} /\ got = zero /\ UNCHANGED chip

Goto(label) == pc' = label /\ UNCHANGED <<run, page, word, data, exit, before>>

Exit(code) ==
  /\ pc' = "idle" /\ exit' = code
  /\ UNCHANGED <<run, page, word, data, before>>

\* dap_target_select; the core is halted by two writes that change no flash.
SelectReset == pc = "reset" /\ PutReset /\ Goto("automatic")

SelectAutomatic ==
  /\ pc = "automatic"
  /\ Put(Automatic(chip))
  /\ Goto(IF run.cmd = "test" THEN "clear" ELSE "id")

\* target_id: the one answer the command line checks.
TargetId ==
  /\ pc = "id"
  /\ \E known \in BOOLEAN :
       /\ Get(known, TRUE, FALSE, chip)
       /\ IF known
          THEN Goto(CASE run.cmd = "erase" -> "clear"
                      [] run.cmd \in {"write", "verify"} /\ run.file = <<>> -> "deselect"
                      [] run.cmd = "write" /\ run.file # <<>> -> "address"
                      [] OTHER -> "load")
          ELSE Exit(1)

-----------------------------------------------------------------------------
\* dap_target_erase.
EraseClear == pc = "clear" /\ Put(ClearFlags(chip)) /\ Goto("erase")
EraseStart == pc = "erase" /\ Put(EraseChip(chip)) /\ Goto("erasing")
EraseWait ==
  /\ pc = "erasing"
  /\ \E done \in BOOLEAN :
       /\ Get(done, chip.done, FALSE, chip)
       /\ IF done /\ run.cmd = "test"
          THEN pc' = "row" /\ page' = TestPage /\ UNCHANGED <<run, word, data, exit, before>>
          ELSE Goto(IF done THEN "deselect" ELSE "erasing")

(* dap_target_erase_row: each of its commands polls READY, which waits for *)
(* whatever is under way.                                                  *)
RowAddress == pc = "row" /\ Put(SetAddress(chip, page)) /\ Goto("row erase")
RowErase == pc = "row erase" /\ Put(EraseRow(chip)) /\ Goto("row wait")
\* Mutant: READY is read once.
ReadOnce(label) ==
  \E ready \in BOOLEAN : Get(ready, TRUE, FALSE, Waited(chip)) /\ Goto(label)
Ready(label) ==
  \E ready \in BOOLEAN :
    Get(ready, TRUE, FALSE, Waited(chip)) /\ Goto(IF ready THEN label ELSE pc)
RowWait == pc = "row wait" /\ Ready("address")

\* dap_target_write_page: nothing is waited for after the last word, so that
\* the page is under way until the poll for the next one.
WriteAddress == pc = "address" /\ Put(SetAddress(chip, page)) /\ Goto("unlock")
WriteUnlock == pc = "unlock" /\ Ready("store")

(* The page that is written: the rest of the file, filled up with ones.    *)
PageWord(p, w) ==
  LET i == IF run.cmd = "test" THEN w ELSE p * PageWords + w
  IN  IF i < Len(run.file) THEN run.file[i + 1] ELSE Blank

LastPage == (page + 1) * PageWords >= Len(run.file)

WriteWord ==
  /\ pc = "store"
  /\ Put(Store(chip, page * PageWords + word, PageWord(page, word)))
  /\ IF word < PageWords - 1
     THEN word' = word + 1 /\ UNCHANGED <<pc, page>>
     ELSE /\ word' = 0
          /\ IF run.cmd = "test" THEN pc' = "load" /\ UNCHANGED page
             ELSE IF LastPage THEN pc' = "deselect" /\ UNCHANGED page
             ELSE pc' = "address" /\ page' = page + 1
  /\ UNCHANGED <<run, data, exit, before>>

-----------------------------------------------------------------------------
(* dap_target_read_page, the whole flash, the pages of the file or the one *)
(* of the test.  target_verify compares as it goes and stops at a          *)
(* difference, and only as far as the file reaches.  The bus holds a read  *)
(* of the flash until the page under way is finished.                      *)
Wanted == CASE run.cmd = "read" -> Pages * PageWords
            [] run.cmd = "verify" -> Len(run.file)
            [] OTHER -> PageWords

Differs(got) == \E i \in 1 .. Len(got) : i <= Len(run.file) /\ got[i] # run.file[i]

PageRead(got) == Len(got) % PageWords = 0
AllRead(got) == Len(got) >= Wanted /\ PageRead(got)

Fails(got) == run.cmd = "verify" /\ PageRead(got) /\ Differs(got)

ReadWord ==
  /\ pc = "load"
  /\ \E value \in Word :
       LET got == Append(data, value)
       IN  /\ Get(value, chip.flash[page * PageWords + word], {}, Waited(chip))
           /\ IF Fails(got) THEN Exit(1)
              ELSE /\ data' = got
                   /\ word' = (word + 1) % PageWords
                   /\ page' = IF PageRead(got) /\ ~AllRead(got) THEN page + 1 ELSE page
                   /\ pc' = IF AllRead(got) THEN "deselect" ELSE pc
                   /\ UNCHANGED <<run, exit, before>>

(* dap_target_deselect; target_read has written its file by then, and      *)
(* test_swd has printed what differs from its pattern.  The reset comes at *)
(* once, whatever is under way.                                            *)
Deselect ==
  /\ pc = "deselect"
  /\ PutReset
  /\ Exit(IF run.cmd = "test" /\ Differs(data) THEN 1 ELSE 0)

(* A write ran out of attempts: the rest of the run may have written       *)
(* anything anywhere.  The reset that every run begins with clears what it *)
(* left in the buffer and the mode, here already.                          *)
Astray ==
  /\ pc # "idle"
  /\ up
  /\ \E flash \in [Cells -> Word] : chip' = Reset(chip, flash)
  /\ up' = FALSE
  /\ Exit(1)

\* The process is killed.
Killed == pc # "idle" /\ UNCHANGED <<chip, up>> /\ Exit(1)

Work ==
  \/ SelectReset \/ SelectAutomatic \/ TargetId
  \/ EraseClear \/ EraseStart \/ EraseWait
  \/ RowAddress \/ RowErase \/ RowWait
  \/ WriteAddress \/ WriteUnlock \/ WriteWord
  \/ ReadWord \/ Deselect

Next == Begin \/ Work \/ Astray \/ Killed

Spec == Init /\ [][Next]_vars

-----------------------------------------------------------------------------
EmbeddedTypeOK ==
  /\ chip \in Chips
  /\ up \in BOOLEAN
  /\ page \in 0 .. Pages - 1 /\ word \in 0 .. PageWords - 1
  /\ data \in Seq(Word)
  /\ exit \in {0, 1}

Ends == pc # "idle" /\ pc' = "idle"

(* A write that exits without an error has put every page of the file but  *)
(* the last into the flash, into the bits that were still set there,       *)
(* though no write reports a failure: the poll before the next page is     *)
(* what no dead session gets past.  The last page has no such witness, and *)
(* the reset of dap_target_deselect does not wait for it: it is there, or  *)
(* not at all, or torn, but no bit has changed that should not.  Nothing   *)
(* else has changed.                                                       *)
WriteReachesLastPage ==
  [][Ends /\ exit' = 0 /\ run.cmd = "write" =>
       \A i \in Cells :
         LET held == before[i]
             put == IF i < Len(run.file) THEN held \cap run.file[i + 1] ELSE held
         IN  IF i \div PageWords = page /\ run.file # <<>>
             THEN put \subseteq chip'.flash[i] /\ chip'.flash[i] \subseteq held
             ELSE chip'.flash[i] = put]_vars

(* A verify that exits without an error found every word of the file in    *)
(* the flash, the words that are 0 excepted: a failed read returns 0.      *)
VerifyFindsTheFile ==
  [][Ends /\ exit' = 0 /\ run.cmd = "verify" =>
       \A i \in 1 .. Len(run.file) :
         run.file[i] = {} \/ chip'.flash[i - 1] = run.file[i]]_vars

(* test_swd checks no answer on the way, yet it does not end without an    *)
(* error over a controller it did not erase and write.                     *)
TestIsHonest ==
  [][Ends /\ exit' = 0 /\ run.cmd = "test" =>
       \A i \in Cells :
         chip'.flash[i] = IF i \div PageWords = TestPage
                          THEN Pattern[(i % PageWords) + 1] ELSE Blank]_vars

(* A run that exits without an error has done what it was asked to.        *)
SuccessIsEarned == WriteReachesLastPage /\ VerifyFindsTheFile /\ TestIsHonest
=============================================================================
