----------------------------- MODULE SwdTransport -----------------------------
(***************************************************************************)
(* src/SwdTransport.cpp: requests on the wire (operation), transfers with  *)
(* retries and the collection of posted results (transfer), the connect    *)
(* sequence, and blocks of memory cut where the target's address counter   *)
(* wraps.  One step is one request; the target, with everything that may   *)
(* go wrong on the wire, is DebugPort.  Addresses count words.             *)
(***************************************************************************)
EXTENDS DebugPort, Sequences

CONSTANTS
  Retries, \* attempts at a request that is answered with WAIT
  MaxLen   \* bound: words of a block

TransportAssumption == Retries \in Nat \ {0} /\ MaxLen \in Nat \ {0}

VARIABLES
  target,
  call,     \* the call in progress: [op, at, len, data]
  pc,       \* "idle", "request" or "collect": the next request is RDBUFF
  step,     \* position in the registers the call goes through
  tries,    \* attempts at the current request so far
  address,  \* first word of the current chunk, as in the code
  size,     \* words from there to the end of the block
  chunk,    \* words of the chunk
  offset,   \* words of the chunk done
  buffer,   \* what a read has stored
  returned, \* the result of the last call
  cause,    \* history: the answer that made the last call fail
  quiet     \* history: nothing has disturbed the wire or the supply since the call began

loop == <<address, size, chunk, offset>>
vars == <<target, call, pc, step, tries, loop, buffer, returned, cause, quiet>>

-----------------------------------------------------------------------------
(* The calls. *)

Data == [0 .. MaxLen - 1 -> Values]
NoData == [i \in 0 .. MaxLen - 1 |-> CHOOSE v \in Values : TRUE]
Block(op, at, len, data) == [op |-> op, at |-> at, len |-> len, data |-> data]
Connecting == Block("connect", 0, 0, NoData)
NoCall == Block("none", 0, 0, NoData)

(* The registers of connect (IDCODE, then prepareAccessPort) and of a block. *)
ConnectOrder == <<"IDCODE", "ABORT", "SELECT", "CTRLSTAT", "STATUS", "SELECT", "CSW">>
BlockOrder == <<"TAR", "DRW">>
Order == IF call.op = "connect" THEN ConnectOrder ELSE BlockOrder
Reg == Order[step]

(* Words up to the address where the counter wraps, or to the end.         *)
\* Mutant: a block is never cut.
WholeBlock(at, len) == len
\* Mutant: a block that starts a page is cut to nothing.
NothingAtBoundary(at, len) == LET boundary == (Page - (at % Page)) % Page
                              IN  IF len < boundary THEN len ELSE boundary
Chunk(at, len) == LET boundary == Page - (at % Page)
                  IN  IF len < boundary THEN len ELSE boundary

Index == call.len - size + offset

IsWrite == Reg \in {"ABORT", "SELECT", "CTRLSTAT", "CSW", "TAR"}
           \/ (Reg = "DRW" /\ call.op = "write")

\* Mutant: a parity error of a write is left set, as with 0x16.
NotWdata == {"access"}
AbortFlags == Flags

\* What goes out in the data phase of a write.
Outgoing == CASE Reg = "ABORT" -> AbortFlags
              [] Reg = "TAR" -> address
              [] Reg = "DRW" -> call.data[Index]
              [] OTHER -> 0

\* Writes and reads of the access port are completed by a read of RDBUFF.
Completed == IsWrite \/ Reg \in AccessPort

\* Mutant: one attempt too many.
TriedOnceMore == tries < Retries
MayRetry == tries + 1 < Retries

-----------------------------------------------------------------------------
(* The locals of a call are gone when it returns. *)
Return(result, ack) ==
  /\ pc' = "idle"
  /\ call' = NoCall
  /\ step' = 1 /\ tries' = 0
  /\ address' = 0 /\ size' = 0 /\ chunk' = 0 /\ offset' = 0
  /\ returned' = result
  /\ cause' = ack

Fail(ack) == Return(FALSE, ack) /\ UNCHANGED buffer

Goto(s) ==
  /\ step' = s
  /\ pc' = "request"
  /\ tries' = 0
  /\ UNCHANGED <<call, returned, cause>>

Init ==
  /\ target \in {t \in Target : ~t.power /\ t.sticky = {}}
  /\ call = NoCall
  /\ pc = "idle"
  /\ step = 1
  /\ tries = 0
  /\ address = 0 /\ size = 0 /\ chunk = 0 /\ offset = 0
  /\ buffer = NoData
  /\ returned = FALSE
  /\ cause = "none"
  /\ quiet = TRUE

\* The line reset comes before the first request.
Connect ==
  /\ pc = "idle"
  /\ call' = Connecting
  /\ target' = LineReset(target)
  /\ pc' = "request"
  /\ buffer' = NoData
  /\ cause' = "none"
  /\ quiet' = TRUE
  /\ UNCHANGED <<step, tries, loop, returned>>

\* read32, write32, readBlock and writeBlock: every caller asks for a word or more.
Access(op, at, len, data) ==
  /\ pc = "idle"
  /\ call' = Block(op, at, len, data)
  /\ pc' = "request"
  /\ address' = at /\ size' = len /\ chunk' = Chunk(at, len)
  /\ buffer' = NoData
  /\ cause' = "none"
  /\ quiet' = TRUE
  /\ UNCHANGED <<target, step, tries, offset, returned>>

\* A block that is not a number of whole words is refused.
Misaligned ==
  /\ pc = "idle"
  /\ Fail("none")
  /\ UNCHANGED <<target, quiet>>

\* The end of one pass of the loop over the words of a chunk.
NextWord ==
  IF offset + 1 < chunk
  THEN /\ offset' = offset + 1
       /\ Goto(2)
       /\ UNCHANGED <<address, size, chunk>>
  ELSE IF size = chunk
  THEN Return(TRUE, "none")
  ELSE /\ address' = address + chunk
       /\ size' = size - chunk
       /\ chunk' = Chunk(address', size')
       /\ offset' = 0
       /\ Goto(1)

NextRegister == Goto(step + 1) /\ UNCHANGED <<loop, buffer>>

(* A transfer has succeeded; powered is what STATUS showed.                *)
TransferDone(powered) ==
  CASE Reg = "IDCODE" -> NextRegister \/ Fail("none") \* an identity of zeros or ones
    [] Reg = "STATUS" ->
         IF powered THEN NextRegister
         ELSE \/ Goto(step) /\ UNCHANGED <<loop, buffer>>
              \/ Fail("timeout")
    [] Reg = "CSW" -> Return(TRUE, "none") /\ UNCHANGED buffer
    [] Reg = "DRW" ->
         /\ NextWord
         /\ buffer' = IF call.op = "read"
                      THEN [buffer EXCEPT ![Index] = target.posted] ELSE buffer
    [] OTHER -> NextRegister

\* One attempt at the register of the transfer; only WAIT is tried again.
Request ==
  /\ pc = "request"
  /\ \E r \in Replies(target, Reg, IsWrite, Outgoing) :
       /\ target' = r.to
       /\ quiet' = (quiet /\ r \in Clean(target, Reg, IsWrite, Outgoing))
       /\ CASE r.ack = "ok" /\ Completed ->
                 /\ pc' = "collect"
                 /\ UNCHANGED <<call, step, tries, loop, buffer, returned, cause>>
            [] r.ack = "ok" /\ ~Completed -> TransferDone(r.to.power)
            [] r.ack = "wait" /\ MayRetry ->
                 /\ tries' = tries + 1
                 /\ UNCHANGED <<call, pc, step, loop, buffer, returned, cause>>
            [] OTHER -> Fail(r.ack)

\* The read of RDBUFF: one attempt.
Collect ==
  /\ pc = "collect"
  /\ \E r \in Replies(target, "RDBUFF", FALSE, 0) :
       /\ target' = r.to
       /\ quiet' = (quiet /\ r \in Clean(target, "RDBUFF", FALSE, 0))
       /\ IF r.ack = "ok" THEN TransferDone(FALSE) ELSE Fail(r.ack)

\* The target loses its supply at any time.
PowerLoss ==
  /\ target' = Outage(target)
  /\ quiet' = FALSE
  /\ UNCHANGED <<call, pc, step, tries, loop, buffer, returned, cause>>

Payloads(len) == {d \in Data : \A i \in len .. MaxLen - 1 : d[i] = NoData[i]}

Call ==
  \/ Connect
  \/ Misaligned
  \/ \E at \in Address, len \in 1 .. MaxLen :
       /\ at + len <= Words
       /\ \/ Access("read", at, len, NoData)
          \/ \E data \in Payloads(len) : Access("write", at, len, data)

Next == Call \/ Request \/ Collect \/ PowerLoss

Spec == Init /\ [][Next]_vars

(* The transport runs whenever a call is in progress, and the 250 ms of the *)
(* power-up poll end: it does not read STATUS unpowered for ever.           *)
PollEnds == pc = "request" /\ Reg = "STATUS" /\ Request /\ (step' # step \/ pc' = "idle")

-----------------------------------------------------------------------------
TransportTypeOK ==
  /\ target \in Target
  /\ call.op \in {"none", "connect", "read", "write"}
  /\ call.at \in Address /\ call.len \in 0 .. MaxLen /\ call.data \in Data
  /\ pc \in {"idle", "request", "collect"}
  /\ step \in 1 .. Len(Order)
  /\ tries \in 0 .. Retries - 1
  /\ address \in Nat /\ size \in 0 .. MaxLen
  /\ chunk \in 0 .. MaxLen /\ offset \in 0 .. MaxLen
  /\ buffer \in Data
  /\ returned \in BOOLEAN
  /\ cause \in Acks \cup {"none", "timeout"}
  /\ quiet \in BOOLEAN

(* Whatever failed before, connect brings the link back: over a wire that  *)
(* nothing disturbs it meets no FAULT and no silence (the error flags are  *)
(* cleared nowhere else), and returns true only with a link that is ready  *)
(* for memory access.                                                      *)
ConnectRevives ==
  [][call.op = "connect" /\ pc' = "idle" /\ quiet' =>
       /\ cause' \notin {"fault", "invalid", "parity"}
       /\ returned' => target'.sticky = {} /\ target'.power]_vars

Memory == INSTANCE BlockMemory WITH mem <- target.mem, busy <- pc # "idle"

(* The transport implements a memory of blocks.                            *)
IsBlockMemory == Memory!Spec
=============================================================================
