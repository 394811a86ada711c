---------------------------- MODULE SwdHostsProofs ----------------------------
(***************************************************************************)
(* What holds of the three hosts that drive a controller over SWD, for     *)
(* every size of the memory, of the page after which the target's address  *)
(* counter wraps, of the blocks and the files, and for every disturbance   *)
(* of the wire.                                                            *)
(*                                                                         *)
(* The transport (src/SwdTransport.cpp) implements a memory of blocks:     *)
(* SwdTransport refines BlockMemory, and connecting revives the port.  Its *)
(* invariant says where the target's address register stands at every      *)
(* request of a block, as long as the target is in a state in which it     *)
(* would accept one, and that the words before it have been transferred.   *)
(* The invariant of the research engine says the same of its two requests. *)
(* That of the research programmers says what the flash, and the words     *)
(* read, are at each point of a run, as a loss of the session leaves them. *)
(***************************************************************************)
EXTENDS SwdHosts, TLAPS

(* The transport *)

\* The call is one of readBlock and writeBlock, or of their one-word forms.
OnBlock == pc # "idle" /\ call.op \in {"read", "write"}

CallShape ==
  /\ pc \in {"idle", "request", "collect"}
  /\ pc = "idle" => step = 1 /\ offset = 0
  /\ pc # "idle" => call.op \in {"connect", "read", "write"}
  /\ pc # "idle" /\ call.op = "connect" => step \in 1 .. 7 /\ call.len = 0
  /\ OnBlock =>
       /\ step \in {1, 2}
       /\ call.at \in Nat /\ call.len \in 1 .. MaxLen /\ call.at + call.len <= Words
       /\ call.data \in Data

\* The loops of readBlock and writeBlock.
LoopShape ==
  OnBlock =>
    /\ size \in 1 .. call.len
    /\ address = call.at + call.len - size
    /\ chunk = Chunk(address, size)
    /\ offset \in 0 .. chunk - 1
    /\ step = 1 => offset = 0

\* The word the loops have come to.
Word == address + offset

Transferred ==
  OnBlock => \A i \in 0 .. Index - 1 :
    target.mem[call.at + i] = IF call.op = "write" THEN call.data[i] ELSE buffer[i]

\* The target is ready to accept a request: then its registers are those the
\* code believes in.
Listening == ~target.deaf /\ target.sticky = {}

Pointed ==
  OnBlock /\ Listening =>
    /\ step = 1 /\ pc = "collect" => target.tar = address
    /\ step = 2 /\ pc = "request" => target.tar = Word
    /\ step = 2 /\ pc = "collect" =>
         /\ target.tar = Increment(Word)
         /\ IF call.op = "write" THEN target.mem[Word] = call.data[Index]
            ELSE target.posted = target.mem[Word]

BlockInv ==
  /\ target \in Target /\ buffer \in Data
  /\ CallShape /\ LoopShape /\ Transferred /\ Pointed

-----------------------------------------------------------------------------
(* Remainders *)

\* Larger factors, larger products.
LEMMA Monotone ==
  ASSUME NEW p \in Nat \ {0}, NEW x \in Int, NEW y \in Int, x >= y + 1
  PROVE  p * x >= p * y + p
  BY Z3

\* Quotient and remainder.
LEMMA Division ==
  ASSUME NEW a \in Nat, NEW p \in Nat \ {0}
  PROVE  /\ a \div p \in Nat
         /\ a % p \in 0 .. p - 1
         /\ a = p * (a \div p) + (a % p)
  BY Z3

\* Inside a page the remainder counts up.
LEMMA InsidePage ==
  ASSUME NEW p \in Nat \ {0}, NEW a \in Nat, NEW k \in Nat, (a % p) + k < p
  PROVE  (a + k) % p = (a % p) + k
  <1> DEFINE q == a \div p
             r == a % p
             n == (a + k) \div p
             m == (a + k) % p
  <1>1. q \in Nat /\ r \in 0 .. p - 1 /\ a = p * q + r BY Division
  <1>2. n \in Nat /\ m \in 0 .. p - 1 /\ a + k = p * n + m
    <2>1. a + k \in Nat OBVIOUS
    <2> QED BY <2>1, Division
  <1> HIDE DEF q, r, n, m
  <1>3. p * n + m = p * q + (r + k) BY <1>1, <1>2
  <1>4. r + k \in 0 .. p - 1 BY <1>1 DEF r
  <1>5. ~(n >= q + 1)
    <2>1. n >= q + 1 => p * n >= p * q + p BY <1>1, <1>2, Monotone
    <2>2. p * n \in Int /\ p * q \in Int BY <1>1, <1>2
    <2> QED BY <1>2, <1>3, <1>4, <2>1, <2>2
  <1>6. ~(q >= n + 1)
    <2>1. q >= n + 1 => p * q >= p * n + p BY <1>1, <1>2, Monotone
    <2>2. p * n \in Int /\ p * q \in Int BY <1>1, <1>2
    <2> QED BY <1>2, <1>3, <1>4, <2>1, <2>2
  <1>7. n = q BY <1>1, <1>2, <1>5, <1>6
  <1>8. m = r + k
    <2>1. p * q \in Int BY <1>1
    <2> QED BY <1>1, <1>2, <1>3, <1>4, <1>7, <2>1
  <1> QED BY <1>8 DEF m, r

\* A positive multiple is no less.
LEMMA Multiple ==
  ASSUME NEW p \in Nat \ {0}, NEW n \in Nat \ {0}, n % p = 0
  PROVE  n >= p
  <1> DEFINE q == n \div p
  <1>1. q \in Nat /\ n = p * q BY Division
  <1> HIDE DEF q
  <1>2. q >= 0 + 1
    <2>1. q = 0 => p * q = 0 OBVIOUS
    <2> QED BY <1>1, <2>1
  <1>3. p * q >= p * 0 + p BY <1>1, <1>2, Monotone
  <1> QED BY <1>1, <1>3

\* The address counter stays inside the memory.
LEMMA IncrementAddress ==
  ASSUME PortAssumption, NEW a \in Address
  PROVE  Increment(a) \in Address
  <1>1. Words \in Nat \ {0} /\ Page \in Nat \ {0} /\ Words % Page = 0 BY DEF PortAssumption
  <1>2. a \in Nat /\ a + 1 <= Words BY <1>1 DEF Address
  <1>3. CASE (a + 1) % Page = 0
    <2>2. a + 1 >= Page BY <1>1, <1>2, <1>3, Multiple
    <2> QED BY <1>1, <1>2, <1>3, <2>2 DEF Increment, Address
  <1>4. CASE (a + 1) % Page # 0
    <2>1. a + 1 # Words BY <1>1, <1>4
    <2> QED BY <1>1, <1>2, <1>4, <2>1 DEF Increment, Address
  <1> QED BY <1>3, <1>4

\* Inside a page it counts up.
LEMMA IncrementInside ==
  ASSUME PortAssumption, NEW a \in Nat, NEW k \in Nat, (a % Page) + k + 1 < Page
  PROVE  Increment(a + k) = a + k + 1
  <1>1. Page \in Nat \ {0} /\ a % Page \in Nat BY Division DEF PortAssumption
  <1>2. k + 1 \in Nat /\ (a % Page) + (k + 1) < Page BY <1>1
  <1>3. (a + (k + 1)) % Page = (a % Page) + (k + 1) BY <1>1, <1>2, InsidePage
  <1>4. a + (k + 1) = a + k + 1 OBVIOUS
  <1>5. (a + k + 1) % Page # 0 BY <1>1, <1>3, <1>4
  <1> QED BY <1>5 DEF Increment

-----------------------------------------------------------------------------
(* The answers of the target *)

\* The words are changed by an accepted write to DRW and by nothing else.
LEMMA MemoryKept ==
  ASSUME NEW t \in Target, NEW reg, NEW write \in BOOLEAN, NEW sent,
         reg # "DRW" \/ ~write, NEW n \in Accepted(t, reg, write, sent)
  PROVE  n.mem = t.mem
  <1>1. CASE reg = "ABORT" BY <1>1 DEF Accepted, Target
  <1>2. CASE reg \in {"CTRLSTAT", "STATUS"} BY <1>2 DEF Accepted, Target
  <1>3. CASE reg = "TAR" BY <1>3 DEF Accepted, Target
  <1>4. CASE reg = "DRW" BY <1>4 DEF Accepted, Failed, Target
  <1>5. CASE reg \notin {"ABORT", "CTRLSTAT", "STATUS", "TAR", "DRW"} BY <1>5 DEF Accepted
  <1> QED BY <1>1, <1>2, <1>3, <1>4, <1>5

\* What the host takes an answer for, and what it then knows.
LEMMA CleanReply ==
  ASSUME NEW t \in Target, NEW reg, NEW write \in BOOLEAN, NEW sent,
         NEW r \in Clean(t, reg, write, sent)
  PROVE  /\ r.ack = "wait" => r.to = t
         /\ r.ack = "ok" => "ok" \in Answers(t, reg) /\ r.to \in Accepted(t, reg, write, sent)
         /\ r.ack # "ok" => r.to.mem = t.mem
  <1>1. PICK a \in Answers(t, reg) :
          r \in (CASE a = "none" -> {[ack |-> "invalid", to |-> t]}
                   [] a = "ok" -> {[ack |-> "ok", to |-> n] : n \in Accepted(t, reg, write, sent)}
                   [] a = "refused" -> {[ack |-> "fault", to |-> Failed(t, "access")]}
                   [] OTHER -> {[ack |-> a, to |-> t]})
    BY DEF Clean
  <1>2. CASE a = "none" BY <1>1, <1>2
  <1>3. CASE a = "ok" BY <1>1, <1>3
  <1>4. CASE a = "refused" BY <1>1, <1>4 DEF Failed, Target
  <1>5. CASE a \notin {"none", "ok", "refused"} BY <1>1, <1>5
  <1> QED BY <1>2, <1>3, <1>4, <1>5

\* A disturbed exchange.
LEMMA DisturbedReply ==
  ASSUME NEW t \in Target, NEW reg, NEW write \in BOOLEAN, NEW sent,
         NEW r \in Disturbed(t, reg, write, sent)
  PROVE  /\ r.ack # "wait"
         /\ r.ack = "ok" => "ok" \in Answers(t, reg) /\ write /\ r.to = Failed(t, "wdata")
         /\ r.ack # "ok" => r.to.mem = t.mem
  <1>1. CASE r \in {[ack |-> "invalid", to |-> t], [ack |-> "invalid", to |-> [t EXCEPT !.deaf = TRUE]]}
    BY <1>1 DEF Target
  <1>2. CASE "ok" \in Answers(t, reg) /\ write
             /\ r \in {[ack |-> a, to |-> Failed(t, "wdata")] : a \in {"ok", "invalid"}}
    BY <1>2 DEF Failed, Target
  <1>3. CASE "ok" \in Answers(t, reg) /\ ~write
             /\ r \in {[ack |-> a, to |-> n] : a \in {"invalid", "parity"},
                                               n \in Accepted(t, reg, write, sent)}
    BY <1>3, MemoryKept
  <1> QED BY <1>1, <1>2, <1>3 DEF Disturbed

\* Both together, for a register that an error flag or a silent port refuses.
LEMMA Reply ==
  ASSUME NEW t \in Target, NEW reg, NEW write \in BOOLEAN, NEW sent,
         NEW r \in Replies(t, reg, write, sent)
  PROVE  /\ r.ack = "wait" => r.to = t
         /\ r.ack # "ok" => r.to.mem = t.mem
         /\ r.ack = "ok" =>
              /\ r.to \in Accepted(t, reg, write, sent) \/ (write /\ r.to = Failed(t, "wdata"))
              /\ reg \notin {"IDCODE", "STATUS", "ABORT"} => ~t.deaf /\ t.sticky = {}
  <1>1. r.ack = "ok" => "ok" \in Answers(t, reg)
    BY CleanReply, DisturbedReply DEF Replies
  <1>2. "ok" \in Answers(t, reg) /\ reg \notin {"IDCODE", "STATUS", "ABORT"} =>
          ~t.deaf /\ t.sticky = {}
    BY DEF Answers
  <1> QED BY <1>1, <1>2, CleanReply, DisturbedReply DEF Replies

\* A request leaves the target a target.
LEMMA AcceptedTarget ==
  ASSUME PortAssumption, NEW t \in Target, NEW reg, NEW write \in BOOLEAN, NEW sent,
         reg = "TAR" => sent \in Address,
         reg = "DRW" /\ write => sent \in Values,
         NEW n \in Accepted(t, reg, write, sent)
  PROVE  n \in Target
  <1>1. CASE reg = "ABORT" BY <1>1 DEF Accepted, Target
  <1>2. CASE reg \in {"CTRLSTAT", "STATUS"} BY <1>2 DEF Accepted, Target
  <1>3. CASE reg = "TAR" BY <1>3 DEF Accepted, Target
  <1>4. CASE reg = "DRW"
    <2>1. t.tar \in Address /\ Increment(t.tar) \in Address BY IncrementAddress DEF Target
    <2>2. CASE n = Failed(t, "access") BY <2>2 DEF Failed, Flags, Target
    <2>3. CASE write /\ n = [t EXCEPT !.mem[t.tar] = sent, !.tar = Increment(t.tar)]
      BY <1>4, <2>1, <2>3 DEF Target
    <2>4. CASE ~write /\ n = [t EXCEPT !.posted = t.mem[t.tar], !.tar = Increment(t.tar)]
      BY <2>1, <2>4 DEF Target
    <2> QED BY <1>4, <2>2, <2>3, <2>4 DEF Accepted
  <1>5. CASE reg \notin {"ABORT", "CTRLSTAT", "STATUS", "TAR", "DRW"} BY <1>5 DEF Accepted
  <1> QED BY <1>1, <1>2, <1>3, <1>4, <1>5

\* So does any exchange, clean or disturbed: the target stays one.
LEMMA ReplyTarget ==
  ASSUME PortAssumption, NEW t \in Target, NEW reg, NEW write \in BOOLEAN, NEW sent,
         reg = "TAR" => sent \in Address,
         reg = "DRW" /\ write => sent \in Values,
         NEW r \in Replies(t, reg, write, sent)
  PROVE  r.to \in Target
  <1>1. CASE r \in Clean(t, reg, write, sent)
    <2>1. PICK a \in Answers(t, reg) :
            r \in (CASE a = "none" -> {[ack |-> "invalid", to |-> t]}
                     [] a = "ok" -> {[ack |-> "ok", to |-> n] : n \in Accepted(t, reg, write, sent)}
                     [] a = "refused" -> {[ack |-> "fault", to |-> Failed(t, "access")]}
                     [] OTHER -> {[ack |-> a, to |-> t]})
      BY <1>1 DEF Clean
    <2>2. CASE a = "ok" BY <2>1, <2>2, AcceptedTarget
    <2>3. CASE a = "refused" BY <2>1, <2>3 DEF Failed, Flags, Target
    <2>4. CASE a \notin {"ok", "refused"} BY <2>1, <2>4
    <2> QED BY <2>2, <2>3, <2>4
  <1>2. CASE r \in Disturbed(t, reg, write, sent)
    <2>1. CASE r \in {[ack |-> "invalid", to |-> t], [ack |-> "invalid", to |-> [t EXCEPT !.deaf = TRUE]]}
      <3> DEFINE silent == [t EXCEPT !.deaf = TRUE]
      <3>1. silent \in Target BY DEF Target
      <3>2. r \in {[ack |-> "invalid", to |-> t], [ack |-> "invalid", to |-> silent]} BY <2>1
      <3> HIDE DEF silent
      <3> QED BY <3>1, <3>2
    <2>2. CASE r \in {[ack |-> a, to |-> Failed(t, "wdata")] : a \in {"ok", "invalid"}}
      BY <2>2 DEF Failed, Flags, Target
    <2>3. CASE r \in {[ack |-> a, to |-> n] : a \in {"invalid", "parity"},
                                              n \in Accepted(t, reg, write, sent)}
      BY <2>3, AcceptedTarget
    <2> QED BY <1>2, <2>1, <2>2, <2>3 DEF Disturbed
  <1> QED BY <1>1, <1>2 DEF Replies

-----------------------------------------------------------------------------
(* Calls that begin and calls that fail *)

\* A chunk is not empty, not longer than the block, and ends with its page.
LEMMA ChunkRange ==
  ASSUME PortAssumption, NEW a \in Nat, NEW n \in Nat \ {0}
  PROVE  Chunk(a, n) \in 1 .. n /\ (a % Page) + Chunk(a, n) <= Page
  <1>1. Page \in Nat \ {0} /\ a % Page \in 0 .. Page - 1 BY Division DEF PortAssumption
  <1> QED BY <1>1 DEF Chunk

\* Nothing the abstract memory knows of changes.
Stutters == UNCHANGED <<target.mem, call, buffer, returned>> /\ pc # "idle" /\ pc' # "idle"

\* Every early return of a call.
LEMMA Failing ==
  ASSUME BlockInv, NEW ack, Fail(ack), target' \in Target, target'.mem = target.mem
  PROVE  BlockInv' /\ Memory!Fail
  <1>1. /\ pc' = "idle" /\ step' = 1 /\ offset' = 0 /\ call' = NoCall /\ returned' = FALSE
        /\ UNCHANGED buffer
    BY DEF Fail, Return
  <1>2. BlockInv' BY <1>1 DEF BlockInv, CallShape, LoopShape, Transferred, Pointed, OnBlock
  <1>3. call'.op = "none" BY <1>1 DEF NoCall, Block
  <1> QED BY <1>1, <1>2, <1>3 DEF Memory!Fail, Memory!None

\* The line reset and the first request of connect.
LEMMA ConnectStep ==
  ASSUME PortAssumption, BlockInv, Connect
  PROVE  BlockInv' /\ Memory!Begin
  <1>1. target \in Target /\ CallShape BY DEF BlockInv
  <1>2. /\ pc = "idle" /\ pc' = "request" /\ call' = Connecting /\ buffer' = NoData
        /\ target' = LineReset(target) /\ step' = step /\ returned' = returned
    BY DEF Connect
  <1>3. target' \in Target /\ target'.mem = target.mem BY <1>1, <1>2 DEF LineReset, Target
  <1>4. call'.op = "connect" /\ call'.len = 0 BY <1>2 DEF Connecting, Block
  <1>5. NoData \in Data BY DEF PortAssumption, NoData, Data
  <1>6. BlockInv'
    BY <1>1, <1>2, <1>3, <1>4, <1>5
       DEF BlockInv, CallShape, LoopShape, Transferred, Pointed, OnBlock
  <1> QED BY <1>2, <1>3, <1>4, <1>6 DEF Memory!Begin, Memory!Connecting

\* The beginning of a block.
LEMMA AccessStep ==
  ASSUME PortAssumption, TransportAssumption, BlockInv,
         NEW op \in {"read", "write"}, NEW a \in Address, NEW n \in 1 .. MaxLen,
         NEW d \in Data, a + n <= Words, Access(op, a, n, d)
  PROVE  BlockInv' /\ Memory!Begin
  <1>1. target \in Target /\ CallShape BY DEF BlockInv
  <1>2. /\ pc = "idle" /\ pc' = "request" /\ buffer' = NoData
        /\ address' = a /\ size' = n /\ chunk' = Chunk(a, n)
        /\ UNCHANGED <<target, step, offset, returned>>
        /\ step = 1 /\ offset = 0
    BY <1>1 DEF Access, CallShape
  <1>3. /\ call' = [op |-> op, at |-> a, len |-> n, data |-> d]
        /\ call'.op = op /\ call'.at = a /\ call'.len = n /\ call'.data = d
    BY DEF Access, Block
  <1>4. a \in Nat /\ n \in Nat \ {0} /\ MaxLen \in Nat
    BY DEF Address, PortAssumption, TransportAssumption
  <1>5. Chunk(a, n) \in 1 .. n BY <1>4, ChunkRange
  <1>6. NoData \in Data BY DEF PortAssumption, NoData, Data
  <1>7. CallShape' BY <1>2, <1>3, <1>4 DEF CallShape, OnBlock
  <1>8. LoopShape' BY <1>2, <1>3, <1>4, <1>5 DEF LoopShape, OnBlock, Chunk
  <1>9. Transferred' BY <1>2, <1>3, <1>4 DEF Transferred, Index
  <1>10. Pointed' BY <1>2 DEF Pointed
  <1>11. call' \in Memory!Blocks BY <1>3, <1>4 DEF Memory!Blocks, Data
  <1> QED BY <1>1, <1>2, <1>6, <1>7, <1>8, <1>9, <1>10, <1>11 DEF BlockInv, Memory!Begin

\* An outage silences the target, whatever call is under way.
LEMMA OutageStep ==
  ASSUME BlockInv, PowerLoss
  PROVE  BlockInv' /\ UNCHANGED Memory!vars
  <1>1. target \in Target /\ target' = Outage(target) BY DEF BlockInv, PowerLoss
  <1>2. target' \in Target /\ target'.mem = target.mem /\ target'.deaf
    BY <1>1 DEF Outage, Target
  <1>3. UNCHANGED <<call, pc, step, address, size, chunk, offset, buffer, returned>>
    BY DEF PowerLoss, loop
  <1>4. CallShape' /\ LoopShape' BY <1>3 DEF BlockInv, CallShape, LoopShape, OnBlock, Chunk
  <1>5. Transferred' BY <1>2, <1>3 DEF BlockInv, Transferred, OnBlock, Index
  <1>6. Pointed' BY <1>2 DEF Pointed, Listening
  <1> QED BY <1>2, <1>3, <1>4, <1>5, <1>6 DEF BlockInv, Memory!vars

-----------------------------------------------------------------------------
(* Connect *)

\* A register of the connect sequence is done.
LEMMA ConnectDone ==
  ASSUME BlockInv, pc # "idle", call.op = "connect", NEW powered, TransferDone(powered),
         target' \in Target, target'.mem = target.mem
  PROVE  BlockInv' /\ (Stutters \/ Memory!Fail \/ Memory!Succeed)
  <1>1. step \in 1 .. 7 /\ call.len = 0 BY DEF BlockInv, CallShape
  <1>2. Reg = ConnectOrder[step] BY DEF Reg, Order
  <1>3. /\ Reg \in {"IDCODE", "ABORT", "SELECT", "CTRLSTAT", "STATUS", "CSW"}
        /\ Reg = "CSW" <=> step = 7
    BY <1>1, <1>2 DEF ConnectOrder
  <1>4. CASE \E s \in 1 .. 7 : Goto(s) /\ UNCHANGED <<loop, buffer>>
    <2>1. PICK s \in 1 .. 7 : Goto(s) /\ UNCHANGED <<loop, buffer>> BY <1>4
    <2>2. /\ pc' = "request" /\ step' = s /\ UNCHANGED <<call, returned, buffer>>
      BY <2>1 DEF Goto
    <2>3. BlockInv'
      BY <1>1, <2>2 DEF BlockInv, CallShape, LoopShape, Transferred, Pointed, OnBlock
    <2> QED BY <2>2, <2>3 DEF Stutters
  <1>5. CASE \E ack \in {"none", "timeout"} : Fail(ack)
    BY <1>5, Failing
  <1>6. CASE Return(TRUE, "none") /\ UNCHANGED buffer
    <2>1. /\ pc' = "idle" /\ step' = 1 /\ offset' = 0 /\ call' = NoCall /\ returned' = TRUE
      BY <1>6 DEF Return
    <2>2. BlockInv'
      BY <1>6, <2>1 DEF BlockInv, CallShape, LoopShape, Transferred, Pointed, OnBlock
    <2>3. call'.op = "none" BY <2>1 DEF NoCall, Block
    <2>4. Memory!Succeed BY <1>1, <2>1, <2>3 DEF Memory!Succeed, Memory!None
    <2> QED BY <2>2, <2>4
  <1>7. NextRegister /\ step # 7 => \E s \in 1 .. 7 : Goto(s) /\ UNCHANGED <<loop, buffer>>
    BY <1>1 DEF NextRegister
  <1> QED
    <2>1. CASE Reg = "IDCODE" BY <1>3, <1>4, <1>5, <1>7, <2>1 DEF TransferDone
    <2>2. CASE Reg = "STATUS" BY <1>1, <1>3, <1>4, <1>5, <1>7, <2>2 DEF TransferDone
    <2>3. CASE Reg = "CSW" BY <1>6, <2>3 DEF TransferDone
    <2>4. CASE Reg \in {"ABORT", "SELECT", "CTRLSTAT"} BY <1>3, <1>4, <1>7, <2>4 DEF TransferDone
    <2> QED BY <1>3, <2>1, <2>2, <2>3, <2>4

-----------------------------------------------------------------------------
(* Blocks *)

\* What the loops know of a block.
LEMMA BlockFacts ==
  ASSUME PortAssumption, TransportAssumption, BlockInv, OnBlock
  PROVE  /\ pc # "idle" /\ call.op \in {"read", "write"} /\ step \in {1, 2}
         /\ call.at \in Nat /\ call.len \in Nat /\ call.at + call.len <= Words
         /\ size \in 1 .. call.len /\ address = call.at + call.len - size
         /\ chunk \in 1 .. size /\ (address % Page) + chunk <= Page
         /\ offset \in 0 .. chunk - 1
         /\ Index \in 0 .. call.len - 1 /\ Index < MaxLen
         /\ Word = call.at + Index /\ Word \in Address /\ address \in Address
         /\ Reg = IF step = 1 THEN "TAR" ELSE "DRW"
  <1>1. CallShape /\ LoopShape BY DEF BlockInv
  <1>2. /\ pc # "idle" /\ call.op \in {"read", "write"} /\ step \in {1, 2}
        /\ call.at \in Nat /\ call.len \in 1 .. MaxLen /\ call.at + call.len <= Words
        /\ MaxLen \in Nat /\ Words \in Nat
    BY <1>1 DEF CallShape, OnBlock, TransportAssumption, PortAssumption
  <1>3. /\ size \in 1 .. call.len /\ address = call.at + call.len - size
        /\ chunk = Chunk(address, size) /\ offset \in 0 .. chunk - 1
    BY <1>1 DEF LoopShape
  <1>4. address \in Nat /\ size \in Nat \ {0} BY <1>2, <1>3
  <1>5. chunk \in 1 .. size /\ (address % Page) + chunk <= Page BY <1>3, <1>4, ChunkRange
  <1>6. /\ Index \in 0 .. call.len - 1 /\ Index < MaxLen /\ Word = call.at + Index
        /\ Word \in Address /\ address \in Address
    BY <1>2, <1>3, <1>5 DEF Index, Word, Address
  <1>7. Reg = IF step = 1 THEN "TAR" ELSE "DRW" BY <1>2 DEF Reg, Order, BlockOrder
  <1> QED BY <1>2, <1>3, <1>5, <1>6, <1>7

\* A request of a block that is answered with WAIT leaves everything as it is.
LEMMA RequestWait ==
  ASSUME BlockInv, UNCHANGED <<target, call, pc, step, loop, buffer, returned>>
  PROVE  BlockInv' /\ UNCHANGED Memory!vars
  <1>1. UNCHANGED <<address, size, chunk, offset>> BY DEF loop
  <1>2. CallShape' /\ LoopShape' BY <1>1 DEF BlockInv, CallShape, LoopShape, OnBlock, Chunk
  <1>3. Transferred' BY <1>1 DEF BlockInv, Transferred, OnBlock, Index
  <1>4. Pointed' BY <1>1 DEF BlockInv, Pointed, OnBlock, Listening, Word, Index, Increment
  <1> QED BY <1>2, <1>3, <1>4 DEF BlockInv, Memory!vars

\* The address goes out.
LEMMA RequestTar ==
  ASSUME PortAssumption, TransportAssumption, BlockInv, OnBlock, step = 1,
         NEW r \in Replies(target, Reg, IsWrite, Outgoing), r.ack = "ok", target' = r.to,
         pc' = "collect", UNCHANGED <<call, step, loop, buffer, returned>>
  PROVE  BlockInv' /\ Stutters
  <1>1. target \in Target /\ CallShape /\ LoopShape BY DEF BlockInv
  <1>2. UNCHANGED <<address, size, chunk, offset>> BY DEF loop
  <1>3. pc # "idle" /\ address \in Address /\ step' = 1 BY BlockFacts
  <1>4. target' = [target EXCEPT !.tar = address] \/ target' = Failed(target, "wdata")
    <2>1. IsWrite \in BOOLEAN BY DEF IsWrite
    <2>2. r.to \in Accepted(target, Reg, IsWrite, Outgoing) \/ r.to = Failed(target, "wdata")
      BY <1>1, <2>1, Reply
    <2>3. Reg = "TAR" BY BlockFacts
    <2>4. Outgoing = address BY <2>3 DEF Outgoing
    <2> QED BY <2>2, <2>3, <2>4 DEF Accepted
  <1>5. /\ target'.mem = target.mem /\ target' \in Target
        /\ Listening' => target'.tar = address
    <2>1. CASE target' = [target EXCEPT !.tar = address] BY <1>1, <1>3, <2>1 DEF Target
    <2>2. CASE target' = Failed(target, "wdata")
      BY <1>1, <2>2 DEF Failed, Flags, Target, Listening
    <2> QED BY <1>4, <2>1, <2>2
  <1>6. CallShape' /\ LoopShape' BY <1>1, <1>2, <1>3 DEF CallShape, LoopShape, OnBlock, Chunk
  <1>7. Transferred' BY <1>2, <1>3, <1>5 DEF BlockInv, Transferred, OnBlock, Index
  <1>8. Pointed' BY <1>2, <1>3, <1>5 DEF Pointed
  <1> QED BY <1>3, <1>5, <1>6, <1>7, <1>8 DEF BlockInv, Stutters

\* A word goes out or is fetched: the word the code believes in.
LEMMA RequestDrw ==
  ASSUME PortAssumption, TransportAssumption, BlockInv, OnBlock, step = 2, pc = "request",
         NEW r \in Replies(target, Reg, IsWrite, Outgoing), r.ack = "ok", target' = r.to,
         pc' = "collect", UNCHANGED <<call, step, loop, buffer, returned>>
  PROVE  BlockInv' /\ (Stutters \/ Memory!WriteWord)
  <1>1. /\ target \in Target /\ CallShape /\ LoopShape /\ Transferred /\ Pointed
        /\ buffer \in Data
    BY DEF BlockInv
  <1>2. UNCHANGED <<address, size, chunk, offset>> BY DEF loop
  <1>3. /\ pc # "idle" /\ step' = 2 /\ Word \in Address /\ Word = call.at + Index
        /\ Index \in 0 .. call.len - 1 /\ call.len \in Nat /\ call.at \in Nat
        /\ call.at + call.len <= Words /\ Words \in Nat
        /\ MaxLen \in Nat /\ Index \in 0 .. MaxLen - 1
    BY BlockFacts DEF PortAssumption, TransportAssumption
  <1> DEFINE d == call.data[Index]
             w == call.op = "write"
  <1>4. /\ ~target.deaf /\ target.sticky = {}
        /\ \/ \E f \in Flags : r.to = Failed(target, f)
           \/ w /\ r.to = [target EXCEPT !.mem[target.tar] = d, !.tar = Increment(target.tar)]
           \/ ~w /\ r.to = [target EXCEPT !.posted = target.mem[target.tar],
                                         !.tar = Increment(target.tar)]
    <2>1. IsWrite \in BOOLEAN BY DEF IsWrite
    <2>2. Reg = "DRW" BY BlockFacts
    <2>3. ~target.deaf /\ target.sticky = {} BY <1>1, <2>1, <2>2, Reply
    <2>4. r.to \in Accepted(target, Reg, IsWrite, Outgoing) \/ r.to = Failed(target, "wdata")
      BY <1>1, <2>1, Reply
    <2>5. (IsWrite <=> w) /\ Outgoing = d BY <2>2 DEF IsWrite, Outgoing
    <2> HIDE DEF w, d
    <2> QED BY <2>2, <2>3, <2>4, <2>5 DEF Accepted, Flags
  <1>5. target.tar = Word BY <1>1, <1>4 DEF Pointed, Listening
  <1>6. CallShape' /\ LoopShape' BY <1>1, <1>2, <1>3 DEF CallShape, LoopShape, OnBlock, Chunk
  <1>7. Index' = Index /\ Word' = Word /\ OnBlock' BY <1>2, <1>3 DEF Index, Word, OnBlock
  <1>8. CASE \E f \in Flags : target' = Failed(target, f)
    <2>1. target' \in Target /\ target'.mem = target.mem /\ ~Listening'
      BY <1>1, <1>8 DEF Failed, Target, Listening
    <2>2. Transferred' BY <1>1, <1>7, <2>1 DEF Transferred, OnBlock
    <2>3. Pointed' BY <2>1 DEF Pointed
    <2> QED BY <1>1, <1>3, <1>6, <2>1, <2>2, <2>3 DEF BlockInv, Stutters
  <1>9. CASE ~w /\ target' = [target EXCEPT !.posted = target.mem[Word], !.tar = Increment(Word)]
    <2>1. Increment(Word) \in Address BY <1>3, IncrementAddress
    <2>2. /\ target' \in Target /\ target'.mem = target.mem
          /\ target'.tar = Increment(Word) /\ target'.posted = target.mem[Word]
      BY <1>1, <1>3, <1>9, <2>1 DEF Target
    <2>3. Transferred' BY <1>1, <1>7, <2>2 DEF Transferred, OnBlock
    <2>4. Pointed' BY <1>3, <1>7, <1>9, <2>2 DEF Pointed, Increment
    <2> QED BY <1>1, <1>3, <1>6, <2>2, <2>3, <2>4 DEF BlockInv, Stutters
  <1>10. CASE w /\ target' = [target EXCEPT !.mem[Word] = d, !.tar = Increment(Word)]
    <2>1. Increment(Word) \in Address BY <1>3, IncrementAddress
    <2>2. d = call.data[Index] /\ d \in Values /\ call.op = "write"
      BY <1>1, <1>3, <1>10 DEF CallShape, Data
    <2>3. /\ target'.mem = [target.mem EXCEPT ![Word] = d]
          /\ target'.tar = Increment(Word) /\ target' \in Target
      <3> DEFINE m == [target.mem EXCEPT ![Word] = d]
      <3>1. m \in [Address -> Values] BY <1>1, <2>2 DEF Target
      <3>2. target' = [target EXCEPT !.mem = m, !.tar = Increment(Word)] BY <1>10
      <3> HIDE DEF m
      <3> QED BY <1>1, <2>1, <3>1, <3>2 DEF Target, m
    <2>4. target'.mem[Word] = d /\ \A c \in Address \ {Word} : target'.mem[c] = target.mem[c]
      BY <1>1, <1>3, <2>3 DEF Target
    <2>5. Transferred'
      <3>1. SUFFICES ASSUME NEW i \in 0 .. Index - 1
                     PROVE  target'.mem[call.at + i] = call.data[i]
        BY <1>7, <2>2 DEF Transferred
      <3>2. call.at + i \in Address \ {Word} BY <1>3 DEF Address
      <3> QED BY <1>1, <2>2, <2>4, <3>2 DEF Transferred
    <2>6. Pointed' BY <1>3, <1>7, <2>2, <2>3, <2>4 DEF Pointed, Increment
    <2>7. Memory!WriteWord BY <1>3, <2>2, <2>3 DEF Memory!WriteWord
    <2> QED BY <1>1, <1>6, <2>3, <2>5, <2>6, <2>7 DEF BlockInv
  <1> HIDE DEF w, d
  <1> QED BY <1>4, <1>5, <1>8, <1>9, <1>10

\* One attempt at a register.
LEMMA RequestStep ==
  ASSUME PortAssumption, TransportAssumption, BlockInv, Request
  PROVE  BlockInv' /\ [Memory!Next]_(Memory!vars)
  <1>1. target \in Target /\ CallShape /\ pc = "request" BY DEF BlockInv, Request
  <1>2. PICK r \in Replies(target, Reg, IsWrite, Outgoing) :
          /\ target' = r.to
          /\ CASE r.ack = "ok" /\ Completed ->
                    /\ pc' = "collect"
                    /\ UNCHANGED <<call, step, tries, loop, buffer, returned, cause>>
               [] r.ack = "ok" /\ ~Completed -> TransferDone(r.to.power)
               [] r.ack = "wait" /\ MayRetry ->
                    /\ tries' = tries + 1
                    /\ UNCHANGED <<call, pc, step, loop, buffer, returned, cause>>
               [] OTHER -> Fail(r.ack)
    BY DEF Request
  <1>3. IsWrite \in BOOLEAN /\ Completed \in BOOLEAN BY DEF IsWrite, Completed
  <1>4. /\ r.ack = "wait" => r.to = target
        /\ r.ack # "ok" => r.to.mem = target.mem
    BY <1>1, <1>3, Reply
  <1>5. target' \in Target
    <2>1. Reg = "TAR" => OnBlock /\ Outgoing = address
      BY <1>1 DEF CallShape, OnBlock, Reg, Order, ConnectOrder, Outgoing
    <2>2. Reg = "DRW" => OnBlock /\ Outgoing = call.data[Index]
      BY <1>1 DEF CallShape, OnBlock, Reg, Order, ConnectOrder, Outgoing
    <2>3. OnBlock => address \in Address /\ Index \in 0 .. MaxLen - 1 /\ call.data \in Data
      BY <1>1, BlockFacts DEF CallShape, TransportAssumption
    <2>4. Reg = "TAR" => Outgoing \in Address BY <2>1, <2>3
    <2>5. Reg = "DRW" => Outgoing \in Values BY <2>2, <2>3 DEF Data
    <2> QED BY <1>1, <1>2, <1>3, <2>4, <2>5, ReplyTarget
  <1>6. CASE r.ack = "ok" /\ OnBlock
    <2>1. Reg \in {"TAR", "DRW"} /\ step \in {1, 2} BY <1>6, BlockFacts
    <2>2. Completed BY <2>1 DEF Completed, AccessPort
    <2>3. pc' = "collect" /\ UNCHANGED <<call, step, loop, buffer, returned>>
      BY <1>2, <1>6, <2>2
    <2>4. CASE step = 1
      <3>1. BlockInv' /\ Stutters BY <1>2, <1>6, <2>3, <2>4, RequestTar
      <3> QED BY <3>1 DEF Stutters, Memory!vars
    <2>5. CASE step = 2
      <3>1. BlockInv' /\ (Stutters \/ Memory!WriteWord)
        BY <1>1, <1>2, <1>6, <2>3, <2>5, RequestDrw
      <3> QED BY <3>1 DEF Stutters, Memory!vars, Memory!Next
    <2> QED BY <2>1, <2>4, <2>5
  <1>7. CASE r.ack = "ok" /\ ~OnBlock
    <2>1. call.op = "connect" /\ Reg \in {"IDCODE", "ABORT", "SELECT", "CTRLSTAT", "STATUS", "CSW"}
      BY <1>1, <1>7 DEF CallShape, OnBlock, Reg, Order, ConnectOrder
    <2>2. target'.mem = target.mem
      <3>1. r.to \in Accepted(target, Reg, IsWrite, Outgoing) \/ r.to = Failed(target, "wdata")
        BY <1>1, <1>3, <1>7, Reply
      <3>2. CASE r.to \in Accepted(target, Reg, IsWrite, Outgoing)
        BY <1>1, <1>2, <1>3, <2>1, <3>2, MemoryKept
      <3>3. CASE r.to = Failed(target, "wdata") BY <1>1, <1>2, <3>3 DEF Failed, Target
      <3> QED BY <3>1, <3>2, <3>3
    <2>3. CASE Completed
      <3>1. pc' = "collect" /\ UNCHANGED <<call, step, loop, buffer, returned>>
        BY <1>2, <1>7, <2>3
      <3>2. BlockInv'
        BY <1>1, <1>5, <2>1, <3>1 DEF BlockInv, CallShape, LoopShape, Transferred, Pointed, OnBlock
      <3> QED BY <2>2, <3>1, <3>2, <1>1 DEF Memory!vars
    <2>4. CASE ~Completed
      <3>1. TransferDone(r.to.power) BY <1>2, <1>7, <2>4
      <3>2. BlockInv' /\ (Stutters \/ Memory!Fail \/ Memory!Succeed)
        BY <1>1, <1>5, <2>1, <2>2, <3>1, ConnectDone
      <3> QED BY <3>2 DEF Stutters, Memory!vars, Memory!Next
    <2> QED BY <1>3, <2>3, <2>4
  <1>8. CASE r.ack = "wait" /\ MayRetry
    <2>1. UNCHANGED <<target, call, pc, step, loop, buffer, returned>>
      BY <1>2, <1>4, <1>8
    <2> QED BY <2>1, RequestWait
  <1>9. CASE r.ack # "ok" /\ ~(r.ack = "wait" /\ MayRetry)
    <2>1. Fail(r.ack) BY <1>2, <1>9
    <2>2. BlockInv' /\ Memory!Fail BY <1>2, <1>4, <1>5, <1>9, <2>1, Failing
    <2> QED BY <2>2 DEF Memory!Next
  <1> QED BY <1>6, <1>7, <1>8, <1>9

\* RDBUFF has confirmed the address: the loop goes on to the word.
LEMMA CollectTar ==
  ASSUME PortAssumption, TransportAssumption, BlockInv, OnBlock, pc = "collect", step = 1,
         Listening, TransferDone(FALSE), UNCHANGED target
  PROVE  BlockInv' /\ Stutters
  <1>1. /\ target \in Target /\ CallShape /\ LoopShape /\ Transferred /\ Pointed
        /\ buffer \in Data
    BY DEF BlockInv
  <1>2. Reg = "TAR" /\ pc # "idle" BY BlockFacts
  <1>3. Goto(step + 1) /\ UNCHANGED <<loop, buffer>> BY <1>2 DEF TransferDone, NextRegister
  <1>4. /\ pc' = "request" /\ step' = 2 /\ UNCHANGED <<call, returned, buffer>>
        /\ UNCHANGED <<address, size, chunk, offset>>
    BY <1>3 DEF Goto, loop
  <1>5. CallShape' /\ LoopShape' BY <1>1, <1>2, <1>4 DEF CallShape, LoopShape, OnBlock, Chunk
  <1>6. Index' = Index /\ Word' = Word /\ OnBlock' BY <1>2, <1>4 DEF Index, Word, OnBlock
  <1>7. Transferred' BY <1>1, <1>4, <1>6 DEF Transferred, OnBlock
  <1>8. target.tar = Word
    <2>1. offset = 0 /\ address \in Nat BY <1>1, BlockFacts DEF LoopShape, Address
    <2> QED BY <1>1, <2>1 DEF Pointed, Word
  <1>9. Pointed' BY <1>4, <1>6, <1>8 DEF Pointed
  <1> QED BY <1>1, <1>2, <1>4, <1>5, <1>7, <1>9 DEF BlockInv, Stutters

\* RDBUFF has confirmed or delivered a word: with the last one the call has done
\* what it was asked to.
LEMMA CollectDrw ==
  ASSUME PortAssumption, TransportAssumption, BlockInv, OnBlock, pc = "collect", step = 2,
         Listening, TransferDone(FALSE), UNCHANGED target
  PROVE  BlockInv' /\ (Stutters \/ Memory!ReadWord \/ Memory!Succeed)
  <1>1. /\ target \in Target /\ CallShape /\ LoopShape /\ Transferred /\ Pointed
        /\ buffer \in Data
    BY DEF BlockInv
  <1>2. /\ pc # "idle" /\ Reg = "DRW" /\ Word = call.at + Index /\ Word \in Address
        /\ Index \in 0 .. call.len - 1 /\ call.len \in Nat /\ call.at \in Nat
        /\ call.at + call.len <= Words /\ Words \in Nat
        /\ MaxLen \in Nat /\ Index \in 0 .. MaxLen - 1
        /\ size \in 1 .. call.len /\ address = call.at + call.len - size
        /\ chunk \in 1 .. size /\ (address % Page) + chunk <= Page
        /\ offset \in 0 .. chunk - 1 /\ address \in Nat
        /\ call.op \in {"read", "write"}
    BY BlockFacts DEF PortAssumption, TransportAssumption, Address
  <1>3. /\ target.tar = Increment(Word)
        /\ IF call.op = "write" THEN target.mem[Word] = call.data[Index]
           ELSE target.posted = target.mem[Word]
    BY <1>1 DEF Pointed
  <1>4. /\ NextWord
        /\ buffer' = IF call.op = "read" THEN [buffer EXCEPT ![Index] = target.posted] ELSE buffer
    BY <1>2 DEF TransferDone
  <1>5. buffer' \in Data BY <1>1, <1>2, <1>4 DEF Data, Target
  <1>6. \A i \in 0 .. Index :
          target'.mem[call.at + i] = IF call.op = "write" THEN call.data[i] ELSE buffer'[i]
    <2>1. SUFFICES ASSUME NEW i \in 0 .. Index
                   PROVE  target.mem[call.at + i] = IF call.op = "write" THEN call.data[i] ELSE buffer'[i]
      OBVIOUS
    <2>2. CASE i = Index BY <1>1, <1>2, <1>3, <1>4, <2>2 DEF Data
    <2>3. CASE i # Index
      <3>1. i \in 0 .. Index - 1 /\ i \in 0 .. MaxLen - 1 BY <1>2, <2>3
      <3>2. buffer'[i] = buffer[i] BY <1>1, <1>4, <2>3, <3>1 DEF Data
      <3> QED BY <1>1, <3>1, <3>2 DEF Transferred
    <2> QED BY <2>2, <2>3
  <1>7. Page \in Nat \ {0} /\ address % Page \in Nat
    <2>1. Page \in Nat \ {0} BY DEF PortAssumption
    <2>2. address \in Nat BY <1>2
    <2>3. address % Page \in 0 .. Page - 1 BY <2>1, <2>2, Division
    <2> QED BY <2>1, <2>3
  <1>8. CASE offset + 1 < chunk
    <2>1. /\ offset' = offset + 1 /\ pc' = "request" /\ step' = 2
          /\ UNCHANGED <<call, returned, address, size, chunk>>
      BY <1>4, <1>8 DEF NextWord, Goto
    <2>2. Index' = Index + 1 /\ Word' = Word + 1 /\ OnBlock'
      BY <1>2, <2>1 DEF Index, Word, OnBlock
    <2>3. CallShape' BY <1>1, <1>2, <2>1 DEF CallShape, OnBlock
    <2>4. LoopShape' BY <1>1, <1>2, <1>8, <2>1 DEF LoopShape, OnBlock, Chunk
    <2>5. Transferred'
      <3>1. \A i \in 0 .. Index' - 1 : i \in 0 .. Index BY <1>2, <2>2
      <3> QED BY <1>6, <2>1, <3>1 DEF Transferred
    <2>6. target.tar = Word'
      <3>1. offset \in Nat /\ (address % Page) + offset + 1 < Page BY <1>2, <1>7, <1>8
      <3>2. Increment(address + offset) = address + offset + 1 BY <1>2, <3>1, IncrementInside
      <3> QED BY <1>3, <2>2, <3>2 DEF Word
    <2>7. Pointed' BY <2>1, <2>6 DEF Pointed
    <2>8. BlockInv' BY <1>1, <1>5, <2>3, <2>4, <2>5, <2>7 DEF BlockInv
    <2>9. CASE call.op = "read" BY <1>2, <2>1, <2>8, <2>9 DEF Memory!ReadWord
    <2>10. CASE call.op = "write" BY <1>2, <1>4, <2>1, <2>8, <2>10 DEF Stutters
    <2> QED BY <1>2, <2>9, <2>10
  <1>9. CASE ~(offset + 1 < chunk) /\ size # chunk
    <2>1. /\ address' = address + chunk /\ size' = size - chunk
          /\ chunk' = Chunk(address', size') /\ offset' = 0
          /\ pc' = "request" /\ step' = 1 /\ UNCHANGED <<call, returned>>
      BY <1>4, <1>9 DEF NextWord, Goto
    <2>2. address' \in Nat /\ size' \in Nat \ {0} BY <1>2, <1>9, <2>1
    <2>3. chunk' \in 1 .. size' BY <2>1, <2>2, ChunkRange
    <2>4. Index' = Index + 1 /\ OnBlock' BY <1>2, <1>9, <2>1 DEF Index, OnBlock
    <2>5. CallShape' BY <1>1, <1>2, <2>1 DEF CallShape, OnBlock
    <2>6. LoopShape'
      <3>1. chunk' = Chunk(address, size)' BY <2>1 DEF Chunk
      <3>2. address' = call.at + call.len - size' /\ size' \in 1 .. call.len
        BY <1>2, <1>9, <2>1
      <3>3. offset' \in 0 .. chunk' - 1 BY <2>1, <2>2, <2>3
      <3> QED BY <2>1, <3>1, <3>2, <3>3 DEF LoopShape
    <2>7. Transferred'
      <3>1. \A i \in 0 .. Index' - 1 : i \in 0 .. Index BY <1>2, <2>4
      <3> QED BY <1>6, <2>1, <3>1 DEF Transferred
    <2>8. Pointed' BY <2>1 DEF Pointed
    <2>9. BlockInv' BY <1>1, <1>5, <2>5, <2>6, <2>7, <2>8 DEF BlockInv
    <2>10. CASE call.op = "read" BY <1>2, <2>1, <2>9, <2>10 DEF Memory!ReadWord
    <2>11. CASE call.op = "write" BY <1>2, <1>4, <2>1, <2>9, <2>11 DEF Stutters
    <2> QED BY <1>2, <2>10, <2>11
  <1>10. CASE ~(offset + 1 < chunk) /\ size = chunk
    <2>1. /\ pc' = "idle" /\ step' = 1 /\ offset' = 0 /\ call' = NoCall /\ returned' = TRUE
      BY <1>4, <1>10 DEF NextWord, Return
    <2>2. BlockInv'
      BY <1>1, <1>5, <2>1 DEF BlockInv, CallShape, LoopShape, Transferred, Pointed, OnBlock
    <2>3. Index = call.len - 1 BY <1>2, <1>10 DEF Index
    <2>4. \A i \in 0 .. call.len - 1 : i \in 0 .. Index BY <1>2, <2>3
    <2>5. call'.op = "none" BY <2>1 DEF NoCall, Block
    <2>6. \A i \in 0 .. call.len - 1 :
            CASE call.op = "write" -> target.mem[call.at + i] = call.data[i]
              [] call.op = "read" -> target.mem[call.at + i] = buffer'[i]
              [] OTHER -> TRUE
      <3>1. CASE call.op = "write" BY <1>6, <2>4, <3>1
      <3>2. CASE call.op = "read" BY <1>6, <2>4, <3>2
      <3> QED BY <1>2, <3>1, <3>2
    <2>7. Memory!Succeed BY <1>2, <2>1, <2>5, <2>6 DEF Memory!Succeed, Memory!None
    <2> QED BY <2>2, <2>7
  <1> QED BY <1>8, <1>9, <1>10

\* The read of RDBUFF.
LEMMA CollectStep ==
  ASSUME PortAssumption, TransportAssumption, BlockInv, Collect
  PROVE  BlockInv' /\ [Memory!Next]_(Memory!vars)
  <1>1. target \in Target /\ CallShape /\ pc = "collect" BY DEF BlockInv, Collect
  <1>2. PICK r \in Replies(target, "RDBUFF", FALSE, 0) :
          /\ target' = r.to
          /\ IF r.ack = "ok" THEN TransferDone(FALSE) ELSE Fail(r.ack)
    BY DEF Collect
  <1>3. /\ r.ack # "ok" => r.to.mem = target.mem
        /\ r.ack = "ok" => r.to \in Accepted(target, "RDBUFF", FALSE, 0) /\ Listening
    <2> DEFINE reg == "RDBUFF"
               w == FALSE
    <2>1. r \in Replies(target, reg, w, 0) /\ w \in BOOLEAN OBVIOUS
    <2>2. ~w /\ reg \notin {"IDCODE", "STATUS", "ABORT"} OBVIOUS
    <2> HIDE DEF reg, w
    <2>3. /\ r.ack # "ok" => r.to.mem = target.mem
          /\ r.ack = "ok" => r.to \in Accepted(target, reg, w, 0) /\ ~target.deaf /\ target.sticky = {}
      BY <1>1, <2>1, <2>2, Reply
    <2> QED BY <2>3 DEF Listening, reg, w
  <1>4. r.to \in Target BY <1>1, ReplyTarget
  <1>5. CASE r.ack # "ok"
    <2>1. BlockInv' /\ Memory!Fail BY <1>2, <1>3, <1>4, <1>5, Failing
    <2> QED BY <2>1 DEF Memory!Next
  <1>6. CASE r.ack = "ok"
    <2>1. UNCHANGED target BY <1>2, <1>3, <1>6 DEF Accepted
    <2>2. TransferDone(FALSE) /\ Listening BY <1>2, <1>3, <1>6
    <2>3. CASE ~OnBlock
      <3>1. call.op = "connect" BY <1>1, <2>3 DEF CallShape, OnBlock
      <3>2. BlockInv' /\ (Stutters \/ Memory!Fail \/ Memory!Succeed)
        BY <1>1, <2>1, <2>2, <3>1, ConnectDone
      <3> QED BY <3>2 DEF Stutters, Memory!vars, Memory!Next
    <2>4. CASE OnBlock
      <3>1. step \in {1, 2} BY <2>4, BlockFacts
      <3>2. BlockInv' /\ (Stutters \/ Memory!ReadWord \/ Memory!Succeed)
        BY <1>1, <2>1, <2>2, <2>4, <3>1, CollectTar, CollectDrw
      <3> QED BY <3>2 DEF Stutters, Memory!vars, Memory!Next
    <2> QED BY <2>3, <2>4
  <1> QED BY <1>5, <1>6

-----------------------------------------------------------------------------
(* The refinement *)

\* Every step of the code is a step of a memory of blocks, or none.
LEMMA NextBlock ==
  ASSUME PortAssumption, TransportAssumption, BlockInv, [Next]_vars
  PROVE  BlockInv' /\ [Memory!Next]_(Memory!vars)
  <1>1. CASE Connect BY <1>1, ConnectStep DEF Memory!Next
  <1>2. CASE Misaligned
    <2>1. target' = target /\ target \in Target BY <1>2 DEF Misaligned, BlockInv
    <2> QED BY <1>2, <2>1, Failing DEF Misaligned, Memory!Next
  <1>3. CASE \E a \in Address, n \in 1 .. MaxLen :
               /\ a + n <= Words
               /\ \/ Access("read", a, n, NoData)
                  \/ \E d \in Payloads(n) : Access("write", a, n, d)
    <2>1. NoData \in Data BY DEF PortAssumption, NoData, Data
    <2>2. \A n : Payloads(n) \subseteq Data BY DEF Payloads
    <2>3. BlockInv' /\ Memory!Begin BY <1>3, <2>1, <2>2, AccessStep
    <2> QED BY <2>3 DEF Memory!Next
  <1>4. CASE Request BY <1>4, RequestStep
  <1>5. CASE Collect BY <1>5, CollectStep
  <1>6. CASE PowerLoss BY <1>6, OutageStep
  <1>7. CASE UNCHANGED vars
    <2>1. UNCHANGED <<target, call, pc, step, loop, buffer, returned>> BY <1>7 DEF vars
    <2> QED BY <2>1, RequestWait
  <1> QED BY <1>1, <1>2, <1>3, <1>4, <1>5, <1>6, <1>7 DEF Next, Call

\* What the program begins with, and a memory of blocks.
LEMMA InitBlock ==
  ASSUME PortAssumption, Init
  PROVE  BlockInv /\ Memory!Init
  <1>1. target \in Target BY DEF Init
  <1>2. NoData \in Data BY DEF PortAssumption, NoData, Data
  <1>3. pc = "idle" /\ step = 1 /\ offset = 0 /\ call = NoCall BY DEF Init
  <1>4. BlockInv
    BY <1>1, <1>2, <1>3
       DEF Init, BlockInv, CallShape, LoopShape, Transferred, Pointed, OnBlock
  <1>5. call.op = "none" BY <1>3 DEF NoCall, Block
  <1>6. target.mem \in [0 .. Words - 1 -> Values] BY <1>1 DEF Target, Address
  <1> QED BY <1>3, <1>4, <1>5, <1>6 DEF Init, Memory!Init, Memory!None

\* The transport implements a memory of blocks: a call that succeeds has written
\* or returned all of its words, one that fails has written words of its own
\* only, each with its own value, whatever the wire and the supply do and
\* wherever the block lies across the pages of the address counter.
THEOREM TransportIsMemory ==
  ASSUME PortAssumption, TransportAssumption
  PROVE  Spec => IsBlockMemory
  <1>1. Init => BlockInv /\ Memory!Init BY InitBlock
  <1>2. BlockInv /\ [Next]_vars => BlockInv' /\ [Memory!Next]_(Memory!vars) BY NextBlock
  <1> QED BY <1>1, <1>2, PTL DEF Spec, IsBlockMemory, Memory!Spec

-----------------------------------------------------------------------------
(* connect *)

\* Over a wire that nothing has disturbed the port hears what connect sends, has
\* no error flag from the write of ABORT on, and is powered once STATUS said so.
Reviving ==
  /\ pc = "idle" => call.op # "connect"
  /\ pc = "collect" /\ call.op = "connect" => step \notin {1, 5}
  /\ call.op = "connect" /\ quiet =>
       /\ ~target.deaf
       /\ step >= 3 \/ (step = 2 /\ pc = "collect") => target.sticky = {}
       /\ step >= 6 => target.power

\* What ConnectRevives says of one step.
Revives ==
  call.op = "connect" /\ pc' = "idle" /\ quiet' =>
    /\ cause' \notin {"fault", "invalid", "parity"}
    /\ returned' => target'.sticky = {} /\ target'.power

\* A port that hears, with no flag where one would matter, answers what connect
\* asks, at once or later, and sets no flag.
LEMMA CleanConnect ==
  ASSUME NEW t \in Target, ~t.deaf, NEW reg \in Registers \ {"TAR", "DRW"},
         NEW write \in BOOLEAN, NEW sent,
         reg \notin {"IDCODE", "STATUS", "ABORT"} => t.sticky = {},
         reg = "CSW" => t.power,
         NEW r \in Clean(t, reg, write, sent)
  PROVE  /\ r.ack \in {"ok", "wait"}
         /\ ~r.to.deaf /\ r.to.sticky \subseteq t.sticky /\ (t.power => r.to.power)
         /\ reg = "ABORT" => r.ack = "ok" /\ r.to.sticky = t.sticky \ sent
  <1>1. Answers(t, reg) \subseteq {"ok", "wait"} /\ (reg = "ABORT" => Answers(t, reg) = {"ok"})
    BY DEF Answers, Registers, AccessPort
  <1>2. PICK a \in Answers(t, reg) :
          r \in (CASE a = "none" -> {[ack |-> "invalid", to |-> t]}
                   [] a = "ok" -> {[ack |-> "ok", to |-> n] : n \in Accepted(t, reg, write, sent)}
                   [] a = "refused" -> {[ack |-> "fault", to |-> Failed(t, "access")]}
                   [] OTHER -> {[ack |-> a, to |-> t]})
    BY DEF Clean
  <1>3. CASE a = "wait" BY <1>1, <1>2, <1>3
  <1>4. CASE a = "ok"
    <2>1. r.ack = "ok" /\ r.to \in Accepted(t, reg, write, sent) BY <1>2, <1>4
    <2>2. CASE reg = "ABORT" BY <2>1, <2>2 DEF Accepted, Target
    <2>3. CASE reg \in {"CTRLSTAT", "STATUS"} BY <2>1, <2>3 DEF Accepted, Target
    <2>4. CASE reg \notin {"ABORT", "CTRLSTAT", "STATUS"} BY <2>1, <2>4 DEF Accepted
    <2> QED BY <2>1, <2>2, <2>3, <2>4
  <1> QED BY <1>1, <1>2, <1>3, <1>4

\* The seven registers of connect.
LEMMA ConnectRegister ==
  ASSUME call.op = "connect", step \in 1 .. 7
  PROVE  /\ Reg = ConnectOrder[step] /\ Reg \in Registers \ {"TAR", "DRW", "RDBUFF"}
         /\ step = 1 <=> Reg = "IDCODE"
         /\ step = 2 <=> Reg = "ABORT"
         /\ step = 4 <=> Reg = "CTRLSTAT"
         /\ step = 5 <=> Reg = "STATUS"
         /\ step = 7 <=> Reg = "CSW"
         /\ IsWrite <=> step \notin {1, 5}
         /\ Completed <=> step \notin {1, 5}
  <1>1. Reg = ConnectOrder[step] BY DEF Reg, Order
  <1>2. step = 1 \/ step = 2 \/ step = 3 \/ step = 4 \/ step = 5 \/ step = 6 \/ step = 7 OBVIOUS
  <1> QED BY <1>1, <1>2 DEF ConnectOrder, Registers, IsWrite, Completed, AccessPort

\* A request of connect.
LEMMA ReviveRequest ==
  ASSUME BlockInv, Reviving, Request, call.op = "connect"
  PROVE  Reviving' /\ Revives
  <1>0. pc = "request" /\ step \in 1 .. 7 /\ target \in Target
    BY DEF BlockInv, CallShape, Request
  <1>1. PICK r \in Replies(target, Reg, IsWrite, Outgoing) :
          /\ target' = r.to
          /\ quiet' = (quiet /\ r \in Clean(target, Reg, IsWrite, Outgoing))
          /\ CASE r.ack = "ok" /\ Completed ->
                    pc' = "collect" /\ UNCHANGED <<call, step>>
               [] r.ack = "ok" /\ ~Completed -> TransferDone(r.to.power)
               [] r.ack = "wait" /\ MayRetry -> UNCHANGED <<call, pc, step>>
               [] OTHER -> Fail(r.ack)
    BY DEF Request
  <1>2. IsWrite \in BOOLEAN BY DEF IsWrite
  <1>3. ASSUME quiet'
        PROVE  /\ r.ack \in {"ok", "wait"}
               /\ ~target'.deaf /\ target'.sticky \subseteq target.sticky
               /\ target.power => target'.power
               /\ step >= 3 => target.sticky = {}
               /\ step >= 6 => target.power
               /\ step = 2 => r.ack = "ok" /\ target'.sticky = {}
    <2>1. quiet /\ r \in Clean(target, Reg, IsWrite, Outgoing) BY <1>1, <1>3
    <2>2. /\ ~target.deaf /\ (step >= 3 => target.sticky = {}) /\ (step >= 6 => target.power)
      BY <2>1 DEF Reviving
    <2>3. /\ Reg \in Registers \ {"TAR", "DRW"}
          /\ Reg \notin {"IDCODE", "STATUS", "ABORT"} => target.sticky = {}
          /\ Reg = "CSW" => target.power
          /\ step = 2 => Reg = "ABORT"
      BY <1>0, <2>2, ConnectRegister DEF Registers
    <2>4. /\ r.ack \in {"ok", "wait"}
          /\ ~r.to.deaf /\ r.to.sticky \subseteq target.sticky /\ (target.power => r.to.power)
          /\ Reg = "ABORT" => r.ack = "ok" /\ r.to.sticky = target.sticky \ Outgoing
      BY <1>0, <1>2, <2>1, <2>2, <2>3, CleanConnect
    <2>5. Reg = "ABORT" => Outgoing = Flags BY DEF Outgoing, AbortFlags
    <2>6. target.sticky \subseteq Flags BY <1>0 DEF Target
    <2> QED BY <1>1, <2>2, <2>3, <2>4, <2>5, <2>6
  <1>4. CASE r.ack = "ok" /\ Completed
    <2>1. pc' = "collect" /\ UNCHANGED <<call, step>> /\ step \notin {1, 5}
      BY <1>0, <1>1, <1>4, ConnectRegister
    <2> QED BY <1>0, <1>3, <2>1 DEF Reviving, Revives
  <1>5. CASE r.ack = "ok" /\ ~Completed
    <2>1. TransferDone(r.to.power) /\ step \in {1, 5}
      BY <1>0, <1>1, <1>5, ConnectRegister
    <2>2. CASE \/ step = 1 /\ Goto(2)
               \/ step = 5 /\ (Goto(5) \/ (Goto(6) /\ r.to.power))
      <3>1. pc' = "request" /\ UNCHANGED call /\ step' \in {2, 5, 6}
            /\ (step' = 6 => r.to.power) /\ (step' >= 3 => step = 5)
        BY <2>2 DEF Goto
      <3> QED BY <1>0, <1>1, <1>3, <3>1 DEF Reviving, Revives
    <2>3. CASE Fail("none") \/ Fail("timeout")
      BY <1>0, <2>3 DEF Fail, Return, NoCall, Block, Reviving, Revives
    <2>4. CASE step = 1
      <3>1. Reg = "IDCODE" BY <1>0, <2>4, ConnectRegister
      <3>2. NextRegister \/ Fail("none") BY <2>1, <3>1 DEF TransferDone
      <3> QED BY <2>2, <2>3, <2>4, <3>2 DEF NextRegister
    <2>5. CASE step = 5
      <3>1. Reg = "STATUS" BY <1>0, <2>5, ConnectRegister
      <3>2. \/ r.to.power /\ NextRegister
            \/ Goto(step)
            \/ Fail("timeout")
        BY <2>1, <3>1 DEF TransferDone
      <3> QED BY <2>2, <2>3, <2>5, <3>2 DEF NextRegister
    <2> QED BY <2>1, <2>4, <2>5
  <1>6. CASE r.ack = "wait" /\ MayRetry
    <2>1. UNCHANGED <<call, pc, step>> BY <1>1, <1>6
    <2> QED BY <1>0, <1>3, <2>1 DEF Reviving, Revives
  <1>7. CASE r.ack # "ok" /\ ~(r.ack = "wait" /\ MayRetry)
    <2>1. Fail(r.ack) BY <1>1, <1>7
    <2>2. pc' = "idle" /\ call' = NoCall /\ cause' = r.ack /\ returned' = FALSE
      BY <2>1 DEF Fail, Return
    <2> QED BY <1>3, <2>2 DEF NoCall, Block, Reviving, Revives
  <1> QED BY <1>4, <1>5, <1>6, <1>7

\* The read of RDBUFF that completes a write of connect.
LEMMA ReviveCollect ==
  ASSUME BlockInv, Reviving, Collect, call.op = "connect"
  PROVE  Reviving' /\ Revives
  <1>0. pc = "collect" /\ step \in 1 .. 7 /\ step \notin {1, 5} /\ target \in Target
    BY DEF BlockInv, CallShape, Collect, Reviving
  <1>1. PICK r \in Replies(target, "RDBUFF", FALSE, 0) :
          /\ target' = r.to
          /\ quiet' = (quiet /\ r \in Clean(target, "RDBUFF", FALSE, 0))
          /\ IF r.ack = "ok" THEN TransferDone(FALSE) ELSE Fail(r.ack)
    BY DEF Collect
  <1>2. ASSUME quiet'
        PROVE  /\ r.ack \in {"ok", "wait"} /\ ~target'.deaf /\ target'.sticky = {}
               /\ target.power => target'.power
               /\ step >= 6 => target.power
    <2>1. quiet /\ r \in Clean(target, "RDBUFF", FALSE, 0) BY <1>1, <1>2
    <2>2. ~target.deaf /\ target.sticky = {} /\ (step >= 6 => target.power)
      BY <1>0, <2>1 DEF Reviving
    <2>3. /\ r.ack \in {"ok", "wait"}
          /\ ~r.to.deaf /\ r.to.sticky \subseteq target.sticky /\ (target.power => r.to.power)
      BY <1>0, <2>1, <2>2, CleanConnect DEF Registers
    <2> QED BY <1>1, <2>2, <2>3
  <1>3. CASE r.ack = "ok" /\ step # 7
    <2>1. TransferDone(FALSE) /\ Reg \notin {"IDCODE", "STATUS", "CSW", "DRW"}
      BY <1>0, <1>1, <1>3, ConnectRegister
    <2>2. Goto(step + 1) BY <2>1 DEF TransferDone, NextRegister
    <2>3. pc' = "request" /\ UNCHANGED call /\ step' = step + 1 BY <2>2 DEF Goto
    <2> QED BY <1>0, <1>2, <2>3 DEF Reviving, Revives
  <1>4. CASE r.ack = "ok" /\ step = 7
    <2>1. TransferDone(FALSE) /\ Reg = "CSW" BY <1>0, <1>1, <1>4, ConnectRegister
    <2>2. Return(TRUE, "none") BY <2>1 DEF TransferDone
    <2>3. pc' = "idle" /\ call' = NoCall /\ cause' = "none" BY <2>2 DEF Return
    <2> QED BY <1>2, <1>4, <2>3 DEF NoCall, Block, Reviving, Revives
  <1>5. CASE r.ack # "ok"
    <2>1. Fail(r.ack) BY <1>1, <1>5
    <2>2. pc' = "idle" /\ call' = NoCall /\ cause' = r.ack /\ returned' = FALSE
      BY <2>1 DEF Fail, Return
    <2> QED BY <1>2, <2>2 DEF NoCall, Block, Reviving, Revives
  <1> QED BY <1>3, <1>4, <1>5
\* A step of a block, or of no call, is none of connect.
LEMMA NextRevives ==
  ASSUME BlockInv, Reviving, [Next]_vars
  PROVE  Reviving' /\ [Revives]_vars
  <1>1. CASE Connect
    <2>1. /\ pc = "idle" /\ pc' = "request" /\ step = 1 /\ step' = 1
          /\ target' = LineReset(target) /\ target \in Target
      BY <1>1 DEF Connect, BlockInv, CallShape
    <2>2. ~target'.deaf BY <2>1 DEF LineReset, Target
    <2> QED BY <2>1, <2>2 DEF Reviving, Revives
  <1>2. CASE Misaligned
    <2>1. call'.op = "none" /\ pc = "idle" /\ pc' = "idle"
      BY <1>2 DEF Misaligned, Fail, Return, NoCall, Block
    <2> QED BY <2>1 DEF Reviving, Revives
  <1>3. CASE \E a \in Address, n \in 1 .. MaxLen :
               /\ a + n <= Words
               /\ \/ Access("read", a, n, NoData)
                  \/ \E d \in Payloads(n) : Access("write", a, n, d)
    <2>1. call'.op \in {"read", "write"} /\ pc = "idle" /\ pc' = "request"
      BY <1>3 DEF Access, Block
    <2> QED BY <2>1 DEF Reviving, Revives
  <1>4. CASE (Request \/ Collect) /\ call.op = "connect"
    BY <1>4, ReviveRequest, ReviveCollect
  <1>5. CASE (Request \/ Collect) /\ call.op # "connect"
    <2>1. call' = call \/ call' = NoCall
      <3>1. \A ok : TransferDone(ok) => call' = call \/ call' = NoCall
        BY DEF TransferDone, NextRegister, NextWord, Goto, Fail, Return
      <3>2. CASE Request BY <3>1, <3>2 DEF Request, Fail, Return
      <3>3. CASE Collect BY <3>1, <3>3 DEF Collect, Fail, Return
      <3> QED BY <1>5, <3>2, <3>3
    <2>2. call'.op # "connect" BY <1>5, <2>1 DEF NoCall, Block
    <2> QED BY <1>5, <2>2 DEF Reviving, Revives
  <1>6. CASE PowerLoss
    <2>1. UNCHANGED <<call, pc, step>> /\ quiet' = FALSE BY <1>6 DEF PowerLoss
    <2> QED BY <2>1 DEF Reviving, Revives
  <1>7. CASE UNCHANGED vars BY <1>7 DEF vars, Reviving
  <1> QED BY <1>1, <1>2, <1>3, <1>4, <1>5, <1>6, <1>7 DEF Next, Call

\* Whatever failed before, connect brings the link back: over a wire that nothing
\* disturbs it meets no FAULT and no silence, and it returns true only with a
\* link that is ready for memory access.
THEOREM ConnectsRevive ==
  ASSUME PortAssumption, TransportAssumption
  PROVE  Spec => ConnectRevives
  <1>1. Init => BlockInv /\ Memory!Init BY InitBlock
  <1>2. Init => Reviving BY DEF Init, NoCall, Block, Reviving
  <1>3. BlockInv /\ Reviving /\ [Next]_vars => BlockInv' /\ Reviving' /\ [Revives]_vars
    BY NextBlock, NextRevives
  <1>4. [][Revives]_vars => ConnectRevives BY DEF Revives, ConnectRevives
  <1> QED BY <1>1, <1>2, <1>3, <1>4, PTL DEF Spec

-----------------------------------------------------------------------------
(* Types *)

\* Without a block the loops stand still, and the locals keep their types.
Parked ==
  /\ pc = "idle" => call = NoCall
  /\ pc # "idle" /\ call.op = "connect" => call = Connecting
  /\ ~OnBlock => address = 0 /\ size = 0 /\ chunk = 0 /\ offset = 0
  /\ tries \in 0 .. Retries - 1
  /\ returned \in BOOLEAN
  /\ cause \in Acks \cup {"none", "timeout"}
  /\ quiet \in BOOLEAN

\* The invariants know the types.
LEMMA KnownTypes ==
  ASSUME PortAssumption, TransportAssumption, BlockInv, Parked
  PROVE  TransportTypeOK
  <1>1. /\ 0 \in Address /\ NoData \in Data /\ MaxLen \in Nat /\ Words \in Nat
    BY DEF PortAssumption, TransportAssumption, Address, NoData, Data
  <1>2. CASE OnBlock
    <2>1. /\ call.op \in {"read", "write"} /\ step \in {1, 2}
          /\ call.at \in Nat /\ call.len \in 1 .. MaxLen /\ call.at + call.len <= Words
          /\ call.data \in Data
      BY <1>2 DEF BlockInv, CallShape, OnBlock
    <2>2. /\ size \in 1 .. call.len /\ address \in Address
          /\ chunk \in 1 .. size /\ offset \in 0 .. chunk - 1
      BY <1>2, BlockFacts
    <2>3. call.at \in Address /\ Len(Order) = 2
      BY <1>1, <2>1 DEF Address, Order, BlockOrder
    <2> QED BY <1>1, <2>1, <2>2, <2>3
            DEF BlockInv, CallShape, Parked, TransportTypeOK, Address
  <1>3. CASE pc # "idle" /\ call.op = "connect"
    <2>1. /\ call = Connecting /\ address = 0 /\ size = 0 /\ chunk = 0 /\ offset = 0
      BY <1>3 DEF Parked, OnBlock
    <2>2. call.at = 0 /\ call.len = 0 /\ call.data = NoData BY <2>1 DEF Connecting, Block
    <2>3. step \in 1 .. 7 /\ Len(Order) = 7
      BY <1>3 DEF BlockInv, CallShape, Order, ConnectOrder
    <2> QED BY <1>1, <1>3, <2>1, <2>2, <2>3
            DEF BlockInv, CallShape, Parked, TransportTypeOK
  <1>4. CASE pc = "idle"
    <2>1. /\ call = NoCall /\ address = 0 /\ size = 0 /\ chunk = 0 /\ offset = 0
      BY <1>4 DEF Parked, OnBlock
    <2>2. call.op = "none" /\ call.at = 0 /\ call.len = 0 /\ call.data = NoData
      BY <2>1 DEF NoCall, Block
    <2>3. step = 1 /\ Len(Order) = 2
      BY <1>4, <2>2 DEF BlockInv, CallShape, Order, BlockOrder
    <2> QED BY <1>1, <1>4, <2>1, <2>2, <2>3
            DEF BlockInv, CallShape, Parked, TransportTypeOK
  <1> QED BY <1>2, <1>3, <1>4 DEF BlockInv, CallShape, OnBlock

\* The host takes every answer for one of five.
LEMMA KnownAnswer ==
  ASSUME NEW t, NEW reg, NEW write, NEW sent, NEW r \in Replies(t, reg, write, sent)
  PROVE  r.ack \in Acks
  <1>1. CASE r \in Clean(t, reg, write, sent)
    <2>1. PICK a \in Answers(t, reg) :
            r \in (CASE a = "none" -> {[ack |-> "invalid", to |-> t]}
                     [] a = "ok" -> {[ack |-> "ok", to |-> n] : n \in Accepted(t, reg, write, sent)}
                     [] a = "refused" -> {[ack |-> "fault", to |-> Failed(t, "access")]}
                     [] OTHER -> {[ack |-> a, to |-> t]})
      BY <1>1 DEF Clean
    <2>2. a \in {"none", "ok", "refused", "fault", "wait"} BY DEF Answers
    <2>3. CASE a = "none" BY <2>1, <2>3 DEF Acks
    <2>4. CASE a = "ok" BY <2>1, <2>4 DEF Acks
    <2>5. CASE a = "refused" BY <2>1, <2>5 DEF Acks
    <2>6. CASE a \in {"fault", "wait"} BY <2>1, <2>6 DEF Acks
    <2> QED BY <2>2, <2>3, <2>4, <2>5, <2>6
  <1>2. CASE r \in Disturbed(t, reg, write, sent) BY <1>2 DEF Disturbed, Acks
  <1> QED BY <1>1, <1>2 DEF Replies

\* A call that returns.
LEMMA ReturnParked ==
  ASSUME Parked, NEW ok \in BOOLEAN, NEW ack \in Acks \cup {"none", "timeout"}, Return(ok, ack),
         TransportAssumption, quiet' \in BOOLEAN
  PROVE  Parked'
  <1>1. /\ pc' = "idle" /\ call' = NoCall /\ tries' = 0 /\ returned' = ok /\ cause' = ack
        /\ address' = 0 /\ size' = 0 /\ chunk' = 0 /\ offset' = 0
    BY DEF Return
  <1>2. 0 \in 0 .. Retries - 1 BY DEF TransportAssumption
  <1> QED BY <1>1, <1>2 DEF Parked, OnBlock, NoCall, Block

\* A register of the call is done.
LEMMA TransferParked ==
  ASSUME TransportAssumption, BlockInv, Parked, pc # "idle", NEW ok, TransferDone(ok),
         quiet' \in BOOLEAN
  PROVE  Parked'
  <1>1. 0 \in 0 .. Retries - 1 BY DEF TransportAssumption
  <1>2. ASSUME NEW s, Goto(s), OnBlock \/ UNCHANGED loop PROVE Parked'
    <2>1. pc' = "request" /\ UNCHANGED <<call, returned, cause>> /\ tries' = 0
      BY <1>2 DEF Goto
    <2>2. OnBlock' <=> OnBlock BY <2>1 DEF OnBlock
    <2>3. ~OnBlock => address' = 0 /\ size' = 0 /\ chunk' = 0 /\ offset' = 0
      BY <1>2 DEF Parked, loop
    <2> QED BY <1>1, <2>1, <2>2, <2>3 DEF Parked
  <1>3. ASSUME NEW ack \in {"none", "timeout"}, Fail(ack) PROVE Parked'
    BY <1>3, ReturnParked DEF Fail
  <1>4. Return(TRUE, "none") => Parked' BY ReturnParked
  <1>5. NextRegister => Parked' BY <1>2 DEF NextRegister
  <1>6. Reg = "DRW" => OnBlock
    <2>1. CASE call.op = "connect"
      <3>1. step \in 1 .. 7 BY <2>1 DEF BlockInv, CallShape
      <3> QED BY <2>1, <3>1, ConnectRegister
    <2> QED BY <2>1 DEF BlockInv, CallShape, OnBlock
  <1>7. CASE Reg = "IDCODE" BY <1>3, <1>5, <1>7 DEF TransferDone
  <1>8. CASE Reg = "STATUS" BY <1>2, <1>3, <1>5, <1>8 DEF TransferDone
  <1>9. CASE Reg = "CSW" BY <1>4, <1>9 DEF TransferDone
  <1>10. CASE Reg = "DRW"
    <2>1. NextWord BY <1>10 DEF TransferDone
    <2> QED BY <1>2, <1>4, <1>6, <1>10, <2>1 DEF NextWord
  <1>11. CASE Reg \notin {"IDCODE", "STATUS", "CSW", "DRW"} BY <1>5, <1>11 DEF TransferDone
  <1> QED BY <1>7, <1>8, <1>9, <1>10, <1>11

\* Every step.
LEMMA NextParked ==
  ASSUME TransportAssumption, BlockInv, Parked, [Next]_vars
  PROVE  Parked'
  <1>0. 0 \in 0 .. Retries - 1 /\ Retries \in Nat BY DEF TransportAssumption
  <1>1. CASE Connect
    <2>1. /\ pc' = "request" /\ call' = Connecting /\ pc = "idle"
          /\ UNCHANGED <<tries, address, size, chunk, offset, returned>>
          /\ cause' = "none" /\ quiet' = TRUE
      BY <1>1 DEF Connect, loop
    <2>2. call'.op = "connect" BY <2>1 DEF Connecting, Block
    <2> QED BY <2>1, <2>2 DEF Parked, OnBlock
  <1>2. CASE Misaligned
    <2>1. Return(FALSE, "none") /\ quiet' \in BOOLEAN BY <1>2 DEF Misaligned, Fail, Parked
    <2> QED BY <2>1, ReturnParked
  <1>3. CASE \E a \in Address, n \in 1 .. MaxLen :
               /\ a + n <= Words
               /\ \/ Access("read", a, n, NoData)
                  \/ \E d \in Payloads(n) : Access("write", a, n, d)
    <2>1. /\ pc' = "request" /\ call'.op \in {"read", "write"}
          /\ UNCHANGED <<tries, returned>> /\ cause' = "none" /\ quiet' = TRUE
      BY <1>3 DEF Access, Block
    <2> QED BY <2>1 DEF Parked, OnBlock
  <1>4. ASSUME UNCHANGED <<call, loop, returned, cause>>, tries' \in 0 .. Retries - 1,
               quiet' \in BOOLEAN, pc # "idle", pc' # "idle"
        PROVE  Parked'
    BY <1>4 DEF Parked, OnBlock, loop
  <1>5. CASE Request
    <2>1. PICK r \in Replies(target, Reg, IsWrite, Outgoing) :
            /\ quiet' = (quiet /\ r \in Clean(target, Reg, IsWrite, Outgoing))
            /\ CASE r.ack = "ok" /\ Completed ->
                      /\ pc' = "collect"
                      /\ UNCHANGED <<call, step, tries, loop, buffer, returned, cause>>
                 [] r.ack = "ok" /\ ~Completed -> TransferDone(r.to.power)
                 [] r.ack = "wait" /\ MayRetry ->
                      /\ tries' = tries + 1
                      /\ UNCHANGED <<call, pc, step, loop, buffer, returned, cause>>
                 [] OTHER -> Fail(r.ack)
      BY <1>5 DEF Request
    <2>2. quiet' \in BOOLEAN /\ pc = "request" BY <1>5, <2>1 DEF Request, Parked
    <2>3. CASE r.ack = "ok" /\ Completed BY <1>4, <2>1, <2>2, <2>3 DEF Parked
    <2>4. CASE r.ack = "ok" /\ ~Completed BY <2>1, <2>2, <2>4, TransferParked
    <2>5. CASE r.ack = "wait" /\ MayRetry
      <3>1. tries' \in 0 .. Retries - 1 BY <1>0, <2>1, <2>5 DEF MayRetry, Parked
      <3> QED BY <1>4, <2>1, <2>2, <2>5, <3>1
    <2>6. CASE r.ack # "ok" /\ ~(r.ack = "wait" /\ MayRetry)
      <3>1. Fail(r.ack) BY <2>1, <2>6
      <3> QED BY <2>2, <3>1, KnownAnswer, ReturnParked DEF Fail
    <2> QED BY <2>3, <2>4, <2>5, <2>6
  <1>6. CASE Collect
    <2>1. PICK r \in Replies(target, "RDBUFF", FALSE, 0) :
            /\ quiet' = (quiet /\ r \in Clean(target, "RDBUFF", FALSE, 0))
            /\ IF r.ack = "ok" THEN TransferDone(FALSE) ELSE Fail(r.ack)
      BY <1>6 DEF Collect
    <2>2. quiet' \in BOOLEAN /\ pc = "collect" BY <1>6, <2>1 DEF Collect, Parked
    <2>3. CASE r.ack = "ok" BY <2>1, <2>2, <2>3, TransferParked
    <2>4. CASE r.ack # "ok"
      <3>1. Fail(r.ack) BY <2>1, <2>4
      <3> QED BY <2>2, <3>1, KnownAnswer, ReturnParked DEF Fail
    <2> QED BY <2>3, <2>4
  <1>7. CASE PowerLoss BY <1>7 DEF PowerLoss, Parked, OnBlock, loop
  <1>8. CASE UNCHANGED vars BY <1>8 DEF vars, Parked, OnBlock, loop
  <1> QED BY <1>1, <1>2, <1>3, <1>5, <1>6, <1>7, <1>8 DEF Next, Call

\* Type correctness of the transport.
THEOREM TransportTypes ==
  ASSUME PortAssumption, TransportAssumption
  PROVE  Spec => []TransportTypeOK
  <1>1. Init => BlockInv /\ Memory!Init BY InitBlock
  <1>2. Init => Parked
    <2>1. 0 \in 0 .. Retries - 1 BY DEF TransportAssumption
    <2> QED BY <2>1 DEF Init, Parked, OnBlock
  <1>3. BlockInv /\ Parked /\ [Next]_vars => BlockInv' /\ Parked' BY NextBlock, NextParked
  <1>4. BlockInv /\ Parked => TransportTypeOK BY KnownTypes
  <1> QED BY <1>1, <1>2, <1>3, <1>4, PTL DEF Spec

-----------------------------------------------------------------------------
(* The engine *)

\* The engine and the transport face one and the same port.
LEMMA SamePort ==
  /\ Engine!Address = Address /\ Engine!AccessPort = AccessPort
  /\ Engine!Target = Target
  /\ \A t : Engine!LineReset(t) = LineReset(t) /\ Engine!Outage(t) = Outage(t)
  BY Zenon DEF Engine!Address, Address, Engine!AccessPort, AccessPort, Engine!Flags, Flags,
         Engine!Target, Target, Engine!LineReset, LineReset, Engine!Outage, Outage

LEMMA SameWire ==
  ASSUME NEW t, NEW reg, NEW write, NEW sent
  PROVE  /\ Engine!Clean(t, reg, write, sent) = Clean(t, reg, write, sent)
         /\ Engine!Replies(t, reg, write, sent) = Replies(t, reg, write, sent)
  <1>1. \A f : Engine!Failed(t, f) = Failed(t, f) BY DEF Engine!Failed, Failed
  <1>2. Engine!Answers(t, reg) = Answers(t, reg)
    BY SamePort DEF Engine!Answers, Answers
  <1>3. \A a : Engine!Increment(a) = Increment(a) BY DEF Engine!Increment, Increment
  <1>4. Engine!Accepted(t, reg, write, sent) = Accepted(t, reg, write, sent)
    BY <1>1, <1>3 DEF Engine!Accepted, Accepted
  <1>5. Engine!Clean(t, reg, write, sent) = Clean(t, reg, write, sent)
    BY <1>1, <1>2, <1>4 DEF Engine!Clean, Clean
  <1>6. Engine!Disturbed(t, reg, write, sent) = Disturbed(t, reg, write, sent)
    BY <1>1, <1>2, <1>4 DEF Engine!Disturbed, Disturbed
  <1> QED BY <1>5, <1>6 DEF Engine!Replies, Replies

\* A call that is one of dap_read_word and dap_write_word.
OnWord == phase # "idle" /\ order.op \in {"read", "write"}

EngineOps == {"none", "open", "idcode", "read", "write"}
Steps(op) == IF op = "open" THEN 5 ELSE IF op = "idcode" THEN 1 ELSE 2

EngineShape ==
  /\ remote \in Target
  /\ driven \in BOOLEAN /\ expired \in BOOLEAN /\ calm \in BOOLEAN /\ stuck \in BOOLEAN
  /\ order \in [op: EngineOps, at: Address, value: Values]
  /\ phase \in {"idle", "request", "collect"}
  /\ phase = "idle" => order = Engine!NoCall
  /\ phase # "idle" => order.op # "none"
  /\ at \in 1 .. Steps(order.op)
  /\ attempts \in 0 .. Retries - 1
  /\ result \in Values

\* Where a request could still get through, it goes where the call names, and what
\* it has fetched is the word there; a request that failed has left the line
\* released, a flag set or the port deaf, unless it ran out of attempts.
Aimed ==
  OnWord /\ ~expired /\ driven /\ ~remote.deaf /\ remote.sticky = {} =>
    /\ (at = 1 /\ phase = "collect") \/ (at = 2 /\ phase = "request") =>
         remote.tar = order.at
    /\ at = 2 /\ phase = "collect" /\ order.op = "read" =>
         remote.posted = remote.mem[order.at]

\* A session that is being set up over a calm wire: the port hears every request,
\* and has no error flag from the write of ABORT on.
Opening ==
  phase # "idle" /\ order.op = "open" /\ calm /\ ~stuck =>
    /\ driven /\ ~remote.deaf /\ "wdata" \notin remote.sticky
    /\ at >= 3 \/ (at = 2 /\ phase = "collect") => remote.sticky = {}

EngineInv == EngineShape /\ Aimed /\ Opening

\* What the properties of the engine say of one step.
WordStep ==
  /\ ~expired /\ remote'.mem # remote.mem =>
       remote'.mem = [remote.mem EXCEPT ![order.at] = order.value]
  /\ order.op = "read" /\ phase' = "idle" /\ ~expired /\ result' # 0 =>
       result' = remote.mem[order.at]

OpenStep ==
  order.op = "open" /\ phase' = "idle" /\ calm' /\ ~stuck =>
    driven' /\ (remote'.power => remote'.sticky = {})

\* The register a call has come to.
LEMMA EngineRegister ==
  ASSUME EngineShape, phase # "idle"
  PROVE  /\ Len(Engine!Order) = Steps(order.op)
         /\ Engine!IsWrite \in BOOLEAN
         /\ order.op = "idcode" => at = 1
         /\ order.op \in {"open", "idcode"} =>
              /\ Engine!Reg \in {"IDCODE", "ABORT", "SELECT", "CTRLSTAT", "CSW"}
              /\ at = 1 <=> Engine!Reg = "IDCODE"
              /\ at = 2 <=> Engine!Reg = "ABORT"
              /\ at = 3 <=> Engine!Reg = "SELECT"
              /\ at = 5 <=> Engine!Reg = "CSW"
              /\ Engine!IsWrite <=> at # 1
              /\ Engine!Completed <=> at # 1
         /\ OnWord =>
              /\ at \in {1, 2} /\ Engine!Completed
              /\ at = 1 => Engine!Reg = "TAR" /\ Engine!IsWrite /\ Engine!Outgoing = order.at
              /\ at = 2 => /\ Engine!Reg = "DRW" /\ (Engine!IsWrite <=> order.op = "write")
                           /\ Engine!Outgoing = order.value
  <1>1. CASE order.op = "open"
    <2>1. Engine!Order = <<"IDCODE", "ABORT", "SELECT", "CTRLSTAT", "CSW">> BY <1>1 DEF Engine!Order
    <2>2. at = 1 \/ at = 2 \/ at = 3 \/ at = 4 \/ at = 5 BY <1>1 DEF EngineShape, Steps
    <2>3. Engine!Reg = Engine!Order[at] BY DEF Engine!Reg
    <2> QED BY <1>1, <2>1, <2>2, <2>3
            DEF Steps, OnWord, Engine!IsWrite, Engine!Completed, Engine!AccessPort
  <1>2. CASE order.op = "idcode"
    <2>1. Engine!Order = <<"IDCODE">> BY <1>2 DEF Engine!Order
    <2>2. at = 1 BY <1>2 DEF EngineShape, Steps
    <2>3. Engine!Reg = Engine!Order[at] BY DEF Engine!Reg
    <2> QED BY <1>2, <2>1, <2>2, <2>3
            DEF Steps, OnWord, Engine!IsWrite, Engine!Completed, Engine!AccessPort
  <1>3. CASE order.op \in {"read", "write"}
    <2>1. Engine!Order = <<"TAR", "DRW">> BY <1>3 DEF Engine!Order
    <2>2. at = 1 \/ at = 2 BY <1>3 DEF EngineShape, Steps
    <2>3. Engine!Reg = Engine!Order[at] BY DEF Engine!Reg
    <2> QED BY <1>3, <2>1, <2>2, <2>3
            DEF Steps, OnWord, Engine!IsWrite, Engine!Completed, Engine!AccessPort, Engine!Outgoing
  <1> QED BY <1>1, <1>2, <1>3 DEF EngineShape, EngineOps

\* A transfer that is over: the call returns or goes on to its next register.
Returning(value) ==
  /\ phase' = "idle" /\ order' = Engine!NoCall /\ at' = 1 /\ attempts' = 0
  /\ result' = IF order.op = "read" THEN value ELSE result
GoingOn ==
  /\ at < Steps(order.op) /\ at' = at + 1 /\ phase' = "request" /\ attempts' = 0
  /\ UNCHANGED <<order, result>>

LEMMA TransferOver ==
  ASSUME EngineShape, phase # "idle", NEW ok \in BOOLEAN, Engine!TransferDone(ok)
  PROVE  \/ /\ Returning(IF ok THEN remote.posted ELSE 0)
            /\ at = Steps(order.op) \/ (order.op = "read" /\ ~ok)
         \/ GoingOn /\ (ok \/ order.op # "read")
  <1>1. at \in 1 .. Len(Engine!Order) /\ Len(Engine!Order) = Steps(order.op)
    BY EngineRegister DEF EngineShape
  <1>2. Steps(order.op) \in Nat BY DEF Steps
  <1>3. CASE order.op = "read" /\ ~ok
    BY <1>3 DEF Engine!TransferDone, Engine!Return, Returning
  <1>4. CASE ~(order.op = "read" /\ ~ok) /\ at = Len(Engine!Order)
    BY <1>1, <1>4 DEF Engine!TransferDone, Engine!Return, Returning
  <1>5. CASE ~(order.op = "read" /\ ~ok) /\ at # Len(Engine!Order)
    BY <1>1, <1>2, <1>5 DEF Engine!TransferDone, GoingOn
  <1> QED BY <1>3, <1>4, <1>5

\* One request on the wire: what is asked, and what the answer does to the call.
Asking(reg, write, sent) ==
  /\ phase \in {"request", "collect"}
  /\ phase = "request" => reg = Engine!Reg /\ write = Engine!IsWrite /\ sent = Engine!Outgoing
  /\ phase = "collect" => reg = "RDBUFF" /\ ~write

Answered(reg, write, sent, r) ==
  /\ IF driven THEN r \in Replies(remote, reg, write, sent)
     ELSE r.ack = "invalid" /\ r.to \in {remote, LineReset(remote)}
  /\ remote' = r.to /\ driven' = (driven /\ r.ack # "invalid") /\ stuck' = stuck
  /\ calm' \in BOOLEAN
  /\ calm' => calm /\ (driven => r \in Clean(remote, reg, write, sent))

Retried ==
  /\ attempts + 1 < Retries /\ attempts' = attempts + 1
  /\ UNCHANGED <<order, phase, at, result, expired>>
Collecting ==
  /\ phase = "request" /\ Engine!Completed
  /\ phase' = "collect" /\ attempts' = 0
  /\ UNCHANGED <<order, at, result, expired>>
Over(ack) ==
  \/ /\ ack = "ok" /\ (phase = "collect" \/ ~Engine!Completed)
     /\ Engine!TransferDone(TRUE) /\ UNCHANGED expired
  \/ /\ ack # "ok" /\ Engine!TransferDone(FALSE)
     /\ expired' \in BOOLEAN /\ (expired \/ ack = "wait" => expired')
Settled(ack) == (ack = "wait" /\ Retried) \/ (ack = "ok" /\ Collecting) \/ Over(ack)

LEMMA EngineExchange ==
  ASSUME EngineShape, Engine!Request \/ Engine!Collect
  PROVE  \E reg, sent, r : \E write \in BOOLEAN :
           Asking(reg, write, sent) /\ Answered(reg, write, sent, r) /\ Settled(r.ack)
  <1>1. Engine!IsWrite \in BOOLEAN BY DEF Engine!IsWrite
  <1>2. ASSUME NEW reg, NEW write, NEW sent, NEW r \in Engine!Exchange(reg, write, sent)
        PROVE  IF driven THEN r \in Replies(remote, reg, write, sent)
               ELSE r.ack = "invalid" /\ r.to \in {remote, LineReset(remote)}
    BY <1>2, SameWire, SamePort DEF Engine!Exchange
  <1>3. CASE Engine!Request
    <2>1. PICK r \in Engine!Exchange(Engine!Reg, Engine!IsWrite, Engine!Outgoing) :
            /\ Engine!Operation(r, Engine!Reg, Engine!IsWrite, Engine!Outgoing)
            /\ Engine!Attempt(r.ack, IF Engine!Completed
                 THEN phase' = "collect" /\ attempts' = 0 /\ UNCHANGED <<order, at, result>>
                 ELSE Engine!TransferDone(TRUE))
      BY <1>3, Zenon DEF Engine!Request
    <2>2. phase = "request" /\ stuck' = stuck BY <1>3 DEF Engine!Request
    <2>3. /\ remote' = r.to /\ driven' = (driven /\ r.ack # "invalid")
          /\ calm' = (calm /\ r \in Clean(remote, Engine!Reg, Engine!IsWrite, Engine!Outgoing))
      BY <2>1, SameWire DEF Engine!Operation, Engine!DrivenAfter
    <2>4. Settled(r.ack)
      BY <2>1, <2>2 DEF Settled, Retried, Collecting, Over, Engine!Attempt, Engine!MayRetry, EngineShape
    <2>5. Asking(Engine!Reg, Engine!IsWrite, Engine!Outgoing) BY <2>2 DEF Asking
    <2>6. Answered(Engine!Reg, Engine!IsWrite, Engine!Outgoing, r)
      BY <1>2, <2>1, <2>2, <2>3 DEF Answered, EngineShape
    <2> QED BY <1>1, <2>4, <2>5, <2>6
  <1>4. CASE Engine!Collect
    <2>1. PICK r \in Engine!Exchange("RDBUFF", FALSE, 0) :
            /\ Engine!Operation(r, "RDBUFF", FALSE, 0)
            /\ Engine!Attempt(r.ack, Engine!TransferDone(TRUE))
      BY <1>4 DEF Engine!Collect
    <2>2. phase = "collect" /\ stuck' = stuck BY <1>4 DEF Engine!Collect
    <2>3. /\ remote' = r.to /\ driven' = (driven /\ r.ack # "invalid")
          /\ calm' = (calm /\ r \in Clean(remote, "RDBUFF", FALSE, 0))
      BY <2>1, SameWire DEF Engine!Operation, Engine!DrivenAfter
    <2>4. Settled(r.ack)
      BY <2>1, <2>2 DEF Settled, Retried, Over, Engine!Attempt, Engine!MayRetry, EngineShape
    <2>5. Asking("RDBUFF", FALSE, 0) BY <2>2 DEF Asking
    <2>6. Answered("RDBUFF", FALSE, 0, r) BY <1>2, <2>1, <2>2, <2>3 DEF Answered, EngineShape
    <2> QED BY <2>4, <2>5, <2>6
  <1> QED BY <1>3, <1>4

\* A call that begins.
LEMMA EngineBegins ==
  ASSUME EngineInv, NEW op \in EngineOps \ {"none"}, NEW where \in Address, NEW value \in Values,
         Engine!Begin(Engine!Call(op, where, value)),
         remote' \in Target, driven' \in BOOLEAN, UNCHANGED result,
         expired' \in BOOLEAN, calm' \in BOOLEAN, stuck' \in BOOLEAN,
         op = "open" /\ calm' /\ ~stuck' =>
           driven' /\ ~remote'.deaf /\ "wdata" \notin remote'.sticky
  PROVE  EngineInv' /\ phase' # "idle"
  <1>1. /\ order' = [op |-> op, at |-> where, value |-> value]
        /\ phase' = "request" /\ at' = 1 /\ attempts' = 0
    BY DEF Engine!Begin, Engine!Call
  <1>2. 0 \in 0 .. Retries - 1 BY TransportSizes DEF TransportAssumption
  <1>3. 1 \in 1 .. Steps(op) BY DEF Steps
  <1>4. EngineShape' BY <1>1, <1>2, <1>3 DEF EngineInv, EngineShape, EngineOps
  <1>5. Aimed' BY <1>1 DEF Aimed
  <1>6. Opening' BY <1>1 DEF Opening
  <1> QED BY <1>1, <1>4, <1>5, <1>6 DEF EngineInv

LEMMA OpenBegins ==
  ASSUME EngineInv, Engine!Open
  PROVE  EngineInv' /\ phase' # "idle" /\ remote'.mem = remote.mem
  <1>1. remote \in Target /\ 0 \in Address /\ 0 \in Values
    BY TransportSizes, EngineSizes DEF EngineInv, EngineShape, PortAssumption, Address,
       Engine!EngineAssumption
  <1>2. remote' = [remote EXCEPT !.deaf = FALSE] /\ stuck' = ("wdata" \in remote.sticky)
    BY DEF Engine!Open, Engine!LineReset
  <1>3. /\ remote' \in Target /\ ~remote'.deaf /\ remote'.sticky = remote.sticky
        /\ remote'.mem = remote.mem
    BY <1>1, <1>2 DEF Target
  <1>4. Engine!Begin(Engine!Call("open", 0, 0)) /\ UNCHANGED result
        /\ driven' = TRUE /\ expired' = FALSE /\ calm' = TRUE
    BY DEF Engine!Open
  <1>5. "open" \in EngineOps \ {"none"} BY DEF EngineOps
  <1>6. /\ stuck' \in BOOLEAN /\ (~stuck' => "wdata" \notin remote'.sticky)
    <2>1. stuck' <=> "wdata" \in remote.sticky BY <1>2, Zenon
    <2>2. stuck' \in BOOLEAN BY <1>2
    <2> QED BY <1>3, <2>1, <2>2
  <1>7. driven' /\ driven' \in BOOLEAN /\ expired' \in BOOLEAN /\ calm' \in BOOLEAN BY <1>4
  <1> QED BY <1>1, <1>3, <1>4, <1>5, <1>6, <1>7, EngineBegins

LEMMA WordBegins ==
  ASSUME EngineInv,
         \/ \E a \in Address : Engine!Read(a) \/ \E v \in Values : Engine!Write(a, v)
         \/ Engine!ReadIdcode
  PROVE  EngineInv' /\ phase' # "idle" /\ UNCHANGED remote
  <1>1. 0 \in Address /\ 0 \in Values
    BY TransportSizes, EngineSizes DEF PortAssumption, Address, Engine!EngineAssumption
  <1>2. UNCHANGED <<remote, driven, result, expired, calm, stuck>>
    BY DEF Engine!Read, Engine!Write, Engine!ReadIdcode, Engine!history
  <1>3. \E op \in {"idcode", "read", "write"}, a \in Address, v \in Values :
          Engine!Begin(Engine!Call(op, a, v))
    BY <1>1 DEF Engine!Read, Engine!Write, Engine!ReadIdcode
  <1>4. PICK op \in {"idcode", "read", "write"}, a \in Address, v \in Values :
          Engine!Begin(Engine!Call(op, a, v))
    BY <1>3
  <1>5. op \in EngineOps \ {"none"} /\ op # "open" BY DEF EngineOps
  <1>6. /\ remote' \in Target /\ driven' \in BOOLEAN
        /\ expired' \in BOOLEAN /\ calm' \in BOOLEAN /\ stuck' \in BOOLEAN
    BY <1>2 DEF EngineInv, EngineShape
  <1> QED BY <1>2, <1>4, <1>5, <1>6, EngineBegins

LEMMA EngineOutage ==
  ASSUME EngineInv, Engine!PowerLoss
  PROVE  EngineInv' /\ remote'.mem = remote.mem /\ UNCHANGED <<phase, result>>
  <1>1. /\ remote' = [remote EXCEPT !.deaf = TRUE, !.power = FALSE, !.sticky = {}]
        /\ calm' = FALSE /\ UNCHANGED <<driven, order, phase, at, attempts, result, expired, stuck>>
    BY DEF Engine!PowerLoss, Engine!Outage
  <1>2. remote \in Target BY DEF EngineInv, EngineShape
  <1>3. remote' \in Target /\ remote'.deaf /\ remote'.mem = remote.mem BY <1>1, <1>2 DEF Target
  <1>4. EngineShape' BY <1>1, <1>3 DEF EngineInv, EngineShape
  <1>5. Aimed' BY <1>3 DEF Aimed
  <1>6. Opening' BY <1>1 DEF Opening
  <1> QED BY <1>1, <1>3, <1>4, <1>5, <1>6 DEF EngineInv


\* A write that is refused has met an error flag, or set one.
LEMMA Refused ==
  ASSUME NEW t \in Target, NEW reg, NEW write, NEW sent, NEW r \in Replies(t, reg, write, sent)
  PROVE  write => r.ack \in {"ok", "wait", "invalid"} \/ r.to.sticky # {}
  <1>1. CASE r \in Clean(t, reg, write, sent)
    <2>1. PICK a \in Answers(t, reg) :
            r \in (CASE a = "none" -> {[ack |-> "invalid", to |-> t]}
                     [] a = "ok" -> {[ack |-> "ok", to |-> n] : n \in Accepted(t, reg, write, sent)}
                     [] a = "refused" -> {[ack |-> "fault", to |-> Failed(t, "access")]}
                     [] OTHER -> {[ack |-> a, to |-> t]})
      BY <1>1 DEF Clean
    <2>2. /\ a \in {"none", "ok", "refused", "wait", "fault"}
          /\ a = "fault" => t.sticky # {}
      BY DEF Answers
    <2>3. CASE a = "none" BY <2>1, <2>3
    <2>4. CASE a = "ok"
      <3>1. PICK n \in Accepted(t, reg, write, sent) : r = [ack |-> "ok", to |-> n] BY <2>1, <2>4
      <3> QED BY <3>1
    <2>5. CASE a = "refused" BY <2>1, <2>5 DEF Failed, Target
    <2>6. CASE a = "wait" BY <2>1, <2>6
    <2>7. CASE a = "fault" BY <2>1, <2>2, <2>7
    <2> QED BY <2>2, <2>3, <2>4, <2>5, <2>6, <2>7
  <1>2. CASE r \in Disturbed(t, reg, write, sent) BY <1>2 DEF Disturbed
  <1> QED BY <1>1, <1>2 DEF Replies

\* A read of RDBUFF that is answered leaves the port as it is.
LEMMA Collected ==
  ASSUME NEW t \in Target, NEW write \in BOOLEAN, NEW sent, ~write,
         NEW r \in Replies(t, "RDBUFF", write, sent), r.ack # "invalid"
  PROVE  r.to = t
  <1>1. Accepted(t, "RDBUFF", write, sent) = {t} BY DEF Accepted
  <1>2. CASE r \in Clean(t, "RDBUFF", write, sent)
    <2>1. PICK a \in Answers(t, "RDBUFF") :
            r \in (CASE a = "none" -> {[ack |-> "invalid", to |-> t]}
                     [] a = "ok" -> {[ack |-> "ok", to |-> n] : n \in Accepted(t, "RDBUFF", write, sent)}
                     [] a = "refused" -> {[ack |-> "fault", to |-> Failed(t, "access")]}
                     [] OTHER -> {[ack |-> a, to |-> t]})
      BY <1>2 DEF Clean
    <2>2. a # "refused" BY DEF Answers, AccessPort
    <2>3. CASE a = "none" BY <2>1, <2>3
    <2>4. CASE a = "ok" BY <1>1, <2>1, <2>4
    <2>5. CASE a \notin {"none", "ok", "refused"} BY <2>1, <2>5
    <2> QED BY <2>2, <2>3, <2>4, <2>5
  <1>3. CASE r \in Disturbed(t, "RDBUFF", write, sent) BY <1>1, <1>3 DEF Disturbed
  <1> QED BY <1>2, <1>3 DEF Replies

\* DRW, when it is accepted.
LEMMA AcceptedWord ==
  ASSUME NEW t \in Target, NEW write \in BOOLEAN, NEW sent, NEW r,
         r.to \in Accepted(t, "DRW", write, sent) \/ (write /\ r.to = Failed(t, "wdata"))
  PROVE  /\ r.to.mem # t.mem => write /\ r.to.mem = [t.mem EXCEPT ![t.tar] = sent]
         /\ ~write => r.to.mem = t.mem /\ (r.to.sticky = {} => r.to.posted = t.mem[t.tar])
  <1>1. CASE r.to = Failed(t, "access") \/ r.to = Failed(t, "wdata") BY <1>1 DEF Failed, Target
  <1>2. CASE write /\ r.to = [t EXCEPT !.mem[t.tar] = sent, !.tar = Increment(t.tar)]
    BY <1>2 DEF Target
  <1>3. CASE ~write /\ r.to = [t EXCEPT !.posted = t.mem[t.tar], !.tar = Increment(t.tar)]
    BY <1>3 DEF Target
  <1> QED BY <1>1, <1>2, <1>3 DEF Accepted


\* The shape of a call in progress.
LEMMA ShapeGoesOn ==
  ASSUME EngineInv, NEW reg, NEW write \in BOOLEAN, NEW sent, NEW r,
         Asking(reg, write, sent), Answered(reg, write, sent, r), Settled(r.ack)
  PROVE  EngineShape'
  <1>1. remote \in Target /\ phase # "idle" BY DEF EngineInv, EngineShape, Asking
  <1>2. remote' \in Target
    <2>1. CASE driven
      <3>1. /\ reg = "TAR" => sent \in Address
            /\ reg = "DRW" /\ write => sent \in Values
        BY <1>1, EngineRegister DEF EngineInv, EngineShape, Asking, OnWord, EngineOps
      <3> QED BY <1>1, <2>1, <3>1, ReplyTarget, TransportSizes DEF Answered
    <2>2. CASE ~driven BY <1>1, <2>2 DEF Answered, LineReset, Target
    <2> QED BY <2>1, <2>2
  <1>3. driven' \in BOOLEAN /\ calm' \in BOOLEAN /\ stuck' \in BOOLEAN
    BY DEF Answered, EngineInv, EngineShape
  <1>4. 0 \in 0 .. Retries - 1 /\ Retries \in Nat /\ 0 \in Address /\ 0 \in Values
    BY TransportSizes, EngineSizes
       DEF TransportAssumption, PortAssumption, Address, Engine!EngineAssumption
  <1>5. ASSUME Retried \/ Collecting PROVE EngineShape'
    <2>1. /\ UNCHANGED <<order, at, result, expired>> /\ attempts' \in 0 .. Retries - 1
          /\ phase' \in {"request", "collect"}
      BY <1>4, <1>5 DEF Retried, Collecting, EngineInv, EngineShape, Asking
    <2> QED BY <1>1, <1>2, <1>3, <2>1 DEF EngineInv, EngineShape
  <1>6. ASSUME NEW ok \in BOOLEAN, Engine!TransferDone(ok), expired' \in BOOLEAN PROVE EngineShape'
    <2>1. CASE GoingOn
      <3>1. Steps(order.op) \in Nat BY DEF Steps
      <3>2. at' \in 1 .. Steps(order.op) BY <2>1, <3>1 DEF GoingOn, EngineInv, EngineShape
      <3> QED BY <1>1, <1>2, <1>3, <1>4, <1>6, <2>1, <3>2 DEF GoingOn, EngineInv, EngineShape
    <2>2. CASE Returning(IF ok THEN remote.posted ELSE 0)
      <3>1. result' \in Values BY <1>1, <1>4, <2>2 DEF Returning, EngineInv, EngineShape, Target
      <3>2. order' = [op |-> "none", at |-> 0, value |-> 0] /\ at' = 1 /\ attempts' = 0 /\ phase' = "idle"
        BY <2>2 DEF Returning, Engine!NoCall, Engine!Call
      <3>3. order' \in [op: EngineOps, at: Address, value: Values] /\ order' = Engine!NoCall'
        BY <1>4, <3>2 DEF EngineOps, Engine!NoCall, Engine!Call
      <3>4. at' \in 1 .. Steps(order'.op) BY <3>2 DEF Steps
      <3> QED BY <1>2, <1>3, <1>4, <1>6, <3>1, <3>2, <3>3, <3>4 DEF EngineShape
    <2> QED BY <1>1, <1>6, <2>1, <2>2, TransferOver DEF EngineInv
  <1>7. CASE Over(r.ack)
    <2>1. expired' \in BOOLEAN BY <1>7 DEF Over, EngineInv, EngineShape
    <2> QED BY <1>6, <1>7, <2>1 DEF Over
  <1> QED BY <1>5, <1>7 DEF Settled

\* A word, when its request has got through.
LEMMA WordGoesOn ==
  ASSUME EngineInv, OnWord, NEW reg, NEW write \in BOOLEAN, NEW sent, NEW r,
         Asking(reg, write, sent), Answered(reg, write, sent, r), Settled(r.ack)
  PROVE  Aimed' /\ WordStep
  <1> DEFINE Through == driven /\ ~remote.deaf /\ remote.sticky = {}
             AtWord == remote.tar = order.at
  <1>1. /\ remote \in Target /\ phase \in {"request", "collect"}
        /\ order.op \in {"read", "write"} /\ at \in {1, 2} /\ Engine!Completed
        /\ Steps(order.op) = 2 /\ remote' = r.to
    BY EngineRegister DEF EngineInv, EngineShape, OnWord, Asking, Answered, Steps
  <1>2. ~expired /\ Through =>
          /\ (at = 1 /\ phase = "collect") \/ (at = 2 /\ phase = "request") => AtWord
          /\ at = 2 /\ phase = "collect" /\ order.op = "read" =>
               remote.posted = remote.mem[order.at]
    BY DEF EngineInv, Aimed, OnWord
  <1>3. ~driven => ~driven' /\ remote'.mem = remote.mem /\ r.ack = "invalid"
    BY <1>1 DEF Answered, LineReset, Target
  <1>4. driven' => driven /\ r.ack # "invalid" /\ r \in Replies(remote, reg, write, sent)
    BY DEF Answered, EngineInv, EngineShape
  <1>5. r.ack = "wait" => UNCHANGED remote \/ ~driven
    BY <1>1, Reply DEF Answered
  <1>6. UNCHANGED <<order, at>> /\ phase' # "idle" => OnWord' BY DEF OnWord
  <1>7. r.ack = "ok" => driven /\ r \in Replies(remote, reg, write, sent)
    BY <1>3 DEF Answered
  <1>8. r.ack # "ok" => remote'.mem = remote.mem
    BY <1>1, <1>3, Reply DEF Answered
  <1>9. phase = "collect" => reg = "RDBUFF" /\ ~write BY DEF Asking
  <1>10. phase = "collect" /\ driven' => remote' = remote
    BY <1>1, <1>4, <1>9, Collected
  <1> HIDE DEF Through, AtWord
  <1>11. CASE r.ack = "wait" /\ Retried
    <2>1. UNCHANGED <<order, phase, at, expired, remote, driven>>
      BY <1>3, <1>5, <1>11 DEF Retried, Answered, EngineInv, EngineShape
    <2>2. phase' # "idle" BY <1>1, <2>1
    <2>3. WordStep BY <2>1, <2>2 DEF WordStep
    <2>4. Aimed' BY <2>1, <1>2 DEF Aimed, OnWord, Through, AtWord
    <2> QED BY <2>3, <2>4
  <1>12. CASE r.ack = "ok" /\ Collecting
    <2>1. /\ phase = "request" /\ phase' = "collect" /\ UNCHANGED <<order, at, expired>>
          /\ reg = Engine!Reg /\ write = Engine!IsWrite /\ sent = Engine!Outgoing
      BY <1>12 DEF Collecting, Asking
    <2>2. /\ r.to \in Accepted(remote, reg, write, sent) \/ (write /\ r.to = Failed(remote, "wdata"))
          /\ reg \notin {"IDCODE", "STATUS", "ABORT"} => ~remote.deaf /\ remote.sticky = {}
      BY <1>1, <1>7, <1>12, Reply
    <2>3. CASE at = 1
      <3>1. reg = "TAR" /\ write /\ sent = order.at
        BY <1>1, <2>1, <2>3, EngineRegister DEF EngineInv
      <3>2. \/ remote' = [remote EXCEPT !.tar = order.at]
            \/ remote' = [remote EXCEPT !.sticky = @ \cup {"wdata"}]
        BY <1>1, <2>2, <3>1 DEF Accepted, Failed
      <3>3. /\ remote'.mem = remote.mem
            /\ remote'.sticky = {} => remote'.tar = order.at
        BY <1>1, <3>2 DEF Target
      <3> QED BY <2>1, <2>3, <3>3 DEF Aimed, WordStep
    <2>4. CASE at = 2
      <3>1. reg = "DRW" /\ (write <=> order.op = "write") /\ sent = order.value
        BY <1>1, <2>1, <2>4, EngineRegister DEF EngineInv
      <3>2. ~expired => AtWord
        BY <1>2, <1>7, <1>12, <2>1, <2>2, <2>4, <3>1 DEF Through
      <3>3. /\ remote'.mem # remote.mem =>
                 write /\ remote'.mem = [remote.mem EXCEPT ![remote.tar] = sent]
            /\ ~write => /\ remote'.mem = remote.mem
                         /\ remote'.sticky = {} => remote'.posted = remote.mem[remote.tar]
        BY <1>1, <2>2, <3>1, AcceptedWord
      <3>4. WordStep BY <2>1, <3>1, <3>2, <3>3 DEF WordStep, AtWord
      <3>5. Aimed' BY <2>1, <2>4, <3>1, <3>2, <3>3 DEF Aimed, AtWord
      <3> QED BY <3>4, <3>5
    <2> QED BY <1>1, <2>3, <2>4
  <1>13. CASE r.ack = "ok" /\ Over("ok")
    <2>1. phase = "collect" /\ Engine!TransferDone(TRUE) /\ UNCHANGED expired
      BY <1>1, <1>13 DEF Over
    <2>2. driven' /\ remote' = remote /\ driven BY <1>7, <1>10, <1>13, <2>1 DEF Answered
    <2>3. Through
      <3>1. reg \notin {"IDCODE", "STATUS", "ABORT"} => ~remote.deaf /\ remote.sticky = {}
        BY <1>1, <1>7, <1>13, Reply
      <3> QED BY <1>9, <2>1, <2>2, <3>1 DEF Through
    <2>4. CASE GoingOn
      <3>1. at = 1 /\ at' = 2 /\ phase' = "request" /\ order' = order
        BY <1>1, <2>4 DEF GoingOn
      <3> QED BY <1>2, <2>1, <2>2, <2>3, <3>1 DEF Aimed, WordStep, AtWord
    <2>5. CASE Returning(remote.posted) /\ at = 2
      <3>1. phase' = "idle" /\ (order.op = "read" => result' = remote.posted)
        BY <2>5 DEF Returning
      <3> QED BY <1>2, <2>1, <2>2, <2>3, <2>5, <3>1 DEF Aimed, WordStep, OnWord
    <2> QED BY <1>1, <2>1, <2>4, <2>5, TransferOver DEF EngineInv
  <1>14. CASE r.ack # "ok" /\ Over(r.ack)
    <2>1. /\ Engine!TransferDone(FALSE) /\ (expired \/ r.ack = "wait" => expired')
      BY <1>14 DEF Over
    <2>2. CASE Returning(0)
      <3>1. phase' = "idle" /\ (order.op = "read" => result' = 0)
        BY <2>2 DEF Returning
      <3> QED BY <1>8, <1>14, <3>1 DEF Aimed, WordStep, OnWord
    <2>3. CASE GoingOn /\ order.op # "read"
      <3>1. at = 1 /\ at' = 2 /\ phase' = "request" /\ order' = order
        BY <1>1, <2>3 DEF GoingOn
      <3>2. WordStep BY <1>8, <1>14, <3>1 DEF WordStep
      <3>3. SUFFICES ASSUME ~expired', driven', ~remote'.deaf, remote'.sticky = {}
                     PROVE  remote'.tar = order.at
        BY <3>1, <3>2 DEF Aimed
      <3>4. r.ack \notin {"ok", "wait", "invalid"} /\ driven BY <1>4, <1>14, <2>1, <3>3
      <3>5. CASE phase = "request"
        <4>1. write BY <1>1, <3>1, <3>5, EngineRegister DEF EngineInv, Asking
        <4> QED BY <1>1, <1>4, <3>3, <3>4, <4>1, Refused
      <3>6. CASE phase = "collect"
        BY <1>2, <1>10, <2>1, <3>1, <3>3, <3>4, <3>6 DEF Through, AtWord
      <3> QED BY <1>1, <3>5, <3>6
    <2> QED BY <1>1, <2>1, <2>2, <2>3, TransferOver DEF EngineInv
  <1> QED BY <1>11, <1>12, <1>13, <1>14 DEF Settled, Over

\* A clean exchange with a port that hears and has no parity error pending.
LEMMA CalmAnswer ==
  ASSUME NEW t \in Target, ~t.deaf, "wdata" \notin t.sticky,
         NEW reg \in {"IDCODE", "ABORT", "SELECT", "CTRLSTAT", "CSW", "RDBUFF"},
         NEW write \in BOOLEAN, NEW sent, NEW r \in Clean(t, reg, write, sent)
  PROVE  /\ r.ack # "invalid" /\ ~r.to.deaf /\ "wdata" \notin r.to.sticky
         /\ reg = "ABORT" => r.ack = "ok" /\ r.to.sticky = t.sticky \ sent
         /\ \/ r.to.sticky \subseteq t.sticky
            \/ r.ack = "fault" /\ reg = "CSW" /\ ~r.to.power
  <1>1. PICK a \in Answers(t, reg) :
          r \in (CASE a = "none" -> {[ack |-> "invalid", to |-> t]}
                   [] a = "ok" -> {[ack |-> "ok", to |-> n] : n \in Accepted(t, reg, write, sent)}
                   [] a = "refused" -> {[ack |-> "fault", to |-> Failed(t, "access")]}
                   [] OTHER -> {[ack |-> a, to |-> t]})
    BY DEF Clean
  <1>2. /\ a \in {"ok", "refused", "wait", "fault"}
        /\ a = "refused" => reg = "CSW" /\ ~t.power
        /\ reg = "ABORT" => a = "ok"
    BY DEF Answers, AccessPort
  <1>3. CASE a = "ok"
    <2>1. PICK n \in Accepted(t, reg, write, sent) : r = [ack |-> "ok", to |-> n] BY <1>1, <1>3
    <2>2. CASE reg = "ABORT" BY <2>1, <2>2 DEF Accepted, Target
    <2>3. CASE reg = "CTRLSTAT" BY <2>1, <2>3 DEF Accepted, Target
    <2>4. CASE reg \notin {"ABORT", "CTRLSTAT"} BY <2>1, <2>4 DEF Accepted
    <2> QED BY <2>2, <2>3, <2>4
  <1>4. CASE a = "refused"
    <2>1. r = [ack |-> "fault", to |-> Failed(t, "access")] BY <1>1, <1>4
    <2> QED BY <1>2, <1>4, <2>1 DEF Failed, Target
  <1>5. CASE a \in {"wait", "fault"}
    <2>1. r = [ack |-> a, to |-> t] BY <1>1, <1>5
    <2> QED BY <1>2, <1>5, <2>1
  <1> QED BY <1>2, <1>3, <1>4, <1>5

\* A request of a call that sets the session up or reads the identity.
LEMMA SetUpGoesOn ==
  ASSUME EngineInv, phase # "idle", ~OnWord, NEW reg, NEW write \in BOOLEAN, NEW sent, NEW r,
         Asking(reg, write, sent), Answered(reg, write, sent, r), Settled(r.ack)
  PROVE  Opening' /\ OpenStep
  <1>1. /\ remote \in Target /\ phase \in {"request", "collect"}
        /\ order.op \in {"open", "idcode"} /\ remote' = r.to /\ stuck' = stuck
    BY DEF EngineInv, EngineShape, EngineOps, OnWord, Asking, Answered
  <1>2. CASE order.op = "idcode"
    <2>1. order' = order \/ phase' = "idle"
      BY <1>1, TransferOver DEF Settled, Retried, Collecting, Over, EngineInv, GoingOn, Returning
    <2> QED BY <1>2, <2>1 DEF Opening, OpenStep
  <1>3. CASE order.op = "open" /\ ~(calm' /\ ~stuck) BY <1>1, <1>3 DEF Opening, OpenStep
  <1>4. CASE order.op = "open" /\ calm' /\ ~stuck
    <2>1. /\ driven /\ ~remote.deaf /\ "wdata" \notin remote.sticky
          /\ at >= 3 \/ (at = 2 /\ phase = "collect") => remote.sticky = {}
          /\ r \in Clean(remote, reg, write, sent)
      BY <1>1, <1>4 DEF EngineInv, EngineShape, Opening, Answered
    <2>2. /\ at \in 1 .. 5 /\ Steps(order.op) = 5
          /\ phase = "request" =>
               /\ reg \in {"IDCODE", "ABORT", "SELECT", "CTRLSTAT", "CSW"}
               /\ at = 1 => ~Engine!Completed
               /\ at = 2 => reg = "ABORT" /\ sent = {"access"} /\ Engine!Completed
               /\ at = 5 <=> reg = "CSW"
          /\ phase = "collect" => reg = "RDBUFF"
      BY <1>4, EngineRegister DEF EngineInv, EngineShape, Steps, Asking, Engine!Outgoing, Engine!AbortFlags
    <2>3. /\ r.ack # "invalid" /\ ~r.to.deaf /\ "wdata" \notin r.to.sticky
          /\ reg = "ABORT" => r.ack = "ok" /\ r.to.sticky = remote.sticky \ sent
          /\ \/ r.to.sticky \subseteq remote.sticky
             \/ r.ack = "fault" /\ reg = "CSW" /\ ~r.to.power
      BY <1>1, <2>1, <2>2, CalmAnswer
    <2>4. driven' BY <2>1, <2>3 DEF Answered
    <2>5. r.ack = "wait" => r.to = remote BY <1>1, <2>1, CleanReply
    <2>6. remote.sticky \subseteq {"access", "wdata"} BY <1>1 DEF Target, Flags
    <2>7. CASE r.ack = "wait" /\ Retried
      <3>1. UNCHANGED <<order, phase, at, remote>> BY <1>1, <2>5, <2>7 DEF Retried
      <3> QED BY <1>1, <2>1, <2>4, <3>1 DEF Opening, OpenStep
    <2>8. CASE r.ack = "ok" /\ Collecting
      <3>1. phase = "request" /\ phase' = "collect" /\ UNCHANGED <<order, at>> /\ at # 1
        BY <2>2, <2>8 DEF Collecting
      <3>2. remote'.sticky = {}
        <4>1. CASE at = 2 BY <1>1, <2>1, <2>2, <2>3, <2>6, <3>1, <4>1
        <4>2. CASE at >= 3 BY <1>1, <2>1, <2>3, <2>8, <4>2
        <4> QED BY <2>2, <3>1, <4>1, <4>2
      <3> QED BY <1>1, <2>3, <2>4, <3>1, <3>2 DEF Opening, OpenStep
    <2>9. CASE Over(r.ack)
      <3>1. PICK ok \in BOOLEAN : Engine!TransferDone(ok) BY <2>9 DEF Over
      <3>2. at >= 2 => remote.sticky = {}
        <4>1. ~(at = 2 /\ phase = "request") BY <2>2, <2>3, <2>9 DEF Over
        <4> QED BY <1>1, <2>1, <2>2, <4>1
      <3>3. CASE GoingOn
        <4>1. at < 5 /\ at' = at + 1 /\ phase' = "request" /\ order' = order
          BY <2>2, <3>3 DEF GoingOn
        <4>2. reg # "CSW" BY <1>1, <2>2, <4>1
        <4>3. at' >= 3 => remote'.sticky = {} BY <1>1, <2>2, <2>3, <3>2, <4>1, <4>2
        <4> QED BY <1>1, <2>2, <2>3, <2>4, <4>1, <4>3 DEF Opening, OpenStep
      <3>4. CASE phase' = "idle" /\ at = 5
        BY <1>1, <2>3, <2>4, <3>2, <3>4 DEF Opening, OpenStep
      <3> QED BY <1>1, <1>4, <2>2, <3>1, <3>3, <3>4, TransferOver DEF EngineInv, Returning
    <2> QED BY <2>7, <2>8, <2>9 DEF Settled
  <1> QED BY <1>1, <1>2, <1>3, <1>4

\* A call goes on until it returns.
LEMMA CallKept ==
  ASSUME EngineShape, phase # "idle", NEW ack, Settled(ack)
  PROVE  order' = order \/ phase' = "idle"
  BY TransferOver DEF Settled, Retried, Collecting, Over, GoingOn, Returning

\* Every step of the engine.
LEMMA NextEngine ==
  ASSUME EngineInv, [Engine!Next]_(Engine!vars)
  PROVE  EngineInv' /\ [WordStep /\ OpenStep]_(Engine!vars)
  <1>1. CASE Engine!Open BY <1>1, OpenBegins DEF WordStep, OpenStep
  <1>2. CASE \/ \E a \in Address : Engine!Read(a) \/ \E v \in Values : Engine!Write(a, v)
             \/ Engine!ReadIdcode
    BY <1>2, WordBegins DEF WordStep, OpenStep
  <1>3. CASE Engine!Request \/ Engine!Collect
    <2>1. PICK reg, sent, r : \E write \in BOOLEAN :
            Asking(reg, write, sent) /\ Answered(reg, write, sent, r) /\ Settled(r.ack)
      BY <1>3, EngineExchange DEF EngineInv
    <2>2. PICK write \in BOOLEAN :
            Asking(reg, write, sent) /\ Answered(reg, write, sent, r) /\ Settled(r.ack)
      BY <2>1
    <2>3. EngineShape' BY <2>2, ShapeGoesOn
    <2>4. CASE OnWord
      <3>1. Aimed' /\ WordStep BY <2>2, <2>4, WordGoesOn
      <3>2. order.op # "open" /\ (order' = order \/ phase' = "idle")
        BY <2>2, <2>4, CallKept DEF EngineInv, OnWord
      <3> QED BY <2>3, <3>1, <3>2 DEF EngineInv, Opening, OpenStep
    <2>5. CASE ~OnWord
      <3>1. phase # "idle" /\ remote \in Target /\ order.op \notin {"read", "write"}
        BY <2>2, <2>5 DEF Asking, OnWord, EngineInv, EngineShape
      <3>2. Opening' /\ OpenStep BY <2>2, <2>5, <3>1, SetUpGoesOn
      <3>3. Aimed' BY <2>2, <3>1, CallKept DEF EngineInv, Aimed, OnWord
      <3>4. remote'.mem = remote.mem
        <4>1. CASE driven
          <5>1. r \in Replies(remote, reg, write, sent) /\ remote' = r.to
            BY <2>2, <4>1 DEF Answered
          <5>2. reg # "DRW"
            BY <2>2, <3>1, EngineRegister DEF EngineInv, EngineShape, EngineOps, Asking
          <5>3. CASE r.ack = "ok"
            <6>1. r.to \in Accepted(remote, reg, write, sent) \/ r.to = Failed(remote, "wdata")
              BY <3>1, <5>1, <5>3, Reply
            <6> QED BY <3>1, <5>1, <5>2, <6>1, MemoryKept DEF Failed, Target
          <5>4. CASE r.ack # "ok" BY <3>1, <5>1, <5>4, Reply
          <5> QED BY <5>3, <5>4
        <4>2. CASE ~driven BY <2>2, <3>1, <4>2 DEF Answered, LineReset, Target
        <4> QED BY <4>1, <4>2
      <3> QED BY <2>3, <3>1, <3>2, <3>3, <3>4 DEF EngineInv, WordStep
    <2> QED BY <2>4, <2>5
  <1>4. CASE Engine!PowerLoss
    <2>1. EngineInv' /\ remote'.mem = remote.mem /\ UNCHANGED <<phase, result>>
      BY <1>4, EngineOutage
    <2>2. phase = "idle" => order.op = "none"
      BY DEF EngineInv, EngineShape, Engine!NoCall, Engine!Call
    <2> QED BY <2>1, <2>2 DEF WordStep, OpenStep
  <1>5. CASE UNCHANGED Engine!vars
    <2>1. UNCHANGED <<remote, driven, order, phase, at, attempts, result, expired, calm, stuck>>
      BY <1>5 DEF Engine!vars, Engine!history
    <2>2. EngineShape' BY <2>1 DEF EngineInv, EngineShape, Engine!NoCall, Engine!Call
    <2>3. Aimed' BY <2>1 DEF EngineInv, Aimed, OnWord
    <2>4. Opening' BY <2>1 DEF EngineInv, Opening
    <2> QED BY <1>5, <2>2, <2>3, <2>4 DEF EngineInv
  <1> QED BY <1>1, <1>2, <1>3, <1>4, <1>5, SamePort DEF Engine!Next

LEMMA EngineStarts ==
  ASSUME Engine!Init
  PROVE  EngineInv
  <1>1. /\ remote \in Target /\ driven = FALSE /\ phase = "idle" /\ at = 1 /\ attempts = 0
        /\ result = 0 /\ order = Engine!NoCall /\ expired = FALSE /\ calm = TRUE /\ stuck = FALSE
    BY SamePort DEF Engine!Init
  <1>2. 0 \in 0 .. Retries - 1 /\ 0 \in Address /\ 0 \in Values
    BY TransportSizes, EngineSizes
       DEF TransportAssumption, PortAssumption, Address, Engine!EngineAssumption
  <1>3. order \in [op: EngineOps, at: Address, value: Values] /\ at \in 1 .. Steps(order.op)
    BY <1>1, <1>2 DEF Engine!NoCall, Engine!Call, EngineOps, Steps
  <1> QED BY <1>1, <1>2, <1>3 DEF EngineInv, EngineShape, Aimed, Opening, OnWord

LEMMA EngineTyped ==
  ASSUME EngineInv
  PROVE  Engine!EngineTypeOK
  <1>1. EngineShape /\ attempts \in 0 .. Retries - 1 BY DEF EngineInv, EngineShape
  <1>2. at \in 1 .. Len(Engine!Order)
    <2>1. CASE phase # "idle" BY <1>1, <2>1, EngineRegister DEF EngineShape
    <2>2. CASE phase = "idle"
      <3>1. order.op = "none" BY <1>1, <2>2 DEF EngineShape, Engine!NoCall, Engine!Call
      <3>2. Engine!Order = <<"TAR", "DRW">> BY <3>1 DEF Engine!Order
      <3> QED BY <1>1, <3>1, <3>2 DEF EngineShape, Steps
    <2> QED BY <2>1, <2>2
  <1> QED BY <1>1, <1>2, SamePort DEF EngineShape, EngineOps, Engine!EngineTypeOK

-----------------------------------------------------------------------------
(* The research programmers: pages *)

Cells == Programmer!Cells
Blank == Programmer!Blank

\* What TargetAssumption and the cells come to.
LEMMA Sizes ==
  /\ Pages \in Nat \ {0} /\ PageWords \in Nat \ {0} /\ RowPages \in Nat \ {0}
  /\ Pages * PageWords \in Nat \ {0}
  /\ Cells = 0 .. Pages * PageWords - 1
  /\ \A f \in Files : f \in Seq(SUBSET Bits) /\ Len(f) <= Pages * PageWords
  /\ Pattern \in Seq(SUBSET Bits) /\ Len(Pattern) = PageWords
  /\ \E w \in 1 .. PageWords : Pattern[w] # {}
  /\ TestPage \in 0 .. Pages - 1
  <1>1. Programmer!TargetAssumption BY ProgrammerSizes
  <1>2. Pages \in Nat \ {0} /\ PageWords \in Nat \ {0} BY <1>1 DEF Programmer!TargetAssumption
  <1>3. Pages * PageWords \in Nat \ {0}
    <2>1. Pages >= 0 + 1 BY <1>2
    <2>2. PageWords * Pages >= PageWords * 0 + PageWords BY <1>2, <2>1, Monotone
    <2> QED BY <1>2, <2>2
  <1> QED BY <1>1, <1>3 DEF Programmer!TargetAssumption, Programmer!Word, Cells, Programmer!Cells

\* The words of page p.
LEMMA PageSpan ==
  ASSUME NEW i \in Nat, NEW p \in Nat
  PROVE  i \div PageWords = p <=> p * PageWords <= i /\ i < p * PageWords + PageWords
  <1> DEFINE q == i \div PageWords
  <1>1. q \in Nat /\ i % PageWords \in 0 .. PageWords - 1 /\ i = PageWords * q + (i % PageWords)
    BY Sizes, Division
  <1>2. PageWords \in Nat \ {0} BY Sizes
  <1> HIDE DEF q
  <1>3. q >= p + 1 => PageWords * q >= PageWords * p + PageWords BY <1>1, <1>2, Monotone
  <1>4. p >= q + 1 => PageWords * p >= PageWords * q + PageWords BY <1>1, <1>2, Monotone
  <1>5. PageWords * p = p * PageWords /\ PageWords * p \in Int /\ PageWords * q \in Int
    BY <1>1, <1>2
  <1>6. q = p => p * PageWords <= i /\ i < p * PageWords + PageWords
    BY <1>1, <1>2, <1>5
  <1>7. ASSUME p * PageWords <= i, i < p * PageWords + PageWords PROVE q = p
    BY <1>1, <1>2, <1>3, <1>4, <1>5, <1>7
  <1> QED BY <1>6, <1>7 DEF q

\* Word w of page p.
LEMMA InPage ==
  ASSUME NEW p \in 0 .. Pages - 1, NEW w \in 0 .. PageWords - 1
  PROVE  /\ p * PageWords + w \in Cells
         /\ (p * PageWords + w) \div PageWords = p
         /\ (p * PageWords + w) % PageWords = w
  <1>1. Pages \in Nat \ {0} /\ PageWords \in Nat \ {0} /\ p \in Nat /\ w \in Nat BY Sizes
  <1> DEFINE i == p * PageWords + w
  <1>2. p * PageWords \in Nat /\ i \in Nat
    <2>1. p * PageWords \in Nat BY <1>1
    <2> QED BY <1>1, <2>1
  <1>3. i \div PageWords = p BY <1>1, <1>2, PageSpan
  <1>4. i = PageWords * (i \div PageWords) + (i % PageWords) /\ i % PageWords \in 0 .. PageWords - 1
    BY <1>1, <1>2, Division
  <1>5. i % PageWords = w
    <2>1. PageWords * p = p * PageWords /\ PageWords * p \in Int BY <1>1
    <2> QED BY <1>1, <1>2, <1>3, <1>4, <2>1
  <1>6. i < Pages * PageWords
    <2>1. Pages >= p + 1 BY <1>1
    <2>2. PageWords * Pages >= PageWords * p + PageWords BY <1>1, <2>1, Monotone
    <2>3. PageWords * Pages = Pages * PageWords /\ PageWords * p = p * PageWords BY <1>1
    <2>4. Pages * PageWords \in Int BY <1>1
    <2> QED BY <1>1, <1>2, <2>2, <2>3, <2>4
  <1> QED BY <1>2, <1>3, <1>5, <1>6, Sizes

\* A quotient is no more than what is divided.
LEMMA Quotient ==
  ASSUME NEW a \in Nat, NEW p \in Nat \ {0}
  PROVE  a \div p \in Nat /\ a \div p <= a
  <1> DEFINE q == a \div p
  <1>1. q \in Nat /\ a % p \in Nat /\ a = p * q + (a % p) BY Division
  <1> HIDE DEF q
  <1>2. p * q >= q
    <2>1. p >= 0 + 1 BY SMT
    <2>2. CASE q = 0 BY <2>2
    <2>3. CASE q \in Nat \ {0}
      <3>1. q * p >= q * 0 + q BY <2>1, <2>3, Monotone
      <3>2. q * p = p * q BY <1>1
      <3> QED BY <1>1, <3>1, <3>2
    <2> QED BY <1>1, <2>2, <2>3
  <1>3. p * q \in Int BY <1>1
  <1> QED BY <1>1, <1>2, <1>3 DEF q

\* The pages before p, and p, are those before p + 1.
LEMMA NextPage ==
  ASSUME NEW p \in Nat
  PROVE  p * PageWords \in Nat /\ (p + 1) * PageWords = p * PageWords + PageWords
  BY Sizes

\* Nothing is under way on a chip, or on the one at hand.
Settles(c) == c.was = c.flash
Still == Settles(chip)

\* A reset in the middle of a page leaves each cell between what it was and what
\* it was to be, so nothing happens to a chip on which nothing is under way.
LEMMA ResetEffect ==
  ASSUME NEW c \in Programmer!Chips, NEW f \in Programmer!Torn(c)
  PROVE  /\ Programmer!Reset(c, f) \in Programmer!Chips /\ Programmer!Reset(c, f).flash = f
         /\ Settles(Programmer!Reset(c, f))
         /\ Settles(c) => f = c.flash
  <1>1. Programmer!BlankPage \in [0 .. PageWords - 1 -> Programmer!Word]
    BY DEF Programmer!BlankPage, Programmer!Blank, Programmer!Word
  <1>2. /\ f \in [Cells -> Programmer!Word]
        /\ \A i \in Cells : c.flash[i] \subseteq f[i] /\ f[i] \subseteq c.was[i]
    BY DEF Programmer!Torn, Cells
  <1>3. c.flash \in [Cells -> Programmer!Word] BY DEF Programmer!Chips, Cells
  <1>4. Programmer!Reset(c, f) \in Programmer!Chips /\ Programmer!Reset(c, f).flash = f
    BY <1>1, <1>2 DEF Programmer!Reset, Programmer!Chips, Cells
  <1>5. Settles(Programmer!Reset(c, f)) BY DEF Programmer!Reset, Settles, Programmer!Chips
  <1>6. ASSUME Settles(c) PROVE f = c.flash
    <2>1. \A i \in Cells : f[i] = c.flash[i] BY <1>2, <1>6, Zenon DEF Settles
    <2> QED BY <1>2, <1>3, <2>1
  <1> QED BY <1>4, <1>5, <1>6

\* To wait for what is under way changes nothing else.
LEMMA WaitEffect ==
  ASSUME NEW c \in Programmer!Chips
  PROVE  /\ Programmer!Waited(c) \in Programmer!Chips /\ Programmer!Waited(c).flash = c.flash
         /\ Programmer!Waited(c).manual = c.manual /\ Settles(Programmer!Waited(c))
  BY DEF Programmer!Waited, Settles, Programmer!Chips

\* What a command does to the flash, to the mode and to the flags.
LEMMA Effects ==
  ASSUME NEW c \in Programmer!Chips, NEW p \in 0 .. Pages - 1
  PROVE  /\ Programmer!Automatic(c) \in Programmer!Chips
         /\ Programmer!Automatic(c).flash = c.flash /\ ~Programmer!Automatic(c).manual
         /\ Programmer!Automatic(c).was = c.was
         /\ Programmer!ClearFlags(c) \in Programmer!Chips
         /\ Programmer!ClearFlags(c).flash = c.flash /\ ~Programmer!ClearFlags(c).done
         /\ Programmer!ClearFlags(c).manual = c.manual /\ Programmer!ClearFlags(c).was = c.was
         /\ Programmer!EraseChip(c) \in Programmer!Chips
         /\ Programmer!EraseChip(c).flash = [i \in Cells |-> Blank]
         /\ Programmer!EraseChip(c).manual = c.manual /\ Settles(Programmer!EraseChip(c))
         /\ Programmer!SetAddress(c, p) \in Programmer!Chips
         /\ Programmer!SetAddress(c, p).flash = c.flash
         /\ Programmer!SetAddress(c, p).manual = c.manual
         /\ Programmer!SetAddress(c, p).was = c.was
         /\ Programmer!EraseRow(c) \in Programmer!Chips
         /\ \A i \in Cells : Programmer!EraseRow(c).flash[i] \in {Blank, c.flash[i]}
         /\ Programmer!EraseRow(c).manual = c.manual /\ Settles(Programmer!EraseRow(c))
  <1>2. Blank \in Programmer!Word BY DEF Blank, Programmer!Blank, Programmer!Word
  <1>4. /\ Programmer!Automatic(c) \in Programmer!Chips
        /\ Programmer!Automatic(c).flash = c.flash /\ ~Programmer!Automatic(c).manual
        /\ Programmer!Automatic(c).was = c.was
    BY DEF Programmer!Automatic, Programmer!Chips
  <1>5. /\ Programmer!ClearFlags(c) \in Programmer!Chips
        /\ Programmer!ClearFlags(c).flash = c.flash /\ ~Programmer!ClearFlags(c).done
        /\ Programmer!ClearFlags(c).manual = c.manual /\ Programmer!ClearFlags(c).was = c.was
    BY DEF Programmer!ClearFlags, Programmer!Chips
  <1>6. /\ Programmer!EraseChip(c) \in Programmer!Chips
        /\ Programmer!EraseChip(c).flash = [i \in Cells |-> Blank]
        /\ Programmer!EraseChip(c).manual = c.manual /\ Settles(Programmer!EraseChip(c))
    BY <1>2 DEF Programmer!EraseChip, Settles, Programmer!Chips, Cells, Blank
  <1>7. /\ Programmer!SetAddress(c, p) \in Programmer!Chips
        /\ Programmer!SetAddress(c, p).flash = c.flash
        /\ Programmer!SetAddress(c, p).manual = c.manual
        /\ Programmer!SetAddress(c, p).was = c.was
    <2>1. p \div RowPages \in 0 .. Pages - 1
      <3>1. p \in Nat /\ RowPages \in Nat \ {0} /\ Pages \in Nat BY Sizes
      <3>2. p \div RowPages \in Nat /\ p \div RowPages <= p BY <3>1, Quotient
      <3> QED BY <3>1, <3>2
    <2> QED BY <2>1 DEF Programmer!SetAddress, Programmer!Chips
  <1>8. /\ Programmer!EraseRow(c) \in Programmer!Chips
        /\ \A i \in Cells : Programmer!EraseRow(c).flash[i] \in {Blank, c.flash[i]}
        /\ Programmer!EraseRow(c).manual = c.manual /\ Settles(Programmer!EraseRow(c))
    <2> DEFINE erased == [i \in Cells |-> IF i \div (PageWords * RowPages) = c.row
                                          THEN Blank ELSE c.flash[i]]
    <2>1. c.flash \in [Cells -> Programmer!Word] BY DEF Programmer!Chips, Cells
    <2>2. erased \in [Cells -> Programmer!Word] BY <1>2, <2>1
    <2>3. Programmer!EraseRow(c) = [c EXCEPT !.flash = erased, !.was = erased]
      BY DEF Programmer!EraseRow, Cells, Blank
    <2>4. \A i \in Cells : erased[i] \in {Blank, c.flash[i]} OBVIOUS
    <2> HIDE DEF erased
    <2> QED BY <2>2, <2>3, <2>4 DEF Programmer!Chips, Settles, Cells
  <1> QED BY <1>4, <1>5, <1>6, <1>7, <1>8

\* A word v stored into the page buffer of c, and the last word of a page, which
\* programs it, leave n.
HasStored(c, p, w, v, n) ==
  LET filled == [c.buffer EXCEPT ![w] = v]
  IN  /\ n \in Programmer!Chips /\ n.manual = c.manual
      /\ w < PageWords - 1 => n.flash = c.flash /\ n.was = c.was /\ n.buffer = filled
      /\ ~(w < PageWords - 1) /\ ~c.manual =>
           /\ n.was = c.flash
           /\ \A k \in Cells :
                n.flash[k] = IF k \div PageWords = p THEN c.flash[k] \cap filled[k % PageWords]
                             ELSE c.flash[k]

LEMMA Stored ==
  ASSUME NEW c \in Programmer!Chips, NEW p \in 0 .. Pages - 1, NEW w \in 0 .. PageWords - 1,
         NEW v \in Programmer!Word
  PROVE  HasStored(c, p, w, v, Programmer!Store(c, p * PageWords + w, v))
  <1> DEFINE i == p * PageWords + w
             f == [c EXCEPT !.buffer[w] = v]
             filled == [c.buffer EXCEPT ![w] = v]
             n == Programmer!Store(c, i, v)
  <1>1. i % PageWords = w /\ i \div PageWords = p BY InPage
  <1>2. /\ f \in Programmer!Chips /\ f.flash = c.flash /\ f.was = c.was /\ f.buffer = filled
        /\ f.manual = c.manual /\ filled \in [0 .. PageWords - 1 -> Programmer!Word]
    BY DEF Programmer!Chips
  <1>3. n = IF ~c.manual /\ w = PageWords - 1 THEN Programmer!Commit(f, p) ELSE f
    BY <1>1 DEF Programmer!Store
  <1> HIDE DEF f, i, filled, n
  <1> SUFFICES /\ n \in Programmer!Chips /\ n.manual = c.manual
               /\ w < PageWords - 1 => n.flash = c.flash /\ n.was = c.was /\ n.buffer = filled
               /\ ~(w < PageWords - 1) /\ ~c.manual =>
                    /\ n.was = c.flash
                    /\ \A k \in Cells :
                         n.flash[k] = IF k \div PageWords = p
                                      THEN c.flash[k] \cap filled[k % PageWords] ELSE c.flash[k]
    BY DEF HasStored, n, i, filled
  <1>4. CASE ~c.manual /\ w = PageWords - 1
    <2>1. Programmer!BlankPage \in [0 .. PageWords - 1 -> Programmer!Word]
      BY DEF Programmer!BlankPage, Programmer!Blank, Programmer!Word
    <2>2. n = [f EXCEPT !.buffer = Programmer!BlankPage, !.was = f.flash,
                        !.flash = [k \in Cells |-> IF k \div PageWords = p
                                     THEN f.flash[k] \cap f.buffer[k % PageWords] ELSE f.flash[k]]]
      BY <1>2, <1>3, <1>4 DEF Programmer!Commit, Programmer!Chips, Cells
    <2>3. \A k \in Cells : f.flash[k] \in Programmer!Word BY <1>2 DEF Programmer!Chips, Cells
    <2>4. [k \in Cells |-> IF k \div PageWords = p
             THEN f.flash[k] \cap f.buffer[k % PageWords] ELSE f.flash[k]] \in [Cells -> Programmer!Word]
      BY <2>3 DEF Programmer!Word
    <2>5. n \in Programmer!Chips /\ n.manual = f.manual
      BY <1>2, <2>1, <2>2, <2>4 DEF Programmer!Chips, Cells
    <2>6. n.flash = [k \in Cells |-> IF k \div PageWords = p
                       THEN f.flash[k] \cap f.buffer[k % PageWords] ELSE f.flash[k]]
          /\ n.was = c.flash
      BY <1>2, <2>2 DEF Programmer!Chips
    <2>7. \A k \in Cells : n.flash[k] = IF k \div PageWords = p
                                        THEN c.flash[k] \cap filled[k % PageWords] ELSE c.flash[k]
      BY <1>2, <2>6
    <2>8. n.manual = c.manual /\ ~(w < PageWords - 1) BY <1>2, <1>4, <2>5, Sizes
    <2> QED BY <2>5, <2>6, <2>7, <2>8
  <1>5. CASE ~(~c.manual /\ w = PageWords - 1) BY <1>2, <1>3, <1>5, Sizes
  <1> QED BY <1>4, <1>5

-----------------------------------------------------------------------------
(* The research programmers: runs *)

Commands == {"none", "erase", "read", "write", "verify", "test"}
Stages == {"idle", "reset", "automatic", "id", "clear", "erase", "erasing",
           "row", "row erase", "row wait", "address", "unlock", "store", "load", "deselect"}

RunShape ==
  /\ chip \in Programmer!Chips /\ up \in BOOLEAN /\ stage \in Stages
  /\ page \in 0 .. Pages - 1 /\ word \in 0 .. PageWords - 1
  /\ data \in Seq(Programmer!Word) /\ exit \in {0, 1}
  /\ before \in [Cells -> Programmer!Word]
  /\ run.cmd \in Commands /\ run.file \in Seq(Programmer!Word)
  /\ run.cmd \in {"write", "verify"} => Len(run.file) <= Pages * PageWords
  /\ run.cmd = "test" => run.file = Pattern
  /\ run.cmd = "none" => stage = "idle"

\* Where the commands go, and how far the loops over pages and words have come.
Course ==
  /\ stage \in {"reset", "automatic", "id", "clear", "erase", "erasing"} => page = 0 /\ data = <<>>
  /\ stage \notin {"idle", "store", "load", "deselect"} => word = 0
  /\ stage = "id" => run.cmd # "test"
  /\ stage \in {"clear", "erase", "erasing"} => run.cmd \in {"erase", "test"}
  /\ stage \in {"row", "row erase", "row wait"} => run.cmd = "test"
  /\ stage \in {"address", "unlock", "store"} =>
       run.cmd = "test" \/ (run.cmd = "write" /\ page * PageWords < Len(run.file))
  /\ stage \in {"row", "row erase", "row wait", "address", "unlock", "store"} => data = <<>>
  /\ stage = "load" =>
       \/ run.cmd = "test" /\ Len(data) = word
       \/ /\ run.cmd \in {"read", "verify"} /\ Len(data) = page * PageWords + word
          /\ page * PageWords < Programmer!Wanted
  /\ run.cmd = "test" /\ stage \in {"row", "row erase", "row wait", "address", "unlock",
                                    "store", "load"} => page = TestPage

\* As long as the session gets through, the automatic mode it set is on, and the
\* buffer holds the words of the page that have been stored.
Buffered ==
  up =>
    /\ stage \notin {"idle", "reset", "automatic"} => ~chip.manual
    /\ stage = "store" =>
         \A w \in 0 .. word - 1 : chip.buffer[w] = Programmer!PageWord(page, w)

\* A write: the words below n are those of the file, the others as they were.
Wanting(i) == IF i < Len(run.file) THEN before[i] \cap run.file[i + 1] ELSE before[i]
WrittenBelow(n) == \A i \in Cells : chip.flash[i] = IF i < n THEN Wanting(i) ELSE before[i]

WriteSoFar ==
  run.cmd = "write" =>
    /\ stage \in {"reset", "automatic", "id"} => chip.flash = before
    /\ stage = "store" \/ (up /\ stage \in {"address", "unlock"}) =>
         WrittenBelow(page * PageWords)
    /\ stage = "deselect" =>
         IF run.file = <<>> THEN chip.flash = before
         ELSE /\ (page + 1) * PageWords >= Len(run.file)
              /\ WrittenBelow(page * PageWords) \/ WrittenBelow((page + 1) * PageWords)

\* A verify: what was read is in the flash, or 0, and is the file in the end.
VerifySoFar ==
  run.cmd = "verify" =>
    /\ stage \in {"load", "deselect"} =>
         \A j \in 1 .. Len(data) : data[j] \in {{}, chip.flash[j - 1]}
    /\ stage = "deselect" => \A j \in 1 .. Len(run.file) : j <= Len(data) /\ data[j] = run.file[j]

\* A test: the wait for the end of the erase lets no dead session past, and one
\* that dies before the pattern is written reads nothing but 0.
Erased == \A i \in Cells : chip.flash[i] = Blank
Tested == \A i \in Cells : chip.flash[i] = IF i \div PageWords = TestPage
                                           THEN Pattern[(i % PageWords) + 1] ELSE Blank
TestSoFar ==
  run.cmd = "test" =>
    /\ stage = "erase" /\ up => ~chip.done
    /\ stage = "erasing" /\ up => Erased
    /\ stage \in {"row", "row erase", "row wait", "address", "unlock", "store"} => Erased
    /\ stage \in {"load", "deselect"} =>
         Tested \/ (~up /\ \A j \in 1 .. Len(data) : data[j] = {})
    /\ stage = "deselect" => Len(data) >= PageWords

\* What may be under way: the last page of a write, and that of a test until a
\* word of it has been read.
UnderWay ==
  /\ stage \notin {"idle", "address", "unlock", "load", "deselect"} => Still
  /\ run.cmd \in {"erase", "read", "verify"} /\ stage # "idle" => Still
  /\ run.cmd = "write" /\ stage = "deselect" =>
       \A i \in Cells : IF i \div PageWords = page /\ run.file # <<>>
                        THEN chip.was[i] \subseteq before[i] ELSE chip.was[i] = chip.flash[i]
  /\ run.cmd = "test" /\ stage \in {"load", "deselect"} =>
       Still \/ \A j \in 1 .. Len(data) : data[j] = {}

RunInv ==
  RunShape /\ Course /\ Buffered /\ WriteSoFar /\ VerifySoFar /\ TestSoFar /\ UnderWay

\* A run that begins.
LEMMA RunBegins ==
  ASSUME RunInv, Programmer!Begin
  PROVE  RunInv'
  <1>1. /\ run' \in [cmd: {"erase", "read"}, file: {<<>>}]
                    \cup [cmd: {"write", "verify"}, file: Files]
                    \cup [cmd: {"test"}, file: {Pattern}]
        /\ up' \in BOOLEAN /\ stage' = "reset" /\ page' = 0 /\ word' = 0 /\ data' = <<>>
        /\ before' = chip.flash /\ chip' = Programmer!Waited(chip) /\ UNCHANGED exit
    BY DEF Programmer!Begin
  <1>2. /\ run'.cmd \in Commands \ {"none"} /\ run'.file \in Seq(Programmer!Word)
        /\ run'.cmd \in {"write", "verify"} => Len(run'.file) <= Pages * PageWords
        /\ run'.cmd = "test" => run'.file = Pattern
    <2>1. Programmer!Word = SUBSET Bits BY DEF Programmer!Word
    <2>2. <<>> \in Seq(SUBSET Bits) OBVIOUS
    <2> QED BY <1>1, <2>1, <2>2, Sizes DEF Commands
  <1>3. 0 \in 0 .. Pages - 1 /\ 0 \in 0 .. PageWords - 1 BY Sizes
  <1>4. chip.flash \in [Cells -> Programmer!Word]
    BY DEF RunInv, RunShape, Programmer!Chips, Cells
  <1>5. <<>> \in Seq(Programmer!Word) OBVIOUS
  <1>6. chip' \in Programmer!Chips /\ chip'.flash = chip.flash /\ Still'
    <2>1. chip \in Programmer!Chips BY DEF RunInv, RunShape
    <2> QED BY <1>1, <2>1, WaitEffect DEF Still, Settles
  <1>7. RunShape'
    BY <1>1, <1>2, <1>3, <1>4, <1>5, <1>6 DEF RunInv, RunShape, Stages
  <1> QED BY <1>1, <1>6, <1>7
          DEF RunInv, Course, Buffered, WriteSoFar, VerifySoFar, TestSoFar, UnderWay

\* A run that ends: nothing is claimed of the time between runs.
LEMMA RunEnds ==
  ASSUME RunInv, chip' \in Programmer!Chips, up' \in BOOLEAN, NEW code \in {0, 1},
         Programmer!Exit(code)
  PROVE  RunInv'
  <1>1. stage' = "idle" /\ exit' = code /\ UNCHANGED <<run, page, word, data, before>>
    BY DEF Programmer!Exit
  <1>2. RunShape' BY <1>1 DEF RunInv, RunShape, Stages
  <1> QED BY <1>1, <1>2
          DEF RunInv, Course, Buffered, WriteSoFar, VerifySoFar, TestSoFar, UnderWay

\* A command that gets through or does not.
LEMMA Commanded ==
  ASSUME RunInv, NEW effect, Programmer!Put(effect)
  PROVE  /\ up' \in BOOLEAN /\ (up' => up /\ chip' = effect)
         /\ chip' \in {chip, effect}
  BY DEF Programmer!Put, Programmer!PutOneOf, RunInv, RunShape

\* The reset of the controller, likewise.
LEMMA ResetCommanded ==
  ASSUME RunInv, Programmer!PutReset
  PROVE  /\ up' \in BOOLEAN /\ chip' \in Programmer!Chips
         /\ chip' = chip \/ \E f \in Programmer!Torn(chip) : chip' = Programmer!Reset(chip, f)
         /\ Still => chip'.flash = chip.flash /\ Still'
  <1>1. chip \in Programmer!Chips /\ up \in BOOLEAN BY DEF RunInv, RunShape
  <1>2. /\ up' \in BOOLEAN
        /\ chip' = chip \/ \E f \in Programmer!Torn(chip) : chip' = Programmer!Reset(chip, f)
    BY <1>1 DEF Programmer!PutReset, Programmer!PutOneOf
  <1>3. CASE chip' = chip BY <1>1, <1>2, <1>3 DEF Still, Settles
  <1>4. ASSUME NEW f \in Programmer!Torn(chip), chip' = Programmer!Reset(chip, f)
        PROVE  /\ chip' \in Programmer!Chips
               /\ Still => chip'.flash = chip.flash /\ Still'
    BY <1>1, <1>4, ResetEffect DEF Still, Settles
  <1> QED BY <1>2, <1>3, <1>4

\* A word asked for, which is the one there or 0.
LEMMA WordAsked ==
  ASSUME RunInv, NEW got, NEW value, NEW zero, NEW after, Programmer!Get(got, value, zero, after)
  PROVE  /\ up' \in BOOLEAN /\ (up' => up)
         /\ (up /\ got = value /\ chip' = after) \/ (got = zero /\ chip' = chip)
  <1>1. up \in BOOLEAN BY DEF RunInv, RunShape
  <1>2. CASE up /\ UNCHANGED up /\ got = value /\ chip' = after BY <1>1, <1>2, Zenon
  <1>3. CASE up' \in {up, FALSE} /\ got = zero /\ UNCHANGED chip
    <2>1. up' \in BOOLEAN /\ (up' => up)
      <3>1. up' = up \/ up' = FALSE BY <1>3
      <3>2. CASE up' = up BY <1>1, <3>2, Zenon
      <3>3. CASE up' = FALSE BY <3>3, Zenon
      <3> QED BY <3>1, <3>2, <3>3
    <2> QED BY <1>3, <2>1, Zenon
  <1> QED BY <1>2, <1>3, Zenon DEF Programmer!Get

\* READY polled: no dead session gets past it, and nothing is under way after it.
LEMMA Polled ==
  ASSUME RunInv, NEW label, Programmer!Ready(label)
  PROVE  /\ up' \in BOOLEAN /\ (up' => up) /\ chip' \in Programmer!Chips
         /\ chip'.flash = chip.flash /\ chip'.manual = chip.manual /\ (Still => Still')
         /\ UNCHANGED <<run, page, word, data, exit, before>>
         /\ (stage' = stage) \/ (stage' = label /\ up /\ Still')
  <1>1. chip \in Programmer!Chips BY DEF RunInv, RunShape
  <1>2. PICK ready \in BOOLEAN :
          /\ Programmer!Get(ready, TRUE, FALSE, Programmer!Waited(chip))
          /\ Programmer!Goto(IF ready THEN label ELSE stage)
    BY DEF Programmer!Ready
  <1>3. /\ up' \in BOOLEAN /\ (up' => up)
        /\ (up /\ ready = TRUE /\ chip' = Programmer!Waited(chip)) \/ (ready = FALSE /\ chip' = chip)
    BY <1>2, WordAsked
  <1>4. /\ UNCHANGED <<run, page, word, data, exit, before>>
        /\ stage' = IF ready THEN label ELSE stage
    BY <1>2 DEF Programmer!Goto
  <1>5. CASE ready = TRUE
    <2>1. chip' = Programmer!Waited(chip) /\ up BY <1>3, <1>5
    <2> QED BY <1>1, <1>3, <1>4, <1>5, <2>1, WaitEffect DEF Still, Settles
  <1>6. CASE ready = FALSE
    <2>1. chip' = chip BY <1>3, <1>6
    <2> QED BY <1>1, <1>3, <1>4, <1>6, <2>1 DEF Still, Settles
  <1> QED BY <1>5, <1>6

\* A step of a run keeps the shape.
LEMMA ShapeKept ==
  ASSUME RunInv, chip' \in Programmer!Chips, up' \in BOOLEAN, stage # "idle", stage' \in Stages,
         UNCHANGED <<run, exit, before>>, data' \in Seq(Programmer!Word),
         page' \in 0 .. Pages - 1, word' \in 0 .. PageWords - 1
  PROVE  RunShape'
  BY DEF RunInv, RunShape

LEMMA Selecting ==
  ASSUME RunInv, Programmer!SelectReset \/ Programmer!SelectAutomatic
  PROVE  RunInv'
  <1>1. chip \in Programmer!Chips /\ page \in 0 .. Pages - 1 BY DEF RunInv, RunShape
  <1>2. CASE Programmer!SelectReset
    <2>1. /\ stage = "reset" /\ stage' = "automatic" /\ UNCHANGED <<run, page, word, data, exit, before>>
          /\ Programmer!PutReset
      BY <1>2 DEF Programmer!SelectReset, Programmer!Goto
    <2>2. /\ up' \in BOOLEAN /\ chip' \in Programmer!Chips /\ chip'.flash = chip.flash
          /\ Still'
      <3>1. Still BY <2>1 DEF RunInv, UnderWay
      <3> QED BY <2>1, <3>1, ResetCommanded
    <2>3. RunShape' BY <2>1, <2>2, ShapeKept DEF RunInv, RunShape, Stages
    <2> QED BY <2>1, <2>2, <2>3
            DEF RunInv, Course, Buffered, WriteSoFar, VerifySoFar, TestSoFar, UnderWay
  <1>3. CASE Programmer!SelectAutomatic
    <2>1. /\ stage = "automatic" /\ stage' = (IF run.cmd = "test" THEN "clear" ELSE "id")
          /\ UNCHANGED <<run, page, word, data, exit, before>>
          /\ Programmer!Put(Programmer!Automatic(chip))
      BY <1>3 DEF Programmer!SelectAutomatic, Programmer!Goto
    <2>2. /\ up' \in BOOLEAN /\ chip' \in Programmer!Chips /\ chip'.flash = chip.flash
          /\ up' => ~chip'.manual
          /\ chip'.was = chip.was
      BY <1>1, <2>1, Commanded, Effects
    <2>3. RunShape' BY <2>1, <2>2, ShapeKept DEF RunInv, RunShape, Stages
    <2>4. Still' BY <2>1, <2>2 DEF RunInv, UnderWay, Still, Settles
    <2> QED BY <2>1, <2>2, <2>3, <2>4
            DEF RunInv, Course, Buffered, WriteSoFar, VerifySoFar, TestSoFar, UnderWay
  <1> QED BY <1>2, <1>3

LEMMA Identifying ==
  ASSUME RunInv, Programmer!TargetId
  PROVE  RunInv'
  <1>1. stage = "id" BY DEF Programmer!TargetId
  <1>2. PICK known \in BOOLEAN :
          /\ Programmer!Get(known, TRUE, FALSE, chip)
          /\ IF known
             THEN Programmer!Goto(CASE run.cmd = "erase" -> "clear"
                    [] run.cmd \in {"write", "verify"} /\ run.file = <<>> -> "deselect"
                    [] run.cmd = "write" /\ run.file # <<>> -> "address"
                    [] OTHER -> "load")
             ELSE Programmer!Exit(1)
    BY DEF Programmer!TargetId
  <1>3. UNCHANGED chip /\ up' \in BOOLEAN /\ (up' => up) BY <1>2, WordAsked
  <1>4. CASE ~known BY <1>2, <1>3, <1>4, RunEnds DEF RunInv, RunShape
  <1>5. CASE known
    <2>1. /\ UNCHANGED <<run, page, word, data, exit, before>>
          /\ page = 0 /\ word = 0 /\ data = <<>> /\ run.cmd \in Commands \ {"none", "test"}
      BY <1>1, <1>2, <1>5 DEF Programmer!Goto, RunInv, RunShape, Course
    <2>2. \/ run.cmd = "erase" /\ stage' = "clear"
          \/ run.cmd \in {"write", "verify"} /\ run.file = <<>> /\ stage' = "deselect"
          \/ run.cmd = "write" /\ run.file # <<>> /\ stage' = "address"
          \/ run.cmd = "verify" /\ run.file # <<>> /\ stage' = "load"
          \/ run.cmd = "read" /\ stage' = "load"
      BY <1>2, <1>5, <2>1 DEF Programmer!Goto, Commands
    <2>3. RunShape' BY <1>1, <1>3, <2>1, <2>2, ShapeKept DEF RunInv, RunShape, Stages
    <2>4. run.file # <<>> => 0 * PageWords < Len(run.file)
      BY Sizes DEF RunInv, RunShape
    <2>5. stage' = "load" => 0 * PageWords < Programmer!Wanted
      BY <2>1, <2>2, <2>4, Sizes DEF Programmer!Wanted
    <2>6. Course'
      <3>1. /\ Len(data') = 0 /\ word' = 0 /\ page' = 0 /\ run' = run /\ data' = <<>>
            /\ 0 * PageWords = 0 /\ page' * PageWords = 0
            /\ Programmer!Wanted' = Programmer!Wanted
        BY <2>1, Sizes DEF Programmer!Wanted
      <3>2. stage' = "load" =>
              run.cmd \in {"read", "verify"} /\ page' * PageWords < Programmer!Wanted'
        BY <2>2, <2>5, <3>1
      <3>3. stage' = "address" => run.cmd = "write" /\ page' * PageWords < Len(run.file)
        BY <2>2, <2>4, <3>1
      <3> HIDE DEF Programmer!Wanted
      <3>4. stage' \in {"clear", "address", "load", "deselect"} /\ run'.cmd # "test"
            /\ (stage' = "clear" => run'.cmd = "erase")
        BY <2>1, <2>2, <3>1
      <3>5. stage' = "load" =>
              /\ run'.cmd \in {"read", "verify"} /\ Len(data') = page' * PageWords + word'
              /\ page' * PageWords < Programmer!Wanted'
        BY <3>1, <3>2
      <3>6. stage' = "address" => run'.cmd = "write" /\ page' * PageWords < Len(run'.file)
        BY <3>1, <3>3
      <3>7. data' = <<>> /\ word' = 0 /\ page' = 0 BY <3>1
      <3> QED BY <3>4, <3>5, <3>6, <3>7 DEF Course
    <2>7. Buffered' BY <1>1, <1>3, <2>2 DEF RunInv, Buffered
    <2>8. WriteSoFar'
      <3>1. \A i \in Cells : chip.flash = before => chip.flash[i] = before[i] OBVIOUS
      <3> QED BY <1>1, <1>3, <2>1, <2>2, <3>1, Sizes DEF RunInv, WriteSoFar, WrittenBelow, Wanting
    <2>9. VerifySoFar' /\ TestSoFar'
      <3>1. Len(data') = 0 /\ (run.file = <<>> => Len(run.file) = 0) /\ run' = run BY <2>1
      <3>2. run'.cmd # "test" BY <2>1
      <3>3. stage' = "deselect" /\ run'.cmd = "verify" => Len(run'.file) = 0 BY <2>2, <3>1
      <3>4. 1 .. Len(data') = {} BY <3>1
      <3>5. 1 .. Len(run'.file) = {} \/ stage' # "deselect" \/ run'.cmd # "verify" BY <3>3
      <3>6. TestSoFar' BY <3>2 DEF TestSoFar
      <3>7. VerifySoFar' BY <3>4, <3>5 DEF VerifySoFar
      <3> QED BY <3>6, <3>7
    <2>10. UnderWay'
      <3>1. Still /\ Still' BY <1>1, <1>3 DEF RunInv, UnderWay, Still, Settles
      <3>2. run.cmd # "test" /\ (run.cmd = "write" /\ stage' = "deselect" => run.file = <<>>)
        BY <2>1, <2>2
      <3>3. \A i \in Cells : chip.was[i] = chip.flash[i] BY <3>1 DEF Still, Settles
      <3> QED BY <1>3, <2>1, <3>1, <3>2, <3>3 DEF UnderWay
    <2> QED BY <2>3, <2>6, <2>7, <2>8, <2>9, <2>10 DEF RunInv
  <1> QED BY <1>4, <1>5

\* The erase of the whole controller.
LEMMA Erasing ==
  ASSUME RunInv, Programmer!EraseClear \/ Programmer!EraseStart
  PROVE  RunInv'
  <1>1. chip \in Programmer!Chips /\ page \in 0 .. Pages - 1 BY DEF RunInv, RunShape
  <1>2. CASE Programmer!EraseClear
    <2>1. /\ stage = "clear" /\ stage' = "erase" /\ UNCHANGED <<run, page, word, data, exit, before>>
          /\ Programmer!Put(Programmer!ClearFlags(chip))
      BY <1>2 DEF Programmer!EraseClear, Programmer!Goto
    <2>2. /\ up' \in BOOLEAN /\ (up' => up) /\ chip' \in Programmer!Chips
          /\ up' => ~chip'.done /\ chip'.manual = chip.manual
          /\ chip'.flash = chip.flash /\ chip'.was = chip.was
      BY <1>1, <2>1, Commanded, Effects
    <2>3. RunShape' BY <2>1, <2>2, ShapeKept DEF RunInv, RunShape, Stages
    <2>4. Still' BY <2>1, <2>2 DEF RunInv, UnderWay, Still, Settles
    <2> QED BY <2>1, <2>2, <2>3, <2>4
            DEF RunInv, Course, Buffered, WriteSoFar, VerifySoFar, TestSoFar, UnderWay
  <1>3. CASE Programmer!EraseStart
    <2>1. /\ stage = "erase" /\ stage' = "erasing" /\ UNCHANGED <<run, page, word, data, exit, before>>
          /\ Programmer!Put(Programmer!EraseChip(chip))
      BY <1>3 DEF Programmer!EraseStart, Programmer!Goto
    <2>2. /\ up' \in BOOLEAN /\ (up' => up) /\ chip' \in Programmer!Chips
          /\ up' => chip'.flash = [i \in Cells |-> Blank] /\ chip'.manual = chip.manual
          /\ chip' = chip \/ Settles(chip')
      BY <1>1, <2>1, Commanded, Effects
    <2>3. RunShape' BY <2>1, <2>2, ShapeKept DEF RunInv, RunShape, Stages
    <2>4. up' => Erased' BY <2>2 DEF Erased
    <2>5. Still' BY <2>1, <2>2 DEF RunInv, UnderWay, Still, Settles
    <2> QED BY <2>1, <2>2, <2>3, <2>4, <2>5
            DEF RunInv, Course, Buffered, WriteSoFar, VerifySoFar, TestSoFar, UnderWay
  <1> QED BY <1>2, <1>3

\* The wait for its end, which no dead session gets past.
LEMMA ErasedInTheEnd ==
  ASSUME RunInv, Programmer!EraseWait
  PROVE  RunInv'
  <1>1. stage = "erasing" BY DEF Programmer!EraseWait
  <1>2. PICK done \in BOOLEAN :
          /\ Programmer!Get(done, chip.done, FALSE, chip)
          /\ IF done /\ run.cmd = "test"
             THEN stage' = "row" /\ page' = TestPage /\ UNCHANGED <<run, word, data, exit, before>>
             ELSE Programmer!Goto(IF done THEN "deselect" ELSE "erasing")
    BY DEF Programmer!EraseWait
  <1>3. /\ chip' = chip /\ up' \in BOOLEAN /\ (up' => up)
        /\ up \/ done = FALSE
    BY <1>2, WordAsked
  <1>4. /\ chip \in Programmer!Chips /\ data = <<>> /\ word = 0 /\ run.cmd \in {"erase", "test"}
        /\ (up => ~chip.manual) /\ page = 0 /\ Still
    BY <1>1 DEF RunInv, RunShape, Course, Buffered, UnderWay
  <1>5. Still' BY <1>3, <1>4 DEF Still
  <1>6. CASE done /\ run.cmd = "test"
    <2>1. stage' = "row" /\ page' = TestPage /\ UNCHANGED <<run, word, data, exit, before>>
      BY <1>2, <1>6
    <2>2. RunShape' BY <1>1, <1>3, <1>4, <2>1, ShapeKept, Sizes DEF RunInv, RunShape, Stages
    <2>3. Erased' BY <1>1, <1>3, <1>6 DEF RunInv, TestSoFar, Erased
    <2> QED BY <1>3, <1>4, <1>5, <1>6, <2>1, <2>2, <2>3
            DEF RunInv, Course, Buffered, WriteSoFar, VerifySoFar, TestSoFar, UnderWay
  <1>7. CASE done /\ run.cmd = "erase"
    <2>1. stage' = "deselect" /\ UNCHANGED <<run, page, word, data, exit, before>>
      BY <1>2, <1>7 DEF Programmer!Goto
    <2>2. RunShape' BY <1>1, <1>3, <1>4, <2>1, ShapeKept DEF RunInv, RunShape, Stages
    <2> QED BY <1>3, <1>4, <1>5, <1>7, <2>1, <2>2
            DEF RunInv, Course, Buffered, WriteSoFar, VerifySoFar, TestSoFar, UnderWay
  <1>8. CASE ~done
    <2>1. stage' = stage /\ UNCHANGED <<run, page, word, data, exit, before>>
      BY <1>1, <1>2, <1>8 DEF Programmer!Goto
    <2>2. RunShape' BY <1>1, <1>3, <1>4, <2>1, ShapeKept DEF RunInv, RunShape
    <2>3. Erased => Erased' BY <1>3 DEF Erased
    <2> QED BY <1>1, <1>3, <1>4, <1>5, <2>1, <2>2, <2>3
            DEF RunInv, Course, Buffered, WriteSoFar, VerifySoFar, TestSoFar, UnderWay
  <1> QED BY <1>4, <1>6, <1>7, <1>8

\* The erase of the row of the test page.
LEMMA RowErasing ==
  ASSUME RunInv, Programmer!RowAddress \/ Programmer!RowErase \/ Programmer!RowWait
  PROVE  RunInv'
  <1>1. chip \in Programmer!Chips /\ page \in 0 .. Pages - 1 BY DEF RunInv, RunShape
  <1>2. stage \in {"row", "row erase", "row wait"}
    BY DEF Programmer!RowAddress, Programmer!RowErase, Programmer!RowWait
  <1>3. /\ stage' \in {"row erase", "row wait", "address"}
        /\ UNCHANGED <<run, page, word, data, exit, before>>
        /\ up' \in BOOLEAN /\ (up' => up) /\ chip' \in Programmer!Chips
        /\ \A i \in Cells : chip'.flash[i] \in {Blank, chip.flash[i]}
        /\ chip'.manual = chip.manual /\ (Still => Still')
    <2>1. CASE Programmer!RowAddress
      <3>1. /\ Programmer!Put(Programmer!SetAddress(chip, page)) /\ stage' = "row erase"
            /\ UNCHANGED <<run, page, word, data, exit, before>>
        BY <2>1 DEF Programmer!RowAddress, Programmer!Goto
      <3>2. /\ up' \in BOOLEAN /\ (up' => up)
            /\ chip' \in {chip, Programmer!SetAddress(chip, page)}
        BY <3>1, Commanded
      <3>3. /\ chip' \in Programmer!Chips /\ chip'.flash = chip.flash /\ chip'.was = chip.was
            /\ chip'.manual = chip.manual
        BY <1>1, <3>2, Effects
      <3>4. Still => Still' BY <3>3 DEF Still, Settles
      <3> QED BY <3>1, <3>2, <3>3, <3>4
    <2>2. CASE Programmer!RowErase
      <3>1. /\ Programmer!Put(Programmer!EraseRow(chip)) /\ stage' = "row wait"
            /\ UNCHANGED <<run, page, word, data, exit, before>>
        BY <2>2 DEF Programmer!RowErase, Programmer!Goto
      <3>2. /\ up' \in BOOLEAN /\ (up' => up)
            /\ chip' \in {chip, Programmer!EraseRow(chip)}
        BY <3>1, Commanded
      <3>3. /\ chip' \in Programmer!Chips /\ chip'.manual = chip.manual
            /\ \A i \in Cells : chip'.flash[i] \in {Blank, chip.flash[i]}
            /\ chip' = chip \/ Settles(chip')
        BY <1>1, <3>2, Effects
      <3>4. Still => Still' BY <3>3 DEF Still, Settles
      <3> QED BY <3>1, <3>2, <3>3, <3>4
    <2>3. CASE Programmer!RowWait
      <3>1. Programmer!Ready("address") /\ stage = "row wait" BY <2>3 DEF Programmer!RowWait
      <3> QED BY <3>1, Polled
    <2> QED BY <2>1, <2>2, <2>3
  <1>4. /\ run.cmd = "test" /\ word = 0 /\ data = <<>> /\ page = TestPage /\ Erased
        /\ up => ~chip.manual
        /\ Still
    BY <1>2 DEF RunInv, Course, TestSoFar, Buffered, UnderWay
  <1>5. Erased' BY <1>3, <1>4 DEF Erased
  <1>6. RunShape' BY <1>2, <1>3, ShapeKept DEF RunInv, RunShape, Stages
  <1> QED BY <1>2, <1>3, <1>4, <1>5, <1>6
          DEF RunInv, Course, Buffered, WriteSoFar, VerifySoFar, TestSoFar, UnderWay

\* The address and the poll before the words of a page, which no dead session gets past.
LEMMA Addressing ==
  ASSUME RunInv, Programmer!WriteAddress \/ Programmer!WriteUnlock
  PROVE  RunInv'
  <1>1. chip \in Programmer!Chips /\ page \in 0 .. Pages - 1 BY DEF RunInv, RunShape
  <1>2. /\ UNCHANGED <<run, page, word, data, exit, before>>
        /\ \/ stage = "address" /\ stage' = "unlock"
           \/ stage = "unlock" /\ stage' = "unlock"
           \/ stage = "unlock" /\ stage' = "store" /\ up /\ Still'
        /\ up' \in BOOLEAN /\ (up' => up) /\ chip' \in Programmer!Chips
        /\ chip'.flash = chip.flash /\ chip'.manual = chip.manual
    <2>1. CASE Programmer!WriteAddress
      <3>1. /\ stage = "address" /\ stage' = "unlock"
            /\ UNCHANGED <<run, page, word, data, exit, before>>
            /\ Programmer!Put(Programmer!SetAddress(chip, page))
        BY <2>1 DEF Programmer!WriteAddress, Programmer!Goto
      <3> QED BY <1>1, <3>1, Commanded, Effects
    <2>2. CASE Programmer!WriteUnlock
      <3>1. stage = "unlock" /\ Programmer!Ready("store") BY <2>2 DEF Programmer!WriteUnlock
      <3> QED BY <1>1, <3>1, Polled
    <2> QED BY <2>1, <2>2
  <1>3. /\ word = 0 /\ data = <<>>
        /\ run.cmd = "test" \/ (run.cmd = "write" /\ page * PageWords < Len(run.file))
        /\ run.cmd = "test" => page = TestPage /\ Erased
        /\ up => ~chip.manual
        /\ run.cmd = "write" /\ up => WrittenBelow(page * PageWords)
    BY <1>2 DEF RunInv, Course, TestSoFar, Buffered, WriteSoFar
  <1>4. Erased <=> Erased' BY <1>2 DEF Erased
  <1>5. WrittenBelow(page * PageWords) <=> WrittenBelow(page * PageWords)'
    BY <1>2 DEF WrittenBelow, Wanting
  <1>6. RunShape' BY <1>2, ShapeKept DEF RunInv, RunShape, Stages
  <1>7. Course' BY <1>2, <1>3 DEF Course
  <1>8. Buffered' BY <1>2, <1>3 DEF Buffered
  <1>9. WriteSoFar' BY <1>2, <1>3, <1>5 DEF WriteSoFar
  <1>10. VerifySoFar' /\ TestSoFar' BY <1>2, <1>3, <1>4 DEF VerifySoFar, TestSoFar
  <1>11. UnderWay' BY <1>2, <1>3 DEF UnderWay
  <1> QED BY <1>6, <1>7, <1>8, <1>9, <1>10, <1>11 DEF RunInv

\* A word of the page that is written.
LEMMA PageWordTyped ==
  ASSUME RunInv, stage = "store"
  PROVE  /\ Programmer!PageWord(page, word) \in Programmer!Word
         /\ run.cmd = "test" => \A w \in 0 .. PageWords - 1 : Programmer!PageWord(page, w) = Pattern[w + 1]
         /\ run.cmd = "write" => \A w \in 0 .. PageWords - 1 :
              Programmer!PageWord(page, w) = IF page * PageWords + w < Len(run.file)
                                             THEN run.file[page * PageWords + w + 1] ELSE Blank
  <1>1. /\ page \in 0 .. Pages - 1 /\ word \in 0 .. PageWords - 1
        /\ run.file \in Seq(Programmer!Word) /\ run.cmd \in {"test", "write"}
        /\ run.cmd = "test" => run.file = Pattern
    BY DEF RunInv, RunShape, Course
  <1>2. page * PageWords \in Nat BY <1>1, NextPage
  <1>3. /\ PageWords \in Nat /\ Len(Pattern) = PageWords
        /\ Blank \in Programmer!Word
    BY Sizes DEF Blank, Programmer!Blank, Programmer!Word
  <1>4. run.cmd = "test" =>
          \A w \in 0 .. PageWords - 1 : Programmer!PageWord(page, w) = Pattern[w + 1]
    BY <1>1, <1>3 DEF Programmer!PageWord
  <1>5. run.cmd = "write" => \A w \in 0 .. PageWords - 1 :
              Programmer!PageWord(page, w) = IF page * PageWords + w < Len(run.file)
                                             THEN run.file[page * PageWords + w + 1] ELSE Blank
    BY <1>1 DEF Programmer!PageWord, Blank
  <1>6. \A k \in 0 .. Len(run.file) - 1 : run.file[k + 1] \in Programmer!Word BY <1>1
  <1>7. ASSUME run.cmd = "test" PROVE Programmer!PageWord(page, word) \in Programmer!Word
    BY <1>1, <1>3, <1>4, <1>6, <1>7
  <1>8. ASSUME run.cmd = "write" PROVE Programmer!PageWord(page, word) \in Programmer!Word
    <2>1. PICK k \in Nat : k = page * PageWords + word BY <1>1, <1>2, <1>3
    <2>2. Programmer!PageWord(page, word) = IF k < Len(run.file) THEN run.file[k + 1] ELSE Blank
      BY <1>1, <1>5, <1>8, <2>1
    <2>3. k < Len(run.file) => run.file[k + 1] \in Programmer!Word
      <3>1. Len(run.file) \in Nat BY <1>1
      <3>2. k < Len(run.file) => k \in 0 .. Len(run.file) - 1 BY <2>1, <3>1
      <3> QED BY <1>6, <3>2
    <2> QED BY <1>3, <2>2, <2>3
  <1> QED BY <1>1, <1>4, <1>5, <1>7, <1>8

\* A word that does not end its page.
LEMMA WordStored ==
  ASSUME RunInv, Programmer!WriteWord, word < PageWords - 1
  PROVE  RunInv'
  <1>1. /\ stage = "store" /\ chip \in Programmer!Chips /\ page \in 0 .. Pages - 1
        /\ word \in 0 .. PageWords - 1
        /\ Programmer!Put(Programmer!Store(chip, page * PageWords + word,
                                           Programmer!PageWord(page, word)))
        /\ word' = word + 1 /\ UNCHANGED <<stage, page, run, data, exit, before>>
    BY DEF Programmer!WriteWord, RunInv, RunShape
  <1> DEFINE n == Programmer!Store(chip, page * PageWords + word, Programmer!PageWord(page, word))
             filled == [chip.buffer EXCEPT ![word] = Programmer!PageWord(page, word)]
  <1>2. /\ n \in Programmer!Chips /\ n.manual = chip.manual /\ n.flash = chip.flash
        /\ n.was = chip.was /\ n.buffer = filled
    <2>1. HasStored(chip, page, word, Programmer!PageWord(page, word), n)
      BY <1>1, PageWordTyped, Stored
    <2> HIDE DEF n
    <2> QED BY <2>1 DEF HasStored
  <1>3. chip.buffer \in [0 .. PageWords - 1 -> Programmer!Word] BY <1>1 DEF Programmer!Chips
  <1> HIDE DEF n
  <1>4. /\ up' \in BOOLEAN /\ (up' => up /\ chip' = n) /\ chip' \in {chip, n}
    BY <1>1, Commanded DEF n
  <1>5. /\ chip' \in Programmer!Chips /\ chip'.flash = chip.flash /\ chip'.manual = chip.manual
        /\ chip'.was = chip.was
    BY <1>1, <1>2, <1>4
  <1>6. word' \in 0 .. PageWords - 1 BY <1>1, Sizes
  <1>7. RunShape' BY <1>1, <1>4, <1>5, <1>6, ShapeKept DEF RunInv, RunShape
  <1>8. Course' BY <1>1 DEF RunInv, Course
  <1>9. Buffered'
    <2>1. SUFFICES ASSUME up', NEW w \in 0 .. word
                   PROVE  chip'.buffer[w] = Programmer!PageWord(page, w)
      <3>1. 0 .. word' - 1 = 0 .. word BY <1>1, Sizes
      <3>2. up' => ~chip'.manual BY <1>1, <1>4, <1>5 DEF RunInv, Buffered
      <3>3. \A w : Programmer!PageWord(page, w)' = Programmer!PageWord(page, w)
        BY <1>1 DEF Programmer!PageWord
      <3> QED BY <1>1, <3>1, <3>2, <3>3 DEF Buffered
    <2>2. w \in 0 .. PageWords - 1 /\ chip'.buffer = filled BY <1>1, <1>2, <1>4, <2>1, Sizes
    <2>3. w # word => chip.buffer[w] = Programmer!PageWord(page, w)
      <3>1. w # word => w \in 0 .. word - 1 BY <1>1, <2>1, Sizes
      <3> QED BY <1>1, <1>4, <2>1, <3>1 DEF RunInv, Buffered
    <2> QED BY <1>3, <2>2, <2>3
  <1>10. WriteSoFar'
    <2>1. WrittenBelow(page * PageWords)' <=> WrittenBelow(page * PageWords)
      BY <1>1, <1>5 DEF WrittenBelow, Wanting
    <2> QED BY <1>1, <2>1 DEF RunInv, WriteSoFar
  <1>11. VerifySoFar' /\ TestSoFar'
    <2>1. Erased' <=> Erased BY <1>5 DEF Erased
    <2> QED BY <1>1, <2>1 DEF RunInv, VerifySoFar, TestSoFar
  <1>12. UnderWay'
    <2>1. Still' BY <1>1, <1>5 DEF RunInv, UnderWay, Still, Settles
    <2> QED BY <1>1, <2>1 DEF UnderWay
  <1> QED BY <1>7, <1>8, <1>9, <1>10, <1>11, <1>12 DEF RunInv

\* The last word of a page: over a live session the page is in the flash, and
\* otherwise nothing is.
LEMMA PageStored ==
  ASSUME RunInv, Programmer!WriteWord, ~(word < PageWords - 1)
  PROVE  /\ stage = "store" /\ UNCHANGED <<run, data, exit, before>> /\ word' = 0
         /\ IF run.cmd = "test" THEN stage' = "load" /\ UNCHANGED page
            ELSE IF Programmer!LastPage THEN stage' = "deselect" /\ UNCHANGED page
            ELSE stage' = "address" /\ page' = page + 1
         /\ up' \in BOOLEAN /\ (up' => up) /\ chip' \in Programmer!Chips
         /\ up' => ~chip'.manual
         /\ chip'.was = chip.flash
         /\ \/ ~up' /\ chip'.flash = chip.flash
            \/ \A i \in Cells :
                 chip'.flash[i] = IF i \div PageWords = page
                                  THEN chip.flash[i] \cap Programmer!PageWord(page, i % PageWords)
                                  ELSE chip.flash[i]
  <1>1. /\ stage = "store" /\ chip \in Programmer!Chips /\ page \in 0 .. Pages - 1
        /\ word \in 0 .. PageWords - 1
        /\ Programmer!Put(Programmer!Store(chip, page * PageWords + word,
                                           Programmer!PageWord(page, word)))
        /\ word' = 0 /\ UNCHANGED <<run, data, exit, before>>
        /\ IF run.cmd = "test" THEN stage' = "load" /\ UNCHANGED page
           ELSE IF Programmer!LastPage THEN stage' = "deselect" /\ UNCHANGED page
           ELSE stage' = "address" /\ page' = page + 1
    BY Sizes DEF Programmer!WriteWord, RunInv, RunShape
  <1> DEFINE n == Programmer!Store(chip, page * PageWords + word, Programmer!PageWord(page, word))
             filled == [chip.buffer EXCEPT ![word] = Programmer!PageWord(page, word)]
  <1>2. /\ n \in Programmer!Chips /\ n.manual = chip.manual
        /\ ~chip.manual =>
             /\ n.was = chip.flash
             /\ \A i \in Cells : n.flash[i] = IF i \div PageWords = page
                                              THEN chip.flash[i] \cap filled[i % PageWords]
                                              ELSE chip.flash[i]
    <2>1. Programmer!PageWord(page, word) \in Programmer!Word BY <1>1, PageWordTyped
    <2> HIDE DEF filled, n
    <2>2. filled = [chip.buffer EXCEPT ![word] = Programmer!PageWord(page, word)] BY DEF filled
    <2>3. n = Programmer!Store(chip, page * PageWords + word, Programmer!PageWord(page, word))
      BY DEF n
    <2>4. chip \in Programmer!Chips /\ page \in 0 .. Pages - 1 /\ word \in 0 .. PageWords - 1
      BY <1>1
    <2>5. HasStored(chip, page, word, Programmer!PageWord(page, word), n)
      BY <2>1, <2>3, <2>4, Stored
    <2> QED BY <2>2, <2>5 DEF HasStored
  <1>3. chip.buffer \in [0 .. PageWords - 1 -> Programmer!Word] BY <1>1 DEF Programmer!Chips
  <1> HIDE DEF n
  <1>4. /\ up' \in BOOLEAN /\ (up' => up /\ chip' = n) /\ chip' \in {chip, n}
        /\ ~up => chip' = chip
    BY <1>1, Commanded DEF n, Programmer!Put, Programmer!PutOneOf
  <1>9. chip.was = chip.flash BY <1>1 DEF RunInv, UnderWay, Still, Settles
  <1>5. CASE up
    <2>1. ~chip.manual /\ \A w \in 0 .. word - 1 : chip.buffer[w] = Programmer!PageWord(page, w)
      BY <1>1, <1>5 DEF RunInv, Buffered
    <2>2. \A w \in 0 .. PageWords - 1 : filled[w] = Programmer!PageWord(page, w)
      <3>1. \A w \in 0 .. PageWords - 1 : w = word \/ w \in 0 .. word - 1 BY <1>1, Sizes
      <3> QED BY <1>1, <1>3, <2>1, <3>1
    <2>3. \A i \in Cells : i % PageWords \in 0 .. PageWords - 1
      <3>1. \A i \in Cells : i \in Nat BY Sizes
      <3> QED BY <3>1, Sizes, Division
    <2>4. \A i \in Cells :
            n.flash[i] = IF i \div PageWords = page
                         THEN chip.flash[i] \cap Programmer!PageWord(page, i % PageWords)
                         ELSE chip.flash[i]
      BY <1>2, <2>1, <2>2, <2>3
    <2> HIDE DEF filled
    <2>5. CASE chip' = n BY <1>1, <1>2, <1>4, <2>1, <2>4, <2>5
    <2>6. CASE chip' = chip /\ ~up' BY <1>1, <1>4, <1>9, <2>6
    <2> QED BY <1>4, <2>5, <2>6
  <1>6. CASE ~up BY <1>1, <1>4, <1>6, <1>9
  <1> QED BY <1>4, <1>5, <1>6

\* So the page of a write is the file's.
LEMMA PageWritten ==
  ASSUME RunInv, stage = "store", run.cmd = "write", UNCHANGED <<run, before>>,
         \A i \in Cells :
           chip'.flash[i] = IF i \div PageWords = page
                            THEN chip.flash[i] \cap Programmer!PageWord(page, i % PageWords)
                            ELSE chip.flash[i],
         NEW n, n = page * PageWords + PageWords
  PROVE  WrittenBelow(n)'
  <1>1. page \in Nat /\ before \in [Cells -> Programmer!Word] /\ PageWords \in Nat \ {0}
    BY Sizes DEF RunInv, RunShape
  <1>2. WrittenBelow(page * PageWords) BY DEF RunInv, WriteSoFar
  <1>3. SUFFICES ASSUME NEW i \in Cells
                 PROVE  chip'.flash[i] = IF i < page * PageWords + PageWords
                                         THEN Wanting(i) ELSE before[i]
    BY DEF WrittenBelow, Wanting
  <1>4. page * PageWords \in Nat /\ i \in Nat BY <1>1, NextPage, Sizes
  <1>5. chip.flash[i] = IF i < page * PageWords THEN Wanting(i) ELSE before[i]
    BY <1>2 DEF WrittenBelow
  <1>6. chip'.flash[i] = IF i \div PageWords = page
                         THEN chip.flash[i] \cap Programmer!PageWord(page, i % PageWords)
                         ELSE chip.flash[i]
    OBVIOUS
  <1>7. CASE i < page * PageWords
    <2>1. i \div PageWords # page BY <1>1, <1>4, <1>7, PageSpan
    <2> QED BY <1>1, <1>4, <1>5, <1>6, <1>7, <2>1
  <1>8. CASE i >= page * PageWords + PageWords
    <2>1. i \div PageWords # page BY <1>1, <1>4, <1>8, PageSpan
    <2> QED BY <1>1, <1>4, <1>5, <1>6, <1>8, <2>1
  <1>9. CASE page * PageWords <= i /\ i < page * PageWords + PageWords
    <2>1. i \div PageWords = page BY <1>1, <1>4, <1>9, PageSpan
    <2>2. i % PageWords \in 0 .. PageWords - 1 /\ i = page * PageWords + (i % PageWords)
      <3>1. i % PageWords \in 0 .. PageWords - 1 /\ i = PageWords * page + (i % PageWords)
        BY <1>1, <1>4, <2>1, Division
      <3>2. PageWords * page = page * PageWords BY <1>1
      <3> QED BY <3>1, <3>2
    <2>3. Programmer!PageWord(page, i % PageWords) =
            IF i < Len(run.file) THEN run.file[i + 1] ELSE Blank
      BY <2>2, PageWordTyped
    <2>4. chip'.flash[i] = before[i] \cap Programmer!PageWord(page, i % PageWords)
      BY <1>4, <1>5, <1>6, <1>9, <2>1
    <2>5. before[i] \cap Blank = before[i]
      BY <1>1 DEF Programmer!Word, Blank, Programmer!Blank
    <2> QED BY <1>9, <2>3, <2>4, <2>5 DEF Wanting
  <1> QED BY <1>1, <1>4, <1>7, <1>8, <1>9

LEMMA Writing ==
  ASSUME RunInv, Programmer!WriteWord
  PROVE  RunInv'
  <1>1. CASE word < PageWords - 1 BY <1>1, WordStored
  <1>2. CASE ~(word < PageWords - 1)
    <2>1. /\ stage = "store" /\ UNCHANGED <<run, data, exit, before>> /\ word' = 0
          /\ up' \in BOOLEAN /\ (up' => up) /\ chip' \in Programmer!Chips
          /\ up' => ~chip'.manual
          /\ chip'.was = chip.flash
          /\ \/ ~up' /\ chip'.flash = chip.flash
             \/ \A i \in Cells :
                  chip'.flash[i] = IF i \div PageWords = page
                                   THEN chip.flash[i] \cap Programmer!PageWord(page, i % PageWords)
                                   ELSE chip.flash[i]
      BY <1>2, PageStored
    <2>2. /\ page \in 0 .. Pages - 1 /\ data = <<>>
          /\ run.cmd = "test" \/ (run.cmd = "write" /\ page * PageWords < Len(run.file))
          /\ page \in Nat /\ page * PageWords \in Nat /\ PageWords \in Nat \ {0}
          /\ (page + 1) * PageWords = page * PageWords + PageWords
          /\ 0 \in 0 .. PageWords - 1
      BY <2>1, NextPage, Sizes DEF RunInv, RunShape, Course
    <2>3. CASE run.cmd = "test"
      <3>1. stage' = "load" /\ page' = page BY <1>2, <2>3, PageStored
      <3>2. page = TestPage /\ Erased BY <2>1, <2>3 DEF RunInv, Course, TestSoFar
      <3>3. RunShape' BY <2>1, <2>2, <3>1, ShapeKept DEF RunInv, RunShape, Stages
      <3>4. Course' BY <2>1, <2>2, <2>3, <3>1, <3>2 DEF Course
      <3>5. Buffered' BY <2>1, <3>1 DEF Buffered
      <3>6. WriteSoFar' /\ VerifySoFar' BY <2>1, <2>3 DEF WriteSoFar, VerifySoFar
      <3>7. Tested' \/ ~up'
        <4>1. SUFFICES ASSUME up', NEW i \in Cells
                       PROVE  chip'.flash[i] = IF i \div PageWords = TestPage
                                THEN Pattern[(i % PageWords) + 1] ELSE Blank
          BY DEF Tested
        <4>2. chip.flash[i] = Blank BY <3>2, <4>1 DEF Erased
        <4>3. i % PageWords \in 0 .. PageWords - 1
          <5>1. i \in Nat BY <4>1, Sizes
          <5> QED BY <5>1, Sizes, Division
        <4>4. Programmer!PageWord(page, i % PageWords) = Pattern[(i % PageWords) + 1]
          BY <2>1, <2>3, <4>3, PageWordTyped
        <4>5. (i % PageWords) + 1 \in 1 .. PageWords BY <2>2, <4>3
        <4>6. Blank \cap Pattern[(i % PageWords) + 1] = Pattern[(i % PageWords) + 1]
          <5>1. Pattern[(i % PageWords) + 1] \in SUBSET Bits BY <4>5, Sizes
          <5> QED BY <5>1 DEF Blank, Programmer!Blank
        <4> QED BY <2>1, <3>2, <4>1, <4>2, <4>4, <4>6
      <3>8. TestSoFar' BY <2>1, <2>2, <3>1, <3>7 DEF TestSoFar
      <3>9. UnderWay'
        <4>1. \A j \in 1 .. Len(data') : data'[j] = {} BY <2>1, <2>2
        <4> QED BY <2>1, <2>3, <3>1, <4>1 DEF UnderWay
      <3> QED BY <3>3, <3>4, <3>5, <3>6, <3>8, <3>9 DEF RunInv
    <2>4. CASE run.cmd = "write"
      <3>1. PICK n \in Nat : n = page * PageWords BY <2>2
      <3>2. PICK m \in Nat : m = page * PageWords + PageWords BY <2>2
      <3>3. WrittenBelow(n) BY <2>1, <2>4, <3>1 DEF RunInv, WriteSoFar
      <3>4. WrittenBelow(m)' \/ (~up' /\ WrittenBelow(n)')
        <4>1. CASE ~up' /\ chip'.flash = chip.flash
          <5>1. WrittenBelow(n)' BY <2>1, <3>3, <4>1 DEF WrittenBelow, Wanting
          <5> QED BY <4>1, <5>1
        <4>2. CASE \A i \in Cells :
                     chip'.flash[i] = IF i \div PageWords = page
                       THEN chip.flash[i] \cap Programmer!PageWord(page, i % PageWords)
                       ELSE chip.flash[i]
          <5>1. WrittenBelow(m)' BY <2>1, <2>4, <3>2, <4>2, PageWritten
          <5> QED BY <5>1
        <4> QED BY <2>1, <4>1, <4>2
      <3>5. /\ run.file \in Seq(Programmer!Word) /\ Len(run.file) \in Nat
            /\ page * PageWords < Len(run.file) /\ Len(run.file) <= Pages * PageWords
        BY <2>2, <2>4 DEF RunInv, RunShape
      <3>6. run.file # <<>> BY <2>2, <3>5
      <3>7. CASE m >= Len(run.file)
        <4>1. stage' = "deselect" /\ page' = page
          BY <1>2, <2>2, <2>4, <3>2, <3>7, PageStored DEF Programmer!LastPage
        <4>2. RunShape' BY <2>1, <2>2, <4>1, ShapeKept DEF RunInv, RunShape, Stages
        <4>3. Course' BY <2>1, <4>1 DEF Course
        <4>4. Buffered' BY <2>1, <4>1 DEF Buffered
        <4>5. WriteSoFar'
          <5>1. /\ WrittenBelow(n)' => WrittenBelow(page * PageWords)'
                /\ WrittenBelow(m)' => WrittenBelow((page + 1) * PageWords)'
                /\ (page' + 1) * PageWords >= Len(run'.file) /\ run'.file # <<>>
            BY <2>1, <2>2, <3>1, <3>2, <3>6, <3>7, <4>1
          <5> QED BY <3>4, <4>1, <5>1 DEF WriteSoFar
        <4>6. VerifySoFar' /\ TestSoFar' BY <2>1, <2>4 DEF VerifySoFar, TestSoFar
        <4>7. UnderWay'
          <5>1. SUFFICES ASSUME NEW i \in Cells
                         PROVE  IF i \div PageWords = page
                                THEN chip'.was[i] \subseteq before[i]
                                ELSE chip'.was[i] = chip'.flash[i]
            BY <2>1, <2>4, <3>6, <4>1 DEF UnderWay
          <5>2. ASSUME i \div PageWords = page PROVE chip.flash[i] = before[i]
            <6>1. i \in Nat BY Sizes
            <6>2. page * PageWords <= i BY <2>2, <5>2, <6>1, PageSpan
            <6> QED BY <3>1, <3>3, <6>1, <6>2 DEF WrittenBelow
          <5>3. ASSUME i \div PageWords # page PROVE chip'.flash[i] = chip.flash[i]
            BY <2>1, <5>3
          <5> QED BY <2>1, <5>2, <5>3
        <4> QED BY <4>2, <4>3, <4>4, <4>5, <4>6, <4>7 DEF RunInv
      <3>8. CASE m < Len(run.file)
        <4>1. stage' = "address" /\ page' = page + 1
          BY <1>2, <2>2, <2>4, <3>2, <3>5, <3>8, PageStored DEF Programmer!LastPage
        <4>2. page' \in 0 .. Pages - 1
          <5>1. page \in 0 .. Pages - 1 /\ Pages \in Nat \ {0} BY <2>2, Sizes
          <5>2. PICK l \in Nat : l = Len(run.file) BY <3>5
          <5>3. m = (page + 1) * PageWords /\ m < l BY <2>2, <3>2, <3>8, <5>2
          <5>4. l <= Pages * PageWords BY <3>5, <5>2
          <5>5. page + 1 = Pages => m = Pages * PageWords BY <5>3
          <5>6. page + 1 # Pages
            <6>1. Pages * PageWords \in Nat BY Sizes
            <6> QED BY <5>3, <5>4, <5>5, <6>1
          <5> QED BY <4>1, <5>1, <5>6
        <4>3. RunShape' BY <2>1, <2>2, <4>1, <4>2, ShapeKept DEF RunInv, RunShape, Stages
        <4>4. page' * PageWords = m BY <2>2, <3>2, <4>1
        <4>5. Course' BY <2>1, <2>2, <2>4, <3>8, <4>1, <4>4 DEF Course
        <4>6. Buffered' BY <2>1, <4>1 DEF Buffered
        <4>7. WriteSoFar'
          <5>1. WrittenBelow(m)' => WrittenBelow(page * PageWords)' BY <4>4
          <5> QED BY <2>1, <3>4, <4>1, <5>1 DEF WriteSoFar
        <4>8. VerifySoFar' /\ TestSoFar' BY <2>1, <2>4 DEF VerifySoFar, TestSoFar
        <4>9. UnderWay' BY <2>1, <2>4, <4>1 DEF UnderWay
        <4> QED BY <4>3, <4>5, <4>6, <4>7, <4>8, <4>9 DEF RunInv
      <3> QED BY <3>2, <3>5, <3>7, <3>8
    <2> QED BY <2>2, <2>3, <2>4
  <1> QED BY <1>1, <1>2


\* Where a word more ends its page.
LEMMA PageEnd ==
  ASSUME NEW p \in Nat, NEW w \in 0 .. PageWords - 1
  PROVE  (p * PageWords + w + 1) % PageWords = IF w < PageWords - 1 THEN w + 1 ELSE 0
  <1>1. PageWords \in Nat \ {0} /\ w \in Nat BY Sizes
  <1>2. p * PageWords \in Nat /\ (p + 1) * PageWords = p * PageWords + PageWords BY NextPage
  <1>3. ASSUME NEW q \in Nat, NEW v \in 0 .. PageWords - 1, q * PageWords \in Nat
        PROVE  (q * PageWords + v) % PageWords = v
    <2>1. PICK i \in Nat : i = q * PageWords + v BY <1>1, <1>3
    <2>2. i \div PageWords = q BY <1>1, <1>3, <2>1, PageSpan
    <2>3. i = PageWords * q + (i % PageWords) /\ i % PageWords \in 0 .. PageWords - 1
      BY <1>1, <2>2, Division
    <2>4. PageWords * q = q * PageWords BY <1>1
    <2>5. i % PageWords = v BY <1>1, <1>3, <2>1, <2>3, <2>4
    <2> QED BY <2>1, <2>5
  <1>4. CASE w < PageWords - 1
    <2>1. w + 1 \in 0 .. PageWords - 1 BY <1>1, <1>4
    <2>2. (p * PageWords + (w + 1)) % PageWords = w + 1 BY <1>2, <1>3, <2>1
    <2>3. p * PageWords + (w + 1) = p * PageWords + w + 1 BY <1>1, <1>2
    <2> QED BY <1>4, <2>2, <2>3
  <1>5. CASE ~(w < PageWords - 1)
    <2>1. 0 \in 0 .. PageWords - 1 /\ p + 1 \in Nat /\ (p + 1) * PageWords \in Nat
      BY <1>1, <1>2
    <2>2. ((p + 1) * PageWords + 0) % PageWords = 0 BY <1>3, <2>1
    <2>3. (p + 1) * PageWords + 0 = p * PageWords + w + 1 BY <1>1, <1>2, <1>5
    <2> QED BY <1>5, <2>2, <2>3
  <1> QED BY <1>4, <1>5

\* A word read into got.
WordRead(got, value) ==
  /\ got = Append(data, value) /\ value \in Programmer!Word
  /\ Programmer!Get(value, chip.flash[page * PageWords + word], {}, Programmer!Waited(chip))
  /\ ~Programmer!Fails(got)
  /\ data' = got /\ word' = (word + 1) % PageWords
  /\ page' = (IF Programmer!PageRead(got) /\ ~Programmer!AllRead(got) THEN page + 1 ELSE page)
  /\ stage' = (IF Programmer!AllRead(got) THEN "deselect" ELSE stage)
  /\ UNCHANGED <<run, exit, before>>

\* The flash stays as it is; what was under way is over if the read got through.
LEMMA ReadAlone ==
  ASSUME RunInv, NEW got, NEW value, WordRead(got, value)
  PROVE  /\ chip' \in Programmer!Chips /\ chip'.flash = chip.flash /\ chip'.manual = chip.manual
         /\ up' \in BOOLEAN /\ (up' => up) /\ (Still => Still')
         /\ \/ up /\ Still' /\ value = chip.flash[page * PageWords + word]
            \/ value = {}
  <1>1. chip \in Programmer!Chips BY DEF RunInv, RunShape
  <1>2. /\ up' \in BOOLEAN /\ (up' => up)
        /\ \/ /\ up /\ value = chip.flash[page * PageWords + word]
              /\ chip' = Programmer!Waited(chip)
           \/ value = {} /\ chip' = chip
    BY WordAsked DEF WordRead
  <1>3. CASE /\ up /\ value = chip.flash[page * PageWords + word]
             /\ chip' = Programmer!Waited(chip)
    BY <1>1, <1>2, <1>3, WaitEffect DEF Still, Settles
  <1>4. CASE value = {} /\ chip' = chip BY <1>1, <1>2, <1>4 DEF Still, Settles
  <1> QED BY <1>2, <1>3, <1>4

\* How far that brings a read, and whether it is the last one.
Goal == CASE run.cmd = "read" -> Pages * PageWords
          [] run.cmd = "verify" -> Len(run.file)
          [] OTHER -> PageWords

LEMMA WordCounted ==
  ASSUME RunInv, stage = "load", NEW got, NEW value, WordRead(got, value)
  PROVE  /\ Len(got) = Len(data) + 1 /\ got \in Seq(Programmer!Word)
         /\ \A j \in 1 .. Len(data) : got[j] = data[j]
         /\ got[Len(data) + 1] = value
         /\ \/ /\ word < PageWords - 1 /\ word' = word + 1 /\ page' = page /\ stage' = "load"
            \/ /\ ~(word < PageWords - 1) /\ word' = 0 /\ page' = page + 1 /\ stage' = "load"
               /\ Len(got) < Goal /\ run.cmd # "test"
            \/ /\ ~(word < PageWords - 1) /\ word' = 0 /\ page' = page /\ stage' = "deselect"
               /\ Len(got) >= Goal /\ Programmer!PageRead(got)
  <1>1. /\ got = Append(data, value) /\ value \in Programmer!Word /\ data \in Seq(Programmer!Word)
        /\ page \in Nat /\ word \in 0 .. PageWords - 1 /\ PageWords \in Nat \ {0}
        /\ page * PageWords \in Nat
    <2>1. page \in Nat /\ PageWords \in Nat \ {0} BY Sizes DEF RunInv, RunShape
    <2> QED BY <2>1, NextPage DEF WordRead, RunInv, RunShape
  <1>2. /\ Len(got) = Len(data) + 1 /\ got \in Seq(Programmer!Word)
        /\ \A j \in 1 .. Len(data) : got[j] = data[j]
        /\ got[Len(data) + 1] = value
    BY <1>1
  <1>3. PICK p \in Nat : Len(data) = p * PageWords + word /\ p * PageWords \in Nat
                         /\ (run.cmd = "test" => p = 0)
    <2>1. CASE run.cmd = "test"
      <3>1. Len(data) = word /\ 0 * PageWords = 0 BY <1>1, <2>1 DEF RunInv, Course
      <3>2. Len(data) = 0 * PageWords + word BY <1>1, <3>1
      <3> QED BY <3>1, <3>2
    <2>2. CASE run.cmd # "test" BY <1>1, <2>2 DEF RunInv, Course
    <2> QED BY <2>1, <2>2
  <1>4. Programmer!PageRead(got) <=> ~(word < PageWords - 1)
    <2>1. Len(got) % PageWords = IF word < PageWords - 1 THEN word + 1 ELSE 0
      <3>1. Len(got) = p * PageWords + word + 1 BY <1>1, <1>2, <1>3
      <3> QED BY <1>1, <1>3, <3>1, PageEnd
    <2> QED BY <1>1, <2>1 DEF Programmer!PageRead
  <1>5. word' = IF word < PageWords - 1 THEN word + 1 ELSE 0
    <2>1. (0 * PageWords + word + 1) % PageWords = IF word < PageWords - 1 THEN word + 1 ELSE 0
      BY <1>1, PageEnd
    <2>2. 0 * PageWords + word + 1 = word + 1 BY <1>1
    <2>3. word' = (word + 1) % PageWords BY DEF WordRead
    <2> QED BY <2>1, <2>2, <2>3
  <1>6. Programmer!AllRead(got) <=> Len(got) >= Goal /\ Programmer!PageRead(got)
    BY DEF Programmer!AllRead, Programmer!Wanted, Goal
  <1>7. run.cmd = "test" /\ ~(word < PageWords - 1) => Len(got) >= Goal
    <2>1. run.cmd = "test" => Goal = PageWords /\ Len(data) = word
      BY DEF Goal, RunInv, Course
    <2> QED BY <1>1, <1>2, <2>1
  <1>8. Goal \in Nat /\ Len(got) \in Nat
    <2>1. Len(run.file) \in Nat BY DEF RunInv, RunShape
    <2>2. Len(got) \in Nat BY <1>1, <1>2
    <2>3. Goal \in {Pages * PageWords, Len(run.file), PageWords} BY DEF Goal
    <2> QED BY <1>1, <2>1, <2>2, <2>3, Sizes
  <1>9. /\ page' = (IF Programmer!PageRead(got) /\ ~Programmer!AllRead(got) THEN page + 1 ELSE page)
        /\ stage' = (IF Programmer!AllRead(got) THEN "deselect" ELSE "load")
    BY DEF WordRead
  <1> HIDE DEF Goal
  <1> QED BY <1>2, <1>4, <1>5, <1>6, <1>7, <1>8, <1>9

\* A word that is read keeps its place, ...
LEMMA ReadOnCourse ==
  ASSUME RunInv, stage = "load", NEW got, NEW value, WordRead(got, value)
  PROVE  RunShape' /\ Course' /\ Buffered' /\ WriteSoFar'
  <1>1. /\ chip' \in Programmer!Chips /\ chip'.flash = chip.flash /\ chip'.manual = chip.manual
        /\ up' \in BOOLEAN /\ (up' => up)
        /\ data' = got /\ UNCHANGED <<run, exit, before>>
    BY ReadAlone DEF WordRead
  <1>2. /\ page \in 0 .. Pages - 1 /\ word \in 0 .. PageWords - 1 /\ PageWords \in Nat \ {0}
        /\ page * PageWords \in Nat /\ (page + 1) * PageWords = page * PageWords + PageWords
        /\ page \in Nat /\ Pages \in Nat \ {0} /\ Pages * PageWords \in Nat
        /\ data \in Seq(Programmer!Word) /\ Len(data) \in Nat /\ run.cmd \in Commands
        /\ chip \in Programmer!Chips
    <2>1. page \in Nat /\ PageWords \in Nat \ {0} /\ data \in Seq(Programmer!Word)
      BY Sizes DEF RunInv, RunShape
    <2> QED BY <2>1, NextPage, Sizes DEF RunInv, RunShape
  <1>3. /\ Len(got) = Len(data) + 1 /\ got \in Seq(Programmer!Word)
        /\ \/ /\ word < PageWords - 1 /\ word' = word + 1 /\ page' = page /\ stage' = "load"
           \/ /\ ~(word < PageWords - 1) /\ word' = 0 /\ page' = page + 1 /\ stage' = "load"
              /\ Len(got) < Goal /\ run.cmd # "test"
           \/ /\ ~(word < PageWords - 1) /\ word' = 0 /\ page' = page /\ stage' = "deselect"
              /\ Len(got) >= Goal /\ Programmer!PageRead(got)
    BY WordCounted
  <1>4. Goal = Programmer!Wanted /\ Goal' = Programmer!Wanted' /\ Goal' = Goal
    BY <1>1 DEF Goal, Programmer!Wanted
  <1>5. run.cmd # "test" => Goal \in Nat /\ Goal <= Pages * PageWords
    <2>1. run.cmd \in {"read", "verify"} \/ run.cmd = "test" BY DEF RunInv, Course
    <2>2. run.cmd = "verify" => Len(run.file) \in Nat /\ Len(run.file) <= Pages * PageWords
      BY DEF RunInv, RunShape
    <2> QED BY <1>2, <2>1, <2>2 DEF Goal
  <1>6. \/ run.cmd = "test" /\ Len(data) = word
        \/ /\ run.cmd \in {"read", "verify"} /\ Len(data) = page * PageWords + word
           /\ page * PageWords < Goal
    BY <1>4 DEF RunInv, Course
  <1>7. run.cmd = "test" => page = TestPage BY DEF RunInv, Course
  <1>8. run.cmd # "write" BY <1>6
  <1> HIDE DEF Goal
  <1>9. CASE word < PageWords - 1
    <2>1. word' = word + 1 /\ page' = page /\ stage' = "load" BY <1>3, <1>9
    <2>2. word' \in 0 .. PageWords - 1 /\ page' \in 0 .. Pages - 1 BY <1>2, <1>9, <2>1
    <2>3. RunShape' BY <1>1, <1>2, <1>3, <2>1, <2>2, ShapeKept DEF RunInv, RunShape, Stages
    <2>4. page' * PageWords = page * PageWords /\ Len(data') = Len(data) + 1
      BY <1>1, <1>3, <2>1
    <2>5. \/ run'.cmd = "test" /\ Len(data') = word'
          \/ /\ run'.cmd \in {"read", "verify"} /\ Len(data') = page' * PageWords + word'
             /\ page' * PageWords < Programmer!Wanted'
      <3>1. CASE run.cmd = "test" BY <1>1, <1>2, <1>6, <2>1, <2>4, <3>1
      <3>2. CASE run.cmd # "test" BY <1>1, <1>2, <1>4, <1>6, <2>1, <2>4, <3>2
      <3> QED BY <3>1, <3>2
    <2>6. Course' BY <1>1, <1>7, <2>1, <2>5 DEF Course
    <2>7. Buffered' BY <1>1, <2>1 DEF RunInv, Buffered
    <2>8. WriteSoFar' BY <1>1, <1>8 DEF WriteSoFar
    <2> QED BY <2>3, <2>6, <2>7, <2>8
  <1>10. CASE stage' = "deselect"
    <2>1. word' = 0 /\ page' = page BY <1>3, <1>10
    <2>2. word' \in 0 .. PageWords - 1 /\ page' \in 0 .. Pages - 1 BY <1>2, <2>1
    <2>3. RunShape' BY <1>1, <1>2, <1>3, <1>10, <2>2, ShapeKept DEF RunInv, RunShape, Stages
    <2>4. Course' BY <1>10 DEF Course
    <2>5. Buffered' BY <1>1, <1>10 DEF RunInv, Buffered
    <2>6. WriteSoFar' BY <1>1, <1>8 DEF WriteSoFar
    <2> QED BY <2>3, <2>4, <2>5, <2>6
  <1>11. CASE ~(word < PageWords - 1) /\ stage' # "deselect"
    <2>1. /\ word' = 0 /\ page' = page + 1 /\ stage' = "load" /\ Len(got) < Goal
          /\ run.cmd # "test"
      BY <1>3, <1>11
    <2>2. Len(data) = page * PageWords + word /\ run.cmd \in {"read", "verify"} BY <1>6, <2>1
    <2>3. Len(got) = (page + 1) * PageWords BY <1>2, <1>3, <1>11, <2>2
    <2>4. word' \in 0 .. PageWords - 1 /\ page' \in 0 .. Pages - 1
      <3>1. page + 1 = Pages => (page + 1) * PageWords = Pages * PageWords BY <1>2
      <3>2. (page + 1) * PageWords < Pages * PageWords BY <1>2, <1>3, <1>5, <2>1, <2>3
      <3>3. page + 1 # Pages BY <1>2, <3>1, <3>2
      <3> QED BY <1>2, <2>1, <3>3
    <2>5. RunShape' BY <1>1, <1>2, <1>3, <2>1, <2>4, ShapeKept DEF RunInv, RunShape, Stages
    <2>6. /\ run'.cmd \in {"read", "verify"} /\ Len(data') = page' * PageWords + word'
          /\ page' * PageWords < Programmer!Wanted'
      BY <1>1, <1>2, <1>3, <1>4, <1>5, <2>1, <2>2, <2>3
    <2>7. Course' BY <1>1, <2>1, <2>6 DEF Course
    <2>8. Buffered' BY <1>1, <2>1 DEF RunInv, Buffered
    <2>9. WriteSoFar' BY <1>1, <1>8 DEF WriteSoFar
    <2> QED BY <2>5, <2>7, <2>8, <2>9
  <1> QED BY <1>9, <1>10, <1>11

\* ... and is what the flash holds there, or 0.
LEMMA ReadInPlace ==
  ASSUME RunInv, stage = "load", NEW got, NEW value, WordRead(got, value)
  PROVE  VerifySoFar' /\ TestSoFar' /\ UnderWay'
  <1>1. /\ chip' \in Programmer!Chips /\ chip'.flash = chip.flash /\ chip'.manual = chip.manual
        /\ up' \in BOOLEAN /\ (up' => up)
        /\ data' = got /\ UNCHANGED <<run, exit, before>>
    BY ReadAlone DEF WordRead
  <1>2. /\ Len(got) = Len(data) + 1 /\ Len(data) \in Nat
        /\ \A j \in 1 .. Len(data) : got[j] = data[j]
        /\ got[Len(data) + 1] = value
        /\ stage' \in {"load", "deselect"}
        /\ stage' = "deselect" => Len(got) >= Goal /\ Programmer!PageRead(got)
    <2>1. data \in Seq(Programmer!Word) BY DEF RunInv, RunShape
    <2> QED BY <2>1, WordCounted
  <1>3. \A j \in 1 .. Len(got) : j \in 1 .. Len(data) \/ j = Len(data) + 1 BY <1>2
  <1>4. /\ (up /\ Still' /\ value = chip.flash[page * PageWords + word]) \/ value = {}
        /\ Still => Still'
    BY ReadAlone
  <1>5. ASSUME run.cmd = "verify" PROVE VerifySoFar'
    <2>1. \A j \in 1 .. Len(data) : data[j] \in {{}, chip.flash[j - 1]}
      BY <1>5 DEF RunInv, VerifySoFar
    <2>2. Len(data) = page * PageWords + word BY <1>5 DEF RunInv, Course
    <2>3. \A j \in 1 .. Len(got) : got[j] \in {{}, chip.flash[j - 1]}
      <3>1. (Len(data) + 1) - 1 = page * PageWords + word BY <1>2, <2>2
      <3>2. got[Len(data) + 1] \in {{}, chip.flash[(Len(data) + 1) - 1]} BY <1>2, <1>4, <3>1
      <3> QED BY <1>2, <1>3, <2>1, <3>2
    <2>4. stage' = "deselect" =>
            \A j \in 1 .. Len(run.file) : j <= Len(got) /\ got[j] = run.file[j]
      <3>1. SUFFICES ASSUME stage' = "deselect", NEW j \in 1 .. Len(run.file)
                     PROVE  j <= Len(got) /\ got[j] = run.file[j]
        OBVIOUS
      <3>2. ~Programmer!Differs(got)
        BY <1>2, <1>5, <3>1 DEF WordRead, Programmer!Fails
      <3>3. Len(got) >= Len(run.file) BY <1>2, <1>5, <3>1 DEF Goal
      <3>4. Len(run.file) \in Nat /\ Len(got) \in Nat BY <1>2 DEF RunInv, RunShape
      <3>5. j \in 1 .. Len(got) /\ j <= Len(run.file) BY <3>1, <3>3, <3>4
      <3> QED BY <3>2, <3>5 DEF Programmer!Differs
    <2> QED BY <1>1, <2>3, <2>4 DEF VerifySoFar
  <1>6. ASSUME run.cmd = "test" PROVE TestSoFar'
    <2>1. Tested \/ (~up /\ \A j \in 1 .. Len(data) : data[j] = {})
      BY <1>6 DEF RunInv, TestSoFar
    <2>2. Tested => Tested' BY <1>1 DEF Tested
    <2>3. ASSUME ~Tested PROVE ~up' /\ \A j \in 1 .. Len(got) : got[j] = {}
      BY <1>1, <1>2, <1>3, <1>4, <2>1, <2>3
    <2>4. stage' = "deselect" => Len(got) >= PageWords BY <1>2, <1>6 DEF Goal
    <2>5. Tested' \/ (~up' /\ \A j \in 1 .. Len(data') : data'[j] = {})
      BY <1>1, <2>2, <2>3
    <2> HIDE DEF Tested
    <2> QED BY <1>1, <1>2, <2>4, <2>5 DEF TestSoFar
  <1>7. run.cmd # "verify" => VerifySoFar' BY <1>1 DEF VerifySoFar
  <1>8. run.cmd # "test" => TestSoFar' BY <1>1 DEF TestSoFar
  <1>9. UnderWay'
    <2>1. run.cmd \in {"read", "verify", "test"} BY DEF RunInv, Course
    <2>2. run.cmd # "test" => Still' BY <1>4, <2>1 DEF RunInv, UnderWay
    <2>3. ASSUME run.cmd = "test", ~Still' PROVE \A j \in 1 .. Len(data') : data'[j] = {}
      <3>1. \A j \in 1 .. Len(data) : data[j] = {} BY <1>4, <2>3 DEF RunInv, UnderWay
      <3> QED BY <1>1, <1>2, <1>3, <1>4, <2>3, <3>1
    <2> QED BY <1>1, <1>2, <2>1, <2>2, <2>3 DEF UnderWay
  <1> QED BY <1>5, <1>6, <1>7, <1>8, <1>9

LEMMA Reading ==
  ASSUME RunInv, Programmer!ReadWord
  PROVE  RunInv'
  <1>1. stage = "load" BY DEF Programmer!ReadWord
  <1>2. PICK value \in Programmer!Word :
          LET got == Append(data, value)
          IN  /\ Programmer!Get(value, chip.flash[page * PageWords + word], {},
                                Programmer!Waited(chip))
              /\ IF Programmer!Fails(got) THEN Programmer!Exit(1)
                 ELSE /\ data' = got
                      /\ word' = (word + 1) % PageWords
                      /\ page' = IF Programmer!PageRead(got) /\ ~Programmer!AllRead(got)
                                 THEN page + 1 ELSE page
                      /\ stage' = IF Programmer!AllRead(got) THEN "deselect" ELSE stage
                      /\ UNCHANGED <<run, exit, before>>
    BY DEF Programmer!ReadWord
  <1>3. chip' \in Programmer!Chips /\ up' \in BOOLEAN
    <2>1. chip \in Programmer!Chips BY DEF RunInv, RunShape
    <2>2. up' \in BOOLEAN /\ chip' \in {chip, Programmer!Waited(chip)} BY <1>2, WordAsked
    <2> QED BY <2>1, <2>2, WaitEffect
  <1>4. CASE Programmer!Fails(Append(data, value))
    BY <1>2, <1>3, <1>4, RunEnds DEF RunInv, RunShape
  <1>5. CASE ~Programmer!Fails(Append(data, value))
    <2>1. WordRead(Append(data, value), value) BY <1>2, <1>5 DEF WordRead
    <2> QED BY <1>1, <2>1, ReadOnCourse, ReadInPlace DEF RunInv
  <1> QED BY <1>4, <1>5

\* What a run that ends without an error has done.
WriteEarned ==
  run.cmd = "write" =>
    \A i \in Cells :
      LET held == before[i]
          put == IF i < Len(run.file) THEN held \cap run.file[i + 1] ELSE held
      IN  IF i \div PageWords = page /\ run.file # <<>>
          THEN put \subseteq chip'.flash[i] /\ chip'.flash[i] \subseteq held
          ELSE chip'.flash[i] = put

VerifyEarned ==
  run.cmd = "verify" =>
    \A i \in 1 .. Len(run.file) : run.file[i] = {} \/ chip'.flash[i - 1] = run.file[i]

TestEarned ==
  run.cmd = "test" =>
    \A i \in Cells :
      chip'.flash[i] = IF i \div PageWords = TestPage
                       THEN Pattern[(i % PageWords) + 1] ELSE Blank

Earned == Programmer!Ends /\ exit' = 0 => WriteEarned /\ VerifyEarned /\ TestEarned

\* The reset in the end leaves every cell between what it is and what it was.
LEMMA LastReset ==
  ASSUME RunInv, Programmer!PutReset
  PROVE  \/ chip'.flash = chip.flash
         \/ \A i \in Cells : chip.flash[i] \subseteq chip'.flash[i]
                             /\ chip'.flash[i] \subseteq chip.was[i]
  <1>1. chip \in Programmer!Chips BY DEF RunInv, RunShape
  <1>2. ASSUME NEW f \in Programmer!Torn(chip), chip' = Programmer!Reset(chip, f)
        PROVE  \A i \in Cells : chip.flash[i] \subseteq chip'.flash[i]
                               /\ chip'.flash[i] \subseteq chip.was[i]
    <2>1. chip'.flash = f BY <1>1, <1>2, ResetEffect
    <2> QED BY <2>1 DEF Programmer!Torn, Cells
  <1> QED BY <1>2, ResetCommanded

\* Of a write the last page may be missing, or torn.
LEMMA WriteReaches ==
  ASSUME RunInv, stage = "deselect", Programmer!PutReset
  PROVE  WriteEarned
  <1>1. SUFFICES ASSUME run.cmd = "write", NEW i \in Cells
                 PROVE  IF i \div PageWords = page /\ run.file # <<>>
                        THEN Wanting(i) \subseteq chip'.flash[i] /\ chip'.flash[i] \subseteq before[i]
                        ELSE chip'.flash[i] = Wanting(i)
    BY DEF WriteEarned, Wanting
  <1>2. /\ page \in Nat /\ PageWords \in Nat \ {0} /\ i \in Nat /\ page * PageWords \in Nat
        /\ (page + 1) * PageWords = page * PageWords + PageWords
        /\ run.file \in Seq(Programmer!Word) /\ Len(run.file) \in Nat
    <2>1. page \in Nat /\ run.file \in Seq(Programmer!Word) BY Sizes DEF RunInv, RunShape
    <2>2. PageWords \in Nat \ {0} /\ i \in Nat BY Sizes
    <2>3. Len(run.file) \in Nat BY <2>1
    <2> QED BY <2>1, <2>2, <2>3, NextPage
  <1>3. \/ chip'.flash[i] = chip.flash[i]
        \/ chip.flash[i] \subseteq chip'.flash[i] /\ chip'.flash[i] \subseteq chip.was[i]
    BY LastReset
  <1>4. IF i \div PageWords = page /\ run.file # <<>>
        THEN chip.was[i] \subseteq before[i] ELSE chip.was[i] = chip.flash[i]
    BY <1>1 DEF RunInv, UnderWay
  <1>5. Wanting(i) \subseteq before[i] BY DEF Wanting
  <1>6. IF i \div PageWords = page /\ run.file # <<>>
        THEN chip.flash[i] \in {before[i], Wanting(i)} ELSE chip.flash[i] = Wanting(i)
    <2>1. CASE run.file = <<>>
      <3>1. chip.flash = before BY <1>1, <2>1 DEF RunInv, WriteSoFar
      <3> QED BY <1>2, <2>1, <3>1 DEF Wanting
    <2>2. CASE run.file # <<>>
      <3>1. /\ (page + 1) * PageWords >= Len(run.file)
            /\ WrittenBelow(page * PageWords) \/ WrittenBelow((page + 1) * PageWords)
        BY <1>1, <2>2 DEF RunInv, WriteSoFar
      <3>2. \/ chip.flash[i] = IF i < page * PageWords THEN Wanting(i) ELSE before[i]
            \/ chip.flash[i] = IF i < page * PageWords + PageWords THEN Wanting(i) ELSE before[i]
        BY <1>1, <1>2, <3>1 DEF WrittenBelow
      <3>3. i \div PageWords # page => i < page * PageWords \/ i >= page * PageWords + PageWords
        BY <1>2, PageSpan
      <3>4. i >= page * PageWords + PageWords => Wanting(i) = before[i]
        BY <1>2, <3>1 DEF Wanting
      <3> QED BY <1>2, <2>2, <3>2, <3>3, <3>4
    <2> QED BY <2>1, <2>2
  <1>7. CASE i \div PageWords = page /\ run.file # <<>> BY <1>3, <1>4, <1>5, <1>6, <1>7
  <1>8. CASE ~(i \div PageWords = page /\ run.file # <<>>)
    <2>1. chip.was[i] = chip.flash[i] /\ chip.flash[i] = Wanting(i) BY <1>4, <1>6, <1>8
    <2>2. chip'.flash[i] = chip.flash[i] BY <1>3, <2>1, Zenon
    <2> QED BY <1>8, <2>1, <2>2
  <1> QED BY <1>7, <1>8

\* A verify has compared all of its file.
LEMMA VerifyFinds ==
  ASSUME RunInv, stage = "deselect", Programmer!PutReset
  PROVE  VerifyEarned
  <1>1. SUFFICES ASSUME run.cmd = "verify", NEW i \in 1 .. Len(run.file)
                 PROVE  run.file[i] = {} \/ chip'.flash[i - 1] = run.file[i]
    BY DEF VerifyEarned
  <1>2. chip'.flash = chip.flash
    <2>1. Still BY <1>1 DEF RunInv, UnderWay
    <2> QED BY <2>1, ResetCommanded
  <1>3. i <= Len(data) /\ data[i] = run.file[i] BY <1>1 DEF RunInv, VerifySoFar
  <1>4. i \in 1 .. Len(data)
    <2>1. Len(data) \in Nat BY DEF RunInv, RunShape
    <2> QED BY <1>1, <1>3, <2>1
  <1>5. data[i] \in {{}, chip.flash[i - 1]} BY <1>1, <1>4 DEF RunInv, VerifySoFar
  <1> QED BY <1>2, <1>3, <1>5

\* A test that read nothing but 0 differs from its pattern; any other word it read
\* was there, and the page no longer under way.
LEMMA TestFinds ==
  ASSUME RunInv, stage = "deselect", Programmer!PutReset,
         ~(run.cmd = "test" /\ Programmer!Differs(data))
  PROVE  TestEarned
  <1>1. SUFFICES ASSUME run.cmd = "test" PROVE Tested /\ Still
    <2>1. ASSUME Tested, Still PROVE Tested'
      <3>1. chip'.flash = chip.flash BY <2>1, ResetCommanded
      <3> QED BY <2>1, <3>1 DEF Tested
    <2> QED BY <2>1 DEF TestEarned, Tested
  <1>2. ASSUME \A j \in 1 .. Len(data) : data[j] = {} PROVE FALSE
    <2>1. PICK w \in 1 .. PageWords : Pattern[w] # {} BY Sizes
    <2>2. /\ run.file = Pattern /\ Len(Pattern) = PageWords /\ PageWords \in Nat
          /\ Len(data) \in Nat /\ Len(data) >= PageWords
      BY <1>1, Sizes DEF RunInv, RunShape, TestSoFar
    <2>3. w \in 1 .. Len(data) /\ w <= Len(run.file) BY <2>2
    <2>4. data[w] # run.file[w] BY <1>2, <2>1, <2>2, <2>3
    <2> QED BY <1>1, <2>3, <2>4 DEF Programmer!Differs
  <1>3. Tested BY <1>1, <1>2 DEF RunInv, TestSoFar
  <1>4. Still BY <1>1, <1>2 DEF RunInv, UnderWay
  <1> QED BY <1>3, <1>4

LEMMA Deselecting ==
  ASSUME RunInv, Programmer!Deselect
  PROVE  RunInv' /\ Earned
  <1>1. /\ stage = "deselect" /\ Programmer!PutReset
        /\ Programmer!Exit(IF run.cmd = "test" /\ Programmer!Differs(data) THEN 1 ELSE 0)
    BY DEF Programmer!Deselect
  <1>2. up' \in BOOLEAN /\ chip' \in Programmer!Chips BY <1>1, ResetCommanded
  <1>3. RunInv' BY <1>1, <1>2, RunEnds
  <1>4. exit' = 0 => ~(run.cmd = "test" /\ Programmer!Differs(data))
    BY <1>1 DEF Programmer!Exit
  <1> QED BY <1>1, <1>3, <1>4, WriteReaches, VerifyFinds, TestFinds DEF Earned

\* A run that is lost or killed.
LEMMA LostOrKilled ==
  ASSUME RunInv, Programmer!Astray \/ Programmer!Killed
  PROVE  RunInv' /\ exit' = 1
  <1>1. CASE Programmer!Astray
    <2>1. PICK f \in [Programmer!Cells -> Programmer!Word] : chip' = Programmer!Reset(chip, f)
      BY <1>1 DEF Programmer!Astray
    <2>2. chip \in Programmer!Chips BY DEF RunInv, RunShape
    <2>3. chip' \in Programmer!Chips
      <3>1. Programmer!BlankPage \in [0 .. PageWords - 1 -> Programmer!Word]
        BY DEF Programmer!BlankPage, Programmer!Blank, Programmer!Word
      <3> QED BY <2>1, <2>2, <3>1 DEF Programmer!Chips, Programmer!Reset
    <2>4. up' = FALSE /\ Programmer!Exit(1) BY <1>1 DEF Programmer!Astray
    <2> QED BY <2>3, <2>4, RunEnds DEF Programmer!Exit
  <1>2. CASE Programmer!Killed
    <2>1. UNCHANGED <<chip, up>> /\ Programmer!Exit(1) BY <1>2 DEF Programmer!Killed
    <2> QED BY <2>1, RunEnds DEF Programmer!Exit, RunInv, RunShape
  <1> QED BY <1>1, <1>2

\* No other step ends a run without an error.
LEMMA GoesOn ==
  ASSUME RunInv, Programmer!Next, ~Programmer!Deselect
  PROVE  Earned
  <1>1. SUFFICES ~(Programmer!Ends /\ exit' = 0) BY DEF Earned
  <1>2. CASE Programmer!Begin BY <1>2 DEF Programmer!Begin, Programmer!Ends
  <1>3. CASE Programmer!SelectReset \/ Programmer!SelectAutomatic
    BY <1>3 DEF Programmer!SelectReset, Programmer!SelectAutomatic, Programmer!Goto,
                Programmer!Ends
  <1>4. CASE Programmer!TargetId
    <2>1. /\ run.cmd \in {"erase", "read", "write", "verify"}
          /\ \/ Programmer!Exit(1)
             \/ Programmer!Goto(CASE run.cmd = "erase" -> "clear"
                    [] run.cmd \in {"write", "verify"} /\ run.file = <<>> -> "deselect"
                    [] run.cmd = "write" /\ run.file # <<>> -> "address"
                    [] OTHER -> "load")
      BY <1>4 DEF Programmer!TargetId, RunInv, RunShape, Course, Commands
    <2> QED BY <2>1 DEF Programmer!Exit, Programmer!Goto, Programmer!Ends
  <1>5. CASE Programmer!EraseClear \/ Programmer!EraseStart \/ Programmer!EraseWait
    BY <1>5 DEF Programmer!EraseClear, Programmer!EraseStart, Programmer!EraseWait,
                Programmer!Goto, Programmer!Ends
  <1>6. CASE Programmer!RowAddress \/ Programmer!RowErase \/ Programmer!RowWait
    BY <1>6 DEF Programmer!RowAddress, Programmer!RowErase, Programmer!RowWait,
                Programmer!Ready, Programmer!Goto, Programmer!Ends
  <1>7. CASE Programmer!WriteAddress \/ Programmer!WriteUnlock
    BY <1>7 DEF Programmer!WriteAddress, Programmer!WriteUnlock,
                Programmer!Ready, Programmer!Goto, Programmer!Ends
  <1>8. CASE Programmer!WriteWord
    BY <1>8 DEF Programmer!WriteWord, Programmer!Ends
  <1>9. CASE Programmer!ReadWord
    BY <1>9 DEF Programmer!ReadWord, Programmer!Exit, Programmer!Ends
  <1>10. CASE Programmer!Astray \/ Programmer!Killed BY <1>10, LostOrKilled
  <1> QED BY <1>2, <1>3, <1>4, <1>5, <1>6, <1>7, <1>8, <1>9, <1>10
          DEF Programmer!Next, Programmer!Work

LEMMA NextRun ==
  ASSUME RunInv, [Programmer!Next]_(Programmer!vars)
  PROVE  RunInv' /\ [Earned]_(Programmer!vars)
  <1>1. CASE UNCHANGED Programmer!vars
    <2>1. UNCHANGED <<chip, up, run, stage, page, word, data, exit, before>>
      BY <1>1 DEF Programmer!vars
    <2>3. WrittenBelow(page * PageWords)' <=> WrittenBelow(page * PageWords)
      BY <2>1 DEF WrittenBelow, Wanting
    <2>4. WrittenBelow((page + 1) * PageWords)' <=> WrittenBelow((page + 1) * PageWords)
      BY <2>1 DEF WrittenBelow, Wanting
    <2>5. \A w : Programmer!PageWord(page, w)' = Programmer!PageWord(page, w)
      BY <2>1 DEF Programmer!PageWord
    <2>6. Programmer!Wanted' = Programmer!Wanted BY <2>1 DEF Programmer!Wanted
    <2>7. (Erased' <=> Erased) /\ (Tested' <=> Tested) BY <2>1 DEF Erased, Tested
    <2>8. RunShape' BY <2>1 DEF RunInv, RunShape
    <2>9. Course' BY <2>1, <2>6 DEF RunInv, Course
    <2>10. Buffered' BY <2>1, <2>5 DEF RunInv, Buffered
    <2>11. WriteSoFar' BY <2>1, <2>3, <2>4 DEF RunInv, WriteSoFar
    <2>12. VerifySoFar' /\ TestSoFar' BY <2>1, <2>7 DEF RunInv, VerifySoFar, TestSoFar
    <2>13. UnderWay' BY <2>1 DEF RunInv, UnderWay, Still, Settles
    <2> QED BY <1>1, <2>8, <2>9, <2>10, <2>11, <2>12, <2>13 DEF RunInv
  <1>2. CASE Programmer!Deselect BY <1>2, Deselecting
  <1>3. CASE Programmer!Next /\ ~Programmer!Deselect
    <2>1. RunInv'
      BY <1>3, RunBegins, Selecting, Identifying, Erasing, ErasedInTheEnd, RowErasing,
         Addressing, Writing, Reading, LostOrKilled
         DEF Programmer!Next, Programmer!Work
    <2> QED BY <1>3, <2>1, GoesOn
  <1> QED BY <1>1, <1>2, <1>3

LEMMA RunStarts ==
  ASSUME Programmer!Init
  PROVE  RunInv
  <1>1. /\ chip \in [flash: [Programmer!Cells -> Programmer!Word],
                     was: [Programmer!Cells -> Programmer!Word], buffer: {Programmer!BlankPage},
                     manual: {TRUE}, done: {FALSE}, row: {0}]
        /\ up = FALSE /\ run = [cmd |-> "none", file |-> <<>>]
        /\ stage = "idle" /\ page = 0 /\ word = 0 /\ data = <<>> /\ exit = 0
        /\ before = chip.flash
    BY DEF Programmer!Init
  <1>2. 0 \in 0 .. Pages - 1 /\ 0 \in 0 .. PageWords - 1 BY Sizes
  <1>3. Programmer!BlankPage \in [0 .. PageWords - 1 -> Programmer!Word]
    BY DEF Programmer!BlankPage, Programmer!Blank, Programmer!Word
  <1>4. chip \in Programmer!Chips BY <1>1, <1>2, <1>3 DEF Programmer!Chips
  <1>5. <<>> \in Seq(Programmer!Word) OBVIOUS
  <1>6. RunShape
    BY <1>1, <1>2, <1>4, <1>5 DEF RunShape, Stages, Commands, Programmer!Chips, Cells
  <1> QED BY <1>1, <1>6
          DEF RunInv, Course, Buffered, WriteSoFar, VerifySoFar, TestSoFar, UnderWay

-----------------------------------------------------------------------------
(* The hosts together *)

\* A behavior of the three hosts is one of each of them.
LEMMA EachHost ==
  HostsSpec => Spec /\ Engine!Spec /\ Programmer!Spec
  <1>1. HostsInit => Init /\ Engine!Init /\ Programmer!Init BY DEF HostsInit
  <1>2. [HostsNext]_hostsVars => [Next]_vars
    BY DEF HostsNext, TransportStep, EngineStep, ProgrammerStep, hostsVars
  <1>3. [HostsNext]_hostsVars => [Engine!Next]_(Engine!vars)
    BY DEF HostsNext, TransportStep, EngineStep, ProgrammerStep, hostsVars, engineVars,
           Engine!vars, Engine!history
  <1>4. [HostsNext]_hostsVars => [Programmer!Next]_(Programmer!vars)
    BY DEF HostsNext, TransportStep, EngineStep, ProgrammerStep, hostsVars, programmerVars,
           Programmer!vars
  <1> QED
    BY <1>1, <1>2, <1>3, <1>4, PTL DEF HostsSpec, Spec, Engine!Spec, Programmer!Spec

\* The engine writes no word but the one it was asked to, and returns the word of
\* the target or 0, unless a request ran out of attempts unnoticed.
THEOREM EngineSafe ==
  HostsSpec => EngineIsSafe
  <1>1. Engine!Init => EngineInv BY EngineStarts
  <1>2. EngineInv /\ [Engine!Next]_(Engine!vars) =>
          EngineInv' /\ [WordStep /\ OpenStep]_(Engine!vars)
    BY NextEngine
  <1>3. Engine!Spec => [][WordStep /\ OpenStep]_(Engine!vars)
    BY <1>1, <1>2, PTL DEF Engine!Spec
  <1>4. [WordStep /\ OpenStep]_(Engine!vars) =>
          /\ [~expired /\ remote'.mem # remote.mem =>
                remote'.mem = [remote.mem EXCEPT ![order.at] = order.value]]_(Engine!vars)
          /\ [order.op = "read" /\ phase' = "idle" /\ ~expired /\ result' # 0
                => result' = remote.mem[order.at]]_(Engine!vars)
    BY DEF WordStep
  <1> QED
    BY <1>3, <1>4, EachHost, PTL
       DEF EngineIsSafe, Engine!EngineIsSafe, Engine!WritesGoWhereAimed, Engine!ReadsAreTrueOrZero

\* Over a calm wire a session that is set up again drives the port, whatever
\* failed before, and leaves no error flag on a target that is powered.
THEOREM SessionsRevive ==
  HostsSpec => SessionRevives
  <1>1. Engine!Init => EngineInv BY EngineStarts
  <1>2. EngineInv /\ [Engine!Next]_(Engine!vars) =>
          EngineInv' /\ [WordStep /\ OpenStep]_(Engine!vars)
    BY NextEngine
  <1>3. Engine!Spec => [][WordStep /\ OpenStep]_(Engine!vars)
    BY <1>1, <1>2, PTL DEF Engine!Spec
  <1>4. [WordStep /\ OpenStep]_(Engine!vars) =>
          [order.op = "open" /\ phase' = "idle" /\ calm' /\ ~stuck =>
             driven' /\ (remote'.power => remote'.sticky = {})]_(Engine!vars)
    BY DEF OpenStep
  <1> QED
    BY <1>3, <1>4, EachHost, PTL DEF SessionRevives, Engine!SessionRevives

\* A run of a research programmer that exits without an error has written every
\* page of the file but the last, which the reset may tear, found every word of it
\* that is not 0, or erased and written the controller it tested.
THEOREM SuccessEarned ==
  HostsSpec => SuccessIsEarned
  <1>1. Programmer!Init => RunInv BY RunStarts
  <1>2. RunInv /\ [Programmer!Next]_(Programmer!vars) => RunInv' /\ [Earned]_(Programmer!vars)
    BY NextRun
  <1>3. Programmer!Spec => [][Earned]_(Programmer!vars)
    BY <1>1, <1>2, PTL DEF Programmer!Spec
  <1>4. [Earned]_(Programmer!vars) =>
          /\ [Programmer!Ends /\ exit' = 0 /\ run.cmd = "write" =>
                \A i \in Programmer!Cells :
                  LET held == before[i]
                      put == IF i < Len(run.file) THEN held \cap run.file[i + 1] ELSE held
                  IN  IF i \div PageWords = page /\ run.file # <<>>
                      THEN put \subseteq chip'.flash[i] /\ chip'.flash[i] \subseteq held
                      ELSE chip'.flash[i] = put]_(Programmer!vars)
          /\ [Programmer!Ends /\ exit' = 0 /\ run.cmd = "verify" =>
                \A i \in 1 .. Len(run.file) :
                  run.file[i] = {} \/ chip'.flash[i - 1] = run.file[i]]_(Programmer!vars)
          /\ [Programmer!Ends /\ exit' = 0 /\ run.cmd = "test" =>
                \A i \in Programmer!Cells :
                  chip'.flash[i] = IF i \div PageWords = TestPage
                                   THEN Pattern[(i % PageWords) + 1]
                                   ELSE Programmer!Blank]_(Programmer!vars)
    BY DEF Earned, WriteEarned, VerifyEarned, TestEarned, Cells, Blank
  <1> QED
    BY <1>3, <1>4, EachHost, PTL
       DEF SuccessIsEarned, Programmer!SuccessIsEarned, Programmer!WriteReachesLastPage,
           Programmer!VerifyFindsTheFile, Programmer!TestIsHonest

\* The types of the three hosts.
THEOREM HostsTypes ==
  HostsSpec => []HostsTypeOK
  <1>1. Programmer!Init => RunInv BY RunStarts
  <1>2. RunInv /\ [Programmer!Next]_(Programmer!vars) => RunInv' BY NextRun
  <1>3. RunInv => Programmer!EmbeddedTypeOK
    BY DEF RunInv, RunShape, Programmer!EmbeddedTypeOK
  <1>4. Programmer!Spec => []Programmer!EmbeddedTypeOK
    BY <1>1, <1>2, <1>3, PTL DEF Programmer!Spec
  <1>5. Engine!Init => EngineInv BY EngineStarts
  <1>6. EngineInv /\ [Engine!Next]_(Engine!vars) => EngineInv' BY NextEngine
  <1>7. EngineInv => Engine!EngineTypeOK BY EngineTyped
  <1>8. Engine!Spec => []Engine!EngineTypeOK
    BY <1>5, <1>6, <1>7, PTL DEF Engine!Spec
  <1>9. TransportTypeOK /\ Engine!EngineTypeOK /\ Programmer!EmbeddedTypeOK => HostsTypeOK
    BY DEF HostsTypeOK
  <1>10. Spec => []TransportTypeOK BY TransportSizes, TransportTypes
  <1> QED BY <1>4, <1>8, <1>9, <1>10, EachHost, PTL
=============================================================================
