------------------------------- MODULE EdbgDap -------------------------------
(***************************************************************************)
(* The request queue of .research/edbg-master/dap.c over SWD.  Requests    *)
(* are queued, dap_transfer packs them into packets for the probe, and     *)
(* between packets the host remembers what it last told the access port,   *)
(* its access size and its address, so as not to repeat it.                *)
(* Bytes carry the number of the request that wrote them, so that no two   *)
(* of them are alike.  The probe and the target are outside the            *)
(* repository: Perform and Exchange.                                       *)
(***************************************************************************)
EXTENDS Integers, Sequences, FiniteSets

CONSTANTS
  Size,        \* bytes of the target that are looked at
  Bus,         \* bytes of a word: 4 in the code
  Wrap,        \* reach of the address increment: 1 KB
  Packet,      \* dbg_get_packet_size
  MaxOps,      \* operations of a packet: 255
  MaxRequests, \* TRANSFER_SIZE
  Accesses,    \* what is requested: [type, size, addr]
  Blocks       \* what is read and written as a block: [at, size]

Addresses == 0 .. Size - 1
Sizes == {s \in {1, 2, 4} : s <= Bus}

QueueAssumption ==
  /\ Size \in Nat \ {0} /\ Wrap \in Nat \ {0} /\ Bus \in {2, 4}
  /\ Wrap % Bus = 0 /\ Size % Bus = 0
  /\ Packet \in Nat /\ Packet >= 19 \* the longest request fits a packet
  /\ MaxOps \in Nat /\ MaxOps >= 4
  /\ MaxRequests \in Nat \ {0}
  /\ \A a \in Accesses : a.size \in Sizes /\ a.addr \in Addresses /\ a.addr % a.size = 0
  /\ \A b \in Blocks : b.at \in Addresses /\ b.size \in Nat \ {0} /\ b.at + b.size <= Size

VARIABLES
  queue,    \* dap_request
  replies,  \* dap_response, one of queue's each; kept until the next transfer
  cache,    \* dap_csw, dap_set_address and dap_address
  pc,       \* "idle", "transfer", or "exit": error_exit or a failed assertion
  block,    \* the block call in progress: [op, at, size]
  port      \* external: [mem, tar, csw]

vars == <<queue, replies, cache, pc, block, port>>

Blank == <<0, 0>>                        \* the zeros to_lane shifts in
Original == [a \in Addresses |-> <<0, a>>]

Request(type, size, addr, data) ==
  [type |-> type, size |-> size, addr |-> addr, data |-> data]
Tagged(n, from, size) == [k \in 0 .. size - 1 |-> <<n, from + k>>]
Memory(req) == req.type \in {"read", "write", "both"}
Reads(req) == req.type \in {"read", "both", "read reg"}
Writes(req) == req.type \in {"write", "both"}

(* Position of an access in its word: addr & 3 of a byte, addr & 2 of a    *)
(* half, a word is not shifted.                                            *)
Lane(req) == (req.addr % Bus) - (req.addr % req.size)
ToLane(req) ==
  [l \in 0 .. Bus - 1 |-> IF l - Lane(req) \in 0 .. req.size - 1
                          THEN req.data[l - Lane(req)] ELSE Blank]
FromLane(req, value) == [k \in 0 .. req.size - 1 |-> value[Lane(req) + k]]

-----------------------------------------------------------------------------
(* The access port: an access of the size CSW says at TAR, which counts up *)
(* within Wrap unless CSW says otherwise.                                  *)
Counted(p) ==
  IF p.csw.inc
  THEN LET n == p.tar + p.csw.size IN IF n % Wrap = 0 THEN n - Wrap ELSE n
  ELSE p.tar

Word(p) == [l \in 0 .. Bus - 1 |-> p.mem[Bus * (p.tar \div Bus) + l]]

Stored(p, value) ==
  [a \in Addresses |-> IF a - p.tar \in 0 .. p.csw.size - 1
                       THEN value[(p.tar % Bus) + (a - p.tar)] ELSE p.mem[a]]

Perform(p, op) ==
  CASE op.op = "csw" -> [p EXCEPT !.csw = op.csw]
    [] op.op = "tar" -> [p EXCEPT !.tar = op.addr]
    [] op.op \in {"write", "skip"} /\ op.memory ->
         [p EXCEPT !.mem = Stored(p, op.data), !.tar = Counted(p)]
    [] op.op = "read" /\ op.memory -> [p EXCEPT !.tar = Counted(p)]
    [] OTHER -> p

\* The target after each number of operations of a packet.
After(ops) ==
  LET f[i \in 0 .. Len(ops)] == IF i = 0 THEN port ELSE Perform(f[i - 1], ops[i])
  IN  f

-----------------------------------------------------------------------------
(* buffer_request: the operations of a request, given what the access port *)
(* has been told already, and what is remembered afterwards.               *)
Csw(req) == [size |-> req.size, inc |-> req.type # "both"]
NoCsw == [size |-> 0, inc |-> FALSE]

\* Mutant: the end of the address increment is forgotten.
OnlyWhenMoved(c, req) == c.set \/ c.address # req.addr
TellAddress(c, req) == c.set \/ c.address # req.addr \/ c.address % Wrap = 0

Op(op) == [op |-> op, memory |-> FALSE]
Operations(c, req) ==
  IF ~Memory(req)
  THEN <<Op(IF req.type = "read reg" THEN "read" ELSE "write")>>
  ELSE (IF c.csw # Csw(req) THEN <<[op |-> "csw", csw |-> Csw(req)]>> ELSE <<>>)
       \o (IF TellAddress(c, req) THEN <<[op |-> "tar", addr |-> req.addr]>> ELSE <<>>)
       \o (IF Writes(req)
           THEN <<[op |-> IF Reads(req) THEN "skip" ELSE "write",
                   memory |-> TRUE, data |-> ToLane(req)]>> ELSE <<>>)
       \o (IF Reads(req) THEN <<[op |-> "read", memory |-> TRUE]>> ELSE <<>>)

Remembered(c, req) ==
  IF Memory(req)
  THEN [csw |-> Csw(req), set |-> FALSE,
        address |-> req.addr + (IF req.type = "both" THEN 0 ELSE req.size)]
  ELSE c

(* Bytes of the packet and of its answer: a read is a byte and four to be  *)
(* answered, all others are five.                                          *)
ReadCount(ops) == Cardinality({i \in 1 .. Len(ops) : ops[i].op = "read"})
Bytes(ops) == 3 + 5 * Len(ops) - 4 * ReadCount(ops)
AnswerBytes(ops) == 2 + 4 * ReadCount(ops)

\* Mutant: a packet is never quite full.
FitsLoosely(ops) == Bytes(ops) < Packet /\ AnswerBytes(ops) < Packet /\ Len(ops) < MaxOps
Fits(ops) == Bytes(ops) <= Packet /\ AnswerBytes(ops) <= Packet /\ Len(ops) <= MaxOps

(* One packet of dap_transfer: requests from the first unanswered on, for  *)
(* as long as they fit; of the one that does not, nothing is kept.         *)
Filled ==
  LET first == Len(replies)
      f[i \in first .. Len(queue)] ==
        IF i = first THEN [ops |-> <<>>, cache |-> cache, full |-> FALSE]
        ELSE LET p == f[i - 1]
                 ops == p.ops \o Operations(p.cache, queue[i])
             IN  IF p.full \/ ~Fits(ops) THEN [p EXCEPT !.full = TRUE]
                 ELSE [p EXCEPT !.ops = ops, !.cache = Remembered(p.cache, queue[i])]
  IN  f[Len(queue)]

(* The answers of a packet, one for each request in it.                    *)
Answered(ops) ==
  LET f[i \in 0 .. Len(ops)] ==
        IF i = 0 THEN replies
        ELSE LET req == queue[Len(f[i - 1]) + 1]
             IN  CASE ops[i].op = "read" ->
                        Append(f[i - 1], IF Memory(req) THEN FromLane(req, Word(After(ops)[i - 1]))
                                         ELSE "register")
                   [] ops[i].op = "write" -> Append(f[i - 1], req.data)
                   [] OTHER -> f[i - 1]
  IN  f[Len(ops)]

-----------------------------------------------------------------------------
(* dap_read_block and dap_write_block: bytes up to a word boundary, words, *)
(* bytes again; the bytes of the answers are put together the same way.    *)

Pieces(at, size) ==
  LET f[r \in 0 .. size] ==
        LET a == at + size - r
            s == IF a % Bus = 0 /\ r >= Bus THEN Bus ELSE 1
        IN  IF r = 0 THEN <<>> ELSE <<[at |-> a, size |-> s]>> \o f[r - s]
  IN  f[size]

BlockRequests(b) ==
  [i \in 1 .. Len(Pieces(b.at, b.size)) |->
     LET piece == Pieces(b.at, b.size)[i]
     IN  Request(b.op, piece.size, piece.at, Tagged(-1, piece.at - b.at, piece.size))]

Assembled ==
  LET pieces == Pieces(block.at, block.size)
      f[i \in 0 .. Len(pieces)] ==
        IF i = 0 THEN <<>>
        ELSE f[i - 1] \o [k \in 1 .. pieces[i].size |-> replies[i][k - 1]]
  IN  f[Len(pieces)]

NoBlock == [op |-> "none", at |-> 0, size |-> 0]

Init ==
  /\ queue = <<>> /\ replies = <<>>
  /\ cache = [csw |-> NoCsw, set |-> TRUE, address |-> 0]
  /\ pc = "idle" /\ block = NoBlock
  /\ port \in [mem: {Original}, tar: Addresses, csw: {NoCsw}]

Abort == pc' = "exit" /\ UNCHANGED <<queue, replies, cache, block, port>>

(* A queue that has been transferred is kept in the model, the code only   *)
(* empties it; before new requests what the target holds is named anew.    *)
Pending == IF Len(replies) > 0 THEN <<>> ELSE queue
Renamed == IF Len(replies) > 0 THEN [port EXCEPT !.mem = Original] ELSE port

\* Mutant: the assertion lets one request too many through.
RoomForOneMore == Len(Pending) <= MaxRequests
Room == Len(Pending) < MaxRequests

\* dap_add_req, through dap_read_*_req, dap_write_*_req, dap_read_idcode_req.
AddReq ==
  /\ pc = "idle"
  /\ \E a \in Accesses :
       IF Room
       THEN /\ queue' = Append(Pending, Request(a.type, a.size, a.addr,
                                                Tagged(Len(Pending) + 1, 0, a.size)))
            /\ replies' = <<>> /\ block' = NoBlock /\ port' = Renamed
            /\ UNCHANGED <<cache, pc>>
       ELSE Abort

\* dap_readback_req: the last write is read back.
ReadbackReq ==
  /\ pc = "idle"
  /\ IF Pending # <<>> /\ Pending[Len(Pending)].type = "write"
     THEN /\ queue' = [queue EXCEPT ![Len(queue)].type = "both"]
          /\ UNCHANGED <<replies, cache, pc, block, port>>
     ELSE Abort

\* dap_transfer; dap_csw is forgotten, the address is not.
Begin(requests) ==
  /\ queue' = requests
  /\ replies' = <<>>
  /\ cache' = [cache EXCEPT !.csw = NoCsw]
  /\ pc' = "transfer"

Transfer ==
  /\ pc = "idle"
  /\ Pending # <<>>
  /\ Begin(queue)
  /\ UNCHANGED <<block, port>>

\* The block calls, made with an empty queue.
Block ==
  /\ pc = "idle"
  /\ Pending = <<>>
  /\ \E b \in Blocks, op \in {"read", "write"} :
       LET call == [op |-> op, at |-> b.at, size |-> b.size]
       IN  IF Len(BlockRequests(call)) > MaxRequests THEN Abort
           ELSE Begin(BlockRequests(call)) /\ block' = call /\ port' = Renamed

Exchange ==
  /\ pc = "transfer"
  /\ \E done \in 0 .. Len(Filled.ops) :
       LET ops == Filled.ops
       IN  /\ port' = After(ops)[done]
           /\ cache' = Filled.cache
           /\ IF done < Len(ops)
              THEN pc' = "exit" /\ UNCHANGED replies
              ELSE /\ replies' = Answered(ops)
                   /\ pc' = IF Len(replies') = Len(queue) THEN "idle" ELSE "transfer"
  /\ UNCHANGED <<queue, block>>

Next == AddReq \/ ReadbackReq \/ Transfer \/ Block \/ Exchange

Spec == Init /\ [][Next]_vars

-----------------------------------------------------------------------------
QueueTypeOK ==
  /\ Len(queue) <= MaxRequests
  /\ Len(replies) <= Len(queue)
  /\ cache.set \in BOOLEAN /\ cache.address \in 0 .. Size
  /\ pc \in {"idle", "transfer", "exit"}
  /\ port.tar \in 0 .. Size

(* What the host remembers of the address register is what it holds, but   *)
(* for the end of the increment's reach, which is never relied on.         *)
CacheIsTrue ==
  pc # "exit" /\ ~cache.set => cache.address = port.tar \/ cache.address % Wrap = 0

(* The memory after each number of requests, each done on its own in the   *)
(* order they were queued.                                                 *)
Sequentially ==
  LET f[i \in 0 .. Len(queue)] ==
        IF i = 0 THEN Original
        ELSE IF ~Writes(queue[i]) THEN f[i - 1]
        ELSE [a \in Addresses |-> IF a - queue[i].addr \in 0 .. queue[i].size - 1
                                  THEN queue[i].data[a - queue[i].addr] ELSE f[i - 1][a]]
  IN  f

(* However the requests are packed, and whatever is left out as told       *)
(* already, they have the effect of one after the other, answers included; *)
(* a transfer that fails has stopped between two of them.                  *)
TransferIsSequential ==
  /\ pc # "exit" =>
       /\ port.mem = Sequentially[Len(replies)]
       /\ \A i \in 1 .. Len(replies) :
            LET req == queue[i]
            IN  Memory(req) =>
                  replies[i] = [k \in 0 .. req.size - 1 |-> Sequentially[i][req.addr + k]]
  /\ pc = "exit" => \E n \in 0 .. Len(queue) : port.mem = Sequentially[n]

(* A block call reads or writes every byte of its range.                   *)
BlocksAreExact ==
  pc = "idle" /\ replies # <<>> /\ block.op # "none" =>
    \A k \in 1 .. block.size :
      LET held == port.mem[block.at + k - 1]
      IN  IF block.op = "write" THEN held = <<-1, k - 1>>
          ELSE k <= Len(Assembled) /\ Assembled[k] = held

(* The queue, its packets and what it leaves out cannot be noticed.        *)
QueueIsTransparent == CacheIsTrue /\ TransferIsSequential /\ BlocksAreExact

(* Every transfer ends: no request is too long for a packet of its own, so *)
(* that each packet answers at least one more (the loop of dap_transfer).  *)
TransferProgresses == pc = "transfer" => Len(Answered(Filled.ops)) > Len(replies)
=============================================================================
