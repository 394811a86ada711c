------------------------------- MODULE EdbgJtag -------------------------------
(***************************************************************************)
(* The JTAG half of .research/edbg-master/dap.c: clocks are queued one by  *)
(* one, dap_jtag_flush packs runs of like clocks into packets, and         *)
(* whatever reads flushes first.  The test access port at the other end    *)
(* of the probe is outside the repository: Follow and Clocked.             *)
(***************************************************************************)
EXTENDS Integers, Sequences

CONSTANTS
  Packet,     \* bytes of a packet
  MaxRun,     \* clocks of one sequence: 64
  ByteBits,   \* 8
  MaxClocks,  \* of the model alone: the longest queue it follows
  IrLength,   \* IR_LENGTH
  CodeBits,   \* of an IDCODE: 32
  MaxChain,   \* MAX_CHAIN_COUNT
  Chains,     \* what may be connected: sequences of IDCODEs
  Shifts,     \* sizes of the data registers that are read and written
  Held        \* what a data register holds when it is captured

Bit == {0, 1}
Bits(n) == [1 .. n -> Bit]
Zeros(n) == [i \in 1 .. n |-> 0]

JtagAssumption ==
  /\ Packet \in Nat /\ Packet > 4
  /\ {MaxRun, ByteBits, IrLength, CodeBits} \subseteq Nat \ {0}
  /\ MaxChain \in Nat /\ MaxChain > 1
  /\ \A c \in Chains : /\ c \in Seq(Bits(CodeBits))
                       /\ \A i \in 1 .. Len(c) : c[i] # Zeros(CodeBits)
  /\ Held \in Seq(Bit) /\ Held # <<>>
  /\ \A n \in Shifts : n \in Nat \ {0} /\ n <= Len(Held)

VARIABLES
  clocks,  \* dap_jtag_request: [tdi, tms, tdo]
  sent,    \* how many of them the flush in progress has sent
  bits,    \* dap_jtag_response_buf
  job,     \* what waits for the flush: "none", "read" or "scan"
  pc,      \* "idle", "flush" or "exit"
  result,  \* of the last dap_jtag_read_dr or dap_jtag_scan_chain
  ready,   \* a scan has found one device
  chain,   \* external: the IDCODEs of the devices connected
  tap,     \* external: [state, ir, dr, shift]
  wanted   \* history: the last IR and DR queued

vars == <<clocks, sent, bits, job, pc, result, ready, chain, tap, wanted>>

-----------------------------------------------------------------------------
(* The state diagram of IEEE 1149.1.                                       *)
OnZero == [reset |-> "run", run |-> "run", select |-> "capture", capture |-> "shift",
           shift |-> "shift", exit1 |-> "pause", pause |-> "pause", exit2 |-> "shift",
           update |-> "run"]
OnOne == [capture |-> "exit1", shift |-> "exit1", exit1 |-> "update", pause |-> "exit2",
          exit2 |-> "update"]
Run == <<"run", "dr">>
Reset == <<"reset", "dr">>

Follow(s, tms) ==
  CASE tms = 0 -> <<OnZero[s[1]], IF OnZero[s[1]] = "run" THEN "dr" ELSE s[2]>>
    [] tms = 1 /\ s[1] \in {"run", "update"} -> <<"select", "dr">>
    [] tms = 1 /\ s = <<"select", "dr">> -> <<"select", "ir">>
    [] tms = 1 /\ s \in {<<"select", "ir">>, Reset} -> Reset
    [] OTHER -> <<OnOne[s[1]], s[2]>>

(* One clock.  After a reset the data register is the IDCODE of every      *)
(* device of the chain, one after the other.                               *)
Captured(t) ==
  IF t.ir = <<>>
  THEN LET f[i \in 0 .. Len(chain)] == IF i = 0 THEN <<>> ELSE f[i - 1] \o chain[i]
       IN  f[Len(chain)]
  ELSE Held

Out(t) == LET n == Len(t.shift) + 1
              all == Captured(t) \o t.shift
          IN  IF n <= Len(all) THEN all[n] ELSE 0

Clocked(t, tdi, tms) ==
  LET next == Follow(t.state, tms)
      shift == CASE t.state[1] = "shift" -> Append(t.shift, tdi)
                 [] t.state[1] \in {"capture", "update"} -> <<>>
                 [] OTHER -> t.shift
  IN  [state |-> next, shift |-> shift,
       ir |-> CASE next = Reset -> <<>> [] next = <<"update", "ir">> -> shift [] OTHER -> t.ir,
       dr |-> IF next = <<"update", "dr">> THEN shift ELSE t.dr]

-----------------------------------------------------------------------------
(* dap_jtag_clk, dap_jtag_clk_read and the sequences made of them.         *)
Clk(tdi, tms) == <<[tdi |-> tdi, tms |-> tms, tdo |-> 0]>>
Repeat(n, c) == [i \in 1 .. n |-> c[1]]
ResetClocks == Repeat(16, Clk(0, 1)) \o Clk(0, 0)

\* Mutant: the last bit does not leave the shift state.
StayInShift(i, n) == 0
LeaveShift(i, n) == IF i = n THEN 1 ELSE 0

Shift(data, tdo) ==
  [i \in 1 .. Len(data) |-> [tdi |-> data[i], tms |-> LeaveShift(i, Len(data)), tdo |-> tdo]]
WriteIrClocks(ir) ==
  Clk(0, 1) \o Clk(0, 1) \o Clk(0, 0) \o Clk(0, 0) \o Shift(ir, 0) \o Clk(0, 1) \o Clk(0, 0)
DrClocks(data, tdo) ==
  Clk(0, 1) \o Clk(0, 0) \o Clk(0, 0) \o Shift(data, tdo) \o Clk(0, 1) \o Clk(0, 0)
ScanCode == [i \in 1 .. CodeBits |-> [tdi |-> 0, tms |-> 0, tdo |-> 1]]

-----------------------------------------------------------------------------
(* dap_jtag_flush.  A sequence is a run of clocks that differ in TDI only. *)
Least(S) == CHOOSE x \in S : \A y \in S : x <= y

Like(a, b) == a.tms = b.tms /\ a.tdo = b.tdo

RunFrom(i) ==
  Least({n \in 1 .. Len(clocks) - i :
           i + n = Len(clocks) \/ ~Like(clocks[i + n + 1], clocks[i + 1])})

(* One more sequence, as long as clocks and room are left for it.          *)
Sequenced(p) ==
  LET n == Least({RunFrom(p.index), MaxRun, p.remaining * ByteBits})
  IN  IF p.index = Len(clocks) \/ p.remaining < 2 THEN p
      ELSE [index |-> p.index + n,
            remaining |-> p.remaining - 1 - ((n + ByteBits - 1) \div ByteBits),
            made |-> Append(p.made, [from |-> p.index, count |-> n])]

(* The sequences of the next packet.                                       *)
Sequences ==
  LET f[k \in 0 .. Packet] ==
        IF k = 0 THEN [index |-> sent, remaining |-> Packet - 3, made |-> <<>>]
        ELSE Sequenced(f[k - 1])
  IN  f[Packet].made

(* The probe clocks a sequence out with the TMS and TDO of its first clock. *)
Performed(s, t, answer) ==
  LET f[i \in 0 .. s.count] ==
        IF i = 0 THEN [tap |-> t, bits |-> answer]
        ELSE LET first == clocks[s.from + 1]
             IN  [tap |-> Clocked(f[i - 1].tap, clocks[s.from + i].tdi, first.tms),
                  bits |-> IF first.tdo = 1 THEN Append(f[i - 1].bits, Out(f[i - 1].tap))
                           ELSE f[i - 1].bits]
  IN  f[s.count]

AllPerformed ==
  LET f[k \in 0 .. Len(Sequences)] ==
        IF k = 0 THEN [tap |-> tap, bits |-> bits]
        ELSE Performed(Sequences[k], f[k - 1].tap, f[k - 1].bits)
  IN  f[Len(Sequences)]

AfterPacket ==
  LET last == Sequences[Len(Sequences)] IN last.from + last.count

Init ==
  /\ clocks = <<>> /\ sent = 0 /\ bits = <<>>
  /\ job = "none" /\ pc = "idle" /\ result = <<>> /\ ready = FALSE
  /\ chain \in Chains
  /\ tap \in [state: {Run, <<"shift", "dr">>, <<"pause", "ir">>}, ir: {<<0>>}, dr: {<<>>}, shift: {<<>>}]
  /\ wanted = [ir |-> <<>>, dr |-> <<>>]

(* The calls that only queue.  MaxClocks keeps the instance finite, it is  *)
(* no guard of the code's: dap_jtag_request holds 65536 clocks and the     *)
(* assertion of dap.c:1014 looks at dap_request_count, which is the queue  *)
(* of the SWD half.  What is proved holds for every MaxClocks.             *)
Queue(more, want) ==
  /\ pc = "idle" /\ ready
  /\ Len(clocks) + Len(more) <= MaxClocks
  /\ clocks' = clocks \o more
  /\ wanted' = want
  /\ UNCHANGED <<sent, bits, job, pc, result, ready, chain, tap>>

WriteIr == \E ir \in Bits(IrLength) : Queue(WriteIrClocks(ir), [wanted EXCEPT !.ir = ir])
WriteDr == \E n \in Shifts : \E data \in Bits(n) :
             Queue(DrClocks(data, 0), [wanted EXCEPT !.dr = data])
Idle == Queue(Repeat(2, Clk(0, 0)), wanted)

BeginFlush(queued, why) ==
  /\ clocks' = queued
  /\ IF queued = <<>> THEN pc' = "idle" ELSE pc' = "flush"
  /\ sent' = 0 /\ bits' = <<>> /\ job' = why /\ result' = <<>>

Flush ==
  /\ pc = "idle" /\ clocks # <<>>
  /\ BeginFlush(clocks, "none")
  /\ UNCHANGED <<ready, chain, tap, wanted>>

ReadDr ==
  /\ pc = "idle" /\ ready
  /\ \E n \in Shifts :
       /\ Len(clocks) + n + 5 <= MaxClocks
       /\ BeginFlush(clocks \o DrClocks(Zeros(n), 1), "read")
       /\ wanted' = [wanted EXCEPT !.dr = Zeros(n)]
  /\ UNCHANGED <<ready, chain, tap>>

\* dap_jtag_scan_chain, from target_select of the one JTAG target.
ScanChain ==
  /\ pc = "idle" /\ ~ready
  /\ BeginFlush(ResetClocks \o Clk(1, 1) \o Clk(1, 0) \o Clk(1, 0) \o ScanCode, "scan")
  /\ UNCHANGED <<ready, chain, tap, wanted>>

\* Mutant: a code that is zero counts as a device.
EveryCode(code) == TRUE
IsDevice(code) == code # Zeros(CodeBits)

(* What follows the last packet: the queue is empty, the job goes on.      *)
ReadDone(answer) ==
  /\ result' = answer
  /\ clocks' = <<>> /\ sent' = 0 /\ job' = "none" /\ pc' = "idle"
  /\ UNCHANGED <<ready, wanted>>

ChainIsFull(codes) == Len(codes) = MaxChain

Scanned(code) ==
  LET codes == IF IsDevice(code) THEN Append(result, code) ELSE result
      done == ~IsDevice(code) \/ ChainIsFull(codes)
  IN  /\ result' = codes
      /\ sent' = 0
      /\ clocks' = IF done THEN Clk(1, 1) \o Clk(1, 1) \o Clk(1, 0) ELSE ScanCode
      /\ job' = IF done THEN "none" ELSE "scan"
      /\ pc' = IF ~done THEN "flush" ELSE IF Len(codes) = 1 THEN "idle" ELSE "exit"
      /\ ready' = (done /\ Len(codes) = 1)
      /\ wanted' = [ir |-> <<>>, dr |-> Append(Zeros(2 * CodeBits), 1)]

SendPacket ==
  /\ pc = "flush"
  /\ LET new == AllPerformed
     IN  /\ tap' = new.tap
         /\ IF AfterPacket < Len(clocks)
            THEN sent' = AfterPacket /\ bits' = new.bits
                 /\ UNCHANGED <<clocks, job, pc, result, ready, wanted>>
            ELSE /\ bits' = IF job = "scan" THEN <<>> ELSE new.bits
                 /\ CASE job = "none" -> ReadDone(result)
                      [] job = "read" -> ReadDone(new.bits)
                      [] job = "scan" -> Scanned(new.bits)
  /\ UNCHANGED chain

\* The probe refuses a packet.
Refused ==
  /\ pc = "flush" /\ pc' = "exit"
  /\ UNCHANGED <<clocks, sent, bits, job, result, ready, chain, tap, wanted>>

Next == WriteIr \/ WriteDr \/ Idle \/ Flush \/ ReadDr \/ ScanChain \/ SendPacket \/ Refused

Spec == Init /\ [][Next]_vars

-----------------------------------------------------------------------------
JtagTypeOK ==
  /\ \A i \in 1 .. Len(clocks) : clocks[i] \in [tdi: Bit, tms: Bit, tdo: Bit]
  /\ sent \in 0 .. Len(clocks)
  /\ bits \in Seq(Bit)
  /\ pc \in {"idle", "flush", "exit"} /\ job \in {"none", "read", "scan"}
  /\ Len(result) <= IF ready THEN Len(Held) ELSE MaxChain

Settled == pc = "idle" /\ ready /\ clocks = <<>>

(* When nothing is queued any more the port is in Run-Test/Idle, where     *)
(* every sequence starts from, and its registers hold what was queued      *)
(* last, however the clocks were cut into runs and packets.                *)
RegistersAsWritten ==
  Settled => tap.state = Run /\ tap.ir = wanted.ir /\ tap.dr = wanted.dr

(* dap_jtag_read_dr returns what the register held, from its first bit on; *)
(* unflushed clocks before it are not mistaken for it.                     *)
ReadsTheRegister ==
  pc = "flush" /\ job = "read" /\ pc' = "idle" /\ wanted.ir # <<>> =>
    result' = SubSeq(Held, 1, Len(wanted.dr))

(* Registers are written and read as if every clock went out by itself.    *)
RegistersAreExact == [][RegistersAsWritten' /\ ReadsTheRegister]_vars

(* A scan that is done has found the devices of the chain, in order.       *)
ScanFindsTheChain ==
  [][pc = "flush" /\ job = "scan" /\ job' = "none" /\ pc' # "flush" =>
       result' = SubSeq(chain, 1, IF Len(chain) < MaxChain THEN Len(chain) ELSE MaxChain)]_vars
=============================================================================
