-------------------------------- MODULE Edbg --------------------------------
(***************************************************************************)
(* edbg, layer by layer: a process drives its probe over SWD or over JTAG  *)
(* (dap_connect decides), and the command line and the drivers above see   *)
(* of that only that an access works or ends the process.  "layer" says    *)
(* which of the three a behavior is about; the other two stand still.      *)
(***************************************************************************)
EXTENDS EdbgSession

CONSTANTS
  Extent, Bus, Wrap, QueuePacket, MaxOps, MaxRequests, Accesses, Blocks, \* of EdbgDap
  JtagPacket, MaxRun, ByteBits, MaxClocks, IrLength, CodeBits, MaxChain, Chains,
  Shifts, Held                                                         \* of EdbgJtag

VARIABLES
  layer,
  queue, replies, cache, transfer, block, port,
  clocks, sent, bits, job, flush, result, ready, chain, tap, wanted

Queue == INSTANCE EdbgDap WITH Size <- Extent, Packet <- QueuePacket, pc <- transfer
Jtag == INSTANCE EdbgJtag WITH Packet <- JtagPacket, pc <- flush

ASSUME QueueSizes == Queue!QueueAssumption
ASSUME JtagSizes == Jtag!JtagAssumption

queueVars == <<queue, replies, cache, transfer, block, port>>
jtagVars == <<clocks, sent, bits, job, flush, result, ready, chain, tap, wanted>>
edbgVars == <<layer, vars, queueVars, jtagVars>>

\* The layers that stand still do so from one state.
AnyDriver == CHOOSE d \in RunDrivers : TRUE
AnyCase == CHOOSE c \in Cases : TRUE
AnyChain == CHOOSE c \in Chains : TRUE
EdbgInit ==
  /\ layer \in {"session", "swd", "jtag"}
  /\ Init /\ Queue!Init /\ Jtag!Init
  /\ layer # "session" => driver = AnyDriver /\ cmd = AnyCase.cmd /\ world = AnyCase.world
  /\ layer # "swd" => port.tar = 0
  /\ layer # "jtag" => chain = AnyChain /\ tap.state = Jtag!Run

SessionStep == layer = "session" /\ Next /\ UNCHANGED <<layer, queueVars, jtagVars>>
QueueStep == layer = "swd" /\ Queue!Next /\ UNCHANGED <<layer, vars, jtagVars>>
JtagStep == layer = "jtag" /\ Jtag!Next /\ UNCHANGED <<layer, vars, queueVars>>

EdbgNext == SessionStep \/ QueueStep \/ JtagStep
EdbgSpec == EdbgInit /\ [][EdbgNext]_edbgVars

\* Type correctness.
EdbgTypeOK == SessionTypeOK /\ Queue!QueueTypeOK /\ Jtag!JtagTypeOK

(* The queue of requests, its packets and what is left out of them as told *)
(* already cannot be noticed by whoever queues requests.                   *)
QueueIsTransparent == Queue!QueueIsTransparent

(* Every packet answers at least one more request of a transfer.           *)
TransferProgresses == Queue!TransferProgresses

(* Registers are written and read over JTAG as if every clock went out by  *)
(* itself.                                                                 *)
RegistersAreExact == Jtag!RegistersAreExact

(* A scan that is done has found the devices of the chain, in order.       *)
ScanFindsTheChain == Jtag!ScanFindsTheChain
=============================================================================
