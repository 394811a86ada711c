----------------------------- MODULE EmbeddedSwd -----------------------------
(***************************************************************************)
(* .research/embedded-swd-master/dap.c, the engine the transport of the    *)
(* programmer is adapted from.  Its callers hear of no error: a read that  *)
(* fails returns 0, a write or a set-up step that fails is passed over.    *)
(* One step is one request; the target is DebugPort.                       *)
(***************************************************************************)
EXTENDS DebugPort, Sequences

CONSTANT Retries \* DAP_RETRY_COUNT

EngineAssumption == Retries \in Nat \ {0} /\ 0 \in Values

VARIABLES
  target,
  driven,  \* SWDIO is an output of the host
  call,    \* the call in progress: [op, at, value]
  pc,      \* "idle", "request" or "collect": the next request is RDBUFF
  step,    \* position in the registers the call goes through
  tries,   \* attempts at the current request so far
  result,  \* what the last dap_read_word returned
  expired, \* history: a request of this session has used up its attempts
  quiet,   \* history: nothing has disturbed the wire since dap_init
  stuck    \* history: a parity error was pending at dap_init

history == <<expired, quiet, stuck>>
vars == <<target, driven, call, pc, step, tries, result, history>>

Call(op, at, value) == [op |-> op, at |-> at, value |-> value]
NoCall == Call("none", 0, 0)

(* dap_reset_link ends in a read of IDCODE, dap_target_prepare follows.    *)
Order == CASE call.op = "open" -> <<"IDCODE", "ABORT", "SELECT", "CTRLSTAT", "CSW">>
           [] call.op = "idcode" -> <<"IDCODE">>
           [] OTHER -> <<"TAR", "DRW">>
Reg == Order[step]

IsWrite == Reg \in {"ABORT", "SELECT", "CTRLSTAT", "CSW", "TAR"}
           \/ (Reg = "DRW" /\ call.op = "write")

Completed == IsWrite \/ Reg \in AccessPort

(* The value 0x16 written to ABORT leaves the parity error of a write.     *)
\* Mutant: it clears nothing.
NoFlags == {}
AbortFlags == {"access"}

Outgoing == CASE Reg = "ABORT" -> AbortFlags
              [] Reg = "TAR" -> call.at
              [] Reg = "DRW" -> call.value
              [] OTHER -> 0

-----------------------------------------------------------------------------
(* dap_swd_operation.  After an answer that is none the line stays an      *)
(* input: the target sees it high from then on, and the host no answer.    *)

\* Mutant: the line is driven again.
DrivenAgain(ack) == TRUE
DrivenAfter(ack) == ack # "invalid"

Exchange(reg, write, data) ==
  IF driven THEN Replies(target, reg, write, data)
  ELSE {[ack |-> "invalid", to |-> t] : t \in {target, LineReset(target)}}

Operation(r, reg, write, data) ==
  /\ target' = r.to
  /\ driven' = (driven /\ DrivenAfter(r.ack))
  /\ quiet' = (quiet /\ r \in Clean(target, reg, write, data))

Init ==
  /\ target \in {t \in Target : ~t.power}
  /\ driven = FALSE
  /\ call = NoCall /\ pc = "idle" /\ step = 1 /\ tries = 0
  /\ result = 0
  /\ expired = FALSE /\ quiet = TRUE /\ stuck = FALSE

Begin(c) ==
  /\ pc = "idle"
  /\ call' = c
  /\ pc' = "request" /\ step' = 1 /\ tries' = 0

\* dap_init, dap_connect, dap_reset_link, dap_target_prepare: a session begins.
Open ==
  /\ Begin(Call("open", 0, 0))
  /\ driven' = TRUE
  /\ target' = LineReset(target)
  /\ expired' = FALSE /\ quiet' = TRUE /\ stuck' = ("wdata" \in target.sticky)
  /\ UNCHANGED result

Read(at) == Begin(Call("read", at, 0)) /\ UNCHANGED <<target, driven, result, history>>
Write(at, value) ==
  Begin(Call("write", at, value)) /\ UNCHANGED <<target, driven, result, history>>
ReadIdcode == Begin(Call("idcode", 0, 0)) /\ UNCHANGED <<target, driven, result, history>>

Return(value) ==
  /\ pc' = "idle" /\ call' = NoCall /\ step' = 1 /\ tries' = 0
  /\ result' = IF call.op = "read" THEN value ELSE result

(* The transfer of a register is over.                                     *)
TransferDone(ok) ==
  IF call.op = "read" /\ ~ok THEN Return(0)
  ELSE IF step = Len(Order) THEN Return(target.posted)
  ELSE step' = step + 1 /\ pc' = "request" /\ tries' = 0 /\ UNCHANGED <<call, result>>

(* dap_swd_transfer_word: WAIT is tried again, of RDBUFF too.              *)
MayRetry == tries + 1 < Retries

Attempt(ack, ok) ==
  IF ack = "wait" /\ MayRetry
  THEN tries' = tries + 1 /\ UNCHANGED <<call, pc, step, result, expired>>
  ELSE /\ expired' = (expired \/ ack = "wait")
       /\ IF ack = "ok" THEN ok ELSE TransferDone(FALSE)

Request ==
  /\ pc = "request"
  /\ \E r \in Exchange(Reg, IsWrite, Outgoing) :
       LET completed == pc' = "collect" /\ tries' = 0 /\ UNCHANGED <<call, step, result>>
       IN  /\ Operation(r, Reg, IsWrite, Outgoing)
           /\ Attempt(r.ack, IF Completed THEN completed ELSE TransferDone(TRUE))
  /\ UNCHANGED stuck

Collect ==
  /\ pc = "collect"
  /\ \E r \in Exchange("RDBUFF", FALSE, 0) :
       Operation(r, "RDBUFF", FALSE, 0) /\ Attempt(r.ack, TransferDone(TRUE))
  /\ UNCHANGED stuck

PowerLoss ==
  /\ target' = Outage(target)
  /\ quiet' = FALSE
  /\ UNCHANGED <<driven, call, pc, step, tries, result, expired, stuck>>

Next ==
  \/ Open \/ ReadIdcode \/ Request \/ Collect \/ PowerLoss
  \/ \E at \in Address : Read(at) \/ \E value \in Values : Write(at, value)

Spec == Init /\ [][Next]_vars

-----------------------------------------------------------------------------
EngineTypeOK ==
  /\ target \in Target
  /\ driven \in BOOLEAN
  /\ call.op \in {"none", "open", "idcode", "read", "write"}
  /\ call.at \in Address /\ call.value \in Values
  /\ pc \in {"idle", "request", "collect"}
  /\ step \in 1 .. Len(Order) /\ tries \in 0 .. Retries - 1
  /\ result \in Values
  /\ expired \in BOOLEAN /\ quiet \in BOOLEAN /\ stuck \in BOOLEAN

(* Though dap_write_word passes over a failed write of TAR and goes on to  *)
(* DRW, no word but the one it names is ever written, unless a request ran *)
(* out of attempts: an answer that is none leaves the line released, every *)
(* other failure an error flag, and both refuse what follows.              *)
WritesGoWhereAimed ==
  [][~expired /\ target'.mem # target.mem =>
       target'.mem = [target.mem EXCEPT ![call.at] = call.value]]_vars

(* A word that dap_read_word returns is the word of the target, or 0.      *)
ReadsAreTrueOrZero ==
  [][call.op = "read" /\ pc' = "idle" /\ ~expired /\ result' # 0
       => result' = target.mem[call.at]]_vars

(* So silent as it is, the engine does no harm and tells no lie but 0.     *)
EngineIsSafe == WritesGoWhereAimed /\ ReadsAreTrueOrZero

(* A session begun over a wire that nothing disturbs, with no parity error *)
(* pending and the access port powered in time, is free of error flags and *)
(* holds the line (dap_target_prepare clears what failed before).          *)
SessionRevives ==
  [][call.op = "open" /\ pc' = "idle" /\ quiet' /\ ~stuck =>
       driven' /\ (target'.power => target'.sticky = {})]_vars
=============================================================================
