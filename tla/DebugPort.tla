------------------------------ MODULE DebugPort ------------------------------
(***************************************************************************)
(* The other end of the two SWD wires: the debug port and the memory       *)
(* access port of the controller, as far as src/SwdTransport.cpp and the   *)
(* engine it is adapted from (.research/embedded-swd-master/dap.c) use     *)
(* them.  All of it is hardware outside the repository.                    *)
(*                                                                         *)
(* A target is a record: mem, the words behind the access port; tar, its   *)
(* address register; posted, the result the last access left for RDBUFF;   *)
(* sticky, the error flags that are set; power, the access port is         *)
(* powered; deaf, the port ignores requests until the next line reset.     *)
(***************************************************************************)
EXTENDS Integers

CONSTANTS
  Words,   \* the memory has addresses 0 .. Words - 1
  Page,    \* words after which the address increment wraps (1 KB)
  Values   \* contents of a word

PortAssumption ==
  /\ Words \in Nat \ {0}
  /\ Page \in Nat \ {0}
  /\ Words % Page = 0
  /\ Values # {}

Address == 0 .. Words - 1

(* STICKYERR, set by an access that fails, and WDATAERR, set by write data *)
(* with the wrong parity.                                                  *)
Flags == {"access", "wdata"}

Target == [mem: [Address -> Values], tar: Address, posted: Values,
           sticky: SUBSET Flags, power: BOOLEAN, deaf: BOOLEAN]

Registers == {"IDCODE", "ABORT", "SELECT", "CTRLSTAT", "STATUS", "RDBUFF",
              "CSW", "TAR", "DRW"}
AccessPort == {"CSW", "TAR", "DRW"}

(* What the host takes an answer for; parity: the data of a read is wrong.   *)
Acks == {"ok", "wait", "fault", "invalid", "parity"}

(* Only the low ten address bits count up.                                 *)
Increment(a) == IF (a + 1) % Page = 0 THEN a + 1 - Page ELSE a + 1

Failed(t, flag) == [t EXCEPT !.sticky = @ \cup {flag}]

(* What an accepted request does.  The data of a write to ABORT names the  *)
(* flags it clears.  An access to memory may end in a bus    *)
(* error, and the access port may take a while to power up.                *)
Accepted(t, reg, write, data) ==
  CASE reg = "ABORT" -> {[t EXCEPT !.sticky = @ \ data]}
    [] reg \in {"CTRLSTAT", "STATUS"} -> {t, [t EXCEPT !.power = TRUE]}
    [] reg = "TAR" -> {[t EXCEPT !.tar = data]}
    [] reg = "DRW" ->
         {Failed(t, "access"),
          IF write
          THEN [t EXCEPT !.mem[t.tar] = data, !.tar = Increment(t.tar)]
          ELSE [t EXCEPT !.posted = t.mem[t.tar], !.tar = Increment(t.tar)]}
    [] OTHER -> {t}

(* The answer of the port before any disturbance: what may always be       *)
(* asked, what an error flag or a missing supply refuses, what may have to *)
(* wait for the access before it.                                          *)
Answers(t, reg) ==
  CASE t.deaf -> {"none"}
    [] ~t.deaf /\ reg \in {"IDCODE", "STATUS", "ABORT"} -> {"ok"}
    [] ~t.deaf /\ reg \notin {"IDCODE", "STATUS", "ABORT"} /\ t.sticky # {} -> {"fault"}
    [] ~t.deaf /\ reg \in AccessPort /\ t.sticky = {} /\ ~t.power -> {"refused"}
    [] OTHER -> {"ok", "wait"}

(* One request as the host sees it: [ack, to].  Besides the clean exchange  *)
(* one phase may be disturbed: the request (the port does not see one, and *)
(* may fall silent), the answer, or the data, whose parity then fails.     *)
(* A write whose answer is misread gets no data: the line idles high, and  *)
(* thirty-two ones with a parity bit of one are a parity error.            *)
Clean(t, reg, write, data) ==
  UNION {CASE a = "none" -> {[ack |-> "invalid", to |-> t]}
           [] a = "ok" -> {[ack |-> "ok", to |-> n] : n \in Accepted(t, reg, write, data)}
           [] a = "refused" -> {[ack |-> "fault", to |-> Failed(t, "access")]}
           [] OTHER -> {[ack |-> a, to |-> t]} : a \in Answers(t, reg)}

Disturbed(t, reg, write, data) ==
  {[ack |-> "invalid", to |-> t], [ack |-> "invalid", to |-> [t EXCEPT !.deaf = TRUE]]}
  \cup IF "ok" \notin Answers(t, reg) THEN {}
       ELSE IF write
            THEN {[ack |-> a, to |-> Failed(t, "wdata")] : a \in {"ok", "invalid"}}
            ELSE {[ack |-> a, to |-> n] : a \in {"invalid", "parity"},
                                          n \in Accepted(t, reg, write, data)}

Replies(t, reg, write, data) ==
  Clean(t, reg, write, data) \cup Disturbed(t, reg, write, data)

(* Fifty or more clocks with the line high.                                *)
LineReset(t) == [t EXCEPT !.deaf = FALSE]

(* The supply of the target drops out and returns.                         *)
Outage(t) == [t EXCEPT !.deaf = TRUE, !.power = FALSE, !.sticky = {}]
=============================================================================
