----------------------------- MODULE BlockMemory -----------------------------
(***************************************************************************)
(* What the programmer is promised by the transport (readBlock, writeBlock *)
(* and their one-word forms in src/SwdTransport.cpp): a memory it asks for *)
(* one block at a time.  A call that fails may have written some of its    *)
(* words, each of them with its own value and no word but them; a call     *)
(* that succeeds has written them all, or returns what the memory holds.   *)
(***************************************************************************)
EXTENDS Integers

CONSTANTS Words, Values, MaxLen

VARIABLES
  mem,      \* the words of the target
  call,     \* the call in progress
  busy,     \* a call is in progress
  buffer,   \* what the call has read so far
  returned  \* what the last call returned

vars == <<mem, call, busy, buffer, returned>>

Blocks == {b \in [op: {"read", "write"}, at: Nat, len: 1 .. MaxLen,
                  data: [0 .. MaxLen - 1 -> Values]] : b.at + b.len <= Words}
None(c) == c.op = "none"
Connecting(c) == c.op = "connect"

Init ==
  /\ mem \in [0 .. Words - 1 -> Values]
  /\ busy = FALSE
  /\ returned = FALSE
  /\ None(call)

Begin ==
  /\ ~busy
  /\ busy' = TRUE
  /\ Connecting(call') \/ call' \in Blocks
  /\ UNCHANGED <<mem, returned>>

WriteWord ==
  /\ busy
  /\ call.op = "write"
  /\ \E i \in 0 .. call.len - 1 : mem' = [mem EXCEPT ![call.at + i] = call.data[i]]
  /\ UNCHANGED <<call, busy, buffer, returned>>

ReadWord ==
  /\ busy
  /\ call.op = "read"
  /\ UNCHANGED <<mem, call, busy, returned>>

Succeed ==
  /\ busy
  /\ \A i \in 0 .. call.len - 1 :
       CASE call.op = "write" -> mem[call.at + i] = call.data[i]
         [] call.op = "read" -> mem[call.at + i] = buffer'[i]
         [] OTHER -> TRUE
  /\ busy' = FALSE
  /\ returned' = TRUE
  /\ None(call')
  /\ UNCHANGED mem

\* A call may also be refused at once.
Fail ==
  /\ busy' = FALSE
  /\ returned' = FALSE
  /\ None(call')
  /\ UNCHANGED <<mem, buffer>>

Next == Begin \/ WriteWord \/ ReadWord \/ Succeed \/ Fail

Spec == Init /\ [][Next]_vars
=============================================================================
