------------------------------- MODULE MCEdbg -------------------------------
(* Constants for checking Edbg.  Over SWD: words of two bytes, an increment *)
(* that wraps after four, packets that hold one request with all its        *)
(* preliminaries or a few without.  Over JTAG: bytes of two bits, sequences *)
(* of up to three clocks, seven bytes a packet.                             *)
EXTENDS MCEdbgSession, Edbg

AccessTo(type, size, addr) == [type |-> type, size |-> size, addr |-> addr]
MCAccesses ==
  {AccessTo(t, 1, a) : t \in {"read", "write"}, a \in {2, 3}}
  \cup {AccessTo(t, 2, a) : t \in {"read", "write"}, a \in {2, 4}}
  \cup {AccessTo("read reg", 2, 0)}
MCBlocks == {[at |-> a, size |-> n] : a \in {0, 1}, n \in {1, 2, 5}}

MCChains == {<<>>, <<<<1, 0>>>>, <<<<0, 1>>>>, <<<<1, 1>>, <<0, 1>>>>,
             <<<<1, 1>>, <<0, 1>>, <<1, 0>>>>}
MCHeld == <<1, 0, 1>>
=============================================================================
