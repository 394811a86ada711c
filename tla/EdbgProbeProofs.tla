-------------------------- MODULE EdbgProbeProofs --------------------------
(***************************************************************************)
(* What is shown, for every value of the constants, of what edbg exchanges *)
(* with its probe.                                                         *)
(*                                                                         *)
(* The queue of requests: packed as it may be and with all that the host   *)
(* leaves out, it has the effect of one request after the other            *)
(* (QueueTransparent), and every packet answers one more                   *)
(* (QueueProgresses).  A request is followed operation by operation        *)
(* (OneRequest), a packet request by request (PacketFilled).               *)
(*                                                                         *)
(* The JTAG chain: what the probe has clocked is a path of the TAP, clock  *)
(* by clock, from where it stood when the queue was empty (Path).  A       *)
(* register of the chosen device is shifted exactly, whatever its place    *)
(* in the chain (RegistersExact), and a scan that is done has found the    *)
(* codes and the lengths of the chain (ScanFinds).  JtagInv says of each   *)
(* job how far it has come.                                                *)
(*                                                                         *)
(* Inductions over a sequence are by a least counterexample (LeastNat).    *)
(***************************************************************************)
EXTENDS Edbg, SequenceTheorems, FiniteSetTheorems, WellFoundedInduction, TLAPS

LEMMA LeastNat ==
  ASSUME NEW T, T \subseteq Nat, T # {}
  PROVE  \E n \in T : \A m \in T : n <= m
  <1> DEFINE R == OpToRel(<, Nat)
  <1>1. IsWellFoundedOn(R, Nat) BY NatLessThanWellFounded
  <1>2. \A m, n \in Nat : <<m, n>> \in R <=> m < n BY DEF OpToRel
  <1> HIDE DEF R
  <1>3. PICK n \in T : \A m \in T : ~(<<m, n>> \in R) BY <1>1, WFMin
  <1>4. ASSUME NEW m \in T PROVE n <= m
    <2>1. m \in Nat /\ n \in Nat OBVIOUS
    <2>2. ~(m < n) BY <1>2, <1>3, <2>1
    <2> QED BY <2>1, <2>2
  <1> QED BY <1>4

LEMMA Division ==
  ASSUME NEW a \in Nat, NEW p \in Nat \ {0}
  PROVE  /\ a \div p \in Nat
         /\ a % p \in 0 .. p - 1
         /\ p * (a \div p) + (a % p) = a
  BY Z3

LEMMA PairOf ==
  ASSUME NEW S, NEW x \in S, NEW y \in S
  PROVE  <<x>> \o <<y>> = <<x, y>>
  <1>1. <<x>> \in Seq(S) /\ <<y>> \in Seq(S) /\ <<x, y>> \in Seq(S) OBVIOUS
  <1>2. /\ <<x>> \o <<y>> \in Seq(S) /\ Len(<<x>> \o <<y>>) = 2
        /\ (<<x>> \o <<y>>)[1] = x /\ (<<x>> \o <<y>>)[2] = y
    BY <1>1
  <1> DEFINE s == <<x>> \o <<y>>
             t == <<x, y>>
  <1>3. Len(t) = 2 /\ t[1] = x /\ t[2] = y OBVIOUS
  <1>4. s \in Seq(S) /\ t \in Seq(S) /\ Len(s) = 2 /\ s[1] = x /\ s[2] = y BY <1>1, <1>2
  <1> HIDE DEF s, t
  <1>5. Len(s) = Len(t) /\ \A i \in 1 .. Len(s) : s[i] = t[i] BY <1>3, <1>4
  <1>6. s = t BY <1>4, <1>5, SeqEqual
  <1> QED BY <1>6 DEF s, t

LEMMA BusWidth == Bus \in {2, 4} /\ Bus \in Nat \ {0}
  BY QueueSizes DEF Queue!QueueAssumption

-----------------------------------------------------------------------------
(* The queue: types *)

Cell == Int \X Int
Memories == [Queue!Addresses -> Cell]
Csws == [size: Queue!Sizes, inc: BOOLEAN]
Ports == [mem: Memories, tar: 0 .. Extent, csw: Csws \cup {Queue!NoCsw}]
Caches == [csw: Csws \cup {Queue!NoCsw}, set: BOOLEAN, address: 0 .. Extent]
Kinds == {a.type : a \in Accesses} \cup {"read", "write", "both"}
Contents == UNION {[0 .. s - 1 -> Cell] : s \in Queue!Sizes}

\* A request that lies in the target, in one word.
Sound(req) ==
  /\ req.size \in Queue!Sizes /\ req.addr \in Queue!Addresses /\ req.addr % req.size = 0
  /\ req.data \in [0 .. req.size - 1 -> Cell]
Requests ==
  {req \in [type: Kinds, size: Queue!Sizes, addr: Queue!Addresses, data: Contents] : Sound(req)}

Lanes == [0 .. Bus - 1 -> Cell]
Put(o, d) == [op |-> o, memory |-> TRUE, data |-> d]
PortOps == {Queue!Op("read"), Queue!Op("write"), [op |-> "read", memory |-> TRUE]}
       \cup {[op |-> "csw", csw |-> c] : c \in Csws}
       \cup {[op |-> "tar", addr |-> a] : a \in Queue!Addresses}
       \cup {Put(o, d) : o \in {"write", "skip"}, d \in Lanes}

\* A request fits its word, and the word the target.
LEMMA InsideWord ==
  ASSUME NEW req, Sound(req)
  PROVE  /\ req.addr \in Nat /\ req.size \in {1, 2, 4} /\ Bus \in {2, 4}
         /\ (req.addr % Bus) \in 0 .. Bus - 1 /\ (req.addr % Bus) + req.size <= Bus
         /\ Bus * (req.addr \div Bus) + (req.addr % Bus) = req.addr
         /\ req.addr + req.size <= Extent
         /\ Queue!Lane(req) = (req.addr % Bus)
  <1>1. /\ req.addr \in Nat /\ req.addr < Extent /\ req.size \in {1, 2, 4} /\ req.size <= Bus
        /\ Bus \in {2, 4} /\ Extent \in Nat /\ Extent % Bus = 0 /\ req.addr % req.size = 0
    BY QueueSizes DEF Sound, Queue!Sizes, Queue!Addresses, Queue!QueueAssumption
  <1>2. /\ (req.addr % Bus) \in 0 .. Bus - 1
        /\ Bus * (req.addr \div Bus) + (req.addr % Bus) = req.addr
    <2>1. req.addr \in Nat /\ Bus \in Nat \ {0} BY <1>1
    <2> QED BY <2>1, Division
  <1>3. (req.addr % Bus) + req.size <= Bus /\ req.addr + req.size <= Extent
    <2>1. CASE Bus = 2
      <3>1. CASE req.size = 1 BY <1>1, <2>1, <3>1, Z3
      <3>2. CASE req.size = 2 BY <1>1, <2>1, <3>2, Z3
      <3> QED BY <1>1, <2>1, <3>1, <3>2
    <2>2. CASE Bus = 4
      <3>1. CASE req.size = 1 BY <1>1, <2>2, <3>1, Z3
      <3>2. CASE req.size = 2 BY <1>1, <2>2, <3>2, Z3
      <3>3. CASE req.size = 4 BY <1>1, <2>2, <3>3, Z3
      <3> QED BY <1>1, <3>1, <3>2, <3>3
    <2> QED BY <1>1, <2>1, <2>2
  <1>4. Queue!Lane(req) = (req.addr % Bus) BY <1>1, <1>2 DEF Queue!Lane
  <1> QED BY <1>1, <1>2, <1>3, <1>4

\* What a request does to the memory, done on its own.
Effect(req, mem) ==
  IF ~Queue!Writes(req) THEN mem
  ELSE [a \in Queue!Addresses |-> IF a - req.addr \in 0 .. req.size - 1
                                  THEN req.data[a - req.addr] ELSE mem[a]]

\* What it reads, or has written.
Answer(req, mem) == [k \in 0 .. req.size - 1 |-> mem[req.addr + k]]

\* The port is told the size of the access and its address.
Set(p, req) == p.csw = Queue!Csw(req) /\ p.tar = req.addr

LEMMA StoredAtTar ==
  ASSUME NEW req, Sound(req), NEW p \in Ports, Set(p, req), Queue!Writes(req)
  PROVE  Queue!Stored(p, Queue!ToLane(req)) = Effect(req, p.mem)
  <1>1. p.csw.size = req.size /\ p.tar = req.addr BY DEF Set, Queue!Csw
  <1>2. ASSUME NEW a \in Queue!Addresses, a - req.addr \in 0 .. req.size - 1
        PROVE  Queue!ToLane(req)[(req.addr % Bus) + (a - req.addr)] = req.data[a - req.addr]
    <2>1. PICK k \in 0 .. req.size - 1 : k = a - req.addr BY <1>2
    <2>2. /\ (req.addr % Bus) + k \in 0 .. Bus - 1 /\ ((req.addr % Bus) + k) - Queue!Lane(req) = k
      <3>1. PICK l \in Nat : l = (req.addr % Bus) BY InsideWord
      <3>2. l + req.size <= Bus /\ Queue!Lane(req) = l /\ req.size \in Nat /\ Bus \in Nat
        BY <3>1, InsideWord
      <3>3. k \in Nat /\ k < req.size BY <2>1, <3>2
      <3> QED BY <3>1, <3>2, <3>3
    <2> QED BY <2>1, <2>2 DEF Queue!ToLane
  <1> QED BY <1>1, <1>2 DEF Queue!Stored, Effect

LEMMA ReadAtTar ==
  ASSUME NEW req, Sound(req), NEW p \in Ports, p.tar = req.addr
  PROVE  Queue!FromLane(req, Queue!Word(p)) = Answer(req, p.mem)
  <1>1. ASSUME NEW k \in 0 .. req.size - 1
        PROVE  Queue!Word(p)[Queue!Lane(req) + k] = p.mem[req.addr + k]
    <2>0. PICK l \in Nat : l = (req.addr % Bus) BY InsideWord
    <2>1. Queue!Lane(req) + k \in 0 .. Bus - 1
      <3>2. l + req.size <= Bus /\ Queue!Lane(req) = l /\ req.size \in Nat /\ Bus \in Nat
        BY <2>0, InsideWord
      <3>3. k \in Nat /\ k < req.size BY <3>2
      <3> QED BY <3>2, <3>3
    <2>2. Bus * (req.addr \div Bus) + (Queue!Lane(req) + k) = req.addr + k
      <3>1. PICK d \in Int : d = Bus * (req.addr \div Bus)
        <4>1. req.addr \in Nat /\ Bus \in Nat \ {0} BY BusWidth DEF Sound, Queue!Addresses
        <4>2. req.addr \div Bus \in Nat BY <4>1, Division
        <4> QED BY <4>1, <4>2
      <3>2. d + l = req.addr /\ Queue!Lane(req) = l /\ req.addr \in Nat BY <2>0, <3>1, InsideWord
      <3> QED BY <3>1, <3>2
    <2> QED BY <2>1, <2>2 DEF Queue!Word
  <1> QED BY <1>1 DEF Queue!FromLane, Answer

-----------------------------------------------------------------------------
(* The operations of one request *)

\* f is at each of its steps what the operations make of the port.
Goes(f, ops, m) ==
  \A i \in 1 .. Len(ops) : f[m + i] = Queue!Perform(f[(m + i) - 1], ops[i])

\* What is remembered of the port is true of it, but for an address that the
\* increment may have wrapped at.
Told(c, p) ==
  /\ c.csw = Queue!NoCsw \/ c.csw = p.csw
  /\ ~c.set => c.address = p.tar \/ c.address % Wrap = 0

LEMMA GoesSplit ==
  ASSUME NEW s \in Seq(PortOps), NEW t \in Seq(PortOps), NEW f, NEW m \in Nat, Goes(f, s \o t, m)
  PROVE  Goes(f, s, m) /\ Goes(f, t, m + Len(s))
  <1>1. Len(s) \in Nat /\ Len(t) \in Nat /\ Len(s \o t) = Len(s) + Len(t) OBVIOUS
  <1>2. ASSUME NEW i \in 1 .. Len(s) PROVE f[m + i] = Queue!Perform(f[(m + i) - 1], s[i])
    <2>1. i \in 1 .. Len(s \o t) /\ (s \o t)[i] = s[i] BY <1>1
    <2> QED BY <2>1 DEF Goes
  <1>3. ASSUME NEW i \in 1 .. Len(t)
        PROVE  f[(m + Len(s)) + i] = Queue!Perform(f[((m + Len(s)) + i) - 1], t[i])
    <2>1. Len(s) + i \in 1 .. Len(s \o t) /\ (s \o t)[Len(s) + i] = t[i] BY <1>1
    <2>2. m + (Len(s) + i) = (m + Len(s)) + i BY <1>1
    <2> QED BY <2>1, <2>2 DEF Goes
  <1> QED BY <1>2, <1>3 DEF Goes

Preliminaries(c, req) ==
  (IF c.csw # Queue!Csw(req) THEN <<[op |-> "csw", csw |-> Queue!Csw(req)]>> ELSE <<>>)
  \o (IF Queue!TellAddress(c, req) THEN <<[op |-> "tar", addr |-> req.addr]>> ELSE <<>>)
Body(req) ==
  (IF Queue!Writes(req)
   THEN <<[op |-> IF Queue!Reads(req) THEN "skip" ELSE "write",
           memory |-> TRUE, data |-> Queue!ToLane(req)]>> ELSE <<>>)
  \o (IF Queue!Reads(req) THEN <<[op |-> "read", memory |-> TRUE]>> ELSE <<>>)

LEMMA CswTyped ==
  ASSUME NEW req \in Requests
  PROVE  Queue!Csw(req) \in Csws /\ Queue!Csw(req) # Queue!NoCsw
  BY DEF Requests, Csws, Queue!Csw, Queue!NoCsw, Queue!Sizes

\* At most two preliminaries, after which the port is set for the request.
LEMMA PreliminariesSet ==
  ASSUME NEW req \in Requests, NEW c \in Caches, NEW f, NEW m \in Nat, f[m] \in Ports,
         Told(c, f[m]), Goes(f, Preliminaries(c, req), m)
  PROVE  LET os == Preliminaries(c, req)
         IN  /\ os \in Seq(PortOps) /\ Len(os) \in 0 .. 2
             /\ f[m + Len(os)] \in Ports /\ Set(f[m + Len(os)], req)
             /\ \A i \in 0 .. Len(os) : f[m + i] \in Ports /\ f[m + i].mem = f[m].mem
             /\ \A i \in 1 .. Len(os) : os[i].op \in {"csw", "tar"}
  <1> DEFINE os == Preliminaries(c, req)
             csw == [op |-> "csw", csw |-> Queue!Csw(req)]
             tar == [op |-> "tar", addr |-> req.addr]
             told == c.csw = Queue!Csw(req)
             known == ~Queue!TellAddress(c, req)
             p == f[m]
  <1>1. csw \in PortOps /\ tar \in PortOps /\ csw.op = "csw" /\ tar.op = "tar"
    BY CswTyped DEF PortOps, Requests
  <1>2. /\ told => p.csw = Queue!Csw(req)
        /\ known => p.tar = req.addr
    BY CswTyped DEF Told, Queue!TellAddress, Requests
  <1>3. /\ Queue!Perform(p, csw) = [p EXCEPT !.csw = Queue!Csw(req)]
        /\ \A q : Queue!Perform(q, tar) = [q EXCEPT !.tar = req.addr]
    BY DEF Queue!Perform
  <1>4. req.addr \in 0 .. Extent /\ Queue!Csw(req) \in Csws
    BY CswTyped, QueueSizes DEF Requests, Queue!Addresses, Queue!QueueAssumption
  <1>5. ASSUME NEW q \in Ports PROVE [q EXCEPT !.tar = req.addr] \in Ports BY <1>4 DEF Ports
  <1>6. [p EXCEPT !.csw = Queue!Csw(req)] \in Ports BY <1>4 DEF Ports
  <1>7. (m + 1) - 1 = m /\ (m + 2) - 1 = m + 1 /\ m + 0 = m OBVIOUS
  <1> HIDE DEF csw, tar
  <1>8. CASE told /\ known
    <2>1. os = <<>> BY <1>8 DEF Preliminaries
    <2>2. Len(os) = 0 BY <2>1
    <2> QED BY <1>1, <1>2, <1>7, <1>8, <2>1, <2>2 DEF Set
  <1>9. CASE told /\ ~known
    <2>1. os = <<tar>> BY <1>9 DEF Preliminaries, tar
    <2>2. Len(os) = 1 /\ os[1] = tar BY <2>1
    <2>3. f[m + 1] = [p EXCEPT !.tar = req.addr] BY <1>3, <1>7, <2>2 DEF Goes
    <2>4. f[m + 1] \in Ports /\ Set(f[m + 1], req) /\ f[m + 1].mem = p.mem
      BY <1>2, <1>5, <1>9, <2>3 DEF Set, Ports
    <2> QED BY <1>1, <1>7, <2>1, <2>2, <2>4
  <1>10. CASE ~told /\ known
    <2>1. os = <<csw>> BY <1>10 DEF Preliminaries, csw
    <2>2. Len(os) = 1 /\ os[1] = csw BY <2>1
    <2>3. f[m + 1] = [p EXCEPT !.csw = Queue!Csw(req)] BY <1>3, <1>7, <2>2 DEF Goes
    <2>4. f[m + 1] \in Ports /\ Set(f[m + 1], req) /\ f[m + 1].mem = p.mem
      BY <1>2, <1>6, <1>10, <2>3 DEF Set, Ports
    <2> QED BY <1>1, <1>7, <2>1, <2>2, <2>4
  <1>11. CASE ~told /\ ~known
    <2>1. os = <<csw, tar>>
      <3>1. os = <<csw>> \o <<tar>> BY <1>11 DEF Preliminaries, csw, tar
      <3> QED BY <1>1, <3>1, PairOf
    <2>2. Len(os) = 2 /\ os[1] = csw /\ os[2] = tar BY <2>1
    <2>3. f[m + 1] = [p EXCEPT !.csw = Queue!Csw(req)] BY <1>3, <1>7, <2>2 DEF Goes
    <2>4. f[m + 1] \in Ports /\ f[m + 1].csw = Queue!Csw(req) /\ f[m + 1].mem = p.mem
      BY <1>6, <2>3 DEF Ports
    <2>5. f[m + 2] = [f[m + 1] EXCEPT !.tar = req.addr] BY <1>3, <1>7, <2>2 DEF Goes
    <2>6. f[m + 2] \in Ports /\ Set(f[m + 2], req) /\ f[m + 2].mem = p.mem
      BY <1>5, <2>4, <2>5 DEF Set, Ports
    <2> QED BY <1>1, <1>7, <2>1, <2>2, <2>4, <2>6
  <1> QED BY <1>8, <1>9, <1>10, <1>11

LEMMA WholeWraps ==
  ASSUME NEW n \in Nat \ {0}, n % Wrap = 0
  PROVE  n >= Wrap /\ Wrap \in Nat \ {0}
  <1>1. Wrap \in Nat \ {0} BY QueueSizes DEF Queue!QueueAssumption
  <1>2. /\ n \div Wrap \in Nat /\ Wrap * (n \div Wrap) + (n % Wrap) = n BY <1>1, Division
  <1>3. PICK q \in Nat : q = n \div Wrap BY <1>2
  <1>4. Wrap * q = n
    <2>1. Wrap * q + 0 = n BY <1>2, <1>3
    <2>2. Wrap * q \in Int BY <1>1, <1>3
    <2> QED BY <2>1, <2>2
  <1>5. q # 0
    <2>1. Wrap * 0 = 0 BY <1>1
    <2> QED BY <1>4, <2>1
  <1>6. Wrap * q >= Wrap BY <1>1, <1>3, <1>5, Z3
  <1> QED BY <1>1, <1>4, <1>6

\* An access counts TAR up, and what is remembered of it with it.
LEMMA CountsUp ==
  ASSUME NEW req \in Requests, NEW p \in Ports, Set(p, req), NEW c
  PROVE  /\ Queue!Counted(p) \in 0 .. Extent
         /\ Queue!Memory(req) =>
              Told(Queue!Remembered(c, req), [p EXCEPT !.tar = Queue!Counted(p)])
  <1> DEFINE n == req.addr + req.size
             t == Queue!Counted(p)
             inc == req.type # "both"
  <1>1. Sound(req) BY DEF Requests
  <1>2. req.addr \in Nat /\ n \in Nat \ {0} /\ n <= Extent BY <1>1, InsideWord
  <1>3. p.tar = req.addr /\ p.csw.size = req.size /\ p.csw.inc = inc
    BY DEF Set, Queue!Csw
  <1>4. t = IF inc THEN (IF n % Wrap = 0 THEN n - Wrap ELSE n) ELSE req.addr
    BY <1>3 DEF Queue!Counted
  <1>5. n % Wrap = 0 => n - Wrap \in Nat BY <1>2, WholeWraps
  <1>6. Wrap \in Nat \ {0} /\ Extent \in Nat BY QueueSizes DEF Queue!QueueAssumption
  <1>7. t \in 0 .. Extent
    <2>1. n % Wrap = 0 => n - Wrap \in 0 .. Extent BY <1>2, <1>5, <1>6
    <2>2. n \in 0 .. Extent /\ req.addr \in 0 .. Extent
      BY <1>2, <1>6 DEF Requests, Queue!Addresses
    <2> HIDE DEF n
    <2> QED BY <1>4, <2>1, <2>2
  <1>8. ASSUME Queue!Memory(req)
        PROVE  Told(Queue!Remembered(c, req), [p EXCEPT !.tar = t])
    <2> DEFINE r == Queue!Remembered(c, req)
               q == [p EXCEPT !.tar = t]
    <2>1. /\ r.csw = Queue!Csw(req) /\ r.set = FALSE
          /\ r.address = req.addr + (IF inc THEN req.size ELSE 0)
      BY <1>8 DEF Queue!Remembered
    <2>2. q.csw = Queue!Csw(req) /\ q.tar = t BY DEF Ports, Set
    <2>3. r.address = t \/ r.address % Wrap = 0
      <3>1. CASE inc BY <1>4, <2>1, <3>1
      <3>2. CASE ~inc BY <1>2, <1>4, <2>1, <3>2
      <3> QED BY <3>1, <3>2
    <2> HIDE DEF q, r
    <2>4. Told(r, q) BY <2>1, <2>2, <2>3 DEF Told
    <2> QED BY <2>4 DEF q, r
  <1> QED BY <1>7, <1>8

LEMMA LaneTyped ==
  ASSUME NEW req \in Requests
  PROVE  Queue!ToLane(req) \in Lanes
  <1>1. Sound(req) BY DEF Requests
  <1>2. ASSUME NEW l \in 0 .. Bus - 1, l - Queue!Lane(req) \in 0 .. req.size - 1
        PROVE  req.data[l - Queue!Lane(req)] \in Cell
    BY <1>1, <1>2 DEF Sound
  <1>3. Queue!Blank \in Cell BY DEF Queue!Blank, Cell
  <1> QED BY <1>2, <1>3 DEF Queue!ToLane, Lanes

LEMMA EffectTyped ==
  ASSUME NEW req, Sound(req), NEW mem \in Memories
  PROVE  Effect(req, mem) \in Memories
  BY DEF Effect, Memories, Sound

\* What was written is what is there.
LEMMA WrittenThere ==
  ASSUME NEW req, Sound(req), NEW mem, Queue!Writes(req)
  PROVE  req.data = Answer(req, Effect(req, mem))
  <1>1. ASSUME NEW k \in 0 .. req.size - 1 PROVE Effect(req, mem)[req.addr + k] = req.data[k]
    <2>1. req.addr + k \in Queue!Addresses
      <3>1. req.addr \in Nat /\ req.size \in Nat /\ req.addr + req.size <= Extent BY InsideWord
      <3>2. Extent \in Nat BY QueueSizes DEF Queue!QueueAssumption
      <3>3. k \in Nat /\ k < req.size BY <3>1
      <3> QED BY <3>1, <3>2, <3>3 DEF Queue!Addresses
    <2>2. (req.addr + k) - req.addr = k BY InsideWord
    <2> QED BY <2>1, <2>2 DEF Effect
  <1>2. Answer(req, Effect(req, mem)) = [k \in 0 .. req.size - 1 |-> req.data[k]]
    BY <1>1 DEF Answer
  <1> QED BY <1>2 DEF Sound

\* One or two operations at the place that is set make the effect, and the last
\* of them is the one that is answered.
LEMMA BodyEffect ==
  ASSUME NEW req \in Requests, Queue!Memory(req), NEW c, NEW f, NEW m \in Nat,
         f[m] \in Ports, Set(f[m], req), Goes(f, Body(req), m)
  PROVE  LET os == Body(req)
             n == Len(os)
             mem == f[m].mem
         IN  /\ os \in Seq(PortOps) /\ n \in 1 .. 2
             /\ f[m + n] \in Ports /\ f[m + n].mem = Effect(req, mem)
             /\ Told(Queue!Remembered(c, req), f[m + n])
             /\ \A i \in 0 .. n :
                  f[m + i] \in Ports /\ f[m + i].mem \in {mem, Effect(req, mem)}
             /\ \A i \in 1 .. n : os[i].op \in {"read", "write"} <=> i = n
             /\ n = 2 => os[n].op = "read"
             /\ os[n].op = "read" =>
                  Queue!FromLane(req, Queue!Word(f[(m + n) - 1])) = Answer(req, Effect(req, mem))
             /\ os[n].op = "write" => req.data = Answer(req, Effect(req, mem))
  <1> DEFINE os == Body(req)
             p == f[m]
             mem == p.mem
             data == Queue!ToLane(req)
             write == [op |-> "write", memory |-> TRUE, data |-> data]
             skip == [op |-> "skip", memory |-> TRUE, data |-> data]
             read == [op |-> "read", memory |-> TRUE]
             after == [p EXCEPT !.mem = Effect(req, mem), !.tar = Queue!Counted(p)]
  <1>1. Sound(req) BY DEF Requests
  <1>2. write \in PortOps /\ skip \in PortOps /\ read \in PortOps
    <2>1. data \in Lanes BY LaneTyped
    <2> HIDE DEF data
    <2>2. Put("write", data) \in PortOps /\ Put("skip", data) \in PortOps BY <2>1 DEF PortOps
    <2>3. read \in PortOps BY DEF PortOps
    <2> QED BY <2>2, <2>3 DEF Put
  <1>3. /\ write.op = "write" /\ write.memory /\ write.data = data
        /\ skip.op = "skip" /\ skip.memory /\ skip.data = data
        /\ read.op = "read" /\ read.memory
    OBVIOUS
  <1> HIDE DEF write, skip, read
  <1>4. (m + 1) - 1 = m /\ (m + 2) - 1 = m + 1 /\ m + 0 = m OBVIOUS
  <1>5. mem \in Memories /\ Effect(req, mem) \in Memories
    <2>1. mem \in Memories BY DEF Ports
    <2> QED BY <1>1, <2>1, EffectTyped
  <1>6. after \in Ports /\ after.mem = Effect(req, mem) /\ Told(Queue!Remembered(c, req), after)
    <2>1. /\ Queue!Counted(p) \in 0 .. Extent
          /\ Told(Queue!Remembered(c, req), [p EXCEPT !.tar = Queue!Counted(p)])
      BY CountsUp
    <2>2. after \in Ports /\ after.mem = Effect(req, mem) BY <1>5, <2>1 DEF Ports
    <2>3. after.csw = p.csw /\ after.tar = Queue!Counted(p) BY DEF Ports
    <2>4. [p EXCEPT !.tar = Queue!Counted(p)].csw = p.csw
          /\ [p EXCEPT !.tar = Queue!Counted(p)].tar = Queue!Counted(p)
      BY DEF Ports
    <2>5. Told(Queue!Remembered(c, req), after) BY <2>1, <2>3, <2>4 DEF Told
    <2> QED BY <2>2, <2>5
  <1>7. Queue!Writes(req) =>
          /\ Queue!Perform(p, write) = after /\ Queue!Perform(p, skip) = after
    <2>1. Queue!Writes(req) => Queue!Stored(p, data) = Effect(req, mem) BY <1>1, StoredAtTar
    <2> QED BY <1>3, <2>1 DEF Queue!Perform
  <1>8. Queue!Perform(p, read) = [p EXCEPT !.tar = Queue!Counted(p)]
    BY <1>3 DEF Queue!Perform
  <1> HIDE DEF after
  <1>9. CASE req.type = "write"
    <2>1. Queue!Writes(req) /\ ~Queue!Reads(req) BY <1>9 DEF Queue!Writes, Queue!Reads
    <2>2. os = <<write>>
      <3>1. os = <<write>> \o <<>> BY <2>1 DEF Body, write
      <3>2. <<write>> \in Seq(PortOps) BY <1>2
      <3> QED BY <3>1, <3>2, ConcatEmptySeq
    <2>3. Len(os) = 1 /\ os[1] = write BY <2>2
    <2>4. f[m + 1] = after BY <1>4, <1>7, <2>1, <2>3 DEF Goes
    <2>5. req.data = Answer(req, Effect(req, mem)) BY <1>1, <2>1, WrittenThere
    <2> QED BY <1>2, <1>3, <1>4, <1>6, <2>2, <2>3, <2>4, <2>5
  <1>10. CASE req.type = "read"
    <2>1. ~Queue!Writes(req) /\ Queue!Reads(req) BY <1>10 DEF Queue!Writes, Queue!Reads
    <2>2. os = <<read>>
      <3>1. os = <<>> \o <<read>> BY <2>1 DEF Body, read
      <3>2. <<read>> \in Seq(PortOps) BY <1>2
      <3> QED BY <3>1, <3>2, ConcatEmptySeq
    <2>3. Len(os) = 1 /\ os[1] = read BY <2>2
    <2>4. Effect(req, mem) = mem BY <2>1 DEF Effect
    <2>5. f[m + 1] = after
      <3>1. [p EXCEPT !.tar = Queue!Counted(p)] = after BY <2>4 DEF after, Ports
      <3>2. f[m + 1] = [p EXCEPT !.tar = Queue!Counted(p)] BY <1>4, <1>8, <2>3 DEF Goes
      <3> QED BY <3>1, <3>2
    <2>6. Queue!FromLane(req, Queue!Word(p)) = Answer(req, mem)
      <3>1. p.tar = req.addr BY DEF Set
      <3> QED BY <1>1, <3>1, ReadAtTar
    <2> QED BY <1>2, <1>3, <1>4, <1>6, <2>2, <2>3, <2>4, <2>5, <2>6
  <1>11. CASE req.type = "both"
    <2>1. Queue!Writes(req) /\ Queue!Reads(req) BY <1>11 DEF Queue!Writes, Queue!Reads
    <2>2. os = <<skip, read>>
      <3>1. os = <<skip>> \o <<read>> BY <2>1 DEF Body, skip, read
      <3> QED BY <1>2, <3>1, PairOf
    <2>3. Len(os) = 2 /\ os[1] = skip /\ os[2] = read BY <2>2
    <2>4. f[m + 1] = after BY <1>4, <1>7, <2>1, <2>3 DEF Goes
    <2>5. Set(after, req) /\ Queue!Counted(after) = req.addr
      <3>0. Queue!Csw(req).inc = (req.type # "both") BY DEF Queue!Csw
      <3>1. p.csw = Queue!Csw(req) /\ p.tar = req.addr /\ ~p.csw.inc
        BY <1>11, <3>0 DEF Set
      <3>2. Queue!Counted(p) = req.addr BY <3>1 DEF Queue!Counted
      <3>3. after.csw = p.csw /\ after.tar = req.addr BY <3>2 DEF after, Ports
      <3> QED BY <3>1, <3>3 DEF Set, Queue!Counted
    <2>6. f[m + 2] = after
      <3>1. f[m + 2] = Queue!Perform(after, read) BY <1>4, <2>3, <2>4 DEF Goes
      <3>2. Queue!Perform(after, read) = [after EXCEPT !.tar = Queue!Counted(after)]
        BY <1>3 DEF Queue!Perform
      <3>3. [after EXCEPT !.tar = req.addr] = after BY <1>6, <2>5 DEF Set, Ports
      <3> QED BY <2>5, <3>1, <3>2, <3>3
    <2>7. Queue!FromLane(req, Queue!Word(after)) = Answer(req, Effect(req, mem))
      <3>1. after.tar = req.addr BY <2>5 DEF Set
      <3> QED BY <1>1, <1>6, <3>1, ReadAtTar
    <2> QED BY <1>2, <1>3, <1>4, <1>6, <2>2, <2>3, <2>4, <2>6, <2>7
  <1> QED BY <1>9, <1>10, <1>11 DEF Queue!Memory

LEMMA RememberedTyped ==
  ASSUME NEW req \in Requests, NEW c \in Caches
  PROVE  Queue!Remembered(c, req) \in Caches
  <1>1. Sound(req) BY DEF Requests
  <1>2. /\ req.addr \in Nat /\ req.size \in Nat /\ req.addr + req.size <= Extent
        /\ Queue!Csw(req) \in Csws
    BY <1>1, InsideWord, CswTyped
  <1>3. Extent \in Nat BY QueueSizes DEF Queue!QueueAssumption
  <1>4. req.addr + (IF req.type = "both" THEN 0 ELSE req.size) \in 0 .. Extent BY <1>2, <1>3
  <1> QED BY <1>2, <1>4 DEF Queue!Remembered, Caches

LEMMA OperationsSplit ==
  ASSUME NEW req \in Requests, NEW c \in Caches, Queue!Memory(req)
  PROVE  /\ Preliminaries(c, req) \in Seq(PortOps) /\ Body(req) \in Seq(PortOps)
         /\ Queue!Operations(c, req) = Preliminaries(c, req) \o Body(req)
  <1> DEFINE os == Queue!Operations(c, req)
             pre == Preliminaries(c, req)
             body == Body(req)
  <1> DEFINE a == IF c.csw # Queue!Csw(req)
                  THEN <<[op |-> "csw", csw |-> Queue!Csw(req)]>> ELSE <<>>
             b == IF Queue!TellAddress(c, req)
                  THEN <<[op |-> "tar", addr |-> req.addr]>> ELSE <<>>
             w == IF Queue!Writes(req)
                  THEN <<Put(IF Queue!Reads(req) THEN "skip" ELSE "write", Queue!ToLane(req))>>
                  ELSE <<>>
             r == IF Queue!Reads(req) THEN <<[op |-> "read", memory |-> TRUE]>> ELSE <<>>
  <1>1. os = ((a \o b) \o w) \o r BY DEF Queue!Operations, Put
  <1>2. pre = a \o b BY DEF Preliminaries
  <1>3. body = w \o r BY DEF Body, Put
  <1>4. a \in Seq(PortOps) /\ b \in Seq(PortOps)
    <2>1. [op |-> "csw", csw |-> Queue!Csw(req)] \in PortOps BY CswTyped DEF PortOps
    <2>2. [op |-> "tar", addr |-> req.addr] \in PortOps BY DEF PortOps, Requests
    <2> QED BY <2>1, <2>2
  <1>5. w \in Seq(PortOps) /\ r \in Seq(PortOps)
    <2>1. Put("write", Queue!ToLane(req)) \in PortOps /\ Put("skip", Queue!ToLane(req)) \in PortOps
      BY LaneTyped DEF PortOps
    <2>2. [op |-> "read", memory |-> TRUE] \in PortOps BY DEF PortOps
    <2> QED BY <2>1, <2>2
  <1> HIDE DEF a, b, w, r, os
  <1>6. a \o b \in Seq(PortOps) /\ w \o r \in Seq(PortOps) BY <1>4, <1>5
  <1>7. ((a \o b) \o w) \o r = (a \o b) \o (w \o r)
    <2>1. \A x, y, z \in Seq(PortOps) : (x \o y) \o z = x \o (y \o z) BY ConcatAssociative
    <2> QED BY <1>5, <1>6, <2>1, Zenon
  <1> QED BY <1>1, <1>2, <1>3, <1>6, <1>7 DEF os

LEMMA OperationsTyped ==
  ASSUME NEW req \in Requests, NEW c \in Caches
  PROVE  Queue!Operations(c, req) \in Seq(PortOps)
  <1>1. CASE ~Queue!Memory(req)
    <2>1. PICK o \in {Queue!Op("read"), Queue!Op("write")} : Queue!Operations(c, req) = <<o>>
      BY <1>1 DEF Queue!Operations
    <2>2. o \in PortOps BY DEF PortOps
    <2> QED BY <2>1, <2>2
  <1>2. CASE Queue!Memory(req)
    <2>1. PICK s \in Seq(PortOps), t \in Seq(PortOps) : Queue!Operations(c, req) = s \o t
      BY <1>2, OperationsSplit
    <2> QED BY <2>1
  <1> QED BY <1>1, <1>2

OneRequestDone(req, c, f, m) ==
  LET os == Queue!Operations(c, req)
      n == Len(os)
      mem == f[m].mem
  IN  /\ os \in Seq(PortOps) /\ n \in 1 .. 4
      /\ f[m + n] \in Ports /\ f[m + n].mem = Effect(req, mem)
      /\ Told(Queue!Remembered(c, req), f[m + n])
      /\ \A i \in 0 .. n : f[m + i] \in Ports /\ f[m + i].mem \in {mem, Effect(req, mem)}
      /\ \A i \in 1 .. n : os[i].op \in {"read", "write"} <=> i = n
      /\ n = 4 => os[n].op = "read"
      /\ Queue!Memory(req) /\ os[n].op = "read" =>
           Queue!FromLane(req, Queue!Word(f[(m + n) - 1])) = Answer(req, Effect(req, mem))
      /\ Queue!Memory(req) /\ os[n].op = "write" => req.data = Answer(req, Effect(req, mem))

\* The operations of a request have its effect, at once, and its answer.
LEMMA OneRequest ==
  ASSUME NEW req \in Requests, NEW c \in Caches, NEW f, NEW m \in Nat,
         f[m] \in Ports, Told(c, f[m]), Goes(f, Queue!Operations(c, req), m)
  PROVE  OneRequestDone(req, c, f, m)
  <1> DEFINE os == Queue!Operations(c, req)
             pre == Preliminaries(c, req)
             body == Body(req)
             mem == f[m].mem
  <1>1. CASE ~Queue!Memory(req)
    <2>1. PICK o \in {Queue!Op("read"), Queue!Op("write")} : os = <<o>>
      BY <1>1 DEF Queue!Operations
    <2>2. o \in PortOps /\ o.op \in {"read", "write"} /\ ~o.memory BY DEF PortOps, Queue!Op
    <2>3. Len(os) = 1 /\ os[1] = o /\ os \in Seq(PortOps) BY <2>1, <2>2
    <2>4. Queue!Perform(f[m], o) = f[m] BY <2>2 DEF Queue!Perform
    <2>5. f[m + 1] = f[m]
      <3>1. (m + 1) - 1 = m OBVIOUS
      <3> QED BY <2>3, <2>4, <3>1 DEF Goes
    <2>6. Effect(req, mem) = mem /\ Queue!Remembered(c, req) = c
      BY <1>1 DEF Effect, Queue!Writes, Queue!Memory, Queue!Remembered
    <2>7. m + 0 = m OBVIOUS
    <2> HIDE DEF os
    <2> QED BY <1>1, <2>2, <2>3, <2>5, <2>6, <2>7 DEF OneRequestDone, os
  <1>2. CASE Queue!Memory(req)
    <2>1. pre \in Seq(PortOps) /\ body \in Seq(PortOps) /\ os = pre \o body BY <1>2, OperationsSplit
    <2> HIDE DEF os, pre, body
    <2>2. Goes(f, pre, m) /\ Goes(f, body, m + Len(pre)) BY <2>1, GoesSplit DEF os
    <2>3. PICK k \in Nat : k = Len(pre) BY <2>1
    <2>4. /\ k \in 0 .. 2 /\ f[m + k] \in Ports /\ Set(f[m + k], req)
          /\ \A i \in 0 .. k : f[m + i] \in Ports /\ f[m + i].mem = mem
          /\ \A i \in 1 .. k : pre[i].op \in {"csw", "tar"}
      BY <2>2, <2>3, PreliminariesSet DEF pre
    <2>5. PICK l \in Nat : l = Len(body) BY <2>1
    <2>6. /\ l \in 1 .. 2
          /\ f[(m + k) + l] \in Ports /\ f[(m + k) + l].mem = Effect(req, f[m + k].mem)
          /\ Told(Queue!Remembered(c, req), f[(m + k) + l])
          /\ \A i \in 0 .. l : /\ f[(m + k) + i] \in Ports
                              /\ f[(m + k) + i].mem \in {f[m + k].mem, Effect(req, f[m + k].mem)}
          /\ \A i \in 1 .. l : body[i].op \in {"read", "write"} <=> i = l
          /\ l = 2 => body[l].op = "read"
          /\ body[l].op = "read" =>
               Queue!FromLane(req, Queue!Word(f[((m + k) + l) - 1]))
                 = Answer(req, Effect(req, f[m + k].mem))
          /\ body[l].op = "write" => req.data = Answer(req, Effect(req, f[m + k].mem))
      <3>1. PICK j \in Nat : j = m + k BY <2>3
      <3>2. f[j] \in Ports /\ Set(f[j], req) /\ Goes(f, Body(req), j)
        BY <2>2, <2>3, <2>4, <3>1 DEF body
      <3>3. /\ Len(body) \in 1 .. 2
            /\ f[j + Len(body)] \in Ports /\ f[j + Len(body)].mem = Effect(req, f[j].mem)
            /\ Told(Queue!Remembered(c, req), f[j + Len(body)])
            /\ \A i \in 0 .. Len(body) :
                 f[j + i] \in Ports /\ f[j + i].mem \in {f[j].mem, Effect(req, f[j].mem)}
            /\ \A i \in 1 .. Len(body) : body[i].op \in {"read", "write"} <=> i = Len(body)
            /\ Len(body) = 2 => body[Len(body)].op = "read"
            /\ body[Len(body)].op = "read" =>
                 Queue!FromLane(req, Queue!Word(f[(j + Len(body)) - 1]))
                   = Answer(req, Effect(req, f[j].mem))
            /\ body[Len(body)].op = "write" => req.data = Answer(req, Effect(req, f[j].mem))
        BY <1>2, <3>2, BodyEffect DEF body
      <3> QED BY <2>5, <3>1, <3>3, Zenon
    <2>7. f[m + k].mem = mem BY <2>4
    <2>8. Len(os) = k + l /\ k + l \in 1 .. 4 /\ os \in Seq(PortOps)
          /\ (\A i \in 1 .. k : os[i] = pre[i]) /\ (\A i \in 1 .. l : os[k + i] = body[i])
      <3>1. k \in 0 .. 2 /\ l \in 1 .. 2 BY <2>4, <2>6
      <3>2. k + l \in 1 .. 4 BY <3>1
      <3>3. /\ os \in Seq(PortOps) /\ Len(os) = k + l
            /\ \A i \in 1 .. k + l : os[i] = IF i <= k THEN pre[i] ELSE body[i - k]
        BY <2>1, <2>3, <2>5, ConcatProperties
      <3>4. ASSUME NEW i \in 1 .. k PROVE os[i] = pre[i]
        <4>1. i \in 1 .. k + l /\ i <= k BY <3>1
        <4> QED BY <3>3, <4>1
      <3>5. ASSUME NEW i \in 1 .. l PROVE os[k + i] = body[i]
        <4>1. k + i \in 1 .. k + l /\ ~(k + i <= k) /\ (k + i) - k = i BY <3>1
        <4> QED BY <3>3, <4>1
      <3> QED BY <3>2, <3>3, <3>4, <3>5
    <2>9. m + (k + l) = (m + k) + l BY <2>3, <2>5
    <2>10. ASSUME NEW i \in 0 .. k + l
          PROVE  f[m + i] \in Ports /\ f[m + i].mem \in {mem, Effect(req, mem)}
      <3>1. CASE i <= k BY <2>4, <3>1
      <3>2. CASE i > k
        <4>1. i - k \in 0 .. l /\ (m + k) + (i - k) = m + i BY <2>3, <2>5, <3>2
        <4> QED BY <2>6, <2>7, <4>1
      <3> QED BY <3>1, <3>2
    <2>11. ASSUME NEW i \in 1 .. k + l PROVE os[i].op \in {"read", "write"} <=> i = k + l
      <3>1. CASE i <= k
        <4>1. i \in 1 .. k /\ i # k + l BY <2>5, <2>6, <3>1
        <4> QED BY <2>4, <2>8, <4>1
      <3>2. CASE i > k
        <4>1. i - k \in 1 .. l /\ k + (i - k) = i /\ (i - k = l <=> i = k + l)
          BY <2>3, <2>5, <3>2
        <4>2. os[i] = body[i - k] BY <2>8, <4>1
        <4>3. body[i - k].op \in {"read", "write"} <=> i - k = l BY <2>6, <4>1
        <4> QED BY <4>1, <4>2, <4>3
      <3> QED BY <3>1, <3>2
    <2>12. os[k + l] = body[l] BY <2>6, <2>8
    <2>13. /\ os \in Seq(PortOps) /\ Len(os) \in 1 .. 4
           /\ f[m + Len(os)] \in Ports /\ f[m + Len(os)].mem = Effect(req, mem)
           /\ Told(Queue!Remembered(c, req), f[m + Len(os)])
      BY <2>6, <2>7, <2>8, <2>9
    <2>15. Len(os) = 4 => os[Len(os)].op = "read"
      <3>0. k \in 0 .. 2 /\ l \in 1 .. 2 BY <2>4, <2>6
      <3>1. k + l = 4 => l = 2 BY <3>0
      <3>2. Len(os) = 4 => l = 2 BY <2>8, <3>1
      <3> QED BY <2>6, <2>8, <2>12, <3>2
    <2>14. /\ os[Len(os)].op = "read" =>
                Queue!FromLane(req, Queue!Word(f[(m + Len(os)) - 1])) = Answer(req, Effect(req, mem))
           /\ os[Len(os)].op = "write" => req.data = Answer(req, Effect(req, mem))
      BY <2>6, <2>7, <2>8, <2>9, <2>12
    <2> QED BY <2>8, <2>10, <2>11, <2>13, <2>14, <2>15 DEF OneRequestDone, os
  <1> QED BY <1>1, <1>2

-----------------------------------------------------------------------------
(* The recursive definitions of the queue are well defined, and unfold *)

Performs(f, ops, c) ==
  f = [i \in 0 .. c |-> IF i = 0 THEN port ELSE Queue!Perform(f[i - 1], ops[i])]

LEMMA PerformsExists ==
  ASSUME NEW ops, NEW n \in Nat
  PROVE  \E f : Performs(f, ops, n)
  <1> DEFINE Holds(c) == \E f : Performs(f, ops, c)
             Open == {c \in Nat : ~Holds(c)}
  <1>1. SUFFICES ASSUME Open # {} PROVE FALSE OBVIOUS
  <1>2. PICK c \in Open : \A m \in Open : c <= m
    <2>1. Open \subseteq Nat OBVIOUS
    <2> HIDE DEF Open
    <2> QED BY <1>1, <2>1, LeastNat
  <1>3. c # 0
    <2> DEFINE f == [i \in 0 .. 0 |-> port]
    <2>1. f = [i \in 0 .. 0 |-> IF i = 0 THEN port ELSE Queue!Perform(f[i - 1], ops[i])]
      OBVIOUS
    <2>2. Holds(0) BY <2>1 DEF Performs
    <2> QED BY <1>2, <2>2
  <1>4. c - 1 \in Nat /\ c \in Nat /\ 0 <= c - 1 /\ c - 1 \notin Open
    <2>1. c \in Nat /\ 0 <= c /\ 0 \in Nat BY <1>2
    <2>2. c - 1 \in Nat /\ 0 <= c - 1 /\ c - 1 < c BY <1>3, <2>1
    <2> QED BY <1>2, <2>1, <2>2
  <1>5. PICK f : Performs(f, ops, c - 1) BY <1>4
  <1> DEFINE e == Queue!Perform(f[c - 1], ops[c])
             g == [i \in 0 .. c |-> IF i = c THEN e ELSE f[i]]
  <1> HIDE DEF e
  <1>6. ASSUME NEW i \in 0 .. c
        PROVE  g[i] = IF i = 0 THEN port ELSE Queue!Perform(g[i - 1], ops[i])
    <2>1. CASE i = c
      <3>1. i # 0 /\ i - 1 \in 0 .. c /\ i - 1 # c BY <1>3, <1>4, <2>1
      <3>2. g[i - 1] = f[c - 1] BY <2>1, <3>1
      <3>3. g[i] = e BY <2>1
      <3> QED BY <2>1, <3>1, <3>2, <3>3 DEF e
    <2>2. CASE i # c
      <3>1. i \in 0 .. c - 1 BY <1>4, <2>2
      <3>2. f[i] = IF i = 0 THEN port ELSE Queue!Perform(f[i - 1], ops[i])
        BY <1>5, <3>1 DEF Performs
      <3>3. i # 0 => i - 1 \in 0 .. c /\ i - 1 # c BY <1>4, <3>1
      <3>4. i # 0 => g[i - 1] = f[i - 1] BY <3>3
      <3>5. g[i] = f[i] BY <2>2
      <3> HIDE DEF g
      <3> QED BY <3>2, <3>4, <3>5
    <2> QED BY <2>1, <2>2
  <1>7. g = [i \in 0 .. c |-> IF i = 0 THEN port ELSE Queue!Perform(g[i - 1], ops[i])] BY <1>6
  <1>8. Holds(c) BY <1>7 DEF Performs
  <1> QED BY <1>2, <1>8

LEMMA AfterStep ==
  ASSUME NEW ops \in Seq(PortOps)
  PROVE  Queue!After(ops)[0] = port /\ Goes(Queue!After(ops), ops, 0)
  <1>0. Len(ops) \in Nat OBVIOUS
  <1>1. Queue!After(ops) = CHOOSE f : Performs(f, ops, Len(ops)) BY DEF Queue!After, Performs
  <1>2. Performs(Queue!After(ops), ops, Len(ops)) BY <1>0, <1>1, PerformsExists
  <1> DEFINE f == Queue!After(ops)
  <1> HIDE DEF f
  <1>3. f = [i \in 0 .. Len(ops) |-> IF i = 0 THEN port ELSE Queue!Perform(f[i - 1], ops[i])]
    BY <1>2 DEF Performs, f
  <1>4. ASSUME NEW i \in 1 .. Len(ops)
        PROVE  f[0 + i] = Queue!Perform(f[(0 + i) - 1], ops[i])
    <2>1. 0 + i = i /\ i \in 0 .. Len(ops) /\ i # 0 BY <1>0
    <2> QED BY <1>3, <2>1
  <1>5. f[0] = port BY <1>0, <1>3
  <1> QED BY <1>4, <1>5 DEF Goes, f

\* The answers with one more operation, done on the target p.
NextReply(g, op, p) ==
  LET req == queue[Len(g) + 1]
  IN  CASE op.op = "read" ->
             Append(g, IF Queue!Memory(req) THEN Queue!FromLane(req, Queue!Word(p)) ELSE "register")
        [] op.op = "write" -> Append(g, req.data)
        [] OTHER -> g

Replies(f, ops, c) ==
  f = [i \in 0 .. c |-> IF i = 0 THEN replies ELSE NextReply(f[i - 1], ops[i], Queue!After(ops)[i - 1])]

LEMMA RepliesExists ==
  ASSUME NEW ops, NEW n \in Nat
  PROVE  \E f : Replies(f, ops, n)
  <1> DEFINE Holds(c) == \E f : Replies(f, ops, c)
             Open == {c \in Nat : ~Holds(c)}
  <1>1. SUFFICES ASSUME Open # {} PROVE FALSE OBVIOUS
  <1>2. PICK c \in Open : \A m \in Open : c <= m
    <2>1. Open \subseteq Nat OBVIOUS
    <2> HIDE DEF Open
    <2> QED BY <1>1, <2>1, LeastNat
  <1>3. c # 0
    <2> DEFINE f == [i \in 0 .. 0 |-> replies]
    <2>1. f = [i \in 0 .. 0 |-> IF i = 0 THEN replies ELSE NextReply(f[i - 1], ops[i], Queue!After(ops)[i - 1])]
      OBVIOUS
    <2>2. Holds(0) BY <2>1 DEF Replies
    <2> QED BY <1>2, <2>2
  <1>4. c - 1 \in Nat /\ c \in Nat /\ 0 <= c - 1 /\ c - 1 \notin Open
    <2>1. c \in Nat /\ 0 <= c /\ 0 \in Nat BY <1>2
    <2>2. c - 1 \in Nat /\ 0 <= c - 1 /\ c - 1 < c BY <1>3, <2>1
    <2> QED BY <1>2, <2>1, <2>2
  <1>5. PICK f : Replies(f, ops, c - 1) BY <1>4
  <1> DEFINE e == NextReply(f[c - 1], ops[c], Queue!After(ops)[c - 1])
             g == [i \in 0 .. c |-> IF i = c THEN e ELSE f[i]]
  <1> HIDE DEF e
  <1>6. ASSUME NEW i \in 0 .. c
        PROVE  g[i] = IF i = 0 THEN replies ELSE NextReply(g[i - 1], ops[i], Queue!After(ops)[i - 1])
    <2>1. CASE i = c
      <3>1. i # 0 /\ i - 1 \in 0 .. c /\ i - 1 # c BY <1>3, <1>4, <2>1
      <3>2. g[i - 1] = f[c - 1] BY <2>1, <3>1
      <3>3. g[i] = e BY <2>1
      <3> QED BY <2>1, <3>1, <3>2, <3>3 DEF e
    <2>2. CASE i # c
      <3>1. i \in 0 .. c - 1 BY <1>4, <2>2
      <3>2. f[i] = IF i = 0 THEN replies ELSE NextReply(f[i - 1], ops[i], Queue!After(ops)[i - 1])
        BY <1>5, <3>1 DEF Replies
      <3>3. i # 0 => i - 1 \in 0 .. c /\ i - 1 # c BY <1>4, <3>1
      <3>4. i # 0 => g[i - 1] = f[i - 1] BY <3>3
      <3>5. g[i] = f[i] BY <2>2
      <3> HIDE DEF g
      <3> QED BY <3>2, <3>4, <3>5
    <2> QED BY <2>1, <2>2
  <1>7. g = [i \in 0 .. c |-> IF i = 0 THEN replies ELSE NextReply(g[i - 1], ops[i], Queue!After(ops)[i - 1])] BY <1>6
  <1>8. Holds(c) BY <1>7 DEF Replies
  <1> QED BY <1>2, <1>8

\* g is at each operation what is answered until then.
Collects(g, f, ops, m) ==
  \A i \in 1 .. Len(ops) : g[m + i] = NextReply(g[(m + i) - 1], ops[i], f[(m + i) - 1])

LEMMA AnsweredStep ==
  ASSUME NEW ops \in Seq(PortOps)
  PROVE  \E g : /\ g[0] = replies /\ g[Len(ops)] = Queue!Answered(ops)
                /\ Collects(g, Queue!After(ops), ops, 0)
  <1>0. Len(ops) \in Nat OBVIOUS
  <1> DEFINE g == CHOOSE f : Replies(f, ops, Len(ops))
  <1>1. g[Len(ops)] = Queue!Answered(ops) BY DEF Queue!Answered, Replies, NextReply
  <1>2. Replies(g, ops, Len(ops)) BY <1>0, RepliesExists
  <1> HIDE DEF g
  <1>3. g = [i \in 0 .. Len(ops) |-> IF i = 0 THEN replies
                                     ELSE NextReply(g[i - 1], ops[i], Queue!After(ops)[i - 1])]
    BY <1>2 DEF Replies
  <1>4. ASSUME NEW i \in 1 .. Len(ops)
        PROVE  g[0 + i] = NextReply(g[(0 + i) - 1], ops[i], Queue!After(ops)[(0 + i) - 1])
    <2>1. 0 + i = i /\ i \in 0 .. Len(ops) /\ i # 0 BY <1>0
    <2> QED BY <1>3, <2>1
  <1>5. g[0] = replies BY <1>0, <1>3
  <1> QED BY <1>1, <1>4, <1>5 DEF Collects

\* The packet p with one more request, if there is room.
NextPacked(p, req) ==
  LET ops == p.ops \o Queue!Operations(p.cache, req)
  IN  IF p.full \/ ~Queue!Fits(ops) THEN [p EXCEPT !.full = TRUE]
      ELSE [p EXCEPT !.ops = ops, !.cache = Queue!Remembered(p.cache, req)]
Empty == [ops |-> <<>>, cache |-> cache, full |-> FALSE]

Packs(f, first, c) ==
  f = [i \in first .. c |-> IF i = first THEN Empty ELSE NextPacked(f[i - 1], queue[i])]

LEMMA PacksExists ==
  ASSUME NEW first \in Nat, NEW n \in Nat, first <= n
  PROVE  \E f : Packs(f, first, n)
  <1> DEFINE Holds(c) == \E f : Packs(f, first, c)
             Open == {c \in {m \in Nat : first <= m} : ~Holds(c)}
  <1>1. SUFFICES ASSUME Open # {} PROVE FALSE OBVIOUS
  <1>2. PICK c \in Open : \A m \in Open : c <= m
    <2>1. Open \subseteq Nat OBVIOUS
    <2> HIDE DEF Open
    <2> QED BY <1>1, <2>1, LeastNat
  <1>3. c # first
    <2> DEFINE f == [i \in first .. first |-> Empty]
    <2>1. f = [i \in first .. first |-> IF i = first THEN Empty ELSE NextPacked(f[i - 1], queue[i])]
      OBVIOUS
    <2>2. Holds(first) BY <2>1 DEF Packs
    <2> QED BY <1>2, <2>2
  <1>4. c - 1 \in Nat /\ c \in Nat /\ first <= c - 1 /\ c - 1 \notin Open
    <2>1. c \in Nat /\ first <= c /\ first \in Nat BY <1>2
    <2>2. c - 1 \in Nat /\ first <= c - 1 /\ c - 1 < c BY <1>3, <2>1
    <2> QED BY <1>2, <2>1, <2>2
  <1>5. PICK f : Packs(f, first, c - 1) BY <1>4
  <1> DEFINE e == NextPacked(f[c - 1], queue[c])
             g == [i \in first .. c |-> IF i = c THEN e ELSE f[i]]
  <1> HIDE DEF e
  <1>6. ASSUME NEW i \in first .. c
        PROVE  g[i] = IF i = first THEN Empty ELSE NextPacked(g[i - 1], queue[i])
    <2>1. CASE i = c
      <3>1. i # first /\ i - 1 \in first .. c /\ i - 1 # c BY <1>3, <1>4, <2>1
      <3>2. g[i - 1] = f[c - 1] BY <2>1, <3>1
      <3>3. g[i] = e BY <2>1
      <3> QED BY <2>1, <3>1, <3>2, <3>3 DEF e
    <2>2. CASE i # c
      <3>1. i \in first .. c - 1 BY <1>4, <2>2
      <3>2. f[i] = IF i = first THEN Empty ELSE NextPacked(f[i - 1], queue[i])
        BY <1>5, <3>1 DEF Packs
      <3>3. i # first => i - 1 \in first .. c /\ i - 1 # c BY <1>4, <3>1
      <3>4. i # first => g[i - 1] = f[i - 1] BY <3>3
      <3>5. g[i] = f[i] BY <2>2
      <3> HIDE DEF g
      <3> QED BY <3>2, <3>4, <3>5
    <2> QED BY <2>1, <2>2
  <1>7. g = [i \in first .. c |-> IF i = first THEN Empty ELSE NextPacked(g[i - 1], queue[i])] BY <1>6
  <1>8. Holds(c) BY <1>7 DEF Packs
  <1> QED BY <1>2, <1>8

LEMMA FilledStep ==
  ASSUME Len(queue) \in Nat, Len(replies) \in 0 .. Len(queue)
  PROVE  \E f : /\ f[Len(replies)] = Empty /\ f[Len(queue)] = Queue!Filled
                /\ \A i \in Len(replies) + 1 .. Len(queue) : f[i] = NextPacked(f[i - 1], queue[i])
  <1> DEFINE f == CHOOSE g : Packs(g, Len(replies), Len(queue))
  <1>1. f[Len(queue)] = Queue!Filled BY DEF Queue!Filled, Packs, NextPacked, Empty
  <1>2. Packs(f, Len(replies), Len(queue)) BY PacksExists
  <1> HIDE DEF f
  <1>3. f = [i \in Len(replies) .. Len(queue) |->
               IF i = Len(replies) THEN Empty ELSE NextPacked(f[i - 1], queue[i])]
    BY <1>2 DEF Packs
  <1>4. f[Len(replies)] = Empty BY <1>3
  <1>5. ASSUME NEW i \in Len(replies) + 1 .. Len(queue) PROVE f[i] = NextPacked(f[i - 1], queue[i])
    <2>1. i \in Len(replies) .. Len(queue) /\ i # Len(replies) OBVIOUS
    <2> QED BY <1>3, <2>1
  <1> QED BY <1>1, <1>4, <1>5

Effects(f, q, c) ==
  f = [i \in 0 .. c |-> IF i = 0 THEN Queue!Original ELSE Effect(q[i], f[i - 1])]

LEMMA EffectsExists ==
  ASSUME NEW q, NEW n \in Nat
  PROVE  \E f : Effects(f, q, n)
  <1> DEFINE Holds(c) == \E f : Effects(f, q, c)
             Open == {c \in Nat : ~Holds(c)}
  <1>1. SUFFICES ASSUME Open # {} PROVE FALSE OBVIOUS
  <1>2. PICK c \in Open : \A m \in Open : c <= m
    <2>1. Open \subseteq Nat OBVIOUS
    <2> HIDE DEF Open
    <2> QED BY <1>1, <2>1, LeastNat
  <1>3. c # 0
    <2> DEFINE f == [i \in 0 .. 0 |-> Queue!Original]
    <2>1. f = [i \in 0 .. 0 |-> IF i = 0 THEN Queue!Original ELSE Effect(q[i], f[i - 1])]
      OBVIOUS
    <2>2. Holds(0) BY <2>1 DEF Effects
    <2> QED BY <1>2, <2>2
  <1>4. c - 1 \in Nat /\ c \in Nat /\ 0 <= c - 1 /\ c - 1 \notin Open
    <2>1. c \in Nat /\ 0 <= c /\ 0 \in Nat BY <1>2
    <2>2. c - 1 \in Nat /\ 0 <= c - 1 /\ c - 1 < c BY <1>3, <2>1
    <2> QED BY <1>2, <2>1, <2>2
  <1>5. PICK f : Effects(f, q, c - 1) BY <1>4
  <1> DEFINE e == Effect(q[c], f[c - 1])
             g == [i \in 0 .. c |-> IF i = c THEN e ELSE f[i]]
  <1> HIDE DEF e
  <1>6. ASSUME NEW i \in 0 .. c
        PROVE  g[i] = IF i = 0 THEN Queue!Original ELSE Effect(q[i], g[i - 1])
    <2>1. CASE i = c
      <3>1. i # 0 /\ i - 1 \in 0 .. c /\ i - 1 # c BY <1>3, <1>4, <2>1
      <3>2. g[i - 1] = f[c - 1] BY <2>1, <3>1
      <3>3. g[i] = e BY <2>1
      <3> QED BY <2>1, <3>1, <3>2, <3>3 DEF e
    <2>2. CASE i # c
      <3>1. i \in 0 .. c - 1 BY <1>4, <2>2
      <3>2. f[i] = IF i = 0 THEN Queue!Original ELSE Effect(q[i], f[i - 1])
        BY <1>5, <3>1 DEF Effects
      <3>3. i # 0 => i - 1 \in 0 .. c /\ i - 1 # c BY <1>4, <3>1
      <3>4. i # 0 => g[i - 1] = f[i - 1] BY <3>3
      <3>5. g[i] = f[i] BY <2>2
      <3> HIDE DEF g
      <3> QED BY <3>2, <3>4, <3>5
    <2> QED BY <2>1, <2>2
  <1>7. g = [i \in 0 .. c |-> IF i = 0 THEN Queue!Original ELSE Effect(q[i], g[i - 1])] BY <1>6
  <1>8. Holds(c) BY <1>7 DEF Effects
  <1> QED BY <1>2, <1>8

EffectsOf(q) == CHOOSE g : Effects(g, q, Len(q))

LEMMA EffectsOfStep ==
  ASSUME NEW q, Len(q) \in Nat
  PROVE  /\ EffectsOf(q)[0] = Queue!Original
         /\ \A i \in 1 .. Len(q) : EffectsOf(q)[i] = Effect(q[i], EffectsOf(q)[i - 1])
  <1> DEFINE f == EffectsOf(q)
  <1>1. Effects(f, q, Len(q)) BY EffectsExists DEF EffectsOf
  <1> HIDE DEF f
  <1>2. f = [i \in 0 .. Len(q) |-> IF i = 0 THEN Queue!Original ELSE Effect(q[i], f[i - 1])]
    BY <1>1 DEF Effects
  <1> QED BY <1>2 DEF f

LEMMA SequentiallyStep ==
  ASSUME Len(queue) \in Nat
  PROVE  /\ Queue!Sequentially[0] = Queue!Original
         /\ \A i \in 1 .. Len(queue) :
              Queue!Sequentially[i] = Effect(queue[i], Queue!Sequentially[i - 1])
  <1>1. Queue!Sequentially = EffectsOf(queue)
    BY DEF Queue!Sequentially, EffectsOf, Effects, Effect
  <1> QED BY <1>1, EffectsOfStep

-----------------------------------------------------------------------------
(* A packet *)

\* The instance counts as FiniteSets does.
LEMMA SameCount ==
  ASSUME NEW S
  PROVE  Queue!Cardinality(S) = Cardinality(S)
  BY DEF Queue!Cardinality, Cardinality

\* A request by itself fits a packet.
LEMMA OneFits ==
  ASSUME NEW req \in Requests, cache \in Caches, port \in Ports, Told(cache, port)
  PROVE  Queue!Fits(Queue!Operations(cache, req))
  <1> DEFINE ops == Queue!Operations(cache, req)
             f == Queue!After(ops)
             R == {i \in 1 .. Len(ops) : ops[i].op = "read"}
  <1>1. ops \in Seq(PortOps) BY OperationsTyped
  <1>2. f[0] = port /\ Goes(f, ops, 0) BY <1>1, AfterStep
  <1> HIDE DEF f
  <1>3. OneRequestDone(req, cache, f, 0) BY <1>2, OneRequest
  <1>4. PICK n \in 1 .. 4 : n = Len(ops) BY <1>3 DEF OneRequestDone
  <1>5. /\ \A i \in 1 .. n : ops[i].op \in {"read", "write"} <=> i = n
        /\ n = 4 => ops[n].op = "read"
    BY <1>3, <1>4 DEF OneRequestDone
  <1>6. R \subseteq {n} BY <1>4, <1>5
  <1>7. n = 4 => R = {n} BY <1>4, <1>5, <1>6
  <1>8. R = {} \/ R = {n} BY <1>6
  <1>9. PICK c \in {0, 1} : c = Cardinality(R) /\ (n = 4 => c = 1)
    <2>1. Cardinality({}) = 0 /\ Cardinality({n}) = 1 BY FS_EmptySet, FS_Singleton
    <2> HIDE DEF R
    <2>2. n = 4 => Cardinality(R) = 1 BY <1>7, <2>1
    <2> QED BY <1>8, <2>1, <2>2
  <1>10. Queue!ReadCount(ops) = c
    <2>1. Queue!ReadCount(ops) = Queue!Cardinality(R) BY DEF Queue!ReadCount
    <2>2. Queue!Cardinality(R) = Cardinality(R) BY SameCount
    <2> HIDE DEF R, ops
    <2> QED BY <1>9, <2>1, <2>2
  <1>11. Queue!Bytes(ops) = (3 + 5 * n) - 4 * c /\ Queue!AnswerBytes(ops) = 2 + 4 * c
    BY <1>4, <1>10 DEF Queue!Bytes, Queue!AnswerBytes
  <1>12. (3 + 5 * n) - 4 * c <= 19 /\ 2 + 4 * c <= 19 /\ n <= 4 BY <1>9
  <1>13. QueuePacket \in Nat /\ QueuePacket >= 19 /\ MaxOps \in Nat /\ MaxOps >= 4
    BY QueueSizes DEF Queue!QueueAssumption
  <1>14. /\ (3 + 5 * n) - 4 * c <= QueuePacket /\ 2 + 4 * c <= QueuePacket /\ n <= MaxOps
    BY <1>12, <1>13
  <1> HIDE DEF ops
  <1> QED BY <1>4, <1>11, <1>14 DEF Queue!Fits, ops

\* Sequentially, typed.
LEMMA SequentiallyTyped ==
  ASSUME queue \in Seq(Requests), NEW i \in 0 .. Len(queue)
  PROVE  Queue!Sequentially[i] \in Memories
  <1> DEFINE S == Queue!Sequentially
             Bad == {n \in 0 .. Len(queue) : S[n] \notin Memories}
  <1>1. SUFFICES ASSUME Bad # {} PROVE FALSE OBVIOUS
  <1>2. /\ S[0] = Queue!Original
        /\ \A n \in 1 .. Len(queue) : S[n] = Effect(queue[n], S[n - 1])
    BY SequentiallyStep
  <1> HIDE DEF S
  <1>3. PICK n \in Bad : \A m \in Bad : n <= m
    <2>1. Bad \subseteq Nat OBVIOUS
    <2> HIDE DEF Bad
    <2> QED BY <1>1, <2>1, LeastNat
  <1>4. n # 0
    <2>1. Queue!Original \in Memories
      BY QueueSizes DEF Queue!Original, Memories, Cell, Queue!Addresses, Queue!QueueAssumption
    <2> QED BY <1>2, <1>3, <2>1
  <1>5. n \in 1 .. Len(queue) /\ n - 1 \in 0 .. Len(queue) /\ n - 1 \notin Bad BY <1>3, <1>4
  <1>6. Sound(queue[n]) BY <1>5 DEF Requests
  <1>7. S[n] \in Memories BY <1>2, <1>5, <1>6, EffectTyped
  <1> QED BY <1>3, <1>7

Answers == Contents \cup {"register"}
Right(k, answer) ==
  Queue!Memory(queue[k]) => answer = Answer(queue[k], Queue!Sequentially[k])

LEMMA AnswerTyped ==
  ASSUME NEW req, Sound(req), NEW mem \in Memories
  PROVE  Answer(req, mem) \in Answers /\ req.data \in Answers
  <1>1. req.size \in Queue!Sizes BY DEF Sound
  <1>2. req.data \in [0 .. req.size - 1 -> Cell] BY DEF Sound
  <1>3. ASSUME NEW k \in 0 .. req.size - 1 PROVE mem[req.addr + k] \in Cell
    <2>1. req.addr \in Nat /\ req.size \in Nat /\ req.addr + req.size <= Extent BY InsideWord
    <2>2. Extent \in Nat BY QueueSizes DEF Queue!QueueAssumption
    <2>3. k \in Nat /\ k < req.size BY <2>1
    <2>4. req.addr + k \in Queue!Addresses BY <2>1, <2>2, <2>3 DEF Queue!Addresses
    <2> QED BY <2>4 DEF Memories
  <1>4. Answer(req, mem) \in [0 .. req.size - 1 -> Cell] BY <1>3 DEF Answer
  <1> QED BY <1>1, <1>2, <1>4 DEF Answers, Contents

LEMMA CollectsSplit ==
  ASSUME NEW s \in Seq(PortOps), NEW t \in Seq(PortOps), NEW f, NEW g, NEW m \in Nat,
         Collects(g, f, s \o t, m)
  PROVE  Collects(g, f, s, m) /\ Collects(g, f, t, m + Len(s))
  <1>1. Len(s) \in Nat /\ Len(t) \in Nat /\ Len(s \o t) = Len(s) + Len(t) OBVIOUS
  <1>2. ASSUME NEW i \in 1 .. Len(s)
        PROVE  g[m + i] = NextReply(g[(m + i) - 1], s[i], f[(m + i) - 1])
    <2>1. i \in 1 .. Len(s \o t) /\ (s \o t)[i] = s[i] BY <1>1
    <2> QED BY <2>1 DEF Collects
  <1>3. ASSUME NEW i \in 1 .. Len(t)
        PROVE  g[(m + Len(s)) + i]
                 = NextReply(g[((m + Len(s)) + i) - 1], t[i], f[((m + Len(s)) + i) - 1])
    <2>1. Len(s) + i \in 1 .. Len(s \o t) /\ (s \o t)[Len(s) + i] = t[i] BY <1>1
    <2>2. m + (Len(s) + i) = (m + Len(s)) + i BY <1>1
    <2> QED BY <2>1, <2>2 DEF Collects
  <1> QED BY <1>2, <1>3 DEF Collects

\* The answer of a request is given once, by the last of its operations.
LastAnswers(os, n) ==
  n = Len(os) /\ \A i \in 1 .. n : os[i].op \in {"read", "write"} <=> i = n

LEMMA OneReply ==
  ASSUME NEW f, NEW g, NEW os, NEW m \in Nat, NEW n \in 1 .. 4, LastAnswers(os, n),
         Collects(g, f, os, m)
  PROVE  g[m + n] = NextReply(g[m], os[n], f[(m + n) - 1])
  <1>1. ASSUME NEW i \in 1 .. n, i # n PROVE g[m + i] = g[(m + i) - 1]
    BY <1>1 DEF Collects, NextReply, LastAnswers
  <1>2. g[m + n] = NextReply(g[(m + n) - 1], os[n], f[(m + n) - 1])
    BY DEF Collects, LastAnswers
  <1>3. /\ m + 0 = m /\ (m + 1) - 1 = m /\ (m + 2) - 1 = m + 1 /\ (m + 3) - 1 = m + 2
        /\ (m + 4) - 1 = m + 3
    OBVIOUS
  <1>4. g[(m + n) - 1] = g[m]
    <2>1. CASE n = 1 BY <1>3, <2>1
    <2>2. CASE n = 2
      <3>1. g[m + 1] = g[m] BY <1>1, <1>3, <2>2
      <3> QED BY <1>3, <2>2, <3>1
    <2>3. CASE n = 3
      <3>1. g[m + 1] = g[m] /\ g[m + 2] = g[m + 1] BY <1>1, <1>3, <2>3
      <3> QED BY <1>3, <2>3, <3>1
    <2>4. CASE n = 4
      <3>1. g[m + 1] = g[m] /\ g[m + 2] = g[m + 1] /\ g[m + 3] = g[m + 2] BY <1>1, <1>3, <2>4
      <3> QED BY <1>3, <2>4, <3>1
    <2> QED BY <2>1, <2>2, <2>3, <2>4
  <1> QED BY <1>2, <1>4

\* After n operations of a packet m requests have been done, and nothing of
\* another.
Done(f, g, n, c, m) ==
  /\ f[n] \in Ports /\ f[n].mem = Queue!Sequentially[m] /\ Told(c, f[n])
  /\ \A i \in 0 .. n : f[i] \in Ports /\ \E j \in 0 .. m : f[i].mem = Queue!Sequentially[j]
  /\ g[n] \in Seq(Answers) /\ Len(g[n]) = m /\ \A k \in 1 .. m : Right(k, g[n][k])

\* The operations of a packet do the requests up to the m-th.
Reaches(ops, c, m) ==
  \A f, g : f[0] = port /\ g[0] = replies /\ Goes(f, ops, 0) /\ Collects(g, f, ops, 0)
              => Done(f, g, Len(ops), c, m)

LEMMA OneMore ==
  ASSUME queue \in Seq(Requests), NEW ops \in Seq(PortOps), NEW c \in Caches,
         NEW m \in 0 .. Len(queue) - 1, Reaches(ops, c, m)
  PROVE  /\ ops \o Queue!Operations(c, queue[m + 1]) \in Seq(PortOps)
         /\ Queue!Remembered(c, queue[m + 1]) \in Caches
         /\ Reaches(ops \o Queue!Operations(c, queue[m + 1]),
                    Queue!Remembered(c, queue[m + 1]), m + 1)
  <1> DEFINE req == queue[m + 1]
             os == Queue!Operations(c, req)
             S == Queue!Sequentially
             c1 == Queue!Remembered(c, req)
             both == ops \o os
  <1>1. Len(queue) \in Nat /\ m \in Nat /\ m + 1 \in 1 .. Len(queue) /\ (m + 1) - 1 = m
    <2>1. Len(queue) \in Nat OBVIOUS
    <2> QED BY <2>1
  <1>2. req \in Requests /\ Sound(req) BY <1>1 DEF Requests
  <1>3. S[m + 1] = Effect(req, S[m]) /\ S[m] \in Memories
    <2>1. m \in 0 .. Len(queue) BY <1>1
    <2> QED BY <1>1, <2>1, SequentiallyStep, SequentiallyTyped
  <1>4. os \in Seq(PortOps) /\ c1 \in Caches BY <1>2, OperationsTyped, RememberedTyped
  <1> HIDE DEF req, os, S, c1, both
  <1>5. both \in Seq(PortOps) /\ Len(both) = Len(ops) + Len(os) BY <1>4 DEF both
  <1>6. ASSUME NEW f, NEW g, f[0] = port, g[0] = replies, Goes(f, both, 0), Collects(g, f, both, 0)
        PROVE  Done(f, g, Len(both), c1, m + 1)
    <2>1. PICK l \in Nat : l = Len(ops) OBVIOUS
    <2>2. Goes(f, ops, 0) /\ Goes(f, os, l)
      <3>1. 0 + l = l OBVIOUS
      <3>2. Goes(f, ops, 0) /\ Goes(f, os, 0 + Len(ops)) BY <1>4, <1>6, GoesSplit DEF both
      <3> QED BY <2>1, <3>1, <3>2
    <2>3. Collects(g, f, ops, 0) /\ Collects(g, f, os, l)
      <3>1. 0 + l = l OBVIOUS
      <3>2. Collects(g, f, ops, 0) /\ Collects(g, f, os, 0 + Len(ops))
        BY <1>4, <1>6, CollectsSplit DEF both
      <3> QED BY <2>1, <3>1, <3>2
    <2>4. Done(f, g, l, c, m) BY <1>6, <2>1, <2>2, <2>3 DEF Reaches
    <2>5. /\ f[l] \in Ports /\ f[l].mem = S[m] /\ Told(c, f[l])
          /\ \A i \in 0 .. l : f[i] \in Ports /\ \E j \in 0 .. m : f[i].mem = S[j]
          /\ g[l] \in Seq(Answers) /\ Len(g[l]) = m /\ \A k \in 1 .. m : Right(k, g[l][k])
      BY <2>4 DEF Done, S
    <2>6. OneRequestDone(req, c, f, l) BY <1>2, <2>2, <2>5, OneRequest DEF os
    <2>7. PICK n \in 1 .. 4 : n = Len(os) BY <2>6 DEF OneRequestDone, os
    <2>8. /\ f[l + n] \in Ports /\ f[l + n].mem = S[m + 1] /\ Told(c1, f[l + n])
          /\ \A i \in 0 .. n : f[l + i] \in Ports /\ f[l + i].mem \in {S[m], S[m + 1]}
          /\ \A i \in 1 .. n : os[i].op \in {"read", "write"} <=> i = n
          /\ Queue!Memory(req) /\ os[n].op = "read" =>
               Queue!FromLane(req, Queue!Word(f[(l + n) - 1])) = Answer(req, S[m + 1])
          /\ Queue!Memory(req) /\ os[n].op = "write" => req.data = Answer(req, S[m + 1])
      BY <1>3, <2>5, <2>6, <2>7 DEF OneRequestDone, os, c1
    <2>9. Len(both) = l + n BY <1>5, <2>1, <2>7
    <2>10. ASSUME NEW i \in 0 .. l + n
           PROVE  f[i] \in Ports /\ \E j \in 0 .. m + 1 : f[i].mem = S[j]
      <3>1. CASE i <= l
        <4>1. i \in 0 .. l BY <3>1
        <4>2. f[i] \in Ports /\ \E j \in 0 .. m : f[i].mem = S[j] BY <2>5, <4>1
        <4>3. 0 .. m \subseteq 0 .. m + 1 BY <1>1
        <4> QED BY <4>2, <4>3
      <3>2. CASE i > l
        <4>1. i - l \in 0 .. n /\ l + (i - l) = i BY <3>2
        <4>2. f[i] \in Ports /\ f[i].mem \in {S[m], S[m + 1]} BY <2>8, <4>1
        <4>3. m \in 0 .. m + 1 /\ m + 1 \in 0 .. m + 1 BY <1>1
        <4> QED BY <4>2, <4>3
      <3> QED BY <3>1, <3>2
    <2>11. PICK a \in Answers : g[l + n] = Append(g[l], a) /\ Right(m + 1, a)
      <3>1. g[l + n] = NextReply(g[l], os[n], f[(l + n) - 1])
        <4>1. LastAnswers(os, n) BY <2>7, <2>8 DEF LastAnswers
        <4> QED BY <2>3, <4>1, OneReply
      <3>2. queue[Len(g[l]) + 1] = req BY <2>5 DEF req
      <3>3. Answer(req, S[m + 1]) \in Answers /\ req.data \in Answers /\ "register" \in Answers
        <4>1. S[m + 1] \in Memories BY <1>2, <1>3, EffectTyped
        <4> QED BY <1>2, <4>1, AnswerTyped DEF Answers
      <3>4. \A a : Right(m + 1, a) <=> (Queue!Memory(req) => a = Answer(req, S[m + 1]))
        BY DEF Right, req, S
      <3>5. CASE os[n].op = "read"
        <4> DEFINE a == IF Queue!Memory(req)
                        THEN Queue!FromLane(req, Queue!Word(f[(l + n) - 1])) ELSE "register"
        <4>1. g[l + n] = Append(g[l], a) BY <3>1, <3>2, <3>5 DEF NextReply
        <4>2. a \in Answers /\ Right(m + 1, a) BY <2>8, <3>3, <3>4, <3>5
        <4> QED BY <4>1, <4>2
      <3>6. CASE os[n].op = "write"
        <4>1. g[l + n] = Append(g[l], req.data) BY <3>1, <3>2, <3>6 DEF NextReply
        <4>2. req.data \in Answers /\ Right(m + 1, req.data) BY <2>8, <3>3, <3>4, <3>6
        <4> QED BY <4>1, <4>2
      <3>7. os[n].op \in {"read", "write"} BY <2>8
      <3> QED BY <3>5, <3>6, <3>7
    <2>12. /\ g[l + n] \in Seq(Answers) /\ Len(g[l + n]) = m + 1
           /\ \A k \in 1 .. m + 1 : Right(k, g[l + n][k])
      <3>1. /\ Len(Append(g[l], a)) = Len(g[l]) + 1 /\ Append(g[l], a) \in Seq(Answers)
            /\ \A k \in 1 .. Len(g[l]) : Append(g[l], a)[k] = g[l][k]
            /\ Append(g[l], a)[Len(g[l]) + 1] = a
        BY <2>5, AppendProperties
      <3>2. ASSUME NEW k \in 1 .. m + 1 PROVE Right(k, g[l + n][k])
        <4>1. CASE k = m + 1 BY <2>5, <2>11, <3>1, <4>1
        <4>2. CASE k # m + 1
          <5>1. k \in 1 .. m BY <1>1, <4>2
          <5> QED BY <2>5, <2>11, <3>1, <5>1
        <4> QED BY <4>1, <4>2
      <3> QED BY <2>5, <2>11, <3>1, <3>2
    <2>13. Done(f, g, l + n, c1, m + 1) BY <2>8, <2>10, <2>12 DEF Done, S
    <2> QED BY <2>9, <2>13
  <1>7. Reaches(both, c1, m + 1) BY <1>6 DEF Reaches
  <1> QED BY <1>4, <1>5, <1>7 DEF both, os, req, c1

\* A packet being filled has all requests up to the i-th, or is full with some
\* of them, and at least one.
Packed(p, i) ==
  \E m \in Len(replies) .. i :
    /\ p = [ops |-> p.ops, cache |-> p.cache, full |-> p.full]
    /\ p.ops \in Seq(PortOps) /\ p.cache \in Caches /\ p.full \in BOOLEAN
    /\ Reaches(p.ops, p.cache, m)
    /\ ~p.full => m = i
    /\ i > Len(replies) => m > Len(replies)

Answered(n) == \A k \in 1 .. n : Right(k, replies[k])

\* Between two packets.
Between ==
  /\ queue \in Seq(Requests) /\ replies \in Seq(Answers) /\ Len(replies) <= Len(queue)
  /\ cache \in Caches /\ port \in Ports /\ Told(cache, port)
  /\ port.mem = Queue!Sequentially[Len(replies)] /\ Answered(Len(replies))

LEMMA PacketFilled ==
  ASSUME Between
  PROVE  Packed(Queue!Filled, Len(queue))
  <1>1. PICK n \in Nat, first \in Nat :
          n = Len(queue) /\ first = Len(replies) /\ first <= n
    BY DEF Between
  <1>2. PICK f : /\ f[first] = Empty /\ f[n] = Queue!Filled
                 /\ \A i \in first + 1 .. n : f[i] = NextPacked(f[i - 1], queue[i])
    BY <1>1, FilledStep
  <1> DEFINE Bad == {i \in first .. n : ~Packed(f[i], i)}
  <1>3. SUFFICES ASSUME Bad # {} PROVE FALSE BY <1>1, <1>2
  <1>4. PICK i \in Bad : \A m \in Bad : i <= m
    <2>1. Bad \subseteq Nat OBVIOUS
    <2> HIDE DEF Bad
    <2> QED BY <1>3, <2>1, LeastNat
  <1>5. Reaches(<<>>, cache, first)
    <2>1. ASSUME NEW g, NEW h, g[0] = port, h[0] = replies
          PROVE  Done(g, h, 0, cache, first)
      <3>1. /\ port \in Ports /\ port.mem = Queue!Sequentially[first] /\ Told(cache, port)
            /\ replies \in Seq(Answers) /\ \A k \in 1 .. first : Right(k, replies[k])
        BY <1>1 DEF Between, Answered
      <3> QED BY <1>1, <2>1, <3>1 DEF Done
    <2>2. Len(<<>>) = 0 OBVIOUS
    <2> QED BY <2>1, <2>2 DEF Reaches
  <1>6. i # first
    <2>1. ASSUME i = first PROVE Packed(f[i], i)
      <3>1. cache \in Caches /\ <<>> \in Seq(PortOps) BY DEF Between
      <3>2. f[i] = Empty BY <1>2, <2>1
      <3>3. /\ Empty.ops = <<>> /\ Empty.cache = cache /\ Empty.full = FALSE
            /\ Empty = [ops |-> Empty.ops, cache |-> Empty.cache, full |-> Empty.full]
        BY DEF Empty
      <3>4. first \in Len(replies) .. i /\ ~(i > Len(replies)) /\ first = i BY <1>1, <2>1
      <3>5. Reaches(Empty.ops, Empty.cache, first) BY <1>5, <3>3
      <3> HIDE DEF Bad
      <3>6. Packed(Empty, i) BY <3>1, <3>3, <3>4, <3>5 DEF Packed
      <3> QED BY <3>2, <3>6
    <2> QED BY <1>4, <2>1
  <1>7. i \in first + 1 .. n /\ i - 1 \in first .. n /\ i - 1 \notin Bad /\ i \in 1 .. n
    BY <1>4, <1>6
  <1>8. Packed(f[i - 1], i - 1) BY <1>7
  <1> DEFINE p == f[i - 1]
             ops == p.ops \o Queue!Operations(p.cache, queue[i])
  <1>9. PICK m \in first .. i - 1 :
          /\ p = [ops |-> p.ops, cache |-> p.cache, full |-> p.full]
          /\ p.ops \in Seq(PortOps) /\ p.cache \in Caches /\ p.full \in BOOLEAN
          /\ Reaches(p.ops, p.cache, m)
          /\ ~p.full => m = i - 1
          /\ i - 1 > first => m > first
    BY <1>1, <1>8 DEF Packed
  <1>10. f[i] = NextPacked(p, queue[i]) BY <1>2, <1>7
  <1>11. p.full \/ ~Queue!Fits(ops) => i - 1 > first
    <2>1. ASSUME i - 1 = first PROVE ~p.full /\ Queue!Fits(ops)
      <3>1. p = Empty BY <1>2, <2>1
      <3>2. ~p.full /\ p.ops = <<>> /\ p.cache = cache BY <3>1 DEF Empty
      <3>3. queue[i] \in Requests BY <1>1, <1>7 DEF Between
      <3>4. ops = Queue!Operations(cache, queue[i])
        <4>1. Queue!Operations(cache, queue[i]) \in Seq(PortOps) BY <3>3, OperationsTyped DEF Between
        <4> QED BY <3>2, <4>1, ConcatEmptySeq
      <3>5. Queue!Fits(ops) BY <3>3, <3>4, OneFits DEF Between
      <3> QED BY <3>2, <3>5
    <2> QED BY <1>7, <2>1
  <1> HIDE DEF p, Bad
  <1>12. CASE p.full \/ ~Queue!Fits(ops)
    <2>1. f[i] = [p EXCEPT !.full = TRUE] BY <1>10, <1>12 DEF NextPacked
    <2>2. f[i] = [ops |-> p.ops, cache |-> p.cache, full |-> TRUE] BY <1>9, <2>1
    <2>3. m > first /\ m \in first .. i BY <1>7, <1>9, <1>11, <1>12
    <2>4. Packed(f[i], i) BY <1>1, <1>9, <2>2, <2>3 DEF Packed
    <2> QED BY <1>4, <2>4 DEF Bad
  <1>13. CASE ~p.full /\ Queue!Fits(ops)
    <2>1. f[i] = [p EXCEPT !.ops = ops, !.cache = Queue!Remembered(p.cache, queue[i])]
      BY <1>10, <1>13 DEF NextPacked
    <2>2. f[i] = [ops |-> ops, cache |-> Queue!Remembered(p.cache, queue[i]), full |-> FALSE]
      BY <1>9, <1>13, <2>1
    <2>3. m = i - 1 /\ m \in 0 .. Len(queue) - 1 /\ m + 1 = i BY <1>1, <1>7, <1>9, <1>13
    <2>4. /\ ops \in Seq(PortOps) /\ Queue!Remembered(p.cache, queue[i]) \in Caches
          /\ Reaches(ops, Queue!Remembered(p.cache, queue[i]), i)
      BY <1>9, <2>3, OneMore DEF Between
    <2> HIDE DEF ops
    <2>5. i \in Len(replies) .. i /\ i > Len(replies) BY <1>1, <1>7
    <2>6. Packed(f[i], i) BY <2>2, <2>4, <2>5 DEF Packed
    <2> QED BY <1>4, <2>6 DEF Bad
  <1> QED BY <1>9, <1>12, <1>13

-----------------------------------------------------------------------------
(* The pieces of a block *)

PieceSet == {p \in [at: Queue!Addresses, size: Queue!Sizes] : p.at % p.size = 0}

\* t goes on from a to e without a gap.
Covers(t, a, e) ==
  /\ t \in Seq(PieceSet)
  /\ Len(t) = 0 => a = e
  /\ Len(t) > 0 => t[1].at = a /\ t[Len(t)].at + t[Len(t)].size = e
  /\ \A i \in 1 .. Len(t) - 1 : t[i + 1].at = t[i].at + t[i].size

\* The size of the piece at a when r bytes are left, and the pieces from there.
Width(a, r) == IF a % Bus = 0 /\ r >= Bus THEN Bus ELSE 1
Rest(f, a, r) ==
  IF r = 0 THEN <<>> ELSE <<[at |-> a, size |-> Width(a, r)]>> \o f[r - Width(a, r)]
Cuts(f, at, size, c) == f = [r \in 0 .. c |-> Rest(f, at + size - r, r)]

LEMMA WidthFits ==
  ASSUME NEW a \in Nat, NEW r \in Nat \ {0}
  PROVE  /\ Width(a, r) \in Queue!Sizes /\ Width(a, r) \in 1 .. r
         /\ a % Width(a, r) = 0
  <1>1. Bus \in {2, 4} BY BusWidth
  <1>2. a % 1 = 0 BY Z3
  <1>3. CASE a % Bus = 0 /\ r >= Bus
    <2>1. Width(a, r) = Bus BY <1>3 DEF Width
    <2> QED BY <1>1, <1>3, <2>1 DEF Queue!Sizes
  <1>4. CASE ~(a % Bus = 0 /\ r >= Bus)
    <2>1. Width(a, r) = 1 BY <1>4 DEF Width
    <2> QED BY <1>1, <1>2, <2>1 DEF Queue!Sizes
  <1> QED BY <1>3, <1>4

LEMMA CutsExists ==
  ASSUME NEW at \in Nat, NEW size \in Nat
  PROVE  \E f : Cuts(f, at, size, size)
  <1> DEFINE Holds(c) == \E f : Cuts(f, at, size, c)
             Open == {c \in 0 .. size : ~Holds(c)}
  <1>1. SUFFICES ASSUME Open # {} PROVE FALSE
    <2>1. size \in 0 .. size OBVIOUS
    <2> QED BY <2>1
  <1>2. PICK c \in Open : \A m \in Open : c <= m
    <2>1. Open \subseteq Nat OBVIOUS
    <2> HIDE DEF Open
    <2> QED BY <1>1, <2>1, LeastNat
  <1>3. c # 0
    <2> DEFINE f == [r \in 0 .. 0 |-> <<>>]
    <2>1. f = [r \in 0 .. 0 |-> Rest(f, at + size - r, r)] BY DEF Rest
    <2>2. Holds(0) BY <2>1 DEF Cuts
    <2> QED BY <1>2, <2>2
  <1>4. c - 1 \in Nat /\ c \in 1 .. size /\ c - 1 \notin Open /\ c - 1 \in 0 .. size
    BY <1>2, <1>3
  <1>5. PICK f : Cuts(f, at, size, c - 1) BY <1>4
  <1> DEFINE e == Rest(f, at + size - c, c)
             g == [r \in 0 .. c |-> IF r = c THEN e ELSE f[r]]
  <1> HIDE DEF e
  <1>6. ASSUME NEW r \in 0 .. c PROVE g[r] = Rest(g, at + size - r, r)
    <2> DEFINE a == at + size - r
               w == Width(a, r)
    <2>1. a \in Nat BY <1>4
    <2> HIDE DEF a
    <2>2. r # 0 => r - w \in 0 .. c - 1 /\ r - w # c
      <3>1. r # 0 => w \in 1 .. r BY <2>1, WidthFits
      <3> QED BY <1>4, <3>1
    <2>3. r # 0 => g[r - w] = f[r - w] BY <1>4, <2>2
    <2>4. Rest(g, a, r) = Rest(f, a, r) BY <2>3 DEF Rest
    <2>5. CASE r = c BY <2>4, <2>5 DEF a, e
    <2>6. CASE r # c
      <3>1. r \in 0 .. c - 1 BY <1>4, <2>6
      <3>2. f[r] = Rest(f, a, r) BY <1>5, <3>1 DEF Cuts, a
      <3>3. g[r] = f[r] BY <2>6
      <3> QED BY <2>4, <3>2, <3>3 DEF a
    <2> QED BY <2>5, <2>6
  <1>7. g = [r \in 0 .. c |-> Rest(g, at + size - r, r)] BY <1>6
  <1>8. Holds(c) BY <1>7 DEF Cuts
  <1> QED BY <1>2, <1>8

LEMMA Prepended ==
  ASSUME NEW p \in PieceSet, NEW t, NEW a, NEW e, p.at = a, Covers(t, a + p.size, e)
  PROVE  Covers(<<p>> \o t, a, e) /\ Len(<<p>> \o t) > 0
  <1> DEFINE s == <<p>> \o t
  <1>1. t \in Seq(PieceSet) /\ <<p>> \in Seq(PieceSet) BY DEF Covers
  <1>2. PICK n \in Nat : n = Len(t) BY <1>1
  <1>3. /\ s \in Seq(PieceSet) /\ Len(s) = 1 + n
        /\ \A i \in 1 .. 1 + n : s[i] = IF i <= 1 THEN <<p>>[i] ELSE t[i - 1]
    BY <1>1, <1>2, ConcatProperties
  <1>4. s[1] = p BY <1>3
  <1>5. \A i \in 1 .. n : s[i + 1] = t[i]
    <2>1. ASSUME NEW i \in 1 .. n PROVE s[i + 1] = t[i]
      <3>1. i + 1 \in 1 .. 1 + n /\ ~(i + 1 <= 1) /\ (i + 1) - 1 = i OBVIOUS
      <3> QED BY <1>3, <3>1
    <2> QED BY <2>1
  <1> HIDE DEF s
  <1>6. s[Len(s)].at + s[Len(s)].size = e
    <2>1. CASE n = 0
      <3>1. a + p.size = e BY <1>2, <2>1 DEF Covers
      <3> QED BY <1>3, <1>4, <2>1, <3>1
    <2>2. CASE n # 0
      <3>1. t[n].at + t[n].size = e BY <1>2, <2>2 DEF Covers
      <3>2. s[n + 1] = t[n] /\ Len(s) = n + 1 BY <1>3, <1>5, <2>2
      <3> QED BY <3>1, <3>2
    <2> QED BY <2>1, <2>2
  <1>7. ASSUME NEW i \in 1 .. n PROVE s[i + 1].at = s[i].at + s[i].size
    <2>1. CASE i = 1
      <3>1. t[1].at = a + p.size BY <1>2, <2>1 DEF Covers
      <3> QED BY <1>4, <1>5, <2>1, <3>1
    <2>2. CASE i # 1
      <3>1. i - 1 \in 1 .. n - 1 /\ (i - 1) + 1 = i /\ i - 1 \in 1 .. n BY <2>2
      <3>2. t[i].at = t[i - 1].at + t[i - 1].size BY <1>2, <3>1 DEF Covers
      <3>3. s[i] = t[i - 1] /\ s[i + 1] = t[i] BY <1>5, <3>1
      <3> QED BY <3>2, <3>3
    <2> QED BY <2>1, <2>2
  <1>8. Len(s) > 0 /\ Len(s) # 0 /\ Len(s) - 1 = n BY <1>3
  <1> QED BY <1>3, <1>4, <1>6, <1>7, <1>8 DEF Covers, s

\* The pieces of a block cover it.
LEMMA PiecesCover ==
  ASSUME NEW at \in Nat, NEW size \in Nat \ {0}, at + size <= Extent
  PROVE  /\ Covers(Queue!Pieces(at, size), at, at + size)
         /\ Len(Queue!Pieces(at, size)) > 0
  <1> DEFINE f == CHOOSE g : Cuts(g, at, size, size)
             Fine(r) == Covers(f[r], at + size - r, at + size) /\ (r # 0 => Len(f[r]) > 0)
             Bad == {r \in 0 .. size : ~Fine(r)}
  <1>1. Queue!Pieces(at, size) = f[size] BY DEF Queue!Pieces, Cuts, Rest, Width
  <1>2. Cuts(f, at, size, size) BY CutsExists
  <1> HIDE DEF f
  <1>3. f = [r \in 0 .. size |-> Rest(f, at + size - r, r)] BY <1>2 DEF Cuts
  <1>4. Bad = {}
    <2>1. SUFFICES ASSUME Bad # {} PROVE FALSE OBVIOUS
    <2>2. PICK r \in Bad : \A m \in Bad : r <= m
      <3>1. Bad \subseteq Nat OBVIOUS
      <3> HIDE DEF Bad
      <3> QED BY <2>1, <3>1, LeastNat
    <2>3. r \in 0 .. size /\ ~Fine(r) BY <2>2
    <2>4. f[r] = Rest(f, at + size - r, r) BY <1>3, <2>3
    <2>5. CASE r = 0
      <3>1. f[0] = <<>> BY <2>4, <2>5 DEF Rest
      <3>2. Len(<<>>) = 0 /\ <<>> \in Seq(PieceSet) /\ at + size - 0 = at + size OBVIOUS
      <3>3. Fine(0) BY <3>1, <3>2 DEF Covers
      <3> QED BY <2>3, <2>5, <3>3
    <2>6. CASE r # 0
      <3>1. PICK a \in Nat : a = at + size - r BY <2>3
      <3>2. PICK w \in Nat : w = Width(a, r) BY <2>3, <2>6, <3>1, WidthFits
      <3>3. w \in Queue!Sizes /\ w \in 1 .. r /\ a % w = 0 BY <2>3, <2>6, <3>1, <3>2, WidthFits
      <3> DEFINE p == [at |-> a, size |-> w]
      <3>4. f[r] = <<p>> \o f[r - w] BY <2>4, <2>6, <3>1, <3>2 DEF Rest
      <3>5. p \in PieceSet
        <4>1. a < Extent BY <2>3, <2>6, <3>1, QueueSizes DEF Queue!QueueAssumption
        <4>2. a \in Queue!Addresses BY <3>1, <4>1, QueueSizes
          DEF Queue!Addresses, Queue!QueueAssumption
        <4> QED BY <3>3, <4>2 DEF PieceSet
      <3>6. r - w \in 0 .. size /\ r - w < r /\ at + size - (r - w) = a + w
        BY <2>3, <3>1, <3>3
      <3>7. Fine(r - w)
        <4>1. r - w \notin Bad BY <2>2, <3>6
        <4> HIDE DEF Fine
        <4> QED BY <3>6, <4>1
      <3>8. Covers(f[r - w], a + p.size, at + size) BY <3>6, <3>7
      <3>9. Covers(f[r], a, at + size) /\ Len(f[r]) > 0
        <4>1. p.at = a OBVIOUS
        <4> HIDE DEF p
        <4> QED BY <3>4, <3>5, <3>8, <4>1, Prepended
      <3>10. Fine(r) BY <3>1, <3>9
      <3> QED BY <2>3, <3>10
    <2> QED BY <2>5, <2>6
  <1>5. Fine(size)
    <2>1. size \in 0 .. size OBVIOUS
    <2> HIDE DEF Fine
    <2> QED BY <1>4, <2>1
  <1>6. at + size - size = at OBVIOUS
  <1> QED BY <1>1, <1>5, <1>6

-----------------------------------------------------------------------------
(* Block calls *)

Parts == Queue!Pieces(block.at, block.size)
PartLoop(p, i) == p \o [k \in 1 .. Parts[i].size |-> replies[i][k - 1]]

Joins(f, z, c) ==
  f = [i \in 0 .. c |-> IF i = 0 THEN z ELSE PartLoop(f[i - 1], i)]

LEMMA JoinsExists ==
  ASSUME NEW z, NEW n \in Nat
  PROVE  \E f : Joins(f, z, n)
  <1> DEFINE Holds(c) == \E f : Joins(f, z, c)
             Open == {c \in Nat : ~Holds(c)}
  <1>1. SUFFICES ASSUME Open # {} PROVE FALSE OBVIOUS
  <1>2. PICK c \in Open : \A m \in Open : c <= m
    <2>1. Open \subseteq Nat OBVIOUS
    <2> HIDE DEF Open
    <2> QED BY <1>1, <2>1, LeastNat
  <1>3. c # 0
    <2> DEFINE f == [i \in 0 .. 0 |-> z]
    <2>1. f = [i \in 0 .. 0 |-> IF i = 0 THEN z ELSE PartLoop(f[i - 1], i)]
      OBVIOUS
    <2>2. Holds(0) BY <2>1 DEF Joins
    <2> QED BY <1>2, <2>2
  <1>4. c - 1 \in Nat /\ c \in Nat /\ 0 <= c - 1 /\ c - 1 \notin Open
    <2>1. c \in Nat /\ 0 <= c /\ 0 \in Nat BY <1>2
    <2>2. c - 1 \in Nat /\ 0 <= c - 1 /\ c - 1 < c BY <1>3, <2>1
    <2> QED BY <1>2, <2>1, <2>2
  <1>5. PICK f : Joins(f, z, c - 1) BY <1>4
  <1> DEFINE e == PartLoop(f[c - 1], c)
             g == [i \in 0 .. c |-> IF i = c THEN e ELSE f[i]]
  <1> HIDE DEF e
  <1>6. ASSUME NEW i \in 0 .. c
        PROVE  g[i] = IF i = 0 THEN z ELSE PartLoop(g[i - 1], i)
    <2>1. CASE i = c
      <3>1. i # 0 /\ i - 1 \in 0 .. c /\ i - 1 # c BY <1>3, <1>4, <2>1
      <3>2. g[i - 1] = f[c - 1] BY <2>1, <3>1
      <3>3. g[i] = e BY <2>1
      <3> QED BY <2>1, <3>1, <3>2, <3>3 DEF e
    <2>2. CASE i # c
      <3>1. i \in 0 .. c - 1 BY <1>4, <2>2
      <3>2. f[i] = IF i = 0 THEN z ELSE PartLoop(f[i - 1], i)
        BY <1>5, <3>1 DEF Joins
      <3>3. i # 0 => i - 1 \in 0 .. c /\ i - 1 # c BY <1>4, <3>1
      <3>4. i # 0 => g[i - 1] = f[i - 1] BY <3>3
      <3>5. g[i] = f[i] BY <2>2
      <3> HIDE DEF g
      <3> QED BY <3>2, <3>4, <3>5
    <2> QED BY <2>1, <2>2
  <1>7. g = [i \in 0 .. c |-> IF i = 0 THEN z ELSE PartLoop(g[i - 1], i)] BY <1>6
  <1>8. Holds(c) BY <1>7 DEF Joins
  <1> QED BY <1>2, <1>8

LEMMA AssembledStep ==
  ASSUME Len(Parts) \in Nat
  PROVE  \E f : /\ f[0] = <<>> /\ f[Len(Parts)] = Queue!Assembled
                /\ \A i \in 1 .. Len(Parts) : f[i] = PartLoop(f[i - 1], i)
  <1> DEFINE f == CHOOSE g : Joins(g, <<>>, Len(Parts))
  <1>1. f[Len(Parts)] = Queue!Assembled BY DEF Queue!Assembled, Joins, PartLoop, Parts
  <1>2. Joins(f, <<>>, Len(Parts)) BY JoinsExists
  <1> HIDE DEF f
  <1>3. f = [i \in 0 .. Len(Parts) |-> IF i = 0 THEN <<>> ELSE PartLoop(f[i - 1], i)]
    BY <1>2 DEF Joins
  <1> QED BY <1>1, <1>3

Calls == {[op |-> op, at |-> b.at, size |-> b.size] : b \in Blocks, op \in {"read", "write"}}

LEMMA CallTyped ==
  ASSUME NEW call \in Calls
  PROVE  /\ call.op \in {"read", "write"} /\ call.at \in Nat /\ call.size \in Nat \ {0}
         /\ call.at + call.size <= Extent /\ call # Queue!NoBlock
  <1>1. PICK b \in Blocks, op \in {"read", "write"} :
          call = [op |-> op, at |-> b.at, size |-> b.size]
    BY DEF Calls
  <1>2. call.op = op /\ call.at = b.at /\ call.size = b.size BY <1>1
  <1>3. b.at \in Queue!Addresses /\ b.size \in Nat \ {0} /\ b.at + b.size <= Extent
    BY QueueSizes DEF Queue!QueueAssumption
  <1>4. b.at \in Nat BY <1>3 DEF Queue!Addresses
  <1>5. Queue!NoBlock.op = "none" BY DEF Queue!NoBlock
  <1> QED BY <1>2, <1>3, <1>4, <1>5

\* q requests the pieces t of a call, one by one.
OnePieceEach(q, t, call) ==
  \A i \in 1 .. Len(t) :
    /\ q[i].type = call.op /\ q[i].size = t[i].size /\ q[i].addr = t[i].at
    /\ q[i].data = [k \in 0 .. t[i].size - 1 |-> <<-1, (t[i].at - call.at) + k>>]

LEMMA BlockRequestsAre ==
  ASSUME NEW call \in Calls, NEW q, q = Queue!BlockRequests(call),
         NEW t, t = Queue!Pieces(call.at, call.size)
  PROVE  /\ Covers(t, call.at, call.at + call.size) /\ Len(t) \in Nat \ {0}
         /\ q \in Seq(Requests) /\ Len(q) = Len(t) /\ OnePieceEach(q, t, call)
  <1> DEFINE R(i) == Queue!Request(call.op, t[i].size, t[i].at,
                                   Queue!Tagged(-1, t[i].at - call.at, t[i].size))
  <1>1. call.op \in {"read", "write"} /\ call.at \in Nat BY CallTyped
  <1>2. Covers(t, call.at, call.at + call.size) /\ Len(t) > 0 BY CallTyped, PiecesCover
  <1>3. q = [i \in 1 .. Len(t) |-> R(i)] BY DEF Queue!BlockRequests
  <1>4. t \in Seq(PieceSet) BY <1>2 DEF Covers
  <1>5. PICK n \in Nat : n = Len(t) BY <1>4
  <1>6. ASSUME NEW i \in 1 .. n
        PROVE  /\ R(i) \in Requests
               /\ R(i).type = call.op /\ R(i).size = t[i].size /\ R(i).addr = t[i].at
               /\ R(i).data = [k \in 0 .. t[i].size - 1 |-> <<-1, (t[i].at - call.at) + k>>]
    <2>1. t[i] \in PieceSet BY <1>4, <1>5
    <2>2. PICK at \in Queue!Addresses, size \in Queue!Sizes :
            at = t[i].at /\ size = t[i].size /\ at % size = 0
      BY <2>1 DEF PieceSet
    <2> DEFINE data == [k \in 0 .. size - 1 |-> <<-1, (at - call.at) + k>>]
    <2>3. R(i) = [type |-> call.op, size |-> size, addr |-> at, data |-> data]
      BY <2>2 DEF Queue!Request, Queue!Tagged
    <2>4. data \in [0 .. size - 1 -> Cell]
      <3>1. ASSUME NEW k \in 0 .. size - 1 PROVE <<-1, (at - call.at) + k>> \in Cell
        <4>1. at \in Nat /\ -1 \in Int BY DEF Queue!Addresses
        <4>2. (at - call.at) + k \in Int BY <1>1, <4>1
        <4> QED BY <4>1, <4>2 DEF Cell
      <3> QED BY <3>1
    <2>5. data \in Contents BY <2>4 DEF Contents
    <2> HIDE DEF data
    <2>6. call.op \in Kinds BY <1>1 DEF Kinds
    <2> HIDE DEF R
    <2>7. R(i) \in [type: Kinds, size: Queue!Sizes, addr: Queue!Addresses, data: Contents]
      BY <2>3, <2>5, <2>6
    <2>8. R(i).type = call.op /\ R(i).size = size /\ R(i).addr = at /\ R(i).data = data BY <2>3
    <2>9. R(i) \in Requests BY <2>2, <2>4, <2>7, <2>8 DEF Requests, Sound
    <2> QED BY <2>2, <2>8, <2>9 DEF data
  <1>7. q = [i \in 1 .. n |-> R(i)] BY <1>3, <1>5
  <1> HIDE DEF R
  <1>8. q \in Seq(Requests) /\ Len(q) = n /\ \A i \in 1 .. n : q[i] = R(i)
    <2>1. q \in [1 .. n -> Requests] BY <1>6, <1>7
    <2> QED BY <1>7, <2>1
  <1> QED BY <1>2, <1>5, <1>6, <1>8 DEF OnePieceEach

\* Where the i-th piece ends.
End(t, a, i) == IF i = 0 THEN a ELSE t[i].at + t[i].size

LEMMA EndStep ==
  ASSUME NEW t, NEW a \in Nat, NEW e, Covers(t, a, e), NEW i \in 1 .. Len(t)
  PROVE  /\ t[i].at \in Nat /\ t[i].size \in Nat \ {0} /\ t[i].at + t[i].size <= Extent
         /\ t[i].at = End(t, a, i - 1) /\ End(t, a, i) = t[i].at + t[i].size
         /\ End(t, a, i - 1) >= a
  <1>1. t \in Seq(PieceSet) BY DEF Covers
  <1>2. PICK n \in Nat : n = Len(t) BY <1>1
  <1>3. ASSUME NEW j \in 1 .. n
        PROVE  t[j].at \in Nat /\ t[j].size \in Nat \ {0} /\ t[j].at + t[j].size <= Extent
    <2>1. t[j] \in PieceSet BY <1>1, <1>2
    <2> DEFINE req == [addr |-> t[j].at, size |-> t[j].size,
                       data |-> [k \in 0 .. t[j].size - 1 |-> <<0, 0>>]]
    <2>2. /\ t[j].at \in Queue!Addresses /\ t[j].size \in Queue!Sizes /\ t[j].at % t[j].size = 0
      BY <2>1 DEF PieceSet
    <2>3. req.data \in [0 .. t[j].size - 1 -> Cell] BY DEF Cell
    <2>4. req.addr = t[j].at /\ req.size = t[j].size OBVIOUS
    <2> HIDE DEF req
    <2>5. Sound(req) BY <2>2, <2>3, <2>4 DEF Sound
    <2>6. req.addr + req.size <= Extent BY <2>5, InsideWord
    <2> QED BY <2>2, <2>4, <2>6 DEF Queue!Addresses, Queue!Sizes
  <1>4. ASSUME NEW j \in 1 .. n PROVE t[j].at = End(t, a, j - 1)
    <2>1. CASE j = 1 BY <1>2, <2>1 DEF Covers, End
    <2>2. CASE j # 1
      <3>1. j - 1 \in 1 .. n - 1 /\ (j - 1) + 1 = j /\ j - 1 # 0 BY <2>2
      <3> QED BY <1>2, <3>1 DEF Covers, End
    <2> QED BY <2>1, <2>2
  <1> DEFINE Bad == {j \in 1 .. n : ~(t[j].at >= a)}
  <1>5. Bad = {}
    <2>1. SUFFICES ASSUME Bad # {} PROVE FALSE OBVIOUS
    <2>2. PICK j \in Bad : \A m \in Bad : j <= m
      <3>1. Bad \subseteq Nat OBVIOUS
      <3> HIDE DEF Bad
      <3> QED BY <2>1, <3>1, LeastNat
    <2>3. j \in 1 .. n /\ t[j].at = End(t, a, j - 1) BY <1>4, <2>2
    <2>4. CASE j = 1 BY <2>2, <2>3, <2>4 DEF End
    <2>5. CASE j # 1
      <3>1. j - 1 \in 1 .. n /\ j - 1 # 0 /\ j - 1 \notin Bad BY <2>2, <2>3, <2>5
      <3>2. t[j - 1].at >= a BY <3>1
      <3>3. t[j].at = t[j - 1].at + t[j - 1].size BY <2>3, <3>1 DEF End
      <3>4. t[j - 1].at \in Nat /\ t[j - 1].size \in Nat BY <1>3, <3>1
      <3>5. t[j].at >= a BY <3>2, <3>3, <3>4
      <3> QED BY <2>2, <3>5
    <2> QED BY <2>4, <2>5
  <1>6. t[i].at >= a BY <1>2, <1>5
  <1>7. i # 0 BY <1>2
  <1> QED BY <1>2, <1>3, <1>4, <1>6, <1>7 DEF End

\* A call in progress, or done.
BlockCalled == block \in Calls /\ queue = Queue!BlockRequests(block)

\* The pieces, and the requests made of them.
LEMMA CalledIs ==
  ASSUME BlockCalled
  PROVE  \E n \in Nat \ {0} :
           /\ Covers(Parts, block.at, block.at + block.size) /\ n = Len(Parts)
           /\ queue \in Seq(Requests) /\ n = Len(queue)
           /\ block.at \in Nat /\ block.size \in Nat /\ block.at + block.size <= Extent
           /\ End(Parts, block.at, n) = block.at + block.size
           /\ \A i \in 1 .. n :
                LET from == End(Parts, block.at, i - 1)
                    size == Parts[i].size
                IN  /\ from \in Nat /\ from >= block.at /\ size \in Nat \ {0}
                    /\ from + size <= Extent /\ End(Parts, block.at, i) = from + size
                    /\ queue[i].type = block.op /\ queue[i].size = size /\ queue[i].addr = from
                    /\ queue[i].data = [k \in 0 .. size - 1 |-> <<-1, (from - block.at) + k>>]
  <1>1. block \in Calls /\ queue = Queue!BlockRequests(block) BY DEF BlockCalled
  <1>2. /\ Covers(Parts, block.at, block.at + block.size) /\ Len(Parts) \in Nat \ {0}
        /\ queue \in Seq(Requests) /\ Len(queue) = Len(Parts) /\ OnePieceEach(queue, Parts, block)
    <2>1. Parts = Queue!Pieces(block.at, block.size) BY DEF Parts
    <2> QED BY <1>1, <2>1, BlockRequestsAre
  <1>3. block.at \in Nat /\ block.size \in Nat /\ block.at + block.size <= Extent
    BY <1>1, CallTyped
  <1>4. PICK n \in Nat \ {0} : n = Len(Parts) BY <1>2
  <1>5. End(Parts, block.at, n) = block.at + block.size BY <1>2, <1>4 DEF Covers, End
  <1>6. ASSUME NEW i \in 1 .. n, NEW from, from = End(Parts, block.at, i - 1),
               NEW size, size = Parts[i].size
        PROVE  /\ from \in Nat /\ from >= block.at /\ size \in Nat \ {0}
               /\ from + size <= Extent /\ End(Parts, block.at, i) = from + size
               /\ queue[i].type = block.op /\ queue[i].size = size /\ queue[i].addr = from
               /\ queue[i].data = [k \in 0 .. size - 1 |-> <<-1, (from - block.at) + k>>]
    <2>1. /\ Parts[i].at \in Nat /\ Parts[i].size \in Nat \ {0}
          /\ Parts[i].at + Parts[i].size <= Extent
          /\ Parts[i].at = End(Parts, block.at, i - 1)
          /\ End(Parts, block.at, i) = Parts[i].at + Parts[i].size
          /\ End(Parts, block.at, i - 1) >= block.at
      BY <1>2, <1>3, <1>4, EndStep
    <2> QED BY <1>2, <1>4, <1>6, <2>1 DEF OnePieceEach
  <1>7. \A i \in 1 .. n :
          LET from == End(Parts, block.at, i - 1)
              size == Parts[i].size
          IN  /\ from \in Nat /\ from >= block.at /\ size \in Nat \ {0}
              /\ from + size <= Extent /\ End(Parts, block.at, i) = from + size
              /\ queue[i].type = block.op /\ queue[i].size = size /\ queue[i].addr = from
              /\ queue[i].data = [k \in 0 .. size - 1 |-> <<-1, (from - block.at) + k>>]
    BY <1>6
  <1> QED BY <1>2, <1>3, <1>4, <1>5, <1>7

\* A block that is written holds its bytes up to the piece that was written last.
LEMMA BlockWritten ==
  ASSUME BlockCalled, block.op = "write", NEW k \in 1 .. block.size
  PROVE  Queue!Sequentially[Len(queue)][block.at + k - 1] = <<-1, k - 1>>
  <1> DEFINE S == Queue!Sequentially
             at == block.at
             E(i) == End(Parts, at, i)
  <1>1. PICK n \in Nat \ {0} :
          /\ queue \in Seq(Requests) /\ n = Len(queue)
          /\ at \in Nat /\ block.size \in Nat /\ at + block.size <= Extent
          /\ E(n) = at + block.size
          /\ \A i \in 1 .. n :
               /\ E(i - 1) \in Nat /\ E(i - 1) >= at /\ Parts[i].size \in Nat \ {0}
               /\ E(i - 1) + Parts[i].size <= Extent /\ E(i) = E(i - 1) + Parts[i].size
               /\ queue[i].type = block.op /\ queue[i].size = Parts[i].size
               /\ queue[i].addr = E(i - 1)
               /\ queue[i].data = [b \in 0 .. Parts[i].size - 1 |-> <<-1, (E(i - 1) - at) + b>>]
    BY CalledIs
  <1>2. E(0) = at BY DEF End
  <1> HIDE DEF E, S
  <1> DEFINE Fine(i) == \A a \in at .. E(i) - 1 : S[i][a] = <<-1, a - at>>
             Bad == {i \in 0 .. n : ~Fine(i)}
  <1>3. Bad = {}
    <2>1. SUFFICES ASSUME Bad # {} PROVE FALSE OBVIOUS
    <2>2. PICK i \in Bad : \A m \in Bad : i <= m
      <3>1. Bad \subseteq Nat OBVIOUS
      <3> HIDE DEF Bad
      <3> QED BY <2>1, <3>1, LeastNat
    <2>3. i # 0
      <3>1. Fine(0) BY <1>1, <1>2
      <3> HIDE DEF Fine
      <3> QED BY <2>2, <3>1
    <2>4. i \in 1 .. n /\ i - 1 \notin Bad /\ i - 1 \in 0 .. n BY <2>2, <2>3
    <2>5. Fine(i - 1)
      <3> HIDE DEF Fine
      <3> QED BY <2>4
    <2>6. PICK from \in Nat, size \in Nat \ {0} : from = E(i - 1) /\ size = Parts[i].size
      BY <1>1, <2>4
    <2>7. /\ from >= at /\ from + size <= Extent /\ E(i) = from + size
          /\ queue[i].type = "write" /\ queue[i].size = size /\ queue[i].addr = from
          /\ queue[i].data = [b \in 0 .. size - 1 |-> <<-1, (from - at) + b>>]
      BY <1>1, <2>4, <2>6
    <2>8. S[i] = [a \in Queue!Addresses |-> IF a - from \in 0 .. size - 1
                                            THEN queue[i].data[a - from] ELSE S[i - 1][a]]
      <3>1. S[i] = Effect(queue[i], S[i - 1]) BY <1>1, <2>4, SequentiallyStep DEF S
      <3>2. Queue!Writes(queue[i]) BY <2>7 DEF Queue!Writes
      <3> QED BY <2>7, <3>1, <3>2 DEF Effect
    <2>9. ASSUME NEW a \in at .. E(i) - 1 PROVE S[i][a] = <<-1, a - at>>
      <3>1. a \in at .. (from + size) - 1 /\ a \in Nat BY <1>1, <2>7
      <3>2. a \in Queue!Addresses
        <4>1. Extent \in Nat BY QueueSizes DEF Queue!QueueAssumption
        <4> QED BY <2>7, <3>1, <4>1 DEF Queue!Addresses
      <3>3. CASE a >= from
        <4>1. a - from \in 0 .. size - 1 /\ (from - at) + (a - from) = a - at BY <1>1, <3>1, <3>3
        <4>2. queue[i].data[a - from] = <<-1, (from - at) + (a - from)>> BY <2>7, <4>1
        <4> QED BY <2>8, <3>2, <4>1, <4>2
      <3>4. CASE a < from
        <4>1. a - from \notin 0 .. size - 1 /\ a \in at .. E(i - 1) - 1 BY <2>6, <3>1, <3>4
        <4>2. S[i - 1][a] = <<-1, a - at>> BY <2>5, <4>1
        <4> QED BY <2>8, <3>2, <4>1, <4>2
      <3> QED BY <3>1, <3>3, <3>4
    <2>10. Fine(i) BY <2>9
    <2> QED BY <2>2, <2>10
  <1>4. Fine(n)
    <2>1. n \in 0 .. n OBVIOUS
    <2> HIDE DEF Fine
    <2> QED BY <1>3, <2>1
  <1>5. /\ at + k - 1 \in at .. E(n) - 1 /\ (at + k - 1) - at = k - 1 BY <1>1
  <1> QED BY <1>1, <1>4, <1>5 DEF S

\* A block that is read leaves the memory alone, and its bytes are put together
\* in order.
LEMMA BlockRead ==
  ASSUME BlockCalled, block.op = "read", Answered(Len(queue)), NEW k \in 1 .. block.size
  PROVE  /\ k <= Len(Queue!Assembled)
         /\ Queue!Assembled[k] = Queue!Sequentially[Len(queue)][block.at + k - 1]
  <1> DEFINE S == Queue!Sequentially
             O == Queue!Original
             at == block.at
             E(i) == End(Parts, at, i)
  <1>1. PICK n \in Nat \ {0} :
          /\ queue \in Seq(Requests) /\ n = Len(queue) /\ n = Len(Parts)
          /\ at \in Nat /\ block.size \in Nat /\ at + block.size <= Extent
          /\ E(n) = at + block.size
          /\ \A i \in 1 .. n :
               /\ E(i - 1) \in Nat /\ E(i - 1) >= at /\ Parts[i].size \in Nat \ {0}
               /\ E(i - 1) + Parts[i].size <= Extent /\ E(i) = E(i - 1) + Parts[i].size
               /\ queue[i].type = block.op /\ queue[i].size = Parts[i].size
               /\ queue[i].addr = E(i - 1)
    BY CalledIs
  <1>2. E(0) = at BY DEF End
  <1>3. PICK f : /\ f[0] = <<>> /\ f[n] = Queue!Assembled
                 /\ \A i \in 1 .. n : f[i] = PartLoop(f[i - 1], i)
    BY <1>1, AssembledStep
  <1>4. S[0] = O /\ O \in Memories
    <2>1. 0 \in 0 .. Len(queue) BY <1>1
    <2> QED BY <1>1, <2>1, SequentiallyStep, SequentiallyTyped
  <1> HIDE DEF E, S, O
  <1> DEFINE Fine(i) == /\ S[i] = O /\ f[i] \in Seq(Cell) /\ Len(f[i]) = E(i) - at
                        /\ \A b \in 1 .. E(i) - at : f[i][b] = O[at + b - 1]
             Bad == {i \in 0 .. n : ~Fine(i)}
  <1>5. Bad = {}
    <2>1. SUFFICES ASSUME Bad # {} PROVE FALSE OBVIOUS
    <2>2. PICK i \in Bad : \A m \in Bad : i <= m
      <3>1. Bad \subseteq Nat OBVIOUS
      <3> HIDE DEF Bad
      <3> QED BY <2>1, <3>1, LeastNat
    <2>3. i # 0
      <3>1. Len(<<>>) = 0 /\ <<>> \in Seq(Cell) OBVIOUS
      <3>2. Fine(0) BY <1>1, <1>2, <1>3, <1>4, <3>1
      <3> HIDE DEF Fine
      <3> QED BY <2>2, <3>2
    <2>4. i \in 1 .. n /\ i - 1 \notin Bad /\ i - 1 \in 0 .. n BY <2>2, <2>3
    <2>5. Fine(i - 1)
      <3> HIDE DEF Fine
      <3> QED BY <2>4
    <2>6. PICK from \in Nat, size \in Nat \ {0} : from = E(i - 1) /\ size = Parts[i].size
      BY <1>1, <2>4
    <2>7. /\ from >= at /\ from + size <= Extent /\ E(i) = from + size
          /\ queue[i].type = "read" /\ queue[i].size = size /\ queue[i].addr = from
      BY <1>1, <2>4, <2>6
    <2>8. S[i] = O
      <3>1. S[i] = Effect(queue[i], S[i - 1]) BY <1>1, <2>4, SequentiallyStep DEF S
      <3>2. ~Queue!Writes(queue[i]) BY <2>7 DEF Queue!Writes
      <3> QED BY <2>5, <3>1, <3>2 DEF Effect
    <2>9. replies[i] = [b \in 0 .. size - 1 |-> O[from + b]]
      <3>1. Queue!Memory(queue[i]) BY <2>7 DEF Queue!Memory
      <3>2. replies[i] = Answer(queue[i], S[i]) BY <1>1, <2>4, <3>1 DEF Answered, Right, S
      <3> QED BY <2>7, <2>8, <3>2 DEF Answer
    <2> DEFINE part == [b \in 1 .. size |-> replies[i][b - 1]]
    <2>10. ASSUME NEW b \in 1 .. size PROVE part[b] = O[from + (b - 1)] /\ part[b] \in Cell
      <3>0. Extent \in Nat BY QueueSizes DEF Queue!QueueAssumption
      <3>1. b - 1 \in 0 .. size - 1 /\ from + (b - 1) \in 0 .. Extent - 1 BY <2>7, <3>0
      <3>2. part[b] = O[from + (b - 1)] BY <2>9, <3>1
      <3>3. O[from + (b - 1)] \in Cell BY <1>4, <3>1 DEF Memories, Queue!Addresses
      <3> QED BY <3>2, <3>3
    <2>11. part \in Seq(Cell) /\ Len(part) = size
      <3>1. part \in [1 .. size -> Cell] BY <2>10
      <3> QED BY <3>1
    <2>12. f[i] = f[i - 1] \o part BY <1>3, <2>4, <2>6 DEF PartLoop
    <2>13. PICK l \in Nat : l = from - at BY <1>1, <2>7
    <2>14. /\ f[i - 1] \in Seq(Cell) /\ Len(f[i - 1]) = l
           /\ \A b \in 1 .. l : f[i - 1][b] = O[at + b - 1]
      BY <2>5, <2>6, <2>13
    <2> HIDE DEF part
    <2>15. /\ f[i] \in Seq(Cell) /\ Len(f[i]) = l + size
           /\ \A b \in 1 .. l + size : f[i][b] = IF b <= l THEN f[i - 1][b] ELSE part[b - l]
      <3>1. /\ f[i - 1] \in Seq(Cell) /\ part \in Seq(Cell)
            /\ Len(f[i - 1]) = l /\ Len(part) = size
        BY <2>11, <2>14
      <3>2. /\ f[i - 1] \o part \in Seq(Cell)
            /\ Len(f[i - 1] \o part) = Len(f[i - 1]) + Len(part)
            /\ \A b \in 1 .. Len(f[i - 1]) + Len(part) : (f[i - 1] \o part)[b] =
                 IF b <= Len(f[i - 1]) THEN f[i - 1][b] ELSE part[b - Len(f[i - 1])]
        BY <3>1, ConcatProperties
      <3> QED BY <2>12, <3>1, <3>2
    <2>16. E(i) - at = l + size BY <1>1, <2>7, <2>13
    <2>17. ASSUME NEW b \in 1 .. l + size PROVE f[i][b] = O[at + b - 1]
      <3>1. CASE b <= l
        <4>1. b \in 1 .. l BY <3>1
        <4> QED BY <2>14, <2>15, <3>1, <4>1
      <3>2. CASE b > l
        <4>0. at \in Nat BY <1>1
        <4>1. b - l \in 1 .. size /\ ~(b <= l) /\ from + ((b - l) - 1) = at + b - 1
          <5>1. from = at + l BY <2>13, <4>0
          <5> HIDE DEF at
          <5> QED BY <3>2, <4>0, <5>1
        <4>2. part[b - l] = O[from + ((b - l) - 1)] BY <2>10, <4>1
        <4>3. f[i][b] = part[b - l] BY <2>15, <4>1
        <4> QED BY <4>1, <4>2, <4>3
      <3> QED BY <3>1, <3>2
    <2>18. Fine(i) BY <2>8, <2>15, <2>16, <2>17
    <2> HIDE DEF Fine
    <2> QED BY <2>2, <2>18
  <1>6. Fine(n)
    <2>1. n \in 0 .. n OBVIOUS
    <2> HIDE DEF Fine
    <2> QED BY <1>5, <2>1
  <1>7. E(n) - at = block.size BY <1>1
  <1> QED BY <1>1, <1>3, <1>6, <1>7 DEF S

-----------------------------------------------------------------------------
(* The invariant of the queue *)

QueueTyped ==
  /\ queue \in Seq(Requests) /\ Len(queue) <= MaxRequests
  /\ replies \in Seq(Answers) /\ Len(replies) <= Len(queue)
  /\ cache \in Caches /\ port \in Ports /\ transfer \in {"idle", "transfer", "exit"}

QueueInv ==
  /\ QueueTyped
  /\ transfer # "exit" => Between /\ (block = Queue!NoBlock \/ BlockCalled)
  /\ transfer = "exit" => \E n \in 0 .. Len(queue) : port.mem = Queue!Sequentially[n]
  /\ transfer = "transfer" => Len(replies) < Len(queue)
  /\ transfer = "idle" =>
       IF replies = <<>> THEN block = Queue!NoBlock ELSE Len(replies) = Len(queue)

LEMMA PrimedSequence ==
  Queue!Sequentially' = EffectsOf(queue')
  BY DEF Queue!Sequentially, EffectsOf, Effects, Effect, Queue!Writes, Queue!Original,
     Queue!Addresses

\* Nothing has been transferred of the queue, and the target is fresh.
LEMMA Started ==
  ASSUME queue' \in Seq(Requests), replies' = <<>>, cache' \in Caches, port' \in Ports,
         port'.mem = Queue!Original, Told(cache', port')
  PROVE  Between' /\ replies' \in Seq(Answers) /\ Len(replies') = 0
  <1>1. Len(replies') = 0 /\ replies' \in Seq(Answers) OBVIOUS
  <1>2. Queue!Sequentially'[0] = Queue!Original
    <2>1. Len(queue') \in Nat OBVIOUS
    <2> QED BY <2>1, PrimedSequence, EffectsOfStep
  <1>3. (port.mem = Queue!Sequentially[Len(replies)])' BY <1>1, <1>2
  <1>4. Answered(Len(replies))' BY <1>1 DEF Answered
  <1>5. Len(queue') \in Nat OBVIOUS
  <1> QED BY <1>1, <1>3, <1>4, <1>5 DEF Between, Told

LEMMA Fresh ==
  ASSUME QueueInv, transfer = "idle"
  PROVE  /\ Queue!Renamed \in Ports /\ Queue!Renamed.mem = Queue!Original
         /\ Told(cache, Queue!Renamed)
         /\ [cache EXCEPT !.csw = Queue!NoCsw] \in Caches
         /\ Told([cache EXCEPT !.csw = Queue!NoCsw], Queue!Renamed)
         /\ Queue!Pending \in Seq(Requests) /\ Len(Queue!Pending) <= MaxRequests
         /\ Queue!Pending # <<>> =>
              /\ replies = <<>> /\ Queue!Pending = queue /\ Queue!Renamed = port
              /\ block = Queue!NoBlock
  <1>1. Between BY DEF QueueInv
  <1>2. PICK n \in Nat : n = Len(replies) BY DEF QueueInv, QueueTyped
  <1>3. Queue!Original \in Memories
    BY QueueSizes DEF Queue!Original, Memories, Cell, Queue!Addresses, Queue!QueueAssumption
  <1>4. /\ Queue!Renamed \in Ports /\ Queue!Renamed.mem = Queue!Original
        /\ Queue!Renamed.csw = port.csw /\ Queue!Renamed.tar = port.tar
    <2>1. CASE n > 0
      <3>1. Queue!Renamed = [port EXCEPT !.mem = Queue!Original] BY <1>2, <2>1 DEF Queue!Renamed
      <3> QED BY <1>1, <1>3, <3>1 DEF Between, Ports
    <2>2. CASE n = 0
      <3>1. Queue!Renamed = port BY <1>2, <2>2 DEF Queue!Renamed
      <3>2. port.mem = Queue!Sequentially[0] BY <1>1, <1>2, <2>2 DEF Between
      <3>3. Queue!Sequentially[0] = Queue!Original
        <4>1. Len(queue) \in Nat BY <1>1 DEF Between
        <4> QED BY <4>1, SequentiallyStep
      <3> QED BY <1>1, <3>1, <3>2, <3>3 DEF Between
    <2> QED BY <2>1, <2>2
  <1>5. Told(cache, Queue!Renamed) BY <1>1, <1>4 DEF Between, Told
  <1>6. /\ [cache EXCEPT !.csw = Queue!NoCsw] \in Caches
        /\ Told([cache EXCEPT !.csw = Queue!NoCsw], Queue!Renamed)
    BY <1>1, <1>5 DEF Between, Told, Caches
  <1>7. Queue!Pending \in Seq(Requests) /\ Len(Queue!Pending) <= MaxRequests
    <2>1. queue \in Seq(Requests) /\ Len(queue) <= MaxRequests BY DEF QueueInv, QueueTyped
    <2>2. <<>> \in Seq(Requests) /\ Len(<<>>) <= MaxRequests
      BY QueueSizes DEF Queue!QueueAssumption
    <2> QED BY <2>1, <2>2 DEF Queue!Pending
  <1>8. ASSUME Queue!Pending # <<>>
        PROVE  /\ replies = <<>> /\ Queue!Pending = queue /\ Queue!Renamed = port
               /\ block = Queue!NoBlock
    <2>1. n = 0 BY <1>2, <1>8 DEF Queue!Pending
    <2>2. replies = <<>> BY <1>1, <1>2, <2>1, EmptySeq DEF Between
    <2> QED BY <1>2, <2>1, <2>2 DEF Queue!Pending, Queue!Renamed, QueueInv
  <1> QED BY <1>4, <1>5, <1>6, <1>7, <1>8

\* What one access asks for is sound.
LEMMA RequestTyped ==
  ASSUME NEW a \in Accesses, NEW n \in Nat
  PROVE  Queue!Request(a.type, a.size, a.addr, Queue!Tagged(n, 0, a.size)) \in Requests
  <1> DEFINE data == Queue!Tagged(n, 0, a.size)
             req == Queue!Request(a.type, a.size, a.addr, data)
  <1>1. a.size \in Queue!Sizes /\ a.addr \in Queue!Addresses /\ a.addr % a.size = 0
    BY QueueSizes DEF Queue!QueueAssumption
  <1>2. data \in [0 .. a.size - 1 -> Cell]
    <2>1. \A k \in 0 .. a.size - 1 : <<n, 0 + k>> \in Cell BY DEF Cell
    <2> QED BY <2>1 DEF Queue!Tagged
  <1>3. a.type \in Kinds BY DEF Kinds
  <1>4. data \in Contents BY <1>1, <1>2 DEF Contents
  <1> HIDE DEF data
  <1>5. req = [type |-> a.type, size |-> a.size, addr |-> a.addr, data |-> data]
    BY DEF Queue!Request
  <1> HIDE DEF req
  <1>6. Sound(req) BY <1>1, <1>2, <1>5 DEF Sound
  <1>7. req \in [type: Kinds, size: Queue!Sizes, addr: Queue!Addresses, data: Contents]
    BY <1>1, <1>3, <1>4, <1>5
  <1>8. req \in Requests BY <1>6, <1>7 DEF Requests
  <1> QED BY <1>8 DEF req, data

\* A failed assertion.
LEMMA AbortKeeps ==
  ASSUME QueueInv, transfer = "idle", Queue!Abort
  PROVE  QueueInv'
  <1>1. /\ transfer' = "exit" /\ queue' = queue /\ replies' = replies /\ cache' = cache
        /\ port' = port
    BY DEF Queue!Abort
  <1>2. QueueTyped' BY <1>1 DEF QueueInv, QueueTyped
  <1>3. Queue!Sequentially' = Queue!Sequentially
    BY <1>1, PrimedSequence DEF Queue!Sequentially, EffectsOf, Effects, Effect
  <1>4. \E n \in 0 .. Len(queue) : port.mem = Queue!Sequentially[n]
    <2>1. Len(replies) \in 0 .. Len(queue) /\ port.mem = Queue!Sequentially[Len(replies)]
      BY DEF QueueInv, Between
    <2> QED BY <2>1
  <1>5. (\E n \in 0 .. Len(queue) : port.mem = Queue!Sequentially[n])' BY <1>1, <1>3, <1>4
  <1> QED BY <1>1, <1>2, <1>5 DEF QueueInv

LEMMA AddReqKeeps ==
  ASSUME QueueInv, Queue!AddReq
  PROVE  QueueInv'
  <1>1. transfer = "idle" BY DEF Queue!AddReq
  <1>2. PICK a \in Accesses :
          IF Queue!Room
          THEN /\ queue' = Append(Queue!Pending,
                             Queue!Request(a.type, a.size, a.addr,
                                           Queue!Tagged(Len(Queue!Pending) + 1, 0, a.size)))
               /\ replies' = <<>> /\ block' = Queue!NoBlock /\ port' = Queue!Renamed
               /\ UNCHANGED <<cache, transfer>>
          ELSE Queue!Abort
    BY DEF Queue!AddReq
  <1>3. CASE ~Queue!Room BY <1>1, <1>2, <1>3, AbortKeeps
  <1>4. CASE Queue!Room
    <2>1. PICK n \in Nat : n = Len(Queue!Pending) /\ n < MaxRequests
      BY <1>1, <1>4, Fresh DEF Queue!Room
    <2>2. queue' \in Seq(Requests) /\ Len(queue') <= MaxRequests
      <3> DEFINE req == Queue!Request(a.type, a.size, a.addr, Queue!Tagged(n + 1, 0, a.size))
      <3>1. req \in Requests BY RequestTyped
      <3>2. queue' = Append(Queue!Pending, req) BY <1>2, <1>4, <2>1
      <3> HIDE DEF req
      <3>3. Queue!Pending \in Seq(Requests) BY <1>1, Fresh
      <3>4. queue' \in Seq(Requests) /\ Len(queue') = n + 1
        BY <2>1, <3>1, <3>2, <3>3, AppendProperties
      <3>5. MaxRequests \in Nat BY QueueSizes DEF Queue!QueueAssumption
      <3> QED BY <2>1, <3>4, <3>5
    <2>3. /\ replies' = <<>> /\ block' = Queue!NoBlock /\ port' = Queue!Renamed
          /\ cache' = cache /\ transfer' = "idle"
      BY <1>1, <1>2, <1>4
    <2>4. /\ cache' \in Caches /\ port' \in Ports /\ port'.mem = Queue!Original
          /\ Told(cache', port')
      BY <1>1, <2>3, Fresh DEF QueueInv, QueueTyped
    <2>5. Between' /\ replies' \in Seq(Answers) /\ Len(replies') = 0
      BY <2>2, <2>3, <2>4, Started
    <2>6. QueueTyped'
      <3>1. Len(queue') \in Nat BY <2>2
      <3> QED BY <2>2, <2>3, <2>4, <2>5, <3>1 DEF QueueTyped
    <2>7. (block = Queue!NoBlock)' BY <2>3 DEF Queue!NoBlock
    <2> QED BY <2>3, <2>5, <2>6, <2>7 DEF QueueInv
  <1> QED BY <1>3, <1>4

LEMMA ReadbackReqKeeps ==
  ASSUME QueueInv, Queue!ReadbackReq
  PROVE  QueueInv'
  <1>1. transfer = "idle" BY DEF Queue!ReadbackReq
  <1>2. CASE Queue!Abort BY <1>1, <1>2, AbortKeeps
  <1>3. CASE ~Queue!Abort
    <2>1. /\ Queue!Pending # <<>>
          /\ queue' = [queue EXCEPT ![Len(queue)].type = "both"]
          /\ replies' = replies /\ cache' = cache /\ transfer' = transfer /\ block' = block
          /\ port' = port
      BY <1>3 DEF Queue!ReadbackReq
    <2>2. /\ replies = <<>> /\ Queue!Pending = queue /\ Queue!Renamed = port
          /\ block = Queue!NoBlock
      BY <1>1, <2>1, Fresh
    <2>3. queue' \in Seq(Requests) /\ Len(queue') = Len(queue)
      <3>1. queue \in Seq(Requests) /\ queue # <<>> BY <2>1, <2>2 DEF QueueInv, QueueTyped
      <3>2. PICK n \in Nat \ {0} : n = Len(queue) BY <3>1, EmptySeq
      <3>3. queue[n] \in Requests /\ queue \in [1 .. n -> Requests] BY <3>1, <3>2
      <3> DEFINE last == [queue[n] EXCEPT !.type = "both"]
      <3>4. last \in Requests BY <3>3 DEF Requests, Sound, Kinds
      <3>5. queue' = [queue EXCEPT ![n] = last] BY <2>1, <3>2
      <3> HIDE DEF last
      <3>6. queue' \in [1 .. n -> Requests] BY <3>3, <3>4, <3>5
      <3> QED BY <3>2, <3>6
    <2>4. /\ cache' \in Caches /\ port' \in Ports /\ port'.mem = Queue!Original
          /\ Told(cache', port')
      <3>1. port \in Ports /\ port.mem = Queue!Original /\ Told(cache, port)
        BY <1>1, <2>2, Fresh
      <3> QED BY <2>1, <3>1 DEF QueueInv, QueueTyped
    <2>5. Between' /\ replies' \in Seq(Answers) /\ Len(replies') = 0
      BY <2>1, <2>2, <2>3, <2>4, Started
    <2>6. QueueTyped'
      <3>1. Len(queue') \in Nat BY <2>3
      <3> QED BY <1>1, <2>1, <2>3, <2>4, <2>5, <3>1 DEF QueueInv, QueueTyped
    <2>7. (block = Queue!NoBlock)' BY <2>1, <2>2 DEF Queue!NoBlock
    <2> QED BY <1>1, <2>1, <2>2, <2>5, <2>6, <2>7 DEF QueueInv
  <1> QED BY <1>2, <1>3

LEMMA TransferKeeps ==
  ASSUME QueueInv, Queue!Transfer
  PROVE  QueueInv'
  <1>1. /\ transfer = "idle" /\ Queue!Pending # <<>>
        /\ queue' = queue /\ replies' = <<>> /\ cache' = [cache EXCEPT !.csw = Queue!NoCsw]
        /\ transfer' = "transfer" /\ block' = block /\ port' = port
    BY DEF Queue!Transfer, Queue!Begin
  <1>2. /\ replies = <<>> /\ Queue!Pending = queue /\ Queue!Renamed = port
        /\ block = Queue!NoBlock
    BY <1>1, Fresh
  <1>3. queue \in Seq(Requests) /\ Len(queue) <= MaxRequests BY DEF QueueInv, QueueTyped
  <1>4. /\ cache' \in Caches /\ port' \in Ports /\ port'.mem = Queue!Original
        /\ Told(cache', port')
    BY <1>1, <1>2, Fresh
  <1>5. Between' /\ replies' \in Seq(Answers) /\ Len(replies') = 0
    BY <1>1, <1>3, <1>4, Started
  <1>6. Len(queue) > 0 BY <1>1, <1>2, <1>3, EmptySeq
  <1>7. QueueTyped' BY <1>1, <1>3, <1>4, <1>5, <1>6 DEF QueueTyped
  <1>8. (block = Queue!NoBlock)' BY <1>1, <1>2 DEF Queue!NoBlock
  <1> QED BY <1>1, <1>5, <1>6, <1>7, <1>8 DEF QueueInv

LEMMA BlockKeeps ==
  ASSUME QueueInv, Queue!Block
  PROVE  QueueInv'
  <1>1. transfer = "idle" BY DEF Queue!Block
  <1>2. PICK call \in Calls :
          IF Len(Queue!BlockRequests(call)) > MaxRequests THEN Queue!Abort
          ELSE /\ Queue!Begin(Queue!BlockRequests(call)) /\ block' = call
               /\ port' = Queue!Renamed
    BY DEF Queue!Block, Calls
  <1>3. CASE Queue!Abort BY <1>1, <1>3, AbortKeeps
  <1>4. CASE ~Queue!Abort
    <2> DEFINE q == Queue!BlockRequests(call)
    <2>1. /\ ~(Len(q) > MaxRequests) /\ queue' = q /\ replies' = <<>>
          /\ cache' = [cache EXCEPT !.csw = Queue!NoCsw] /\ transfer' = "transfer"
          /\ block' = call /\ port' = Queue!Renamed
      BY <1>2, <1>4 DEF Queue!Begin
    <2>2. q \in Seq(Requests) /\ Len(q) \in Nat \ {0}
      <3>1. PICK t : t = Queue!Pieces(call.at, call.size) OBVIOUS
      <3>2. q \in Seq(Requests) /\ Len(q) = Len(t) /\ Len(t) \in Nat \ {0}
        BY <3>1, BlockRequestsAre
      <3> QED BY <3>2
    <2> HIDE DEF q
    <2>3. Len(q) <= MaxRequests
      <3>1. MaxRequests \in Nat BY QueueSizes DEF Queue!QueueAssumption
      <3> QED BY <2>1, <2>2, <3>1
    <2>4. /\ cache' \in Caches /\ port' \in Ports /\ port'.mem = Queue!Original
          /\ Told(cache', port')
      BY <1>1, <2>1, Fresh
    <2>5. Between' /\ replies' \in Seq(Answers) /\ Len(replies') = 0
      BY <2>1, <2>2, <2>4, Started
    <2>6. QueueTyped' BY <2>1, <2>2, <2>3, <2>4, <2>5 DEF QueueTyped
    <2>7. BlockCalled'
      <3>1. block' \in Calls /\ queue' = Queue!BlockRequests(block') BY <2>1 DEF q
      <3>2. Queue!BlockRequests(block') = Queue!BlockRequests(block)' 
        BY DEF Queue!BlockRequests
      <3> QED BY <3>1, <3>2 DEF BlockCalled, Calls
    <2> QED BY <2>1, <2>2, <2>5, <2>6, <2>7 DEF QueueInv
  <1> QED BY <1>3, <1>4

\* What the next packet does, whatever comes of it.
LEMMA PacketDoes ==
  ASSUME Between
  PROVE  \E m \in Len(replies) .. Len(queue) :
           LET ops == Queue!Filled.ops
               f == Queue!After(ops)
               answers == Queue!Answered(ops)
           IN  /\ ops \in Seq(PortOps) /\ Queue!Filled.cache \in Caches
               /\ \A i \in 0 .. Len(ops) :
                    f[i] \in Ports /\ \E j \in 0 .. m : f[i].mem = Queue!Sequentially[j]
               /\ f[Len(ops)].mem = Queue!Sequentially[m]
               /\ Told(Queue!Filled.cache, f[Len(ops)])
               /\ answers \in Seq(Answers) /\ Len(answers) = m
               /\ \A k \in 1 .. m : Right(k, answers[k])
               /\ Len(queue) > Len(replies) => m > Len(replies)
  <1> DEFINE F == Queue!Filled
             ops == F.ops
             f == Queue!After(ops)
             answers == Queue!Answered(ops)
  <1>1. PICK m \in Len(replies) .. Len(queue) :
          /\ ops \in Seq(PortOps) /\ F.cache \in Caches
          /\ Reaches(ops, F.cache, m)
          /\ Len(queue) > Len(replies) => m > Len(replies)
    BY PacketFilled DEF Packed
  <1>2. f[0] = port /\ Goes(f, ops, 0) BY <1>1, AfterStep
  <1>3. PICK g : g[0] = replies /\ g[Len(ops)] = answers /\ Collects(g, f, ops, 0)
    BY <1>1, AnsweredStep
  <1> HIDE DEF f, answers, ops, F
  <1>4. Done(f, g, Len(ops), F.cache, m) BY <1>1, <1>2, <1>3 DEF Reaches
  <1>5. /\ \A i \in 0 .. Len(ops) :
             f[i] \in Ports /\ \E j \in 0 .. m : f[i].mem = Queue!Sequentially[j]
        /\ f[Len(ops)].mem = Queue!Sequentially[m] /\ Told(F.cache, f[Len(ops)])
        /\ answers \in Seq(Answers) /\ Len(answers) = m
        /\ \A k \in 1 .. m : Right(k, answers[k])
    BY <1>3, <1>4 DEF Done
  <1> QED BY <1>1, <1>5 DEF f, answers, ops, F

LEMMA SameRight ==
  ASSUME queue' = queue, NEW k, NEW answer
  PROVE  Right(k, answer)' <=> Right(k, answer)
  <1>1. Queue!Sequentially' = Queue!Sequentially
    BY PrimedSequence DEF Queue!Sequentially, EffectsOf, Effects, Effect
  <1> QED BY <1>1 DEF Right, Queue!Memory, Answer

LEMMA ExchangeKeeps ==
  ASSUME QueueInv, Queue!Exchange
  PROVE  QueueInv'
  <1> DEFINE ops == Queue!Filled.ops
             f == Queue!After(ops)
             answers == Queue!Answered(ops)
  <1>1. transfer = "transfer" /\ Between /\ (block = Queue!NoBlock \/ BlockCalled)
    BY DEF Queue!Exchange, QueueInv
  <1>2. PICK m \in Len(replies) .. Len(queue) :
          /\ ops \in Seq(PortOps) /\ Queue!Filled.cache \in Caches
          /\ \A i \in 0 .. Len(ops) :
               f[i] \in Ports /\ \E j \in 0 .. m : f[i].mem = Queue!Sequentially[j]
          /\ f[Len(ops)].mem = Queue!Sequentially[m]
          /\ Told(Queue!Filled.cache, f[Len(ops)])
          /\ answers \in Seq(Answers) /\ Len(answers) = m
          /\ \A k \in 1 .. m : Right(k, answers[k])
          /\ Len(queue) > Len(replies) => m > Len(replies)
    BY <1>1, PacketDoes
  <1>3. PICK done \in 0 .. Len(ops) :
          /\ port' = f[done] /\ cache' = Queue!Filled.cache
          /\ IF done < Len(ops)
             THEN transfer' = "exit" /\ UNCHANGED replies
             ELSE /\ replies' = answers
                  /\ transfer' = IF Len(replies') = Len(queue) THEN "idle" ELSE "transfer"
    BY <1>2 DEF Queue!Exchange
  <1>4. queue' = queue /\ block' = block BY DEF Queue!Exchange
  <1> HIDE DEF ops, f, answers
  <1>5. Queue!Sequentially' = Queue!Sequentially
    BY <1>4, PrimedSequence DEF Queue!Sequentially, EffectsOf, Effects, Effect
  <1>6. PICK n \in Nat, r \in Nat, l \in Nat :
          n = Len(queue) /\ r = Len(replies) /\ r < n /\ l = Len(ops) /\ n <= MaxRequests
    BY <1>1, <1>2 DEF QueueInv, QueueTyped
  <1>7. m \in r + 1 .. n BY <1>2, <1>6
  <1>8. /\ port' \in Ports /\ cache' \in Caches /\ queue' \in Seq(Requests)
        /\ Len(queue') <= MaxRequests
    BY <1>1, <1>2, <1>3, <1>4, <1>6 DEF Between
  <1>9. CASE done < Len(ops)
    <2>1. transfer' = "exit" /\ replies' = replies BY <1>3, <1>9
    <2>2. QueueTyped' BY <1>1, <1>4, <1>8, <2>1 DEF QueueTyped, Between
    <2>3. PICK j \in 0 .. m : f[done].mem = Queue!Sequentially[j] BY <1>2
    <2>4. j \in 0 .. Len(queue) BY <1>6, <1>7
    <2>5. (\E i \in 0 .. Len(queue) : port.mem = Queue!Sequentially[i])'
      BY <1>3, <1>4, <1>5, <2>3, <2>4
    <2> QED BY <2>1, <2>2, <2>5 DEF QueueInv
  <1>10. CASE ~(done < Len(ops))
    <2>1. done = l BY <1>6, <1>10
    <2>2. /\ replies' = answers /\ Len(replies') = m /\ replies' \in Seq(Answers)
          /\ transfer' = IF m = n THEN "idle" ELSE "transfer"
      BY <1>2, <1>3, <1>6, <1>10
    <2>3. /\ port'.mem = Queue!Sequentially[m] /\ Told(cache', port')
      BY <1>2, <1>3, <1>6, <2>1
    <2>4. QueueTyped' BY <1>4, <1>6, <1>7, <1>8, <2>2 DEF QueueTyped
    <2>5. Answered(Len(replies))'
      <3>1. ASSUME NEW k \in 1 .. m PROVE Right(k, replies[k])'
        <4>1. PICK a : a = answers[k] OBVIOUS
        <4>2. Right(k, a)' BY <1>2, <1>4, <4>1, SameRight
        <4>3. replies'[k] = a BY <2>2, <4>1
        <4> QED BY <4>2, <4>3 DEF Right
      <3> QED BY <2>2, <3>1 DEF Answered
    <2>6. Between'
      <3>1. (port.mem = Queue!Sequentially[Len(replies)])' BY <1>5, <2>2, <2>3
      <3>2. Len(replies') <= Len(queue') BY <1>4, <1>6, <1>7, <2>2
      <3> QED BY <1>8, <2>2, <2>3, <2>5, <3>1, <3>2 DEF Between, Told
    <2>7. (block = Queue!NoBlock \/ BlockCalled)'
      BY <1>1, <1>4 DEF Queue!NoBlock, BlockCalled, Calls, Queue!BlockRequests
    <2>8. transfer' = "transfer" => Len(replies') < Len(queue')
      BY <1>4, <1>6, <1>7, <2>2
    <2>9. transfer' = "idle" => Len(replies') = Len(queue') /\ replies' # <<>>
      <3>1. m # 0 BY <1>6, <1>7
      <3>2. replies' # <<>> BY <2>2, <3>1
      <3> QED BY <1>4, <1>6, <2>2, <3>2
    <2> QED BY <2>2, <2>4, <2>6, <2>7, <2>8, <2>9 DEF QueueInv
  <1> QED BY <1>9, <1>10

LEMMA QueueStays ==
  ASSUME QueueInv, UNCHANGED queueVars
  PROVE  QueueInv'
  <1>1. /\ queue' = queue /\ replies' = replies /\ cache' = cache /\ transfer' = transfer
        /\ block' = block /\ port' = port
    BY DEF queueVars
  <1>2. QueueTyped' BY <1>1 DEF QueueInv, QueueTyped
  <1>3. Queue!Sequentially' = Queue!Sequentially
    BY <1>1, PrimedSequence DEF Queue!Sequentially, EffectsOf, Effects, Effect
  <1>4. Between => Between'
    <2>1. Answered(Len(replies)) => Answered(Len(replies))' BY <1>1, SameRight DEF Answered
    <2> QED BY <1>1, <1>3, <2>1 DEF Between, Told
  <1>5. (block = Queue!NoBlock \/ BlockCalled) => (block = Queue!NoBlock \/ BlockCalled)'
    BY <1>1 DEF Queue!NoBlock, BlockCalled, Calls, Queue!BlockRequests
  <1>6. (block = Queue!NoBlock) => (block = Queue!NoBlock)' BY <1>1 DEF Queue!NoBlock
  <1> QED BY <1>1, <1>2, <1>3, <1>4, <1>5, <1>6 DEF QueueInv

LEMMA QueueStarts ==
  ASSUME Queue!Init
  PROVE  QueueInv
  <1>1. /\ queue = <<>> /\ replies = <<>>
        /\ cache = [csw |-> Queue!NoCsw, set |-> TRUE, address |-> 0]
        /\ transfer = "idle" /\ block = Queue!NoBlock
        /\ port \in [mem: {Queue!Original}, tar: Queue!Addresses, csw: {Queue!NoCsw}]
    BY DEF Queue!Init
  <1>2. Extent \in Nat /\ MaxRequests \in Nat BY QueueSizes DEF Queue!QueueAssumption
  <1>3. Queue!Original \in Memories BY <1>2 DEF Queue!Original, Memories, Cell, Queue!Addresses
  <1>4. port \in Ports /\ port.mem = Queue!Original
    <2>1. Queue!Addresses \subseteq 0 .. Extent BY <1>2 DEF Queue!Addresses
    <2> QED BY <1>1, <1>3, <2>1 DEF Ports
  <1>5. cache \in Caches /\ Told(cache, port)
    <2>1. 0 \in 0 .. Extent BY <1>2
    <2> QED BY <1>1, <2>1 DEF Caches, Told
  <1>6. Len(queue) = 0 /\ Len(replies) = 0 /\ queue \in Seq(Requests) /\ replies \in Seq(Answers)
    BY <1>1
  <1>7. Queue!Sequentially[0] = Queue!Original BY <1>6, SequentiallyStep
  <1>8. Answered(0) BY DEF Answered
  <1>9. Between BY <1>4, <1>5, <1>6, <1>7, <1>8 DEF Between
  <1>10. QueueTyped BY <1>1, <1>2, <1>4, <1>5, <1>6 DEF QueueTyped
  <1> QED BY <1>1, <1>9, <1>10 DEF QueueInv

\* The invariant of the queue, layer by layer.
LEMMA QueueKept ==
  ASSUME QueueInv, [EdbgNext]_edbgVars
  PROVE  QueueInv'
  <1>1. CASE UNCHANGED queueVars BY <1>1, QueueStays
  <1>2. CASE Queue!Next
    <2>1. CASE Queue!AddReq BY <2>1, AddReqKeeps
    <2>2. CASE Queue!ReadbackReq BY <2>2, ReadbackReqKeeps
    <2>3. CASE Queue!Transfer BY <2>3, TransferKeeps
    <2>4. CASE Queue!Block BY <2>4, BlockKeeps
    <2>5. CASE Queue!Exchange BY <2>5, ExchangeKeeps
    <2> QED BY <1>2, <2>1, <2>2, <2>3, <2>4, <2>5 DEF Queue!Next
  <1> QED BY <1>1, <1>2 DEF EdbgNext, SessionStep, QueueStep, JtagStep, edbgVars

LEMMA QueueHolds == EdbgSpec => []QueueInv
  <1>1. EdbgInit => QueueInv BY QueueStarts DEF EdbgInit
  <1>2. QueueInv /\ [EdbgNext]_edbgVars => QueueInv' BY QueueKept
  <1> QED BY <1>1, <1>2, PTL DEF EdbgSpec

LEMMA TransparentThen ==
  ASSUME QueueInv
  PROVE  QueueIsTransparent
  <1> DEFINE S == Queue!Sequentially
  <1>1. Queue!CacheIsTrue BY DEF QueueInv, Between, Told, Queue!CacheIsTrue
  <1>2. ASSUME transfer # "exit"
        PROVE  /\ port.mem = S[Len(replies)]
               /\ \A i \in 1 .. Len(replies) : Queue!Memory(queue[i]) =>
                    replies[i] = [k \in 0 .. queue[i].size - 1 |-> S[i][queue[i].addr + k]]
    BY <1>2 DEF QueueInv, Between, Answered, Right, Answer
  <1>3. transfer = "exit" => \E n \in 0 .. Len(queue) : port.mem = S[n] BY DEF QueueInv
  <1>4. Queue!TransferIsSequential BY <1>2, <1>3 DEF Queue!TransferIsSequential
  <1>5. Queue!BlocksAreExact
    <2>1. SUFFICES ASSUME transfer = "idle", replies # <<>>, block.op # "none",
                          NEW k \in 1 .. block.size
          PROVE  IF block.op = "write" THEN port.mem[block.at + k - 1] = <<-1, k - 1>>
                 ELSE /\ k <= Len(Queue!Assembled)
                      /\ Queue!Assembled[k] = port.mem[block.at + k - 1]
      BY DEF Queue!BlocksAreExact
    <2>2. Between /\ Len(replies) = Len(queue) /\ BlockCalled
      BY <2>1 DEF QueueInv, Queue!NoBlock
    <2>3. port.mem = S[Len(queue)] /\ Answered(Len(queue)) BY <2>2 DEF Between
    <2>4. block.op \in {"read", "write"}
      <3>1. block \in Calls BY <2>2 DEF BlockCalled
      <3> QED BY <3>1, CallTyped
    <2>5. CASE block.op = "write" BY <2>2, <2>3, <2>5, BlockWritten
    <2>6. CASE block.op = "read" BY <2>2, <2>3, <2>6, BlockRead
    <2> QED BY <2>4, <2>5, <2>6
  <1> QED BY <1>1, <1>4, <1>5 DEF QueueIsTransparent, Queue!QueueIsTransparent

LEMMA ProgressThen ==
  ASSUME QueueInv
  PROVE  TransferProgresses
  <1>1. SUFFICES ASSUME transfer = "transfer"
        PROVE  Len(Queue!Answered(Queue!Filled.ops)) > Len(replies)
    BY DEF TransferProgresses, Queue!TransferProgresses
  <1>2. Between /\ Len(replies) < Len(queue) /\ Len(replies) \in Nat /\ Len(queue) \in Nat
    BY <1>1 DEF QueueInv, Between
  <1>3. PICK m \in Len(replies) .. Len(queue) :
          /\ Len(Queue!Answered(Queue!Filled.ops)) = m
          /\ Len(queue) > Len(replies) => m > Len(replies)
    BY <1>2, PacketDoes
  <1> QED BY <1>2, <1>3

(* dap_transfer: whatever is queued, of whichever sizes, and however it is  *)
(* packed, every request has the effect and the answer it has by itself, in *)
(* the order of the queue; what is left out as told to the access port is   *)
(* what it holds, a block call covers its range, and a transfer that fails  *)
(* has stopped between two requests.                                        *)
THEOREM QueueTransparent == EdbgSpec => []QueueIsTransparent
  <1>1. QueueInv => QueueIsTransparent BY TransparentThen
  <1> QED BY <1>1, QueueHolds, PTL

(* dap_transfer's loop: a packet always has room for the first request that *)
(* is left, so that no transfer goes on for ever.                           *)
THEOREM QueueProgresses == EdbgSpec => []TransferProgresses
  <1>1. QueueInv => TransferProgresses BY ProgressThen
  <1> QED BY <1>1, QueueHolds, PTL

-----------------------------------------------------------------------------
(* What follows when every clock goes out by itself *)

\* The codes of a chain, one after the other.
Clock == [tdi : Jtag!Bit, tms : Jtag!Bit, tdo : Jtag!Bit]
Codes(c) == LET f[i \in 0 .. Len(c)] == IF i = 0 THEN <<>> ELSE f[i - 1] \o c[i] IN f[Len(c)]
Register(t, codes) == IF t.ir = <<>> THEN codes ELSE Held
Leaves(t, codes) ==
  LET all == Register(t, codes) \o t.shift
  IN  IF Len(t.shift) + 1 <= Len(all) THEN all[Len(t.shift) + 1] ELSE 0

\* One clock of the queue, with all that it changes.
Ticked(c, x, codes) ==
  [tap |-> Jtag!Clocked(x.tap, c.tdi, c.tms),
   bits |-> IF c.tdo = 1 THEN Append(x.bits, Leaves(x.tap, codes)) ELSE x.bits]

\* f is what the clocks of q after the m-th lead to, one by one; they lead from x to y.
Along(f, q, m, codes) == \A i \in m + 1 .. Len(q) : f[i] = Ticked(q[i], f[i - 1], codes)
Path(q, m, x, y, codes) == \E f : f[m] = x /\ f[Len(q)] = y /\ Along(f, q, m, codes)

LEMMA OutIs ==
  ASSUME NEW t PROVE Jtag!Out(t) = Leaves(t, Codes(chain))
  BY DEF Jtag!Out, Leaves, Jtag!Captured, Register, Codes

LEMMA NoPath ==
  ASSUME NEW q \in Seq(Clock), NEW x, NEW codes PROVE Path(q, Len(q), x, x, codes)
  <1> DEFINE f == [i \in {Len(q)} |-> x]
  <1>1. Len(q) \in Nat OBVIOUS
  <1>2. f[Len(q)] = x OBVIOUS
  <1>3. Along(f, q, Len(q), codes) BY <1>1 DEF Along
  <1> QED BY <1>2, <1>3 DEF Path

LEMMA PathJoins ==
  ASSUME NEW q \in Seq(Clock), NEW r \in Seq(Clock), NEW m \in 0 .. Len(q), NEW x, NEW y, NEW z,
         NEW codes, Path(q, m, x, y, codes), Path(r, 0, y, z, codes)
  PROVE  Path(q \o r, m, x, z, codes)
  <1> DEFINE a == Len(q)
             b == Len(r)
             s == q \o r
  <1>1. a \in Nat /\ b \in Nat /\ Len(s) = a + b /\ m \in Nat /\ m <= a OBVIOUS
  <1>2. /\ \A i \in 1 .. a : s[i] = q[i]
        /\ \A i \in a + 1 .. a + b : s[i] = r[i - a]
    OBVIOUS
  <1>3. PICK f : f[m] = x /\ f[a] = y /\ Along(f, q, m, codes) BY DEF Path
  <1>4. PICK g : g[0] = y /\ g[b] = z /\ Along(g, r, 0, codes) BY DEF Path
  <1> HIDE DEF a, b, s
  <1> DEFINE h == [i \in m .. a + b |-> IF i <= a THEN f[i] ELSE g[i - a]]
  <1>5. h[m] = x BY <1>1, <1>3
  <1>6. h[a + b] = z
    <2>1. CASE b = 0 BY <1>1, <1>3, <1>4, <2>1
    <2>2. CASE b # 0
      <3>1. ~(a + b <= a) /\ (a + b) - a = b /\ a + b \in m .. a + b BY <1>1, <2>2
      <3> QED BY <1>4, <3>1
    <2> QED BY <2>1, <2>2
  <1>7. ASSUME NEW i \in m + 1 .. a + b PROVE h[i] = Ticked(s[i], h[i - 1], codes)
    <2>1. i \in m .. a + b /\ i - 1 \in m .. a + b BY <1>1
    <2>2. CASE i <= a
      <3>1. i \in m + 1 .. a /\ i \in 1 .. a /\ i - 1 <= a BY <1>1, <2>2
      <3>2. f[i] = Ticked(q[i], f[i - 1], codes) BY <1>3, <3>1 DEF Along, a
      <3>3. h[i] = f[i] /\ h[i - 1] = f[i - 1] /\ s[i] = q[i] BY <1>2, <2>1, <2>2, <3>1
      <3> HIDE DEF h
      <3> QED BY <3>2, <3>3
    <2>3. CASE i = a + 1
      <3>1. ~(i <= a) /\ i - 1 = a /\ i - a = 1 /\ 1 \in 1 .. b /\ i \in a + 1 .. a + b BY <1>1, <2>3
      <3>2. g[1] = Ticked(r[1], g[0], codes)
        <4>1. 1 \in 0 + 1 .. b /\ 1 - 1 = 0 BY <3>1
        <4>2. g[1] = Ticked(r[1], g[1 - 1], codes) BY <1>4, <4>1 DEF Along, b
        <4> QED BY <4>1, <4>2
      <3>3. h[i] = g[1] /\ h[i - 1] = y /\ s[i] = r[1] BY <1>1, <1>2, <1>3, <2>1, <3>1
      <3> HIDE DEF h
      <3> QED BY <1>4, <3>2, <3>3
    <2>4. CASE i > a + 1
      <3>1. ~(i <= a) /\ ~(i - 1 <= a) /\ i - a \in 1 .. b /\ i \in a + 1 .. a + b BY <1>1, <2>4
      <3>2. g[i - a] = Ticked(r[i - a], g[(i - a) - 1], codes)
        <4>1. i - a \in 0 + 1 .. b BY <3>1
        <4> QED BY <1>4, <4>1 DEF Along, b
      <3>3. (i - 1) - a = (i - a) - 1 BY <1>1, <2>1
      <3>4. h[i] = g[i - a] /\ h[i - 1] = g[(i - a) - 1] /\ s[i] = r[i - a]
        BY <1>2, <2>1, <3>1, <3>3
      <3> HIDE DEF h
      <3> QED BY <3>2, <3>4
    <2> QED BY <1>1, <2>2, <2>3, <2>4
  <1>8. Along(h, s, m, codes) BY <1>1, <1>7 DEF Along
  <1>9. h[Len(s)] = z BY <1>1, <1>6
  <1>10. Path(s, m, x, z, codes) BY <1>5, <1>8, <1>9 DEF Path
  <1> QED BY <1>10 DEF s

LEMMA PathOne ==
  ASSUME NEW c \in Clock, NEW x, NEW codes
  PROVE  Path(<<c>>, 0, x, Ticked(c, x, codes), codes)
  <1> DEFINE f == [i \in 0 .. 1 |-> IF i = 0 THEN x ELSE Ticked(c, x, codes)]
             q == <<c>>
  <1>1. f[0] = x /\ f[1] = Ticked(c, x, codes) OBVIOUS
  <1>2. Len(q) = 1 /\ q[1] = c OBVIOUS
  <1> HIDE DEF f, q
  <1>3. Along(f, q, 0, codes)
    <2>1. ASSUME NEW i \in 0 + 1 .. Len(q) PROVE f[i] = Ticked(q[i], f[i - 1], codes)
      <3>1. i = 1 /\ i - 1 = 0 BY <1>2
      <3> QED BY <1>1, <1>2, <3>1
    <2> QED BY <2>1 DEF Along
  <1>4. Path(q, 0, x, Ticked(c, x, codes), codes) BY <1>1, <1>2, <1>3 DEF Path
  <1> QED BY <1>4 DEF q

Typed(x) == x.tap.shift \in Seq(Jtag!Bit) /\ x.bits \in Seq(Jtag!Bit)

LEMMA LeavesBit ==
  ASSUME NEW t, t.shift \in Seq(Jtag!Bit), NEW codes \in Seq(Jtag!Bit)
  PROVE  Leaves(t, codes) \in Jtag!Bit
  <1>1. Register(t, codes) \in Seq(Jtag!Bit) BY JtagSizes DEF Register, Jtag!JtagAssumption
  <1> DEFINE all == Register(t, codes) \o t.shift
  <1>2. all \in Seq(Jtag!Bit) BY <1>1
  <1>3. Len(t.shift) + 1 \in Nat \ {0} OBVIOUS
  <1> HIDE DEF all
  <1>4. Len(t.shift) + 1 <= Len(all) => all[Len(t.shift) + 1] \in Jtag!Bit BY <1>2, <1>3
  <1> QED BY <1>4 DEF Leaves, all, Jtag!Bit

LEMMA TickedTyped ==
  ASSUME NEW c \in Clock, NEW x, Typed(x), NEW codes \in Seq(Jtag!Bit)
  PROVE  Typed(Ticked(c, x, codes))
  <1>1. Leaves(x.tap, codes) \in Jtag!Bit BY LeavesBit DEF Typed
  <1>2. Ticked(c, x, codes).bits \in Seq(Jtag!Bit)
    <2>1. Append(x.bits, Leaves(x.tap, codes)) \in Seq(Jtag!Bit) BY <1>1, AppendProperties DEF Typed
    <2> QED BY <2>1 DEF Ticked, Typed
  <1>3. Ticked(c, x, codes).tap.shift \in Seq(Jtag!Bit)
    <2>1. Append(x.tap.shift, c.tdi) \in Seq(Jtag!Bit) BY AppendProperties DEF Typed, Clock
    <2>2. <<>> \in Seq(Jtag!Bit) OBVIOUS
    <2> QED BY <2>1, <2>2 DEF Ticked, Typed, Jtag!Clocked
  <1> QED BY <1>2, <1>3 DEF Typed

LEMMA PathTyped ==
  ASSUME NEW q \in Seq(Clock), NEW m \in 0 .. Len(q), NEW f, NEW codes \in Seq(Jtag!Bit),
         Typed(f[m]), Along(f, q, m, codes), NEW n \in m .. Len(q)
  PROVE  Typed(f[n])
  <1>0. m \in Nat /\ Len(q) \in Nat OBVIOUS
  <1> DEFINE Bad == {i \in m .. Len(q) : ~Typed(f[i])}
  <1>1. SUFFICES ASSUME Bad # {} PROVE FALSE OBVIOUS
  <1>2. PICK i \in Bad : \A j \in Bad : i <= j
    <2>1. Bad \subseteq Nat BY <1>0
    <2> HIDE DEF Bad
    <2> QED BY <1>1, <2>1, LeastNat
  <1>3. i # m BY <1>2
  <1>4. i \in m + 1 .. Len(q) /\ i - 1 \in m .. Len(q) /\ ~(i <= i - 1) /\ i \in 1 .. Len(q)
    BY <1>0, <1>2, <1>3
  <1>5. Typed(f[i - 1]) BY <1>2, <1>4
  <1>6. q[i] \in Clock BY <1>4
  <1>7. f[i] = Ticked(q[i], f[i - 1], codes) BY <1>4 DEF Along
  <1>8. Typed(f[i]) BY <1>5, <1>6, <1>7, TickedTyped
  <1> QED BY <1>2, <1>8

-----------------------------------------------------------------------------
(* A packet's sequences *)

LEMMA LeastIs ==
  ASSUME NEW S, S \subseteq Nat, S # {}
  PROVE  Jtag!Least(S) \in S /\ \A y \in S : Jtag!Least(S) <= y
  <1>1. \E x \in S : \A y \in S : x <= y BY LeastNat
  <1> QED BY <1>1 DEF Jtag!Least

LEMMA RunIs ==
  ASSUME clocks \in Seq(Clock), NEW i \in Nat, i < Len(clocks)
  PROVE  /\ Jtag!RunFrom(i) \in 1 .. Len(clocks) - i
         /\ \A j \in 1 .. Jtag!RunFrom(i) : Jtag!Like(clocks[i + j], clocks[i + 1])
  <1> DEFINE all == Len(clocks)
             S == {n \in 1 .. all - i : i + n = all \/ ~Jtag!Like(clocks[i + n + 1], clocks[i + 1])}
  <1>0. all \in Nat /\ i < all OBVIOUS
  <1>1. Jtag!RunFrom(i) = Jtag!Least(S) BY DEF Jtag!RunFrom
  <1> HIDE DEF all
  <1>2. S \subseteq Nat BY <1>0
  <1>3. all - i \in S
    <2>1. all - i \in 1 .. all - i /\ i + (all - i) = all BY <1>0
    <2> QED BY <2>1
  <1>4. Jtag!Least(S) \in S /\ \A y \in S : Jtag!Least(S) <= y BY <1>2, <1>3, LeastIs
  <1>5. ASSUME NEW j \in 1 .. Jtag!Least(S) PROVE Jtag!Like(clocks[i + j], clocks[i + 1])
    <2>1. CASE j = 1 BY <2>1 DEF Jtag!Like
    <2>2. CASE j # 1
      <3>1. j - 1 \in 1 .. all - i /\ ~(Jtag!Least(S) <= j - 1) /\ i + (j - 1) + 1 = i + j
        BY <1>0, <1>4, <2>2
      <3>2. j - 1 \notin S BY <1>4, <3>1
      <3>3. Jtag!Like(clocks[i + (j - 1) + 1], clocks[i + 1]) BY <3>1, <3>2
      <3> QED BY <3>1, <3>3
    <2> QED BY <2>1, <2>2
  <1>6. Jtag!Least(S) \in 1 .. all - i BY <1>4
  <1> QED BY <1>1, <1>5, <1>6 DEF all

Start == [index |-> sent, remaining |-> JtagPacket - 3, made |-> <<>>]
Cuttings(f, n) == f = [k \in 0 .. n |-> IF k = 0 THEN Start ELSE Jtag!Sequenced(f[k - 1])]

LEMMA CuttingsExist ==
  ASSUME NEW n \in Nat
  PROVE  \E f : Cuttings(f, n)
  <1> DEFINE Open == {c \in Nat : ~\E f : Cuttings(f, c)}
  <1>1. SUFFICES ASSUME Open # {} PROVE FALSE OBVIOUS
  <1>2. PICK c \in Open : \A m \in Open : c <= m
    <2>1. Open \subseteq Nat OBVIOUS
    <2> HIDE DEF Open
    <2> QED BY <1>1, <2>1, LeastNat
  <1>3. c # 0
    <2> DEFINE f == [k \in 0 .. 0 |-> Start]
    <2>1. f = [k \in 0 .. 0 |-> IF k = 0 THEN Start ELSE Jtag!Sequenced(f[k - 1])] OBVIOUS
    <2>2. \E h : Cuttings(h, 0) BY <2>1 DEF Cuttings
    <2> QED BY <1>2, <2>2
  <1>4. c - 1 \in Nat /\ c \in Nat /\ 0 <= c - 1 /\ c - 1 \notin Open
    <2>1. c \in Nat /\ 0 <= c /\ 0 \in Nat BY <1>2
    <2>2. c - 1 \in Nat /\ 0 <= c - 1 /\ c - 1 < c BY <1>3, <2>1
    <2> QED BY <1>2, <2>1, <2>2
  <1>5. PICK f : Cuttings(f, c - 1) BY <1>4
  <1> DEFINE e == Jtag!Sequenced(f[c - 1])
             g == [k \in 0 .. c |-> IF k = c THEN e ELSE f[k]]
  <1> HIDE DEF e
  <1>6. ASSUME NEW k \in 0 .. c
        PROVE  g[k] = IF k = 0 THEN Start ELSE Jtag!Sequenced(g[k - 1])
    <2>1. CASE k = c
      <3>1. k # 0 /\ k - 1 \in 0 .. c /\ k - 1 # c BY <1>3, <1>4, <2>1
      <3>2. g[k - 1] = f[c - 1] BY <2>1, <3>1
      <3>3. g[k] = e BY <2>1
      <3> QED BY <2>1, <3>1, <3>2, <3>3 DEF e
    <2>2. CASE k # c
      <3>1. k \in 0 .. c - 1 BY <1>4, <2>2
      <3>2. f[k] = IF k = 0 THEN Start ELSE Jtag!Sequenced(f[k - 1]) BY <1>5, <3>1 DEF Cuttings
      <3>3. k # 0 => k - 1 \in 0 .. c /\ k - 1 # c BY <1>4, <3>1
      <3>4. k # 0 => g[k - 1] = f[k - 1] BY <3>3
      <3>5. g[k] = f[k] BY <2>2
      <3> HIDE DEF g
      <3> QED BY <3>2, <3>4, <3>5
    <2> QED BY <2>1, <2>2
  <1>7. g = [k \in 0 .. c |-> IF k = 0 THEN Start ELSE Jtag!Sequenced(g[k - 1])] BY <1>6
  <1>8. \E h : Cuttings(h, c) BY <1>7 DEF Cuttings
  <1> QED BY <1>2, <1>8

\* A sequence is of like clocks; each begins where the last one ended.
Runs == [from : Nat, count : Nat \ {0}]
EndOf(made, k) == IF k = 0 THEN sent ELSE made[k].from + made[k].count
Linked(made) ==
  \A k \in 1 .. Len(made) :
    /\ made[k].from = EndOf(made, k - 1) /\ EndOf(made, k) <= Len(clocks)
    /\ \A j \in 1 .. made[k].count : Jtag!Like(clocks[made[k].from + j], clocks[made[k].from + 1])
Cutting(p) ==
  /\ p.index \in sent .. Len(clocks) /\ p.remaining \in Int
  /\ p.made \in Seq(Runs) /\ Linked(p.made) /\ p.index = EndOf(p.made, Len(p.made))

LEMMA SequencedCuts ==
  ASSUME clocks \in Seq(Clock), sent \in 0 .. Len(clocks), NEW p, Cutting(p)
  PROVE  /\ Cutting(Jtag!Sequenced(p))
         /\ p.made # <<>> => Jtag!Sequenced(p).made # <<>>
         /\ p.index < Len(clocks) /\ p.remaining >= 2 => Jtag!Sequenced(p).made # <<>>
  <1>1. CASE p.index = Len(clocks) \/ p.remaining < 2
    <2>1. Jtag!Sequenced(p) = p BY <1>1 DEF Jtag!Sequenced
    <2>2. p.index \in Nat /\ p.remaining \in Int /\ Len(clocks) \in Nat BY DEF Cutting
    <2> QED BY <1>1, <2>1, <2>2
  <1>2. CASE ~(p.index = Len(clocks) \/ p.remaining < 2)
    <2> DEFINE n == Jtag!Least({Jtag!RunFrom(p.index), MaxRun, p.remaining * ByteBits})
               last == [from |-> p.index, count |-> n]
               more == Append(p.made, last)
    <2>1. /\ p.index \in Nat /\ p.index < Len(clocks) /\ p.remaining \in Nat /\ p.remaining >= 2
          /\ sent \in Nat /\ sent <= p.index /\ Len(clocks) \in Nat
      BY <1>2 DEF Cutting
    <2>2. /\ Jtag!RunFrom(p.index) \in 1 .. Len(clocks) - p.index
          /\ \A j \in 1 .. Jtag!RunFrom(p.index) : Jtag!Like(clocks[p.index + j], clocks[p.index + 1])
      BY <2>1, RunIs
    <2>3. MaxRun \in Nat \ {0} /\ ByteBits \in Nat \ {0} BY JtagSizes DEF Jtag!JtagAssumption
    <2>4. p.remaining * ByteBits \in Nat \ {0}
      <3>1. PICK a \in Nat \ {0}, b \in Nat \ {0} : a = p.remaining /\ b = ByteBits BY <2>1, <2>3
      <3>2. a * b \in Nat \ {0} BY Z3
      <3> QED BY <3>1, <3>2
    <2>5. {Jtag!RunFrom(p.index), MaxRun, p.remaining * ByteBits} \subseteq Nat \ {0} BY <2>2, <2>3, <2>4
    <2>6. n \in Nat \ {0} /\ n <= Jtag!RunFrom(p.index)
      <3> DEFINE S == {Jtag!RunFrom(p.index), MaxRun, p.remaining * ByteBits}
      <3>1. S \subseteq Nat /\ S # {} BY <2>5
      <3> HIDE DEF S
      <3>2. Jtag!Least(S) \in S /\ \A y \in S : Jtag!Least(S) <= y BY <3>1, LeastIs
      <3> QED BY <2>5, <3>2 DEF S
    <2>7. /\ Jtag!Sequenced(p).index = p.index + n /\ Jtag!Sequenced(p).made = more
          /\ Jtag!Sequenced(p).remaining = p.remaining - 1 - ((n + ByteBits - 1) \div ByteBits)
      BY <1>2 DEF Jtag!Sequenced
    <2> HIDE DEF n
    <2>8. Jtag!Sequenced(p).index \in sent .. Len(clocks) BY <2>1, <2>2, <2>6, <2>7
    <2>9. Jtag!Sequenced(p).remaining \in Int
      <3>1. n + ByteBits - 1 \in Nat BY <2>3, <2>6
      <3>2. (n + ByteBits - 1) \div ByteBits \in Int BY <2>3, <3>1
      <3> QED BY <2>1, <2>7, <3>2
    <2>10. /\ more \in Seq(Runs) /\ Len(more) = Len(p.made) + 1 /\ Len(p.made) \in Nat
           /\ \A k \in 1 .. Len(p.made) : more[k] = p.made[k]
           /\ more[Len(p.made) + 1] = last
      <3>1. last \in Runs BY <2>1, <2>6 DEF Runs
      <3>2. p.made \in Seq(Runs) BY DEF Cutting
      <3> QED BY <3>1, <3>2
    <2> HIDE DEF more
    <2>11. \A k \in 0 .. Len(p.made) : EndOf(more, k) = EndOf(p.made, k) BY <2>10 DEF EndOf
    <2>12. EndOf(more, Len(p.made) + 1) = p.index + n BY <2>10 DEF EndOf
    <2>13. ASSUME NEW k \in 1 .. Len(more)
           PROVE  /\ more[k].from = EndOf(more, k - 1) /\ EndOf(more, k) <= Len(clocks)
                  /\ \A j \in 1 .. more[k].count :
                       Jtag!Like(clocks[more[k].from + j], clocks[more[k].from + 1])
      <3>1. CASE k \in 1 .. Len(p.made)
        <4>1. k - 1 \in 0 .. Len(p.made) /\ k \in 0 .. Len(p.made) BY <2>10, <3>1
        <4>2. /\ p.made[k].from = EndOf(p.made, k - 1) /\ EndOf(p.made, k) <= Len(clocks)
              /\ \A j \in 1 .. p.made[k].count :
                   Jtag!Like(clocks[p.made[k].from + j], clocks[p.made[k].from + 1])
          BY <3>1 DEF Cutting, Linked
        <4>3. more[k] = p.made[k] BY <2>10, <3>1
        <4>4. EndOf(more, k) = EndOf(p.made, k) /\ EndOf(more, k - 1) = EndOf(p.made, k - 1)
          BY <2>11, <4>1
        <4> QED BY <4>2, <4>3, <4>4
      <3>2. CASE k = Len(p.made) + 1
        <4>1. more[k].from = p.index /\ more[k].count = n BY <2>10, <3>2
        <4>2. k - 1 = Len(p.made) /\ Len(p.made) \in 0 .. Len(p.made) BY <2>10, <3>2
        <4>3. EndOf(more, k - 1) = p.index BY <2>11, <4>2 DEF Cutting
        <4>4. EndOf(more, k) <= Len(clocks) BY <2>1, <2>2, <2>6, <2>12, <3>2
        <4>5. \A j \in 1 .. n : Jtag!Like(clocks[p.index + j], clocks[p.index + 1]) BY <2>2, <2>6
        <4> QED BY <4>1, <4>3, <4>4, <4>5
      <3> QED BY <2>10, <3>1, <3>2
    <2>14. Linked(more) BY <2>13 DEF Linked
    <2>15. Cutting(Jtag!Sequenced(p)) BY <2>7, <2>8, <2>9, <2>10, <2>12, <2>14 DEF Cutting
    <2>16. more # <<>> BY <2>10
    <2> QED BY <2>7, <2>15, <2>16
  <1> QED BY <1>1, <1>2

\* A packet holds at least one sequence, and no clock that is not queued.
LEMMA SequencesCut ==
  ASSUME clocks \in Seq(Clock), sent \in 0 .. Len(clocks)
  PROVE  /\ Jtag!Sequences \in Seq(Runs) /\ Linked(Jtag!Sequences)
         /\ sent < Len(clocks) => Jtag!Sequences # <<>>
  <1>0. JtagPacket \in Nat /\ JtagPacket > 4 /\ sent \in Nat BY JtagSizes DEF Jtag!JtagAssumption
  <1> DEFINE f == CHOOSE g : Cuttings(g, JtagPacket)
  <1>1. Jtag!Sequences = f[JtagPacket].made BY DEF Jtag!Sequences, Cuttings, Start
  <1>2. Cuttings(f, JtagPacket) BY <1>0, CuttingsExist
  <1> HIDE DEF f
  <1>3. f[0] = Start /\ \A k \in 1 .. JtagPacket : f[k] = Jtag!Sequenced(f[k - 1])
    <2>1. f = [k \in 0 .. JtagPacket |-> IF k = 0 THEN Start ELSE Jtag!Sequenced(f[k - 1])]
      BY <1>2 DEF Cuttings
    <2>2. 0 \in 0 .. JtagPacket BY <1>0
    <2>3. ASSUME NEW k \in 1 .. JtagPacket PROVE f[k] = Jtag!Sequenced(f[k - 1])
      <3>1. k \in 0 .. JtagPacket /\ k # 0 BY <1>0
      <3> QED BY <2>1, <3>1
    <2>4. f[0] = Start BY <2>1, <2>2
    <2> QED BY <2>3, <2>4
  <1>4. Cutting(Start)
    <2>1. Start.made = <<>> /\ Start.index = sent /\ Start.remaining = JtagPacket - 3 BY DEF Start
    <2>2. Len(<<>>) = 0 /\ <<>> \in Seq(Runs) OBVIOUS
    <2> QED BY <1>0, <2>1, <2>2 DEF Cutting, Linked, EndOf
  <1> DEFINE Fine(k) == Cutting(f[k]) /\ (k > 0 /\ sent < Len(clocks) => f[k].made # <<>>)
             Bad == {k \in 0 .. JtagPacket : ~Fine(k)}
  <1>5. Bad = {}
    <2>1. SUFFICES ASSUME Bad # {} PROVE FALSE OBVIOUS
    <2>2. PICK k \in Bad : \A m \in Bad : k <= m
      <3>1. Bad \subseteq Nat OBVIOUS
      <3> HIDE DEF Bad
      <3> QED BY <2>1, <3>1, LeastNat
    <2>3. k # 0 BY <1>3, <1>4, <2>2
    <2>4. k \in 1 .. JtagPacket /\ k - 1 \in 0 .. JtagPacket /\ ~(k <= k - 1) BY <1>0, <2>2, <2>3
    <2>5. Cutting(f[k - 1]) /\ (k - 1 > 0 /\ sent < Len(clocks) => f[k - 1].made # <<>>)
      BY <2>2, <2>4
    <2>6. f[k] = Jtag!Sequenced(f[k - 1]) BY <1>3, <2>4
    <2>7. Cutting(f[k]) BY <2>5, <2>6, SequencedCuts
    <2>8. ASSUME sent < Len(clocks) PROVE f[k].made # <<>>
      <3>1. CASE k - 1 > 0 BY <2>5, <2>6, <2>8, <3>1, SequencedCuts
      <3>2. CASE k - 1 = 0
        <4>1. f[k - 1].index = sent /\ f[k - 1].remaining >= 2 BY <1>0, <1>3, <3>2 DEF Start
        <4> QED BY <2>5, <2>6, <2>8, <4>1, SequencedCuts
      <3> QED BY <2>4, <3>1, <3>2
    <2> QED BY <2>2, <2>7, <2>8
  <1>6. JtagPacket \in 0 .. JtagPacket /\ JtagPacket > 0 BY <1>0
  <1>7. Fine(JtagPacket) BY <1>5, <1>6
  <1> QED BY <1>1, <1>6, <1>7 DEF Cutting

NextPerformed(s, x, i) ==
  LET first == clocks[s.from + 1]
  IN  [tap |-> Jtag!Clocked(x.tap, clocks[s.from + i].tdi, first.tms),
       bits |-> IF first.tdo = 1 THEN Append(x.bits, Jtag!Out(x.tap)) ELSE x.bits]
Performance(f, s, x) ==
  f = [i \in 0 .. s.count |-> IF i = 0 THEN [tap |-> x.tap, bits |-> x.bits]
                              ELSE NextPerformed(s, f[i - 1], i)]

\* What the probe does with a sequence is what its clocks do one by one.
LEMMA PerformedIs ==
  ASSUME NEW s \in Runs,
         \A j \in 1 .. s.count : Jtag!Like(clocks[s.from + j], clocks[s.from + 1]),
         NEW F, F[s.from] = [tap |-> F[s.from].tap, bits |-> F[s.from].bits],
         \A i \in 1 .. s.count :
           F[s.from + i] = Ticked(clocks[s.from + i], F[(s.from + i) - 1], Codes(chain))
  PROVE  Jtag!Performed(s, F[s.from].tap, F[s.from].bits) = F[s.from + s.count]
  <1> DEFINE x == F[s.from]
             a == s.from
             n == s.count
             f == CHOOSE g : Performance(g, s, x)
             h == [i \in 0 .. n |-> F[a + i]]
  <1>0. a \in Nat /\ n \in Nat \ {0} BY DEF Runs
  <1>1. Jtag!Performed(s, F[s.from].tap, F[s.from].bits) = f[n]
    BY DEF Jtag!Performed, Performance, NextPerformed
  <1>2. ASSUME NEW i \in 1 .. n PROVE F[a + i] = NextPerformed(s, F[(a + i) - 1], i)
    <2>1. F[a + i] = Ticked(clocks[a + i], F[(a + i) - 1], Codes(chain)) OBVIOUS
    <2>2. Jtag!Like(clocks[a + i], clocks[a + 1]) OBVIOUS
    <2>3. Jtag!Out(F[(a + i) - 1].tap) = Leaves(F[(a + i) - 1].tap, Codes(chain)) BY OutIs
    <2> QED BY <2>1, <2>2, <2>3 DEF Ticked, NextPerformed, Jtag!Like
  <1>3. Performance(h, s, x)
    <2>1. ASSUME NEW i \in 0 .. n
          PROVE  h[i] = IF i = 0 THEN [tap |-> x.tap, bits |-> x.bits] ELSE NextPerformed(s, h[i - 1], i)
      <3>1. CASE i = 0 BY <1>0, <3>1
      <3>2. CASE i # 0
        <4>1. i \in 1 .. n /\ i - 1 \in 0 .. n /\ (a + i) - 1 = a + (i - 1) BY <1>0, <3>2
        <4>2. F[a + i] = NextPerformed(s, F[(a + i) - 1], i) BY <1>2, <4>1
        <4>3. h[i] = F[a + i] /\ h[i - 1] = F[(a + i) - 1] BY <4>1
        <4> HIDE DEF h, x
        <4> QED BY <3>2, <4>2, <4>3
      <3> QED BY <3>1, <3>2
    <2>2. h = [i \in 0 .. n |-> IF i = 0 THEN [tap |-> x.tap, bits |-> x.bits]
                                ELSE NextPerformed(s, h[i - 1], i)]
      BY <2>1
    <2> QED BY <2>2 DEF Performance
  <1>4. Performance(f, s, x) BY <1>3
  <1> HIDE DEF f, h, x
  <1> DEFINE Bad == {i \in 0 .. n : f[i] # h[i]}
  <1>5. Bad = {}
    <2>1. SUFFICES ASSUME Bad # {} PROVE FALSE OBVIOUS
    <2>2. PICK i \in Bad : \A m \in Bad : i <= m
      <3>1. Bad \subseteq Nat BY <1>0
      <3> HIDE DEF Bad
      <3> QED BY <2>1, <3>1, LeastNat
    <2>3. CASE i = 0
      <3>1. 0 \in 0 .. n BY <1>0
      <3>2. f[0] = [tap |-> x.tap, bits |-> x.bits] /\ h[0] = [tap |-> x.tap, bits |-> x.bits]
        BY <1>3, <1>4, <3>1 DEF Performance
      <3> QED BY <2>2, <2>3, <3>2
    <2>4. CASE i # 0
      <3>1. i \in 0 .. n /\ i - 1 \in 0 .. n /\ ~(i <= i - 1) BY <1>0, <2>2, <2>4
      <3>2. f[i - 1] = h[i - 1] BY <2>2, <3>1
      <3>3. f[i] = NextPerformed(s, f[i - 1], i) BY <1>4, <2>4, <3>1 DEF Performance
      <3>4. h[i] = NextPerformed(s, h[i - 1], i) BY <1>3, <2>4, <3>1 DEF Performance
      <3> QED BY <2>2, <3>2, <3>3, <3>4
    <2> QED BY <2>3, <2>4
  <1>6. n \in 0 .. n BY <1>0
  <1>7. f[n] = h[n] BY <1>5, <1>6
  <1>8. h[n] = F[a + n] BY <1>6 DEF h
  <1> QED BY <1>1, <1>7, <1>8

Performances(f, ss) ==
  f = [k \in 0 .. Len(ss) |-> IF k = 0 THEN [tap |-> tap, bits |-> bits]
                              ELSE Jtag!Performed(ss[k], f[k - 1].tap, f[k - 1].bits)]

\* What a packet does is what its clocks do one by one.
LEMMA AllPerformedIs ==
  ASSUME clocks \in Seq(Clock), sent \in 0 .. Len(clocks), sent < Len(clocks),
         NEW F, F[sent] = [tap |-> tap, bits |-> bits], Along(F, clocks, sent, Codes(chain))
  PROVE  /\ Jtag!AfterPacket \in sent + 1 .. Len(clocks)
         /\ Jtag!AllPerformed = F[Jtag!AfterPacket]
  <1> DEFINE ss == Jtag!Sequences
             At(k) == EndOf(ss, k)
             f == CHOOSE g : Performances(g, ss)
             h == [k \in 0 .. Len(ss) |-> F[At(k)]]
  <1>0. /\ ss \in Seq(Runs) /\ Linked(ss) /\ ss # <<>> /\ Len(ss) \in Nat
        /\ sent \in Nat /\ Len(clocks) \in Nat
    BY SequencesCut
  <1>1. Jtag!AllPerformed = f[Len(ss)] BY DEF Jtag!AllPerformed, Performances
  <1>2. Jtag!AfterPacket = At(Len(ss))
    <2>1. Len(ss) # 0 BY <1>0
    <2> QED BY <2>1 DEF Jtag!AfterPacket, EndOf
  <1> HIDE DEF ss
  <1>3. ASSUME NEW k \in 1 .. Len(ss)
        PROVE  /\ ss[k] \in Runs /\ ss[k].from \in Nat /\ ss[k].count \in Nat \ {0}
               /\ ss[k].from = At(k - 1) /\ At(k) = ss[k].from + ss[k].count
               /\ At(k) <= Len(clocks)
    <2>1. k # 0 BY <1>0
    <2>2. ss[k] \in Runs BY <1>0
    <2>3. ss[k].from \in Nat /\ ss[k].count \in Nat \ {0} BY <2>2 DEF Runs
    <2>4. ss[k].from = At(k - 1) /\ At(k) <= Len(clocks) BY <1>0 DEF Linked
    <2>5. At(k) = ss[k].from + ss[k].count BY <2>1 DEF EndOf
    <2> QED BY <2>2, <2>3, <2>4, <2>5
  <1>4. \A k \in 0 .. Len(ss) : At(k) \in sent + k .. Len(clocks)
    <2> DEFINE Bad == {k \in 0 .. Len(ss) : At(k) \notin sent + k .. Len(clocks)}
    <2>1. SUFFICES ASSUME Bad # {} PROVE FALSE OBVIOUS
    <2>2. PICK k \in Bad : \A m \in Bad : k <= m
      <3>1. Bad \subseteq Nat BY <1>0
      <3> HIDE DEF Bad
      <3> QED BY <2>1, <3>1, LeastNat
    <2>3. k # 0 BY <1>0, <2>2 DEF EndOf
    <2>4. k \in 1 .. Len(ss) /\ k - 1 \in 0 .. Len(ss) /\ ~(k <= k - 1) BY <1>0, <2>2, <2>3
    <2>5. At(k - 1) \in sent + (k - 1) .. Len(clocks) BY <2>2, <2>4
    <2>6. /\ ss[k].from \in Nat /\ ss[k].count \in Nat \ {0} /\ ss[k].from = At(k - 1)
          /\ At(k) = ss[k].from + ss[k].count /\ At(k) <= Len(clocks)
      BY <1>3, <2>4
    <2> HIDE DEF At
    <2>7. At(k) \in sent + k .. Len(clocks) BY <1>0, <2>4, <2>5, <2>6
    <2> QED BY <2>2, <2>7
  <1>5. ASSUME NEW i \in sent .. Len(clocks) PROVE F[i] = [tap |-> F[i].tap, bits |-> F[i].bits]
    <2>1. CASE i = sent BY <2>1
    <2>2. CASE i # sent
      <3>1. i \in sent + 1 .. Len(clocks) BY <1>0, <2>2
      <3>2. F[i] = Ticked(clocks[i], F[i - 1], Codes(chain)) BY <3>1 DEF Along
      <3> QED BY <3>2 DEF Ticked
    <2> QED BY <2>1, <2>2
  <1>6. ASSUME NEW k \in 1 .. Len(ss)
        PROVE  F[At(k)] = Jtag!Performed(ss[k], F[At(k - 1)].tap, F[At(k - 1)].bits)
    <2>1. k - 1 \in 0 .. Len(ss) BY <1>0
    <2>2. At(k - 1) \in sent + (k - 1) .. Len(clocks) BY <1>4, <2>1
    <2>3. At(k - 1) \in sent .. Len(clocks) BY <1>0, <2>1, <2>2
    <2>4. /\ ss[k] \in Runs /\ ss[k].from \in Nat /\ ss[k].count \in Nat \ {0}
          /\ ss[k].from = At(k - 1) /\ At(k) = ss[k].from + ss[k].count /\ At(k) <= Len(clocks)
      BY <1>3
    <2> HIDE DEF At
    <2>5. F[ss[k].from] = [tap |-> F[ss[k].from].tap, bits |-> F[ss[k].from].bits]
      BY <1>5, <2>3, <2>4
    <2>6. ASSUME NEW i \in 1 .. ss[k].count
          PROVE  F[ss[k].from + i] = Ticked(clocks[ss[k].from + i], F[(ss[k].from + i) - 1], Codes(chain))
      <3>1. ss[k].from + i \in sent + 1 .. Len(clocks) BY <1>0, <2>3, <2>4
      <3> QED BY <3>1 DEF Along
    <2>7. \A j \in 1 .. ss[k].count : Jtag!Like(clocks[ss[k].from + j], clocks[ss[k].from + 1])
      BY <1>0 DEF Linked
    <2>8. Jtag!Performed(ss[k], F[ss[k].from].tap, F[ss[k].from].bits) = F[ss[k].from + ss[k].count]
      BY <2>4, <2>5, <2>6, <2>7, PerformedIs
    <2> QED BY <2>4, <2>8
  <1>7. Performances(h, ss)
    <2>1. ASSUME NEW k \in 0 .. Len(ss)
          PROVE  h[k] = IF k = 0 THEN [tap |-> tap, bits |-> bits]
                        ELSE Jtag!Performed(ss[k], h[k - 1].tap, h[k - 1].bits)
      <3>1. CASE k = 0 BY <1>0, <3>1 DEF EndOf
      <3>2. CASE k # 0
        <4>1. k \in 1 .. Len(ss) /\ k - 1 \in 0 .. Len(ss) BY <1>0, <3>2
        <4>2. h[k] = F[At(k)] /\ h[k - 1] = F[At(k - 1)] BY <4>1
        <4>3. F[At(k)] = Jtag!Performed(ss[k], F[At(k - 1)].tap, F[At(k - 1)].bits) BY <1>6, <4>1
        <4> HIDE DEF h, At
        <4> QED BY <3>2, <4>2, <4>3
      <3> QED BY <3>1, <3>2
    <2>2. h = [k \in 0 .. Len(ss) |-> IF k = 0 THEN [tap |-> tap, bits |-> bits]
                                      ELSE Jtag!Performed(ss[k], h[k - 1].tap, h[k - 1].bits)]
      BY <2>1
    <2> QED BY <2>2 DEF Performances
  <1>8. Performances(f, ss) BY <1>7
  <1> HIDE DEF f, h, At
  <1> DEFINE Bad == {k \in 0 .. Len(ss) : f[k] # h[k]}
  <1>9. Bad = {}
    <2>1. SUFFICES ASSUME Bad # {} PROVE FALSE OBVIOUS
    <2>2. PICK k \in Bad : \A m \in Bad : k <= m
      <3>1. Bad \subseteq Nat BY <1>0
      <3> HIDE DEF Bad
      <3> QED BY <2>1, <3>1, LeastNat
    <2>3. CASE k = 0
      <3>1. 0 \in 0 .. Len(ss) BY <1>0
      <3>2. f[0] = [tap |-> tap, bits |-> bits] /\ h[0] = [tap |-> tap, bits |-> bits]
        BY <1>7, <1>8, <3>1 DEF Performances
      <3> QED BY <2>2, <2>3, <3>2
    <2>4. CASE k # 0
      <3>1. k \in 0 .. Len(ss) /\ k - 1 \in 0 .. Len(ss) /\ ~(k <= k - 1) BY <1>0, <2>2, <2>4
      <3>2. f[k - 1] = h[k - 1] BY <2>2, <3>1
      <3>3. f[k] = Jtag!Performed(ss[k], f[k - 1].tap, f[k - 1].bits) BY <1>8, <2>4, <3>1 DEF Performances
      <3>4. h[k] = Jtag!Performed(ss[k], h[k - 1].tap, h[k - 1].bits) BY <1>7, <2>4, <3>1 DEF Performances
      <3> QED BY <2>2, <3>2, <3>3, <3>4
    <2> QED BY <2>3, <2>4
  <1>10. Len(ss) \in 0 .. Len(ss) /\ Len(ss) >= 1 BY <1>0
  <1>11. f[Len(ss)] = F[At(Len(ss))] BY <1>9, <1>10 DEF h
  <1>12. At(Len(ss)) \in sent + 1 .. Len(clocks)
    <2>1. At(Len(ss)) \in sent + Len(ss) .. Len(clocks) BY <1>4, <1>10
    <2> QED BY <1>0, <1>10, <2>1
  <1> QED BY <1>1, <1>2, <1>11, <1>12

-----------------------------------------------------------------------------
(* Where the clocks lead the port to *)

State(s, h, i, d, b) == [tap |-> [state |-> s, shift |-> h, ir |-> i, dr |-> d], bits |-> b]
Registers == {"dr", "ir"}


LEMMA Diagram ==
  /\ Jtag!OnZero["run"] = "run" /\ Jtag!OnZero["reset"] = "run" /\ Jtag!OnZero["update"] = "run"
  /\ Jtag!OnZero["select"] = "capture" /\ Jtag!OnZero["capture"] = "shift" /\ Jtag!OnZero["shift"] = "shift"
  /\ Jtag!OnOne["shift"] = "exit1" /\ Jtag!OnOne["exit1"] = "update" /\ Jtag!OnOne["pause"] = "exit2"
  /\ Jtag!OnOne["exit2"] = "update"
  BY DEF Jtag!OnZero, Jtag!OnOne

LEMMA Follows ==
  ASSUME NEW r \in Registers
  PROVE  /\ Jtag!Follow(Jtag!Run, 0) = Jtag!Run /\ Jtag!Follow(Jtag!Run, 1) = <<"select", "dr">>
         /\ Jtag!Follow(Jtag!Reset, 0) = Jtag!Run /\ Jtag!Follow(Jtag!Reset, 1) = Jtag!Reset
         /\ Jtag!Follow(<<"select", "dr">>, 1) = <<"select", "ir">>
         /\ Jtag!Follow(<<"select", "ir">>, 1) = Jtag!Reset
         /\ Jtag!Follow(<<"select", r>>, 0) = <<"capture", r>>
         /\ Jtag!Follow(<<"capture", r>>, 0) = <<"shift", r>>
         /\ Jtag!Follow(<<"shift", r>>, 0) = <<"shift", r>> /\ Jtag!Follow(<<"shift", r>>, 1) = <<"exit1", r>>
         /\ Jtag!Follow(<<"exit1", r>>, 1) = <<"update", r>>
         /\ Jtag!Follow(<<"pause", r>>, 1) = <<"exit2", r>>
         /\ Jtag!Follow(<<"exit2", r>>, 1) = <<"update", r>>
         /\ Jtag!Follow(<<"update", r>>, 0) = Jtag!Run /\ Jtag!Follow(<<"update", r>>, 1) = <<"select", "dr">>
  <1> USE Diagram DEF Registers, Jtag!Run, Jtag!Reset, Jtag!Follow
  <1>1. Jtag!Follow(Jtag!Run, 0) = Jtag!Run /\ Jtag!Follow(Jtag!Run, 1) = <<"select", "dr">> OBVIOUS
  <1>2. Jtag!Follow(Jtag!Reset, 0) = Jtag!Run /\ Jtag!Follow(Jtag!Reset, 1) = Jtag!Reset OBVIOUS
  <1>3. Jtag!Follow(<<"select", "dr">>, 1) = <<"select", "ir">> OBVIOUS
  <1>4. Jtag!Follow(<<"select", "ir">>, 1) = Jtag!Reset OBVIOUS
  <1>5. Jtag!Follow(<<"select", r>>, 0) = <<"capture", r>> OBVIOUS
  <1>6. Jtag!Follow(<<"capture", r>>, 0) = <<"shift", r>> OBVIOUS
  <1>7. Jtag!Follow(<<"shift", r>>, 0) = <<"shift", r>> /\ Jtag!Follow(<<"shift", r>>, 1) = <<"exit1", r>> OBVIOUS
  <1>8. Jtag!Follow(<<"exit1", r>>, 1) = <<"update", r>> OBVIOUS
  <1>9. Jtag!Follow(<<"pause", r>>, 1) = <<"exit2", r>> OBVIOUS
  <1>10. Jtag!Follow(<<"exit2", r>>, 1) = <<"update", r>> OBVIOUS
  <1>11. Jtag!Follow(<<"update", r>>, 0) = Jtag!Run /\ Jtag!Follow(<<"update", r>>, 1) = <<"select", "dr">> OBVIOUS
  <1> QED BY <1>1, <1>2, <1>3, <1>4, <1>5, <1>6, <1>7, <1>8, <1>9, <1>10, <1>11
\* What a clock makes of the registers, by the state it leaves and the one it enters.
Shifted(s, h, tdi) ==
  CASE s[1] = "shift" -> Append(h, tdi) [] s[1] \in {"capture", "update"} -> <<>> [] OTHER -> h
Entered(n, h, i) == CASE n = Jtag!Reset -> <<>> [] n = <<"update", "ir">> -> h [] OTHER -> i
Updated(n, h, d) == IF n = <<"update", "dr">> THEN h ELSE d
Sampled(c, s, h, i, d, b, codes) ==
  IF c.tdo = 1 THEN Append(b, Leaves([state |-> s, shift |-> h, ir |-> i, dr |-> d], codes)) ELSE b

LEMMA TickedState ==
  ASSUME NEW c, NEW s, NEW h, NEW i, NEW d, NEW b, NEW codes, NEW n, NEW m, NEW j, NEW e,
         n = Jtag!Follow(s, c.tms), m = Shifted(s, h, c.tdi), j = Entered(n, m, i), e = Updated(n, m, d)
  PROVE  Ticked(c, State(s, h, i, d, b), codes)
           = State(n, m, j, e, Sampled(c, s, h, i, d, b, codes))
  <1> DEFINE t == [state |-> s, shift |-> h, ir |-> i, dr |-> d]
             x == State(s, h, i, d, b)
  <1>1. x.tap = t /\ x.bits = b BY DEF State
  <1>2. t.state = s /\ t.shift = h /\ t.ir = i /\ t.dr = d OBVIOUS
  <1> HIDE DEF t, x
  <1>3. Jtag!Clocked(t, c.tdi, c.tms) = [state |-> n, shift |-> m, ir |-> j, dr |-> e]
    BY <1>2 DEF Jtag!Clocked, Shifted, Entered, Updated
  <1>4. Ticked(c, x, codes)
          = [tap |-> Jtag!Clocked(t, c.tdi, c.tms),
             bits |-> IF c.tdo = 1 THEN Append(b, Leaves(t, codes)) ELSE b]
    BY <1>1 DEF Ticked
  <1> QED BY <1>3, <1>4 DEF State, Sampled, x, t

LEMMA Moved ==
  ASSUME NEW c, NEW s, NEW h, NEW i, NEW d, NEW b, NEW codes, NEW n, NEW m, NEW j, NEW e,
         c.tdo = 0,
         n = Jtag!Follow(s, c.tms), m = Shifted(s, h, c.tdi), j = Entered(n, m, i), e = Updated(n, m, d)
  PROVE  Ticked(c, State(s, h, i, d, b), codes) = State(n, m, j, e, b)
  <1>1. Ticked(c, State(s, h, i, d, b), codes)
          = State(n, m, j, e, Sampled(c, s, h, i, d, b, codes))
    BY TickedState
  <1>2. Sampled(c, s, h, i, d, b, codes) = b BY DEF Sampled
  <1> QED BY <1>1, <1>2

AClock(tdi, tms) == [tdi |-> tdi, tms |-> tms, tdo |-> 0]

LEMMA ClkIs ==
  ASSUME NEW tdi \in Jtag!Bit, NEW tms \in Jtag!Bit
  PROVE  Jtag!Clk(tdi, tms) = <<AClock(tdi, tms)>> /\ Jtag!Clk(tdi, tms) \in Seq(Clock)
         /\ AClock(tdi, tms) \in Clock /\ AClock(tdi, tms).tms = tms /\ AClock(tdi, tms).tdo = 0
         /\ AClock(tdi, tms).tdi = tdi
  <1>1. AClock(tdi, tms) \in Clock BY DEF AClock, Clock, Jtag!Bit
  <1>2. Jtag!Clk(tdi, tms) = <<AClock(tdi, tms)>> BY DEF Jtag!Clk, AClock
  <1> QED BY <1>1, <1>2 DEF AClock

LEMMA AClockIs ==
  ASSUME NEW tdi, NEW tms
  PROVE  AClock(tdi, tms).tms = tms /\ AClock(tdi, tms).tdi = tdi /\ AClock(tdi, tms).tdo = 0
  BY DEF AClock

\* The moves of the state diagram that the host makes, with nothing read.
LEMMA IdleStays ==
  ASSUME NEW tdi \in Jtag!Bit, NEW h, NEW i, NEW d, NEW b, NEW codes
  PROVE  Ticked(AClock(tdi, 0), State(Jtag!Run, h, i, d, b), codes) = State(Jtag!Run, h, i, d, b)
  <1>1. AClock(tdi, 0).tms = 0 /\ AClock(tdi, 0).tdi = tdi /\ AClock(tdi, 0).tdo = 0 BY AClockIs
  <1>2. Jtag!Run = Jtag!Follow(Jtag!Run, 0) BY Diagram DEF Jtag!Follow, Jtag!Run, Jtag!Reset
  <1>3. h = Shifted(Jtag!Run, h, tdi) BY DEF Shifted, Jtag!Run, Jtag!Reset
  <1>4. i = Entered(Jtag!Run, h, i) BY DEF Entered, Jtag!Run, Jtag!Reset, Registers
  <1>5. d = Updated(Jtag!Run, h, d) BY DEF Updated, Jtag!Run, Jtag!Reset, Registers
  <1> QED BY <1>1, <1>2, <1>3, <1>4, <1>5, Moved

LEMMA LeavesIdle ==
  ASSUME NEW tdi \in Jtag!Bit, NEW h, NEW i, NEW d, NEW b, NEW codes
  PROVE  Ticked(AClock(tdi, 1), State(Jtag!Run, h, i, d, b), codes)
           = State(<<"select", "dr">>, h, i, d, b)
  <1>1. AClock(tdi, 1).tms = 1 /\ AClock(tdi, 1).tdi = tdi /\ AClock(tdi, 1).tdo = 0 BY AClockIs
  <1>2. <<"select", "dr">> = Jtag!Follow(Jtag!Run, 1) BY Diagram DEF Jtag!Follow, Jtag!Run, Jtag!Reset
  <1>3. h = Shifted(Jtag!Run, h, tdi) BY DEF Shifted, Jtag!Run, Jtag!Reset
  <1>4. i = Entered(<<"select", "dr">>, h, i) BY DEF Entered, Jtag!Run, Jtag!Reset, Registers
  <1>5. d = Updated(<<"select", "dr">>, h, d) BY DEF Updated, Jtag!Run, Jtag!Reset, Registers
  <1> QED BY <1>1, <1>2, <1>3, <1>4, <1>5, Moved

LEMMA SelectsIr ==
  ASSUME NEW tdi \in Jtag!Bit, NEW h, NEW i, NEW d, NEW b, NEW codes
  PROVE  Ticked(AClock(tdi, 1), State(<<"select", "dr">>, h, i, d, b), codes)
           = State(<<"select", "ir">>, h, i, d, b)
  <1>1. AClock(tdi, 1).tms = 1 /\ AClock(tdi, 1).tdi = tdi /\ AClock(tdi, 1).tdo = 0 BY AClockIs
  <1>2. <<"select", "ir">> = Jtag!Follow(<<"select", "dr">>, 1) BY Diagram DEF Jtag!Follow, Jtag!Run, Jtag!Reset
  <1>3. h = Shifted(<<"select", "dr">>, h, tdi) BY DEF Shifted, Jtag!Run, Jtag!Reset
  <1>4. i = Entered(<<"select", "ir">>, h, i) BY DEF Entered, Jtag!Run, Jtag!Reset, Registers
  <1>5. d = Updated(<<"select", "ir">>, h, d) BY DEF Updated, Jtag!Run, Jtag!Reset, Registers
  <1> QED BY <1>1, <1>2, <1>3, <1>4, <1>5, Moved

LEMMA SelectsNone ==
  ASSUME NEW tdi \in Jtag!Bit, NEW h, NEW i, NEW d, NEW b, NEW codes
  PROVE  Ticked(AClock(tdi, 1), State(<<"select", "ir">>, h, i, d, b), codes)
           = State(Jtag!Reset, h, <<>>, d, b)
  <1>1. AClock(tdi, 1).tms = 1 /\ AClock(tdi, 1).tdi = tdi /\ AClock(tdi, 1).tdo = 0 BY AClockIs
  <1>2. Jtag!Reset = Jtag!Follow(<<"select", "ir">>, 1) BY Diagram DEF Jtag!Follow, Jtag!Run, Jtag!Reset
  <1>3. h = Shifted(<<"select", "ir">>, h, tdi) BY DEF Shifted, Jtag!Run, Jtag!Reset
  <1>4. <<>> = Entered(Jtag!Reset, h, i) BY DEF Entered, Jtag!Run, Jtag!Reset, Registers
  <1>5. d = Updated(Jtag!Reset, h, d) BY DEF Updated, Jtag!Run, Jtag!Reset, Registers
  <1> QED BY <1>1, <1>2, <1>3, <1>4, <1>5, Moved

LEMMA Captures ==
  ASSUME NEW tdi \in Jtag!Bit, NEW h, NEW i, NEW d, NEW b, NEW codes, NEW r \in Registers
  PROVE  Ticked(AClock(tdi, 0), State(<<"select", r>>, h, i, d, b), codes)
           = State(<<"capture", r>>, h, i, d, b)
  <1>1. AClock(tdi, 0).tms = 0 /\ AClock(tdi, 0).tdi = tdi /\ AClock(tdi, 0).tdo = 0 BY AClockIs
  <1>2. <<"capture", r>> = Jtag!Follow(<<"select", r>>, 0) BY Follows
  <1>3. h = Shifted(<<"select", r>>, h, tdi) BY DEF Shifted, Jtag!Run, Jtag!Reset
  <1>4. i = Entered(<<"capture", r>>, h, i) BY DEF Entered, Jtag!Run, Jtag!Reset, Registers
  <1>5. d = Updated(<<"capture", r>>, h, d) BY DEF Updated, Jtag!Run, Jtag!Reset, Registers
  <1> QED BY <1>1, <1>2, <1>3, <1>4, <1>5, Moved

LEMMA BeginsShift ==
  ASSUME NEW tdi \in Jtag!Bit, NEW h, NEW i, NEW d, NEW b, NEW codes, NEW r \in Registers
  PROVE  Ticked(AClock(tdi, 0), State(<<"capture", r>>, h, i, d, b), codes)
           = State(<<"shift", r>>, <<>>, i, d, b)
  <1>1. AClock(tdi, 0).tms = 0 /\ AClock(tdi, 0).tdi = tdi /\ AClock(tdi, 0).tdo = 0 BY AClockIs
  <1>2. <<"shift", r>> = Jtag!Follow(<<"capture", r>>, 0) BY Follows
  <1>3. <<>> = Shifted(<<"capture", r>>, h, tdi) BY DEF Shifted, Jtag!Run, Jtag!Reset
  <1>4. i = Entered(<<"shift", r>>, <<>>, i) BY DEF Entered, Jtag!Run, Jtag!Reset, Registers
  <1>5. d = Updated(<<"shift", r>>, <<>>, d) BY DEF Updated, Jtag!Run, Jtag!Reset, Registers
  <1> QED BY <1>1, <1>2, <1>3, <1>4, <1>5, Moved

LEMMA UpdatesDr ==
  ASSUME NEW tdi \in Jtag!Bit, NEW h, NEW i, NEW d, NEW b, NEW codes
  PROVE  Ticked(AClock(tdi, 1), State(<<"exit1", "dr">>, h, i, d, b), codes)
           = State(<<"update", "dr">>, h, i, h, b)
  <1>1. AClock(tdi, 1).tms = 1 /\ AClock(tdi, 1).tdi = tdi /\ AClock(tdi, 1).tdo = 0 BY AClockIs
  <1>2. <<"update", "dr">> = Jtag!Follow(<<"exit1", "dr">>, 1) BY Diagram DEF Jtag!Follow, Jtag!Run, Jtag!Reset
  <1>3. h = Shifted(<<"exit1", "dr">>, h, tdi) BY DEF Shifted, Jtag!Run, Jtag!Reset
  <1>4. i = Entered(<<"update", "dr">>, h, i) BY DEF Entered, Jtag!Run, Jtag!Reset, Registers
  <1>5. h = Updated(<<"update", "dr">>, h, d) BY DEF Updated, Jtag!Run, Jtag!Reset, Registers
  <1> QED BY <1>1, <1>2, <1>3, <1>4, <1>5, Moved

LEMMA UpdatesIr ==
  ASSUME NEW tdi \in Jtag!Bit, NEW h, NEW i, NEW d, NEW b, NEW codes
  PROVE  Ticked(AClock(tdi, 1), State(<<"exit1", "ir">>, h, i, d, b), codes)
           = State(<<"update", "ir">>, h, h, d, b)
  <1>1. AClock(tdi, 1).tms = 1 /\ AClock(tdi, 1).tdi = tdi /\ AClock(tdi, 1).tdo = 0 BY AClockIs
  <1>2. <<"update", "ir">> = Jtag!Follow(<<"exit1", "ir">>, 1) BY Diagram DEF Jtag!Follow, Jtag!Run, Jtag!Reset
  <1>3. h = Shifted(<<"exit1", "ir">>, h, tdi) BY DEF Shifted, Jtag!Run, Jtag!Reset
  <1>4. h = Entered(<<"update", "ir">>, h, i) BY DEF Entered, Jtag!Run, Jtag!Reset, Registers
  <1>5. d = Updated(<<"update", "ir">>, h, d) BY DEF Updated, Jtag!Run, Jtag!Reset, Registers
  <1> QED BY <1>1, <1>2, <1>3, <1>4, <1>5, Moved

LEMMA IdlesAgain ==
  ASSUME NEW tdi \in Jtag!Bit, NEW h, NEW i, NEW d, NEW b, NEW codes, NEW r \in Registers
  PROVE  Ticked(AClock(tdi, 0), State(<<"update", r>>, h, i, d, b), codes)
           = State(Jtag!Run, <<>>, i, d, b)
  <1>1. AClock(tdi, 0).tms = 0 /\ AClock(tdi, 0).tdi = tdi /\ AClock(tdi, 0).tdo = 0 BY AClockIs
  <1>2. Jtag!Run = Jtag!Follow(<<"update", r>>, 0) BY Follows
  <1>3. <<>> = Shifted(<<"update", r>>, h, tdi) BY DEF Shifted, Jtag!Run, Jtag!Reset
  <1>4. i = Entered(Jtag!Run, <<>>, i) BY DEF Entered, Jtag!Run, Jtag!Reset, Registers
  <1>5. d = Updated(Jtag!Run, <<>>, d) BY DEF Updated, Jtag!Run, Jtag!Reset, Registers
  <1> QED BY <1>1, <1>2, <1>3, <1>4, <1>5, Moved

LEMMA SelectsAgain ==
  ASSUME NEW tdi \in Jtag!Bit, NEW h, NEW i, NEW d, NEW b, NEW codes, NEW r \in Registers
  PROVE  Ticked(AClock(tdi, 1), State(<<"update", r>>, h, i, d, b), codes)
           = State(<<"select", "dr">>, <<>>, i, d, b)
  <1>1. AClock(tdi, 1).tms = 1 /\ AClock(tdi, 1).tdi = tdi /\ AClock(tdi, 1).tdo = 0 BY AClockIs
  <1>2. <<"select", "dr">> = Jtag!Follow(<<"update", r>>, 1) BY Follows
  <1>3. <<>> = Shifted(<<"update", r>>, h, tdi) BY DEF Shifted, Jtag!Run, Jtag!Reset
  <1>4. i = Entered(<<"select", "dr">>, <<>>, i) BY DEF Entered, Jtag!Run, Jtag!Reset, Registers
  <1>5. d = Updated(<<"select", "dr">>, <<>>, d) BY DEF Updated, Jtag!Run, Jtag!Reset, Registers
  <1> QED BY <1>1, <1>2, <1>3, <1>4, <1>5, Moved

LEMMA LeavesPause ==
  ASSUME NEW tdi \in Jtag!Bit, NEW h, NEW i, NEW d, NEW b, NEW codes
  PROVE  Ticked(AClock(tdi, 1), State(<<"pause", "ir">>, h, i, d, b), codes)
           = State(<<"exit2", "ir">>, h, i, d, b)
  <1>1. AClock(tdi, 1).tms = 1 /\ AClock(tdi, 1).tdi = tdi /\ AClock(tdi, 1).tdo = 0 BY AClockIs
  <1>2. <<"exit2", "ir">> = Jtag!Follow(<<"pause", "ir">>, 1) BY Diagram DEF Jtag!Follow, Jtag!Run, Jtag!Reset
  <1>3. h = Shifted(<<"pause", "ir">>, h, tdi) BY DEF Shifted, Jtag!Run, Jtag!Reset
  <1>4. i = Entered(<<"exit2", "ir">>, h, i) BY DEF Entered, Jtag!Run, Jtag!Reset, Registers
  <1>5. d = Updated(<<"exit2", "ir">>, h, d) BY DEF Updated, Jtag!Run, Jtag!Reset, Registers
  <1> QED BY <1>1, <1>2, <1>3, <1>4, <1>5, Moved

LEMMA UpdatesPaused ==
  ASSUME NEW tdi \in Jtag!Bit, NEW h, NEW i, NEW d, NEW b, NEW codes
  PROVE  Ticked(AClock(tdi, 1), State(<<"exit2", "ir">>, h, i, d, b), codes)
           = State(<<"update", "ir">>, h, h, d, b)
  <1>1. AClock(tdi, 1).tms = 1 /\ AClock(tdi, 1).tdi = tdi /\ AClock(tdi, 1).tdo = 0 BY AClockIs
  <1>2. <<"update", "ir">> = Jtag!Follow(<<"exit2", "ir">>, 1) BY Diagram DEF Jtag!Follow, Jtag!Run, Jtag!Reset
  <1>3. h = Shifted(<<"exit2", "ir">>, h, tdi) BY DEF Shifted, Jtag!Run, Jtag!Reset
  <1>4. h = Entered(<<"update", "ir">>, h, i) BY DEF Entered, Jtag!Run, Jtag!Reset, Registers
  <1>5. d = Updated(<<"update", "ir">>, h, d) BY DEF Updated, Jtag!Run, Jtag!Reset, Registers
  <1> QED BY <1>1, <1>2, <1>3, <1>4, <1>5, Moved

LEMMA ResetStays ==
  ASSUME NEW tdi \in Jtag!Bit, NEW h, NEW d, NEW b, NEW codes
  PROVE  Ticked(AClock(tdi, 1), State(Jtag!Reset, h, <<>>, d, b), codes)
           = State(Jtag!Reset, h, <<>>, d, b)
  <1>1. AClock(tdi, 1).tms = 1 /\ AClock(tdi, 1).tdi = tdi /\ AClock(tdi, 1).tdo = 0 BY AClockIs
  <1>2. Jtag!Reset = Jtag!Follow(Jtag!Reset, 1) BY Diagram DEF Jtag!Follow, Jtag!Run, Jtag!Reset
  <1>3. h = Shifted(Jtag!Reset, h, tdi) BY DEF Shifted, Jtag!Run, Jtag!Reset
  <1>4. <<>> = Entered(Jtag!Reset, h, <<>>) BY DEF Entered, Jtag!Run, Jtag!Reset, Registers
  <1>5. d = Updated(Jtag!Reset, h, d) BY DEF Updated, Jtag!Run, Jtag!Reset, Registers
  <1> QED BY <1>1, <1>2, <1>3, <1>4, <1>5, Moved

LEMMA LeavesReset ==
  ASSUME NEW tdi \in Jtag!Bit, NEW h, NEW d, NEW b, NEW codes
  PROVE  Ticked(AClock(tdi, 0), State(Jtag!Reset, h, <<>>, d, b), codes) = State(Jtag!Run, h, <<>>, d, b)
  <1>1. AClock(tdi, 0).tms = 0 /\ AClock(tdi, 0).tdi = tdi /\ AClock(tdi, 0).tdo = 0 BY AClockIs
  <1>2. Jtag!Run = Jtag!Follow(Jtag!Reset, 0) BY Diagram DEF Jtag!Follow, Jtag!Run, Jtag!Reset
  <1>3. h = Shifted(Jtag!Reset, h, tdi) BY DEF Shifted, Jtag!Run, Jtag!Reset
  <1>4. <<>> = Entered(Jtag!Run, h, <<>>) BY DEF Entered, Jtag!Run, Jtag!Reset, Registers
  <1>5. d = Updated(Jtag!Run, h, d) BY DEF Updated, Jtag!Run, Jtag!Reset, Registers
  <1> QED BY <1>1, <1>2, <1>3, <1>4, <1>5, Moved

LEMMA Shifting ==
  ASSUME NEW c \in Clock, NEW h, NEW i, NEW d, NEW b, NEW codes, NEW r \in Registers, NEW n,
         n = IF c.tms = 1 THEN <<"exit1", r>> ELSE <<"shift", r>>
  PROVE  Ticked(c, State(<<"shift", r>>, h, i, d, b), codes)
           = State(n, Append(h, c.tdi), i, d, Sampled(c, <<"shift", r>>, h, i, d, b, codes))
  <1>1. c.tms \in {0, 1} BY DEF Clock, Jtag!Bit
  <1>2. n = Jtag!Follow(<<"shift", r>>, c.tms) BY <1>1, Follows
  <1>3. Append(h, c.tdi) = Shifted(<<"shift", r>>, h, c.tdi) BY DEF Shifted
  <1>4. i = Entered(n, Append(h, c.tdi), i) BY DEF Entered, Jtag!Run, Jtag!Reset, Registers
  <1>5. d = Updated(n, Append(h, c.tdi), d) BY DEF Updated, Jtag!Run, Jtag!Reset, Registers
  <1> QED BY <1>2, <1>3, <1>4, <1>5, TickedState

First(g, k) == [j \in 1 .. k |-> g[j]]

LEMMA FirstGrows ==
  ASSUME NEW g, NEW k \in Nat \ {0}
  PROVE  Append(First(g, k - 1), g[k]) = First(g, k)
  <1> DEFINE S == {g[j] : j \in 1 .. k}
             s == First(g, k - 1)
             t == First(g, k)
             e == g[k]
  <1>1. s \in [1 .. k - 1 -> S] /\ t \in [1 .. k -> S] /\ e \in S BY DEF First
  <1>2. /\ \A j \in 1 .. k - 1 : s[j] = g[j]
        /\ \A j \in 1 .. k : t[j] = g[j]
    BY DEF First
  <1> HIDE DEF s, t, S
  <1>3. s \in Seq(S) /\ Len(s) = k - 1 /\ t \in Seq(S) /\ Len(t) = k
    BY <1>1, SeqDef, LenProperties
  <1> DEFINE u == Append(s, e)
  <1>4. u \in Seq(S) /\ Len(u) = k /\ u[k] = e /\ \A j \in 1 .. k - 1 : u[j] = s[j]
    BY <1>1, <1>3, AppendProperties
  <1> HIDE DEF u
  <1>5. \A j \in 1 .. Len(u) : u[j] = t[j]
    <2>1. ASSUME NEW j \in 1 .. k PROVE u[j] = t[j]
      <3>1. CASE j = k BY <1>2, <1>4, <3>1 DEF e
      <3>2. CASE j # k
        <4>1. j \in 1 .. k - 1 BY <3>2
        <4> QED BY <1>2, <1>4, <4>1
      <3> QED BY <3>1, <3>2
    <2> QED BY <1>4, <2>1
  <1>6. u = t BY <1>3, <1>4, <1>5, SeqEqual
  <1> QED BY <1>6 DEF u, s, t, e

LEMMA FirstNone == ASSUME NEW g PROVE First(g, 0) = <<>>
  BY DEF First

LEMMA BitsAre ==
  ASSUME NEW n \in Nat, NEW data \in Jtag!Bits(n)
  PROVE  data \in Seq(Jtag!Bit) /\ Len(data) = n /\ First(data, n) = data
  <1>1. data \in [1 .. n -> Jtag!Bit] BY DEF Jtag!Bits
  <1>2. data \in Seq(Jtag!Bit) BY <1>1, SeqDef
  <1>3. Len(data) = n BY <1>1, <1>2, LenProperties
  <1> QED BY <1>1, <1>2, <1>3 DEF First

LEMMA ClkPath ==
  ASSUME NEW tdi \in Jtag!Bit, NEW tms \in Jtag!Bit, NEW x, NEW y, NEW codes,
         y = Ticked(AClock(tdi, tms), x, codes)
  PROVE  Path(Jtag!Clk(tdi, tms), 0, x, y, codes)
  BY ClkIs, PathOne

LEMMA PathClk ==
  ASSUME NEW q \in Seq(Clock), NEW tdi \in Jtag!Bit, NEW tms \in Jtag!Bit, NEW x, NEW y, NEW z, NEW codes,
         Path(q, 0, x, y, codes), z = Ticked(AClock(tdi, tms), y, codes)
  PROVE  Path(q \o Jtag!Clk(tdi, tms), 0, x, z, codes) /\ q \o Jtag!Clk(tdi, tms) \in Seq(Clock)
  <1>1. 0 \in 0 .. Len(q) OBVIOUS
  <1>2. Jtag!Clk(tdi, tms) \in Seq(Clock) BY ClkIs
  <1>3. Path(Jtag!Clk(tdi, tms), 0, y, z, codes) BY ClkPath
  <1>4. q \o Jtag!Clk(tdi, tms) \in Seq(Clock) BY <1>2
  <1> QED BY <1>1, <1>2, <1>3, <1>4, PathJoins

ShiftOf(r, h, i, d) == [state |-> <<"shift", r>>, shift |-> h, ir |-> i, dr |-> d]

\* What leaves the port while data is shifted in.
Shown(data, n, r, i, d, codes) ==
  [k \in 1 .. n |-> Leaves(ShiftOf(r, First(data, k - 1), i, d), codes)]

LEMMA ShiftPath ==
  ASSUME NEW n \in Nat \ {0}, NEW data \in Jtag!Bits(n), NEW tdo \in Jtag!Bit, NEW r \in Registers,
         NEW i, NEW d, NEW b, NEW codes, tdo = 1 => b = <<>>
  PROVE  /\ Jtag!Shift(data, tdo) \in Seq(Clock) /\ Len(Jtag!Shift(data, tdo)) = n
         /\ Path(Jtag!Shift(data, tdo), 0, State(<<"shift", r>>, <<>>, i, d, b),
                 State(<<"exit1", r>>, data, i, d,
                       IF tdo = 1 THEN Shown(data, n, r, i, d, codes) ELSE b), codes)
  <1> DEFINE q == Jtag!Shift(data, tdo)
             g == Shown(data, n, r, i, d, codes)
             S(k) == IF k = n THEN <<"exit1", r>> ELSE <<"shift", r>>
             B(k) == IF tdo = 1 THEN First(g, k) ELSE b
             f == [k \in 0 .. n |-> State(S(k), First(data, k), i, d, B(k))]
  <1>1. Len(data) = n /\ data \in [1 .. n -> Jtag!Bit] BY BitsAre DEF Jtag!Bits
  <1>2. q = [k \in 1 .. n |-> [tdi |-> data[k], tms |-> Jtag!LeaveShift(k, n), tdo |-> tdo]]
    BY <1>1 DEF Jtag!Shift
  <1>3. \A k \in 1 .. n : q[k] \in Clock
    BY <1>1, <1>2 DEF Clock, Jtag!LeaveShift, Jtag!Bit
  <1>4. q \in [1 .. n -> Clock] BY <1>2, <1>3
  <1>5. q \in Seq(Clock) BY <1>4, SeqDef
  <1>6. Len(q) = n BY <1>4, <1>5, LenProperties
  <1>7. ASSUME NEW k \in 0 + 1 .. n PROVE f[k] = Ticked(q[k], f[k - 1], codes)
    <2>1. k \in 1 .. n /\ k \in Nat \ {0} /\ k - 1 \in 0 .. n /\ k \in 0 .. n /\ k - 1 # n OBVIOUS
    <2>2. f[k - 1] = State(<<"shift", r>>, First(data, k - 1), i, d, B(k - 1)) BY <2>1
    <2>3. /\ q[k] \in Clock /\ q[k].tdi = data[k] /\ q[k].tdo = tdo
          /\ S(k) = IF q[k].tms = 1 THEN <<"exit1", r>> ELSE <<"shift", r>>
      BY <1>2, <1>3, <2>1 DEF Jtag!LeaveShift
    <2>4. Append(First(data, k - 1), data[k]) = First(data, k) BY <2>1, FirstGrows
    <2>5. Sampled(q[k], <<"shift", r>>, First(data, k - 1), i, d, B(k - 1), codes) = B(k)
      <3>1. CASE tdo = 1
        <4>1. g[k] = Leaves(ShiftOf(r, First(data, k - 1), i, d), codes) BY <2>1 DEF Shown
        <4>2. Append(First(g, k - 1), g[k]) = First(g, k) BY <2>1, FirstGrows
        <4>3. Sampled(q[k], <<"shift", r>>, First(data, k - 1), i, d, B(k - 1), codes)
                = Append(B(k - 1), Leaves(ShiftOf(r, First(data, k - 1), i, d), codes))
          BY <2>3, <3>1 DEF Sampled, ShiftOf
        <4> HIDE DEF g
        <4> QED BY <3>1, <4>1, <4>2, <4>3
      <3>2. CASE tdo # 1 BY <2>3, <3>2 DEF Sampled
      <3> QED BY <3>1, <3>2
    <2> DEFINE s0 == S(k)
               b0 == B(k - 1)
               b1 == B(k)
               h0 == First(data, k - 1)
               h1 == First(data, k)
               c == q[k]
    <2>6. f[k] = State(s0, h1, i, d, b1) BY <2>1
    <2> HIDE DEF s0, b0, b1, h0, h1, c, f, q
    <2>7. c \in Clock /\ c.tdi = data[k] /\ s0 = IF c.tms = 1 THEN <<"exit1", r>> ELSE <<"shift", r>>
      BY <2>3 DEF c, s0
    <2>8. Ticked(c, State(<<"shift", r>>, h0, i, d, b0), codes)
            = State(s0, Append(h0, c.tdi), i, d, Sampled(c, <<"shift", r>>, h0, i, d, b0, codes))
      BY <2>7, Shifting
    <2>9. Append(h0, c.tdi) = h1 /\ Sampled(c, <<"shift", r>>, h0, i, d, b0, codes) = b1
      BY <2>4, <2>5, <2>7 DEF c, b0, b1, h0, h1
    <2>10. f[k - 1] = State(<<"shift", r>>, h0, i, d, b0) BY <2>2 DEF h0, b0
    <2> QED BY <2>6, <2>8, <2>9, <2>10 DEF c
  <1>8. Along(f, q, 0, codes) BY <1>6, <1>7 DEF Along
  <1>9. f[0] = State(<<"shift", r>>, <<>>, i, d, b)
    <2>1. f[0] = State(<<"shift", r>>, First(data, 0), i, d, B(0)) OBVIOUS
    <2>2. B(0) = b BY FirstNone
    <2>3. First(data, 0) = <<>> BY FirstNone
    <2> HIDE DEF f, B
    <2> QED BY <2>1, <2>2, <2>3
  <1>10. f[n] = State(<<"exit1", r>>, data, i, d, IF tdo = 1 THEN g ELSE b)
    <2>1. f[n] = State(<<"exit1", r>>, First(data, n), i, d, B(n)) OBVIOUS
    <2>2. First(data, n) = data BY BitsAre
    <2>3. First(g, n) = g BY DEF First, Shown
    <2>4. B(n) = IF tdo = 1 THEN g ELSE b BY <2>3
    <2> HIDE DEF f, B, g
    <2> QED BY <2>1, <2>2, <2>4
  <1> HIDE DEF f, q, g
  <1>11. Path(q, 0, State(<<"shift", r>>, <<>>, i, d, b),
              State(<<"exit1", r>>, data, i, d, IF tdo = 1 THEN g ELSE b), codes)
    BY <1>6, <1>8, <1>9, <1>10 DEF Path
  <1> QED BY <1>5, <1>6, <1>11 DEF q, g

LEMMA WriteIrPath ==
  ASSUME NEW ir \in Jtag!Bits(IrLength), NEW h, NEW i, NEW d, NEW b, NEW codes
  PROVE  /\ Jtag!WriteIrClocks(ir) \in Seq(Clock)
         /\ Path(Jtag!WriteIrClocks(ir), 0, State(Jtag!Run, h, i, d, b), State(Jtag!Run, <<>>, ir, d, b), codes)
  <1>0. /\ IrLength \in Nat \ {0} /\ 0 \in Jtag!Bit /\ 1 \in Jtag!Bit /\ "ir" \in Registers
        /\ <<"select", "ir">> = <<"select", "ir">>
    BY JtagSizes DEF Jtag!JtagAssumption, Jtag!Bit, Registers
  <1> DEFINE q1 == Jtag!Clk(0, 1)
             q2 == q1 \o Jtag!Clk(0, 1)
             q3 == q2 \o Jtag!Clk(0, 0)
             q4 == q3 \o Jtag!Clk(0, 0)
             q5 == q4 \o Jtag!Shift(ir, 0)
             q6 == q5 \o Jtag!Clk(0, 1)
             q7 == q6 \o Jtag!Clk(0, 0)
             x0 == State(Jtag!Run, h, i, d, b)
  <1>1. Path(q1, 0, x0, State(<<"select", "dr">>, h, i, d, b), codes) /\ q1 \in Seq(Clock)
    BY <1>0, ClkIs, ClkPath, LeavesIdle
  <1>2. q7 = Jtag!WriteIrClocks(ir) BY DEF Jtag!WriteIrClocks
  <1> HIDE DEF q1, x0
  <1>3. Path(q2, 0, x0, State(<<"select", "ir">>, h, i, d, b), codes) /\ q2 \in Seq(Clock)
    <2>1. State(<<"select", "ir">>, h, i, d, b)
            = Ticked(AClock(0, 1), State(<<"select", "dr">>, h, i, d, b), codes)
      BY <1>0, SelectsIr
    <2> QED BY <1>0, <1>1, <2>1, PathClk
  <1> HIDE DEF q2
  <1>4. Path(q3, 0, x0, State(<<"capture", "ir">>, h, i, d, b), codes) /\ q3 \in Seq(Clock)
    <2>1. State(<<"capture", "ir">>, h, i, d, b)
            = Ticked(AClock(0, 0), State(<<"select", "ir">>, h, i, d, b), codes)
      BY <1>0, Captures
    <2> QED BY <1>0, <1>3, <2>1, PathClk
  <1> HIDE DEF q3
  <1>5. Path(q4, 0, x0, State(<<"shift", "ir">>, <<>>, i, d, b), codes) /\ q4 \in Seq(Clock)
    <2>1. State(<<"shift", "ir">>, <<>>, i, d, b)
            = Ticked(AClock(0, 0), State(<<"capture", "ir">>, h, i, d, b), codes)
      BY <1>0, BeginsShift
    <2> QED BY <1>0, <1>4, <2>1, PathClk
  <1> HIDE DEF q4
  <1>6. Path(q5, 0, x0, State(<<"exit1", "ir">>, ir, i, d, b), codes) /\ q5 \in Seq(Clock)
    <2>1. /\ Jtag!Shift(ir, 0) \in Seq(Clock)
          /\ Path(Jtag!Shift(ir, 0), 0, State(<<"shift", "ir">>, <<>>, i, d, b),
                  State(<<"exit1", "ir">>, ir, i, d,
                        IF 0 = 1 THEN Shown(ir, IrLength, "ir", i, d, codes) ELSE b), codes)
      BY <1>0, ShiftPath
    <2>2. Path(Jtag!Shift(ir, 0), 0, State(<<"shift", "ir">>, <<>>, i, d, b),
               State(<<"exit1", "ir">>, ir, i, d, b), codes)
      BY <2>1
    <2>3. 0 \in 0 .. Len(q4) BY <1>5
    <2> QED BY <1>5, <2>1, <2>2, <2>3, PathJoins
  <1> HIDE DEF q5
  <1>7. Path(q6, 0, x0, State(<<"update", "ir">>, ir, ir, d, b), codes) /\ q6 \in Seq(Clock)
    <2>1. State(<<"update", "ir">>, ir, ir, d, b)
            = Ticked(AClock(0, 1), State(<<"exit1", "ir">>, ir, i, d, b), codes)
      BY <1>0, UpdatesIr
    <2> QED BY <1>0, <1>6, <2>1, PathClk
  <1> HIDE DEF q6
  <1>8. Path(q7, 0, x0, State(Jtag!Run, <<>>, ir, d, b), codes) /\ q7 \in Seq(Clock)
    <2>1. State(Jtag!Run, <<>>, ir, d, b)
            = Ticked(AClock(0, 0), State(<<"update", "ir">>, ir, ir, d, b), codes)
      BY <1>0, IdlesAgain
    <2> QED BY <1>0, <1>7, <2>1, PathClk
  <1> QED BY <1>2, <1>8 DEF x0

\* From Run-Test/Idle to where a data register is shifted, and from the end of that back.
LEMMA ToShiftDr ==
  ASSUME NEW tdi \in Jtag!Bit, NEW h, NEW i, NEW d, NEW b, NEW codes
  PROVE  LET q == Jtag!Clk(tdi, 1) \o Jtag!Clk(tdi, 0) \o Jtag!Clk(tdi, 0)
         IN  /\ q \in Seq(Clock)
             /\ Path(q, 0, State(Jtag!Run, h, i, d, b), State(<<"shift", "dr">>, <<>>, i, d, b), codes)
  <1>0. 0 \in Jtag!Bit /\ 1 \in Jtag!Bit /\ "dr" \in Registers BY DEF Jtag!Bit, Registers
  <1> DEFINE q1 == Jtag!Clk(tdi, 1)
             q2 == q1 \o Jtag!Clk(tdi, 0)
             q3 == q2 \o Jtag!Clk(tdi, 0)
             x0 == State(Jtag!Run, h, i, d, b)
  <1>1. Path(q1, 0, x0, State(<<"select", "dr">>, h, i, d, b), codes) /\ q1 \in Seq(Clock)
    BY <1>0, ClkIs, ClkPath, LeavesIdle
  <1> HIDE DEF q1, x0
  <1>2. Path(q2, 0, x0, State(<<"capture", "dr">>, h, i, d, b), codes) /\ q2 \in Seq(Clock)
    <2>1. State(<<"capture", "dr">>, h, i, d, b)
            = Ticked(AClock(tdi, 0), State(<<"select", "dr">>, h, i, d, b), codes)
      BY <1>0, Captures
    <2> QED BY <1>0, <1>1, <2>1, PathClk
  <1> HIDE DEF q2
  <1>3. Path(q3, 0, x0, State(<<"shift", "dr">>, <<>>, i, d, b), codes) /\ q3 \in Seq(Clock)
    <2>1. State(<<"shift", "dr">>, <<>>, i, d, b)
            = Ticked(AClock(tdi, 0), State(<<"capture", "dr">>, h, i, d, b), codes)
      BY <1>0, BeginsShift
    <2> QED BY <1>0, <1>2, <2>1, PathClk
  <1> QED BY <1>3 DEF q1, q2, x0

LEMMA Longer ==
  ASSUME NEW q \in Seq(Clock), NEW r \in Seq(Clock)
  PROVE  q \o r \in Seq(Clock) /\ Len(q \o r) = Len(q) + Len(r)
  BY ConcatProperties

LEMMA DrPath ==
  ASSUME NEW n \in Nat \ {0}, NEW data \in Jtag!Bits(n), NEW tdo \in Jtag!Bit,
         NEW h, NEW i, NEW d, NEW b, NEW codes, tdo = 1 => b = <<>>
  PROVE  /\ Jtag!DrClocks(data, tdo) \in Seq(Clock) /\ Len(Jtag!DrClocks(data, tdo)) = n + 5
         /\ Path(Jtag!DrClocks(data, tdo), 0, State(Jtag!Run, h, i, d, b),
                 State(Jtag!Run, <<>>, i, data, IF tdo = 1 THEN Shown(data, n, "dr", i, d, codes) ELSE b),
                 codes)
  <1>0. 0 \in Jtag!Bit /\ 1 \in Jtag!Bit /\ "dr" \in Registers BY DEF Jtag!Bit, Registers
  <1> DEFINE q3 == Jtag!Clk(0, 1) \o Jtag!Clk(0, 0) \o Jtag!Clk(0, 0)
             q4 == q3 \o Jtag!Shift(data, tdo)
             q5 == q4 \o Jtag!Clk(0, 1)
             q6 == q5 \o Jtag!Clk(0, 0)
             x0 == State(Jtag!Run, h, i, d, b)
             e == IF tdo = 1 THEN Shown(data, n, "dr", i, d, codes) ELSE b
  <1>1. Path(q3, 0, x0, State(<<"shift", "dr">>, <<>>, i, d, b), codes) /\ q3 \in Seq(Clock)
    BY <1>0, ToShiftDr
  <1>2. q6 = Jtag!DrClocks(data, tdo) BY DEF Jtag!DrClocks
  <1>3. Len(q3) = 3 BY DEF Jtag!Clk
  <1>4. Len(Jtag!Clk(0, 1)) = 1 /\ Len(Jtag!Clk(0, 0)) = 1 BY DEF Jtag!Clk
  <1>5. Jtag!Clk(0, 1) \in Seq(Clock) /\ Jtag!Clk(0, 0) \in Seq(Clock) BY <1>0, ClkIs
  <1>11. n \in Nat /\ 1 \in Nat /\ 3 \in Nat /\ 3 + n \in Nat /\ (3 + n) + 1 \in Nat OBVIOUS
  <1> HIDE DEF q3, x0, e
  <1>6. Path(q4, 0, x0, State(<<"exit1", "dr">>, data, i, d, e), codes) /\ q4 \in Seq(Clock)
        /\ Len(q4) = 3 + n
    <2>1. /\ Jtag!Shift(data, tdo) \in Seq(Clock) /\ Len(Jtag!Shift(data, tdo)) = n
          /\ Path(Jtag!Shift(data, tdo), 0, State(<<"shift", "dr">>, <<>>, i, d, b),
                  State(<<"exit1", "dr">>, data, i, d, e), codes)
      BY <1>0, ShiftPath DEF e
    <2>2. 0 \in 0 .. Len(q3) BY <1>1
    <2>3. q4 \in Seq(Clock) /\ Len(q4) = Len(q3) + Len(Jtag!Shift(data, tdo)) BY <1>1, <2>1, Longer
    <2>4. Len(q4) = 3 + n BY <1>3, <2>1, <2>3
    <2> QED BY <1>1, <2>1, <2>2, <2>3, <2>4, PathJoins
  <1> HIDE DEF q4
  <1>7. Path(q5, 0, x0, State(<<"update", "dr">>, data, i, data, e), codes) /\ q5 \in Seq(Clock)
    <2>1. State(<<"update", "dr">>, data, i, data, e)
            = Ticked(AClock(0, 1), State(<<"exit1", "dr">>, data, i, d, e), codes)
      BY <1>0, UpdatesDr
    <2> QED BY <1>0, <1>6, <2>1, PathClk
  <1>8. Len(q5) = (3 + n) + 1
    <2>1. Len(q5) = Len(q4) + Len(Jtag!Clk(0, 1)) BY <1>5, <1>6, Longer
    <2> QED BY <1>4, <1>6, <2>1
  <1> HIDE DEF q5
  <1>9. Path(q6, 0, x0, State(Jtag!Run, <<>>, i, data, e), codes) /\ q6 \in Seq(Clock)
    <2>1. State(Jtag!Run, <<>>, i, data, e)
            = Ticked(AClock(0, 0), State(<<"update", "dr">>, data, i, data, e), codes)
      BY <1>0, IdlesAgain
    <2> QED BY <1>0, <1>7, <2>1, PathClk
  <1>10. Len(q6) = ((3 + n) + 1) + 1
    <2>1. Len(q6) = Len(q5) + Len(Jtag!Clk(0, 0)) BY <1>5, <1>7, Longer
    <2> QED BY <1>4, <1>8, <2>1
  <1>12. Len(q6) = n + 5 BY <1>10, <1>11
  <1> QED BY <1>2, <1>9, <1>12 DEF x0, e

\* A clock that changes nothing may be repeated.
LEMMA RepeatPath ==
  ASSUME NEW n \in Nat, NEW tms \in Jtag!Bit, NEW x, NEW codes, x = Ticked(AClock(0, tms), x, codes)
  PROVE  Jtag!Repeat(n, Jtag!Clk(0, tms)) \in Seq(Clock) /\ Path(Jtag!Repeat(n, Jtag!Clk(0, tms)), 0, x, x, codes)
  <1> DEFINE q == Jtag!Repeat(n, Jtag!Clk(0, tms))
             c == AClock(0, tms)
             f == [k \in 0 .. n |-> x]
  <1>1. 0 \in Jtag!Bit /\ c \in Clock /\ Jtag!Clk(0, tms)[1] = c
    <2>1. 0 \in Jtag!Bit BY DEF Jtag!Bit
    <2> QED BY <2>1, ClkIs
  <1>2. q = [k \in 1 .. n |-> c] BY <1>1 DEF Jtag!Repeat
  <1> HIDE DEF c, q
  <1>3. q \in [1 .. n -> Clock] BY <1>1, <1>2
  <1>4. q \in Seq(Clock) BY <1>3, SeqDef
  <1>5. Len(q) = n BY <1>3, <1>4, LenProperties
  <1>6. ASSUME NEW k \in 0 + 1 .. Len(q) PROVE f[k] = Ticked(q[k], f[k - 1], codes)
    <2>1. k \in 1 .. n /\ k \in 0 .. n /\ k - 1 \in 0 .. n BY <1>5
    <2>2. f[k] = x /\ f[k - 1] = x /\ q[k] = c BY <1>2, <2>1
    <2> HIDE DEF f
    <2> QED BY <2>2 DEF c
  <1>7. f[0] = x /\ f[Len(q)] = x BY <1>5
  <1> HIDE DEF f
  <1>8. Path(q, 0, x, x, codes) BY <1>6, <1>7 DEF Path, Along
  <1> QED BY <1>4, <1>8 DEF q

LEMMA IdlePath ==
  ASSUME NEW h, NEW i, NEW d, NEW b, NEW codes
  PROVE  /\ Jtag!Repeat(2, Jtag!Clk(0, 0)) \in Seq(Clock)
         /\ Path(Jtag!Repeat(2, Jtag!Clk(0, 0)), 0, State(Jtag!Run, h, i, d, b), State(Jtag!Run, h, i, d, b), codes)
  <1>0. 0 \in Jtag!Bit /\ "dr" \in Registers BY DEF Jtag!Bit, Registers
  <1>1. State(Jtag!Run, h, i, d, b) = Ticked(AClock(0, 0), State(Jtag!Run, h, i, d, b), codes)
    BY <1>0, IdleStays
  <1> QED BY <1>0, <1>1, RepeatPath

LEMMA RepeatMore ==
  ASSUME NEW n \in Nat \ {0}, NEW tms \in Jtag!Bit, NEW x, NEW y, NEW z, NEW codes,
         y = Ticked(AClock(0, tms), x, codes), Path(Jtag!Repeat(n - 1, Jtag!Clk(0, tms)), 0, y, z, codes),
         Jtag!Repeat(n - 1, Jtag!Clk(0, tms)) \in Seq(Clock)
  PROVE  Path(Jtag!Repeat(n, Jtag!Clk(0, tms)), 0, x, z, codes) /\ Jtag!Repeat(n, Jtag!Clk(0, tms)) \in Seq(Clock)
  <1> DEFINE c == AClock(0, tms)
             q == Jtag!Clk(0, tms)
             r == Jtag!Repeat(n - 1, q)
             s == Jtag!Repeat(n, q)
  <1>1. 0 \in Jtag!Bit /\ c \in Clock /\ q = <<c>> /\ q \in Seq(Clock)
    <2>1. 0 \in Jtag!Bit BY DEF Jtag!Bit
    <2> QED BY <2>1, ClkIs
  <1>2. Len(q) = 1 /\ q[1] = c BY <1>1
  <1>3. r = [k \in 1 .. n - 1 |-> c] /\ s = [k \in 1 .. n |-> c] BY <1>2 DEF Jtag!Repeat
  <1>4. s \in Seq(Clock) /\ Len(s) = n
    <2>1. s \in [1 .. n -> Clock] BY <1>1, <1>3
    <2>2. s \in Seq(Clock) BY <2>1, SeqDef
    <2> QED BY <2>1, <2>2, LenProperties
  <1>5. r \in Seq(Clock) /\ Len(r) = n - 1
    <2>1. r \in [1 .. n - 1 -> Clock] BY <1>1, <1>3
    <2>2. r \in Seq(Clock) BY <2>1, SeqDef
    <2> QED BY <2>1, <2>2, LenProperties
  <1>6. Path(q, 0, x, y, codes) /\ 0 \in 0 .. Len(q)
    <2>1. 0 \in Jtag!Bit BY DEF Jtag!Bit
    <2> QED BY <1>2, <2>1, ClkPath
  <1> HIDE DEF c, q
  <1>7. Path(q \o r, 0, x, z, codes) BY <1>1, <1>5, <1>6, PathJoins DEF q
  <1>8. q \o r = s
    <2>1. q \o r \in Seq(Clock) /\ Len(q \o r) = n BY <1>1, <1>2, <1>5
    <2>2. ASSUME NEW k \in 1 .. n PROVE (q \o r)[k] = s[k]
      <3>1. s[k] = c BY <1>3
      <3>2. CASE k = 1 BY <1>1, <1>2, <1>5, <3>1, <3>2
      <3>3. CASE k # 1
        <4>1. k - 1 \in 1 .. n - 1 BY <3>3
        <4>2. r[k - 1] = c BY <1>3, <4>1
        <4>3. (q \o r)[k] = r[k - 1] BY <1>1, <1>2, <1>5, <3>3
        <4> QED BY <3>1, <4>2, <4>3
      <3> QED BY <3>2, <3>3
    <2> QED BY <1>4, <2>1, <2>2, SeqEqual
  <1> QED BY <1>4, <1>7, <1>8 DEF q

LEMMA LeavesShift ==
  ASSUME NEW tdi \in Jtag!Bit, NEW h, NEW i, NEW d, NEW b, NEW codes
  PROVE  State(<<"exit1", "dr">>, Append(h, tdi), i, d, b)
           = Ticked(AClock(tdi, 1), State(<<"shift", "dr">>, h, i, d, b), codes)
  <1>0. 1 \in Jtag!Bit /\ "dr" \in Registers BY DEF Jtag!Bit, Registers
  <1> DEFINE c == AClock(tdi, 1)
  <1>1. c \in Clock /\ c.tms = 1 /\ c.tdi = tdi /\ c.tdo = 0 BY <1>0, ClkIs
  <1>2. <<"exit1", "dr">> = IF c.tms = 1 THEN <<"exit1", "dr">> ELSE <<"shift", "dr">> BY <1>1
  <1>3. Ticked(c, State(<<"shift", "dr">>, h, i, d, b), codes)
          = State(<<"exit1", "dr">>, Append(h, c.tdi), i, d,
                  Sampled(c, <<"shift", "dr">>, h, i, d, b, codes))
    BY <1>0, <1>1, <1>2, Shifting
  <1>4. Sampled(c, <<"shift", "dr">>, h, i, d, b, codes) = b BY <1>1 DEF Sampled
  <1> HIDE DEF c
  <1>5. State(<<"exit1", "dr">>, Append(h, tdi), i, d, b)
          = Ticked(c, State(<<"shift", "dr">>, h, i, d, b), codes)
    BY <1>1, <1>3, <1>4
  <1> QED BY <1>5 DEF c

Ones(k) == Jtag!Repeat(k, Jtag!Clk(0, 1))

\* From each of the states that the port may be found in, and from any that holds no more,
\* sixteen clocks with TMS high and one with TMS low end in Run-Test/Idle.
LEMMA ResetHolds ==
  ASSUME NEW k \in Nat, NEW h, NEW d, NEW b, NEW codes
  PROVE  LET x == State(Jtag!Reset, h, <<>>, d, b) IN Path(Ones(k), 0, x, x, codes) /\ Ones(k) \in Seq(Clock)
  <1>0. 0 \in Jtag!Bit /\ 1 \in Jtag!Bit BY DEF Jtag!Bit
  <1> DEFINE x == State(Jtag!Reset, h, <<>>, d, b)
  <1>1. x = Ticked(AClock(0, 1), x, codes) BY <1>0, ResetStays
  <1> HIDE DEF x
  <1>2. Path(Ones(k), 0, x, x, codes) /\ Ones(k) \in Seq(Clock) BY <1>0, <1>1, RepeatPath DEF Ones
  <1> QED BY <1>2 DEF x

LEMMA OneMoreOne ==
  ASSUME NEW k \in Nat \ {0}, NEW x, NEW y, NEW z, NEW codes,
         y = Ticked(AClock(0, 1), x, codes), Path(Ones(k - 1), 0, y, z, codes) /\ Ones(k - 1) \in Seq(Clock)
  PROVE  Path(Ones(k), 0, x, z, codes) /\ Ones(k) \in Seq(Clock)
  <1>1. 1 \in Jtag!Bit BY DEF Jtag!Bit
  <1> QED BY <1>1, RepeatMore DEF Ones

\* Select-DR to reset.
LEMMA SelectResets ==
  ASSUME NEW k \in Nat, k > 1, NEW h, NEW i, NEW d, NEW b, NEW codes
  PROVE  /\ Path(Ones(k), 0, State(<<"select", "dr">>, h, i, d, b), State(Jtag!Reset, h, <<>>, d, b), codes)
         /\ Ones(k) \in Seq(Clock)
  <1>0. 0 \in Jtag!Bit /\ k - 1 \in Nat \ {0} /\ (k - 1) - 1 \in Nat /\ k \in Nat \ {0} BY DEF Jtag!Bit
  <1> DEFINE z == State(Jtag!Reset, h, <<>>, d, b)
  <1>1. Path(Ones((k - 1) - 1), 0, z, z, codes) /\ Ones((k - 1) - 1) \in Seq(Clock)
    BY <1>0, ResetHolds
  <1>2. z = Ticked(AClock(0, 1), State(<<"select", "ir">>, h, i, d, b), codes) BY <1>0, SelectsNone
  <1>3. State(<<"select", "ir">>, h, i, d, b)
          = Ticked(AClock(0, 1), State(<<"select", "dr">>, h, i, d, b), codes)
    BY <1>0, SelectsIr
  <1> HIDE DEF z
  <1>4. Path(Ones(k - 1), 0, State(<<"select", "ir">>, h, i, d, b), z, codes) /\ Ones(k - 1) \in Seq(Clock)
    BY <1>0, <1>1, <1>2, OneMoreOne
  <1>5. Path(Ones(k), 0, State(<<"select", "dr">>, h, i, d, b), z, codes) /\ Ones(k) \in Seq(Clock)
    BY <1>0, <1>3, <1>4, OneMoreOne
  <1> QED BY <1>5 DEF z

FirstTaps ==
  [state : {Jtag!Run, <<"shift", "dr">>, <<"pause", "ir">>}, ir : {<<0>>}, dr : {<<>>}, shift : {<<>>}]

LEMMA ResetPath ==
  ASSUME NEW t \in FirstTaps, NEW codes
  PROVE  /\ Jtag!ResetClocks \in Seq(Clock)
         /\ \E h, d : Path(Jtag!ResetClocks, 0, [tap |-> t, bits |-> <<>>], State(Jtag!Run, h, <<>>, d, <<>>), codes)
  <1>0. 0 \in Jtag!Bit /\ 1 \in Jtag!Bit /\ "dr" \in Registers /\ "ir" \in Registers BY DEF Jtag!Bit, Registers
  <1> DEFINE x == [tap |-> t, bits |-> <<>>]
  <1>1. x = State(t.state, <<>>, <<0>>, <<>>, <<>>)
        /\ t.state \in {Jtag!Run, <<"shift", "dr">>, <<"pause", "ir">>}
    BY DEF FirstTaps, State
  <1> HIDE DEF x
  <1>2. \E h, d : Path(Ones(16), 0, x, State(Jtag!Reset, h, <<>>, d, <<>>), codes) /\ Ones(16) \in Seq(Clock)
    <2>0. /\ 16 \in Nat \ {0} /\ 16 - 1 = 15 /\ 15 \in Nat \ {0} /\ 15 > 1 /\ 15 - 1 = 14
          /\ 14 \in Nat \ {0} /\ 14 > 1 /\ 14 - 1 = 13 /\ 13 \in Nat \ {0} /\ 13 > 1
          /\ 15 \in Nat /\ 14 \in Nat /\ 13 \in Nat
      OBVIOUS
    <2>1. CASE t.state = Jtag!Run
      <3> DEFINE y == State(<<"select", "dr">>, <<>>, <<0>>, <<>>, <<>>)
                 z == State(Jtag!Reset, <<>>, <<>>, <<>>, <<>>)
      <3>1. y = Ticked(AClock(0, 1), x, codes) BY <1>0, <1>1, <2>1, LeavesIdle
      <3>2. Path(Ones(15), 0, y, z, codes) /\ Ones(15) \in Seq(Clock) BY <2>0, SelectResets
      <3> HIDE DEF y
      <3>3. Path(Ones(16), 0, x, z, codes) /\ Ones(16) \in Seq(Clock) BY <2>0, <3>1, <3>2, OneMoreOne
      <3> QED BY <3>3
    <2>2. CASE t.state = <<"shift", "dr">>
      <3> DEFINE h == Append(<<>>, 0)
                 u == State(<<"exit1", "dr">>, h, <<0>>, <<>>, <<>>)
                 v == State(<<"update", "dr">>, h, <<0>>, h, <<>>)
                 y == State(<<"select", "dr">>, <<>>, <<0>>, h, <<>>)
                 z == State(Jtag!Reset, <<>>, <<>>, h, <<>>)
      <3> HIDE DEF h
      <3>1. u = Ticked(AClock(0, 1), x, codes)
        <4> DEFINE e == <<>>
                   i == <<0>>
                   w == State(<<"shift", "dr">>, e, i, e, e)
        <4>1. x = w BY <1>1, <2>2
        <4>2. h = Append(e, 0) BY DEF h
        <4>3. u = State(<<"exit1", "dr">>, h, i, e, e) OBVIOUS
        <4> HIDE DEF e, i, u
        <4>4. State(<<"exit1", "dr">>, Append(e, 0), i, e, e) = Ticked(AClock(0, 1), w, codes)
          BY <1>0, LeavesShift
        <4> HIDE DEF w
        <4> QED BY <4>1, <4>2, <4>3, <4>4
      <3>2. v = Ticked(AClock(0, 1), u, codes) BY <1>0, UpdatesDr
      <3>3. y = Ticked(AClock(0, 1), v, codes) BY <1>0, SelectsAgain
      <3>4. Path(Ones(13), 0, y, z, codes) /\ Ones(13) \in Seq(Clock) BY <2>0, SelectResets
      <3> HIDE DEF u, v, y
      <3>5. Path(Ones(14), 0, v, z, codes) /\ Ones(14) \in Seq(Clock) BY <2>0, <3>3, <3>4, OneMoreOne
      <3>6. Path(Ones(15), 0, u, z, codes) /\ Ones(15) \in Seq(Clock) BY <2>0, <3>2, <3>5, OneMoreOne
      <3>7. Path(Ones(16), 0, x, z, codes) /\ Ones(16) \in Seq(Clock)
        BY <2>0, <3>1, <3>6, OneMoreOne
      <3> QED BY <3>7
    <2>3. CASE t.state = <<"pause", "ir">>
      <3> DEFINE u == State(<<"exit2", "ir">>, <<>>, <<0>>, <<>>, <<>>)
                 v == State(<<"update", "ir">>, <<>>, <<>>, <<>>, <<>>)
                 y == State(<<"select", "dr">>, <<>>, <<>>, <<>>, <<>>)
                 z == State(Jtag!Reset, <<>>, <<>>, <<>>, <<>>)
      <3>1. u = Ticked(AClock(0, 1), x, codes) BY <1>0, <1>1, <2>3, LeavesPause
      <3>2. v = Ticked(AClock(0, 1), u, codes) BY <1>0, UpdatesPaused
      <3>3. y = Ticked(AClock(0, 1), v, codes) BY <1>0, SelectsAgain
      <3>4. Path(Ones(13), 0, y, z, codes) /\ Ones(13) \in Seq(Clock) BY <2>0, SelectResets
      <3> HIDE DEF u, v, y
      <3>5. Path(Ones(14), 0, v, z, codes) /\ Ones(14) \in Seq(Clock) BY <2>0, <3>3, <3>4, OneMoreOne
      <3>6. Path(Ones(15), 0, u, z, codes) /\ Ones(15) \in Seq(Clock) BY <2>0, <3>2, <3>5, OneMoreOne
      <3>7. Path(Ones(16), 0, x, z, codes) /\ Ones(16) \in Seq(Clock)
        BY <2>0, <3>1, <3>6, OneMoreOne
      <3> QED BY <3>7
    <2> QED BY <1>1, <2>1, <2>2, <2>3
  <1>3. PICK h, d : Path(Ones(16), 0, x, State(Jtag!Reset, h, <<>>, d, <<>>), codes) /\ Ones(16) \in Seq(Clock)
    BY <1>2
  <1>4. State(Jtag!Run, h, <<>>, d, <<>>) = Ticked(AClock(0, 0), State(Jtag!Reset, h, <<>>, d, <<>>), codes)
    BY <1>0, LeavesReset
  <1>5. /\ Path(Ones(16) \o Jtag!Clk(0, 0), 0, x, State(Jtag!Run, h, <<>>, d, <<>>), codes)
        /\ Ones(16) \o Jtag!Clk(0, 0) \in Seq(Clock)
    BY <1>0, <1>3, <1>4, PathClk
  <1>6. Jtag!ResetClocks = Ones(16) \o Jtag!Clk(0, 0) BY DEF Jtag!ResetClocks, Ones
  <1> QED BY <1>5, <1>6 DEF x

\* The clocks that end a scan.
Closing == Jtag!Clk(1, 1) \o Jtag!Clk(1, 1) \o Jtag!Clk(1, 0)

LEMMA ClosingPath ==
  ASSUME NEW h, NEW d, NEW b, NEW codes
  PROVE  /\ Closing \in Seq(Clock)
         /\ Path(Closing, 0, State(<<"shift", "dr">>, h, <<>>, d, b),
                 State(Jtag!Run, <<>>, <<>>, Append(h, 1), b), codes)
  <1>0. 0 \in Jtag!Bit /\ 1 \in Jtag!Bit /\ "dr" \in Registers BY DEF Jtag!Bit, Registers
  <1> DEFINE x == State(<<"shift", "dr">>, h, <<>>, d, b)
             g == Append(h, 1)
             u == State(<<"exit1", "dr">>, g, <<>>, d, b)
             v == State(<<"update", "dr">>, g, <<>>, g, b)
             z == State(Jtag!Run, <<>>, <<>>, g, b)
             q1 == Jtag!Clk(1, 1)
             q2 == q1 \o Jtag!Clk(1, 1)
             q3 == q2 \o Jtag!Clk(1, 0)
  <1>1. u = Ticked(AClock(1, 1), x, codes) BY <1>0, LeavesShift
  <1> HIDE DEF g
  <1>2. v = Ticked(AClock(1, 1), u, codes) BY <1>0, UpdatesDr
  <1>3. z = Ticked(AClock(1, 0), v, codes) BY <1>0, IdlesAgain
  <1> HIDE DEF u, v, z, x
  <1>4. Path(q1, 0, x, u, codes) /\ q1 \in Seq(Clock) BY <1>0, <1>1, ClkPath, ClkIs
  <1> HIDE DEF q1
  <1>5. Path(q2, 0, x, v, codes) /\ q2 \in Seq(Clock) BY <1>0, <1>2, <1>4, PathClk
  <1> HIDE DEF q2
  <1>6. Path(q3, 0, x, z, codes) /\ q3 \in Seq(Clock) BY <1>0, <1>3, <1>5, PathClk
  <1>7. q3 = Closing BY DEF Closing, q1, q2
  <1> QED BY <1>6, <1>7 DEF x, z, g
Chained(f, c, n) == f = [k \in 0 .. n |-> IF k = 0 THEN <<>> ELSE f[k - 1] \o c[k]]

LEMMA ChainedExist ==
  ASSUME NEW c, NEW n \in Nat
  PROVE  \E f : Chained(f, c, n)
  <1> DEFINE Open == {m \in Nat : ~\E f : Chained(f, c, m)}
  <1>1. SUFFICES ASSUME Open # {} PROVE FALSE OBVIOUS
  <1>2. PICK o \in Open : \A m \in Open : o <= m
    <2>1. Open \subseteq Nat OBVIOUS
    <2> HIDE DEF Open
    <2> QED BY <1>1, <2>1, LeastNat
  <1>3. o # 0
    <2> DEFINE f == [k \in 0 .. 0 |-> <<>>]
    <2>1. f = [k \in 0 .. 0 |-> IF k = 0 THEN <<>> ELSE f[k - 1] \o c[k]] OBVIOUS
    <2>2. \E h : Chained(h, c, 0) BY <2>1 DEF Chained
    <2> QED BY <1>2, <2>2
  <1>4. o - 1 \in Nat /\ o \in Nat /\ 0 <= o - 1 /\ o - 1 \notin Open
    <2>1. o \in Nat /\ 0 <= o /\ 0 \in Nat BY <1>2
    <2>2. o - 1 \in Nat /\ 0 <= o - 1 /\ o - 1 < o BY <1>3, <2>1
    <2> QED BY <1>2, <2>1, <2>2
  <1>5. PICK f : Chained(f, c, o - 1) BY <1>4
  <1> DEFINE e == f[o - 1] \o c[o]
             g == [k \in 0 .. o |-> IF k = o THEN e ELSE f[k]]
  <1> HIDE DEF e
  <1>6. ASSUME NEW k \in 0 .. o
        PROVE  g[k] = IF k = 0 THEN <<>> ELSE g[k - 1] \o c[k]
    <2>1. CASE k = o
      <3>1. k # 0 /\ k - 1 \in 0 .. o /\ k - 1 # o BY <1>3, <1>4, <2>1
      <3>2. g[k - 1] = f[o - 1] BY <2>1, <3>1
      <3>3. g[k] = e BY <2>1
      <3> QED BY <2>1, <3>1, <3>2, <3>3 DEF e
    <2>2. CASE k # o
      <3>1. k \in 0 .. o - 1 BY <1>4, <2>2
      <3>2. f[k] = IF k = 0 THEN <<>> ELSE f[k - 1] \o c[k] BY <1>5, <3>1 DEF Chained
      <3>3. k # 0 => k - 1 \in 0 .. o /\ k - 1 # o BY <1>4, <3>1
      <3>4. k # 0 => g[k - 1] = f[k - 1] BY <3>3
      <3>5. g[k] = f[k] BY <2>2
      <3> HIDE DEF g
      <3> QED BY <3>2, <3>4, <3>5
    <2> QED BY <2>1, <2>2
  <1>7. g = [k \in 0 .. o |-> IF k = 0 THEN <<>> ELSE g[k - 1] \o c[k]] BY <1>6
  <1>8. \E h : Chained(h, c, o) BY <1>7 DEF Chained
  <1> QED BY <1>2, <1>8

LEMMA Product ==
  ASSUME NEW a \in Nat, NEW b \in Nat
  PROVE  a * b \in Nat /\ b * a = a * b /\ (a + 1) * b = a * b + b /\ 0 * b = 0
  OBVIOUS

LEMMA ProductGrows ==
  ASSUME NEW a \in Nat, NEW e \in Nat, NEW b \in Nat, a <= e
  PROVE  a * b <= e * b
  OBVIOUS

\* The codes of a chain follow one another, CodeBits bits each.
CodesOf(s, c, k) ==
  /\ s \in Seq(Jtag!Bit) /\ Len(s) = k * CodeBits
  /\ \A i \in 0 .. k - 1 : \A j \in 1 .. CodeBits : s[i * CodeBits + j] = c[i + 1][j]

LEMMA CodesAre ==
  ASSUME NEW c \in Seq(Jtag!Bits(CodeBits))
  PROVE  CodesOf(Codes(c), c, Len(c))
  <1> DEFINE n == Len(c)
             f == CHOOSE g : Chained(g, c, n)
             P(k) == CodesOf(f[k], c, k)
             Bad == {k \in 0 .. n : ~P(k)}
  <1>0. n \in Nat /\ CodeBits \in Nat \ {0} /\ CodeBits \in Nat BY JtagSizes DEF Jtag!JtagAssumption
  <1>1. Codes(c) = f[n] BY DEF Codes, Chained
  <1>2. Chained(f, c, n) BY <1>0, ChainedExist
  <1> HIDE DEF f
  <1>3. Bad = {}
    <2>1. SUFFICES ASSUME Bad # {} PROVE FALSE OBVIOUS
    <2>2. PICK k \in Bad : \A m \in Bad : k <= m
      <3>1. Bad \subseteq Nat OBVIOUS
      <3> HIDE DEF Bad
      <3> QED BY <2>1, <3>1, LeastNat
    <2>3. CASE k = 0
      <3>1. 0 \in 0 .. n BY <1>0
      <3>2. f[0] = <<>> BY <1>2, <3>1 DEF Chained
      <3>3. 0 * CodeBits = 0 BY <1>0, Product
      <3>4. <<>> \in Seq(Jtag!Bit) /\ Len(<<>>) = 0 OBVIOUS
      <3>5. 0 .. 0 - 1 = {} OBVIOUS
      <3>6. P(0) BY <3>2, <3>3, <3>4, <3>5 DEF CodesOf
      <3> QED BY <2>2, <2>3, <3>6
    <2>4. CASE k # 0
      <3> DEFINE l == k - 1
                 w == l * CodeBits
                 s == f[l]
      <3>1. k \in 1 .. n /\ l \in 0 .. n /\ l \in Nat /\ k = l + 1 /\ ~(k <= l) BY <1>0, <2>2, <2>4
      <3>2. P(l) BY <2>2, <3>1
      <3>3. f[k] = s \o c[k] BY <1>2, <2>4, <3>1 DEF Chained
      <3>4. c[k] \in Jtag!Bits(CodeBits) BY <3>1
      <3>5. c[k] \in Seq(Jtag!Bit) /\ Len(c[k]) = CodeBits BY <1>0, <3>4, BitsAre
      <3> HIDE DEF s
      <3>6. s \in Seq(Jtag!Bit) /\ Len(s) = w BY <3>2 DEF CodesOf, s
      <3>7. w \in Nat /\ k * CodeBits = w + CodeBits BY <1>0, <3>1, Product
      <3>8. s \o c[k] \in Seq(Jtag!Bit) /\ Len(s \o c[k]) = w + CodeBits
        <4> HIDE DEF w
        <4> QED BY <3>5, <3>6, ConcatProperties
      <3>9. ASSUME NEW i \in 0 .. k - 1, NEW j \in 1 .. CodeBits
            PROVE  (s \o c[k])[i * CodeBits + j] = c[i + 1][j]
        <4>1. CASE i = l
          <5> DEFINE v == i * CodeBits
          <5>1. v = w /\ i + 1 = k BY <3>1, <4>1
          <5> HIDE DEF v, w
          <5>2. (s \o c[k])[w + j] = c[k][j] BY <1>0, <3>5, <3>6, <3>7
          <5>3. (s \o c[k])[v + j] = c[i + 1][j] BY <5>1, <5>2
          <5> QED BY <5>3 DEF v
        <4>2. CASE i # l
          <5>1. i \in 0 .. l - 1 /\ i \in Nat /\ i + 1 \in Nat /\ i + 1 <= l BY <3>1, <4>2
          <5> DEFINE v == i * CodeBits
          <5>2. v \in Nat /\ (i + 1) * CodeBits = v + CodeBits /\ (i + 1) * CodeBits <= w
            BY <1>0, <3>1, <5>1, Product, ProductGrows
          <5>3. s[v + j] = c[i + 1][j] BY <3>2, <5>1 DEF CodesOf, s
          <5> HIDE DEF v, w
          <5>4. v + j \in 1 .. w BY <1>0, <3>7, <5>2
          <5>5. (s \o c[k])[v + j] = s[v + j] BY <3>5, <3>6, <5>4
          <5> QED BY <5>3, <5>5 DEF v
        <4> QED BY <4>1, <4>2
      <3>10. CodesOf(s \o c[k], c, k) BY <3>7, <3>8, <3>9 DEF CodesOf
      <3> QED BY <2>2, <3>3, <3>10
    <2> QED BY <2>3, <2>4
  <1>4. n \in 0 .. n BY <1>0
  <1>5. P(n) BY <1>3, <1>4
  <1> QED BY <1>1, <1>5

LEMMA ZerosAre ==
  ASSUME NEW n \in Nat
  PROVE  Jtag!Zeros(n) \in Seq(Jtag!Bit) /\ Len(Jtag!Zeros(n)) = n /\ \A j \in 1 .. n : Jtag!Zeros(n)[j] = 0
  <1>1. Jtag!Zeros(n) \in [1 .. n -> Jtag!Bit] BY DEF Jtag!Zeros, Jtag!Bit
  <1>2. Jtag!Zeros(n) \in Seq(Jtag!Bit) BY <1>1, SeqDef
  <1>3. Len(Jtag!Zeros(n)) = n BY <1>1, <1>2, LenProperties
  <1> QED BY <1>2, <1>3 DEF Jtag!Zeros

LEMMA ZerosGrow ==
  ASSUME NEW n \in Nat PROVE Append(Jtag!Zeros(n), 0) = Jtag!Zeros(n + 1)
  <1> DEFINE s == Append(Jtag!Zeros(n), 0)
             t == Jtag!Zeros(n + 1)
  <1>1. Jtag!Zeros(n) \in Seq(Jtag!Bit) /\ Len(Jtag!Zeros(n)) = n /\ \A j \in 1 .. n : Jtag!Zeros(n)[j] = 0 BY ZerosAre
  <1>2. n + 1 \in Nat /\ 0 \in Jtag!Bit BY DEF Jtag!Bit
  <1>3. t \in Seq(Jtag!Bit) /\ Len(t) = n + 1 /\ \A j \in 1 .. n + 1 : t[j] = 0 BY <1>2, ZerosAre
  <1>4. s \in Seq(Jtag!Bit) /\ Len(s) = n + 1 /\ s[n + 1] = 0 /\ \A j \in 1 .. n : s[j] = 0
    BY <1>1, <1>2, AppendProperties
  <1> HIDE DEF s, t
  <1>5. \A j \in 1 .. n + 1 : s[j] = t[j]
    <2>1. ASSUME NEW j \in 1 .. n + 1 PROVE s[j] = 0
      <3>1. CASE j = n + 1 BY <1>4, <3>1
      <3>2. CASE j # n + 1 BY <1>4, <3>2
      <3> QED BY <3>1, <3>2
    <2> QED BY <1>3, <2>1
  <1>6. s = t BY <1>3, <1>4, <1>5, SeqEqual
  <1> QED BY <1>6 DEF s, t

Code(c, k) == IF k <= Len(c) THEN c[k] ELSE Jtag!Zeros(CodeBits)

\* The j-th bit after l codes is the j-th of the next code, and zero after the last.
LEMMA NextBit ==
  ASSUME NEW c \in Seq(Jtag!Bits(CodeBits)), NEW l \in Nat, NEW j \in 1 .. CodeBits, NEW d
  PROVE  Leaves(ShiftOf("dr", Jtag!Zeros((l * CodeBits + j) - 1), <<>>, d), Codes(c)) = Code(c, l + 1)[j]
  <1> DEFINE w == l * CodeBits
             n == Len(c)
             v == n * CodeBits
             s == Codes(c)
             z == Jtag!Zeros((w + j) - 1)
             t == ShiftOf("dr", z, <<>>, d)
             all == s \o z
  <1>0. n \in Nat /\ CodeBits \in Nat \ {0} /\ CodeBits \in Nat BY JtagSizes DEF Jtag!JtagAssumption
  <1>1. s \in Seq(Jtag!Bit) /\ Len(s) = v /\ \A i \in 0 .. n - 1 : \A k \in 1 .. CodeBits : s[i * CodeBits + k] = c[i + 1][k]
    BY CodesAre DEF CodesOf
  <1>2. w \in Nat /\ v \in Nat /\ (l + 1) * CodeBits = w + CodeBits BY <1>0, Product
  <1>3. (w + j) - 1 \in Nat
    <2> HIDE DEF w
    <2> QED BY <1>2
  <1>4. z \in Seq(Jtag!Bit) /\ Len(z) = (w + j) - 1 /\ \A k \in 1 .. (w + j) - 1 : z[k] = 0
    BY <1>3, ZerosAre
  <1>5. t.shift = z /\ t.ir = <<>> BY DEF ShiftOf
  <1> HIDE DEF s, z, t, v, w
  <1>6. all \in Seq(Jtag!Bit) /\ Len(all) = v + ((w + j) - 1) BY <1>1, <1>4, ConcatProperties
  <1>7. /\ \A k \in 1 .. v : all[k] = s[k]
        /\ \A k \in v + 1 .. v + ((w + j) - 1) : all[k] = z[k - v]
    BY <1>1, <1>4, ConcatProperties
  <1>8. Len(z) + 1 = w + j /\ w + j \in Nat BY <1>2, <1>3, <1>4
  <1>9. Register(t, s) = s BY <1>5 DEF Register
  <1> HIDE DEF all
  <1>10. Leaves(t, s) = IF w + j <= Len(all) THEN all[w + j] ELSE 0
    BY <1>5, <1>8, <1>9 DEF Leaves, all
  <1>11. CASE l + 1 <= n
    <2>1. w + CodeBits <= v BY <1>0, <1>2, <1>11, ProductGrows DEF v
    <2>2. w + j \in 1 .. v /\ w + j <= Len(all) BY <1>0, <1>2, <1>3, <1>6, <2>1
    <2>3. all[w + j] = s[w + j] BY <1>7, <2>2
    <2>4. l \in 0 .. n - 1 BY <1>0, <1>11
    <2>5. s[w + j] = c[l + 1][j] BY <1>1, <2>4 DEF w
    <2>6. Code(c, l + 1) = c[l + 1] BY <1>11 DEF Code
    <2>7. Leaves(t, s) = Code(c, l + 1)[j] BY <1>10, <2>2, <2>3, <2>5, <2>6
    <2> QED BY <2>7 DEF t, s, z, w
  <1>12. CASE ~(l + 1 <= n)
    <2>1. n <= l BY <1>0, <1>12
    <2>2. v <= w BY <1>0, <2>1, ProductGrows DEF v, w
    <2>3. Code(c, l + 1) = Jtag!Zeros(CodeBits) BY <1>12 DEF Code
    <2>4. Jtag!Zeros(CodeBits)[j] = 0 BY <1>0, ZerosAre
    <2>5. ASSUME w + j <= Len(all) PROVE all[w + j] = 0
      <3>1. w + j \in v + 1 .. v + ((w + j) - 1) BY <1>2, <1>6, <1>8, <2>2, <2>5
      <3>2. (w + j) - v \in 1 .. (w + j) - 1 BY <1>2, <3>1
      <3> QED BY <1>4, <1>7, <3>1, <3>2
    <2>6. Leaves(t, s) = Code(c, l + 1)[j] BY <1>10, <2>3, <2>4, <2>5
    <2> QED BY <2>6 DEF t, s, z, w
  <1> QED BY <1>11, <1>12

\* Scanning one code more.
LEMMA ScanPath ==
  ASSUME NEW c \in Seq(Jtag!Bits(CodeBits)), NEW l \in Nat, NEW d
  PROVE  /\ Jtag!ScanCode \in Seq(Clock) /\ Len(Jtag!ScanCode) = CodeBits
         /\ Path(Jtag!ScanCode, 0, State(<<"shift", "dr">>, Jtag!Zeros(l * CodeBits), <<>>, d, <<>>),
                 State(<<"shift", "dr">>, Jtag!Zeros((l + 1) * CodeBits), <<>>, d, First(Code(c, l + 1), CodeBits)),
                 Codes(c))
  <1> DEFINE n == CodeBits
             w == l * n
             g == Code(c, l + 1)
             o == [tdi |-> 0, tms |-> 0, tdo |-> 1]
             q == Jtag!ScanCode
             f == [k \in 0 .. n |-> State(<<"shift", "dr">>, Jtag!Zeros(w + k), <<>>, d, First(g, k))]
             codes == Codes(c)
  <1>0. n \in Nat \ {0} /\ "dr" \in Registers BY JtagSizes DEF Jtag!JtagAssumption, Registers
  <1>1. w \in Nat /\ (l + 1) * n = w + n BY <1>0, Product
  <1>2. q = [k \in 1 .. n |-> o] BY DEF Jtag!ScanCode
  <1>3. o \in Clock /\ o.tms = 0 /\ o.tdi = 0 /\ o.tdo = 1 BY DEF Clock, Jtag!Bit
  <1> HIDE DEF w, g, o, q, codes
  <1>4. q \in [1 .. n -> Clock] BY <1>2, <1>3
  <1>5. q \in Seq(Clock) BY <1>0, <1>4, SeqDef
  <1>6. Len(q) = n BY <1>0, <1>4, <1>5, LenProperties
  <1>7. ASSUME NEW k \in 0 + 1 .. n PROVE f[k] = Ticked(q[k], f[k - 1], codes)
    <2> DEFINE h0 == Jtag!Zeros((w + k) - 1)
               h1 == Jtag!Zeros(w + k)
               b0 == First(g, k - 1)
               b1 == First(g, k)
    <2>1. /\ k \in 1 .. n /\ k \in Nat \ {0} /\ k - 1 \in 0 .. n /\ k \in 0 .. n
          /\ (w + k) - 1 \in Nat /\ ((w + k) - 1) + 1 = w + k /\ w + (k - 1) = (w + k) - 1
      BY <1>0, <1>1
    <2>2. q[k] = o BY <1>2, <2>1
    <2>3. f[k - 1] = State(<<"shift", "dr">>, h0, <<>>, d, b0) BY <2>1
    <2>4. f[k] = State(<<"shift", "dr">>, h1, <<>>, d, b1) BY <2>1
    <2>5. Append(h0, 0) = h1
      <3>1. Append(Jtag!Zeros((w + k) - 1), 0) = Jtag!Zeros(((w + k) - 1) + 1) BY <2>1, ZerosGrow
      <3> QED BY <2>1, <3>1
    <2>6. Leaves(ShiftOf("dr", h0, <<>>, d), codes) = g[k] BY <1>0, <2>1, NextBit DEF w, g, codes
    <2>7. Append(b0, g[k]) = b1 BY <2>1, FirstGrows
    <2> HIDE DEF f, h0, h1, b0, b1
    <2>8. Sampled(o, <<"shift", "dr">>, h0, <<>>, d, b0, codes) = b1
      <3>1. Sampled(o, <<"shift", "dr">>, h0, <<>>, d, b0, codes)
              = Append(b0, Leaves(ShiftOf("dr", h0, <<>>, d), codes))
        BY <1>3 DEF Sampled, ShiftOf
      <3> QED BY <2>6, <2>7, <3>1
    <2> DEFINE i == <<>>
               s0 == <<"shift", "dr">>
    <2>9. s0 = IF o.tms = 1 THEN <<"exit1", "dr">> ELSE <<"shift", "dr">> BY <1>3
    <2> HIDE DEF i, s0
    <2>10. Ticked(o, State(<<"shift", "dr">>, h0, i, d, b0), codes)
             = State(s0, Append(h0, o.tdi), i, d, Sampled(o, <<"shift", "dr">>, h0, i, d, b0, codes))
      BY <1>0, <1>3, <2>9, Shifting
    <2>11. Append(h0, o.tdi) = h1 BY <1>3, <2>5
    <2>12. Ticked(o, State(<<"shift", "dr">>, h0, i, d, b0), codes) = State(s0, h1, i, d, b1)
      BY <2>8, <2>10, <2>11 DEF i
    <2> QED BY <2>2, <2>3, <2>4, <2>12 DEF i, s0
  <1>8. Along(f, q, 0, codes) BY <1>6, <1>7 DEF Along
  <1>9. f[0] = State(<<"shift", "dr">>, Jtag!Zeros(w), <<>>, d, <<>>)
    <2>1. w + 0 = w /\ 0 \in 0 .. n BY <1>0, <1>1
    <2>2. f[0] = State(<<"shift", "dr">>, Jtag!Zeros(w + 0), <<>>, d, First(g, 0)) BY <2>1
    <2>3. First(g, 0) = <<>> BY FirstNone
    <2> HIDE DEF f
    <2> QED BY <2>1, <2>2, <2>3
  <1>10. f[n] = State(<<"shift", "dr">>, Jtag!Zeros(w + n), <<>>, d, First(g, n))
    <2>1. n \in 0 .. n BY <1>0
    <2> QED BY <2>1
  <1> HIDE DEF f
  <1>11. Path(q, 0, State(<<"shift", "dr">>, Jtag!Zeros(w), <<>>, d, <<>>),
              State(<<"shift", "dr">>, Jtag!Zeros(w + n), <<>>, d, First(g, n)), codes)
    BY <1>6, <1>8, <1>9, <1>10 DEF Path
  <1> QED BY <1>1, <1>5, <1>6, <1>11 DEF q, w, g, codes

LEMMA CodeIs ==
  ASSUME NEW c \in Seq(Jtag!Bits(CodeBits)), NEW k \in Nat \ {0}
  PROVE  /\ Code(c, k) \in Jtag!Bits(CodeBits) /\ Code(c, k) \in Seq(Jtag!Bit) /\ Len(Code(c, k)) = CodeBits
         /\ First(Code(c, k), CodeBits) = Code(c, k)
  <1>1. CodeBits \in Nat BY JtagSizes DEF Jtag!JtagAssumption
  <1>2. Code(c, k) \in Jtag!Bits(CodeBits)
    <2>1. CASE k <= Len(c)
      <3>1. k \in 1 .. Len(c) BY <2>1
      <3> QED BY <2>1, <3>1 DEF Code
    <2>2. CASE ~(k <= Len(c)) BY <2>2 DEF Code, Jtag!Bits, Jtag!Zeros, Jtag!Bit
    <2> QED BY <2>1, <2>2
  <1> QED BY <1>1, <1>2, BitsAre

\* What is shifted out while no more than the register holds is shifted in is the register.
LEMMA ShownIs ==
  ASSUME NEW n \in Nat, n <= Len(Held), NEW data \in Jtag!Bits(n), NEW i, i # <<>>, NEW d, NEW codes
  PROVE  Shown(data, n, "dr", i, d, codes) = SubSeq(Held, 1, n)
  <1> DEFINE g == Shown(data, n, "dr", i, d, codes)
             s == SubSeq(Held, 1, n)
  <1>1. Held \in Seq(Jtag!Bit) /\ Len(Held) \in Nat BY JtagSizes DEF Jtag!JtagAssumption
  <1>2. data \in Seq(Jtag!Bit) /\ Len(data) = n BY BitsAre
  <1>3. s = [k \in 1 .. n |-> Held[k]] BY <1>1
  <1>4. ASSUME NEW k \in 1 .. n PROVE g[k] = Held[k]
    <2> DEFINE h == First(data, k - 1)
               t == ShiftOf("dr", h, i, d)
               all == Held \o h
    <2>1. h \in Seq(Jtag!Bit) /\ Len(h) = k - 1
      <3>1. k - 1 \in Nat /\ data \in [1 .. n -> Jtag!Bit] BY DEF Jtag!Bits
      <3>2. h \in [1 .. k - 1 -> Jtag!Bit] BY <3>1 DEF First
      <3> HIDE DEF h
      <3>3. h \in Seq(Jtag!Bit) BY <3>1, <3>2, SeqDef
      <3> QED BY <3>1, <3>2, <3>3, LenProperties
    <2>2. g[k] = Leaves(t, codes) BY DEF Shown
    <2>3. t.shift = h /\ t.ir = i BY DEF ShiftOf
    <2> HIDE DEF h, t, g
    <2>4. Register(t, codes) = Held BY <2>3 DEF Register
    <2>5. Len(t.shift) + 1 = k /\ k <= Len(Held) BY <1>1, <2>1, <2>3
    <2>6. Len(all) = Len(Held) + (k - 1) /\ \A j \in 1 .. Len(Held) : all[j] = Held[j]
      <3>1. Len(all) = Len(Held) + Len(h) BY <1>1, <2>1, ConcatProperties
      <3>2. \A j \in 1 .. Len(Held) + Len(h) : all[j] = IF j <= Len(Held) THEN Held[j] ELSE h[j - Len(Held)]
        BY <1>1, <2>1, ConcatProperties
      <3>3. Len(Held) + Len(h) \in Nat /\ Len(Held) <= Len(Held) + Len(h) BY <1>1, <2>1
      <3> HIDE DEF all
      <3> QED BY <1>1, <2>1, <3>1, <3>2, <3>3
    <2> HIDE DEF all
    <2>7. k <= Len(all) /\ all[k] = Held[k] BY <1>1, <2>5, <2>6
    <2>8. Leaves(t, codes) = IF k <= Len(all) THEN all[k] ELSE 0
      BY <2>3, <2>4, <2>5 DEF Leaves, all
    <2> QED BY <2>2, <2>7, <2>8
  <1>5. g = [k \in 1 .. n |-> Held[k]] BY <1>4 DEF Shown
  <1> QED BY <1>3, <1>5

LEMMA ShownBits ==
  ASSUME NEW n \in Nat, NEW data \in Jtag!Bits(n), NEW i, NEW d, NEW codes \in Seq(Jtag!Bit)
  PROVE  Shown(data, n, "dr", i, d, codes) \in Seq(Jtag!Bit) /\ Len(Shown(data, n, "dr", i, d, codes)) = n
  <1> DEFINE g == Shown(data, n, "dr", i, d, codes)
  <1>1. ASSUME NEW k \in 1 .. n PROVE g[k] \in Jtag!Bit
    <2> DEFINE h == First(data, k - 1)
               t == ShiftOf("dr", h, i, d)
    <2>1. h \in Seq(Jtag!Bit)
      <3>1. k - 1 \in Nat /\ data \in [1 .. n -> Jtag!Bit] BY DEF Jtag!Bits
      <3>2. h \in [1 .. k - 1 -> Jtag!Bit] BY <3>1 DEF First
      <3> HIDE DEF h
      <3> QED BY <3>1, <3>2, SeqDef
    <2>2. g[k] = Leaves(t, codes) BY DEF Shown
    <2>3. t.shift = h BY DEF ShiftOf
    <2> HIDE DEF h, t, g
    <2> QED BY <2>1, <2>2, <2>3, LeavesBit
  <1>2. g = [k \in 1 .. n |-> g[k]] BY DEF Shown
  <1> HIDE DEF g
  <1>3. g \in [1 .. n -> Jtag!Bit] BY <1>1, <1>2
  <1>4. g \in Seq(Jtag!Bit) BY <1>3, SeqDef
  <1>5. Len(g) = n BY <1>3, <1>4, LenProperties
  <1> QED BY <1>4, <1>5 DEF g

-----------------------------------------------------------------------------
(* The invariant *)

Now == [tap |-> tap, bits |-> bits]
Unanswered == [tap |-> tap, bits |-> <<>>]
Rested(h, b) == State(Jtag!Run, h, wanted.ir, wanted.dr, b)
Scanning(d) ==
  State(<<"shift", "dr">>, Jtag!Zeros((Len(result) + 1) * CodeBits), <<>>, d, Code(chain, Len(result) + 1))

WellTyped ==
  /\ clocks \in Seq(Clock) /\ sent \in 0 .. Len(clocks) /\ bits \in Seq(Jtag!Bit) /\ tap.shift \in Seq(Jtag!Bit)
  /\ flush \in {"idle", "flush", "exit"} /\ job \in {"none", "read", "scan"} /\ ready \in BOOLEAN
  /\ Len(result) <= IF ready THEN Len(Held) ELSE MaxChain
  /\ chain \in Chains /\ wanted = [ir |-> wanted.ir, dr |-> wanted.dr]

Resting ==
  /\ sent = 0 /\ job = "none"
  /\ IF ready THEN \E h : Path(clocks, 0, Unanswered, Rested(h, <<>>), Codes(chain))
     ELSE clocks = <<>> /\ tap \in FirstTaps

ReadsBack(b) ==
  /\ Len(b) = Len(wanted.dr) /\ Len(wanted.dr) <= Len(Held)
  /\ wanted.ir # <<>> => b = SubSeq(Held, 1, Len(wanted.dr))

FlushLeadsTo(y) == Path(clocks, sent, Now, y, Codes(chain))
Registering ==
  /\ job \in {"none", "read"}
  /\ \E h, b : FlushLeadsTo(Rested(h, b)) /\ (job = "read" => ReadsBack(b))

FoundSoFar == Len(result) <= Len(chain) /\ result = SubSeq(chain, 1, Len(result))
Identifying ==
  /\ job = "scan" /\ Len(result) < MaxChain /\ FoundSoFar
  /\ \E d : FlushLeadsTo(Scanning(d))

Flushing == sent < Len(clocks) /\ IF ready THEN Registering ELSE Identifying

JtagInv == WellTyped /\ (flush = "idle" => Resting) /\ (flush = "flush" => Flushing)

LEMMA ChainIs ==
  ASSUME chain \in Chains
  PROVE  chain \in Seq(Jtag!Bits(CodeBits)) /\ Codes(chain) \in Seq(Jtag!Bit) /\ Len(chain) \in Nat
         /\ \A k \in 1 .. Len(chain) : Jtag!IsDevice(chain[k])
  <1>1. chain \in Seq(Jtag!Bits(CodeBits)) /\ \A k \in 1 .. Len(chain) : chain[k] # Jtag!Zeros(CodeBits)
    BY JtagSizes DEF Jtag!JtagAssumption
  <1>2. Codes(chain) \in Seq(Jtag!Bit) BY <1>1, CodesAre DEF CodesOf
  <1> QED BY <1>1, <1>2 DEF Jtag!IsDevice

\* What a packet leaves: the clocks after it lead where they led before.
LEMMA PacketIs ==
  ASSUME WellTyped, sent < Len(clocks), NEW y, FlushLeadsTo(y)
  PROVE  /\ Jtag!AfterPacket \in sent + 1 .. Len(clocks)
         /\ Path(clocks, Jtag!AfterPacket, Jtag!AllPerformed, y, Codes(chain))
         /\ Jtag!AfterPacket = Len(clocks) => Jtag!AllPerformed = y
         /\ Typed(Jtag!AllPerformed)
         /\ Jtag!AllPerformed = [tap |-> Jtag!AllPerformed.tap, bits |-> Jtag!AllPerformed.bits]
  <1> DEFINE n == Len(clocks)
             codes == Codes(chain)
  <1>0. /\ clocks \in Seq(Clock) /\ sent \in 0 .. n /\ n \in Nat /\ codes \in Seq(Jtag!Bit)
    BY ChainIs DEF WellTyped
  <1>1. PICK f : f[sent] = Now /\ f[n] = y /\ Along(f, clocks, sent, codes)
    BY DEF FlushLeadsTo, Path
  <1>2. Jtag!AfterPacket \in sent + 1 .. n /\ Jtag!AllPerformed = f[Jtag!AfterPacket]
    BY <1>0, <1>1, AllPerformedIs DEF Now
  <1> HIDE DEF codes, n
  <1>3. Jtag!AfterPacket \in Nat /\ Jtag!AfterPacket \in sent .. n BY <1>0, <1>2
  <1>4. Along(f, clocks, Jtag!AfterPacket, codes)
    <2>1. ASSUME NEW i \in Jtag!AfterPacket + 1 .. Len(clocks) PROVE f[i] = Ticked(clocks[i], f[i - 1], codes)
      <3>1. i \in sent + 1 .. Len(clocks) BY <1>0, <1>3
      <3> QED BY <1>1, <3>1 DEF Along
    <2> QED BY <2>1 DEF Along
  <1>5. Path(clocks, Jtag!AfterPacket, Jtag!AllPerformed, y, codes) BY <1>1, <1>2, <1>4 DEF Path, n
  <1>6. Typed(f[sent]) BY <1>1 DEF Typed, Now, WellTyped
  <1>7. Typed(f[Jtag!AfterPacket]) BY <1>0, <1>1, <1>3, <1>6, PathTyped DEF n
  <1>8. f[Jtag!AfterPacket] = [tap |-> f[Jtag!AfterPacket].tap, bits |-> f[Jtag!AfterPacket].bits]
    <2>1. Jtag!AfterPacket \in sent + 1 .. Len(clocks) BY <1>2 DEF n
    <2>2. f[Jtag!AfterPacket] = Ticked(clocks[Jtag!AfterPacket], f[Jtag!AfterPacket - 1], codes) BY <1>1, <2>1 DEF Along
    <2> QED BY <2>2 DEF Ticked
  <1> QED BY <1>1, <1>2, <1>5, <1>7, <1>8 DEF n, codes

\* Nothing queued, nothing moved.
LEMMA NothingQueued ==
  ASSUME NEW x, NEW y, NEW codes, Path(<<>>, 0, x, y, codes) PROVE x = y
  <1>1. Len(<<>>) = 0 OBVIOUS
  <1> QED BY <1>1 DEF Path

ToCode == Jtag!Clk(1, 1) \o Jtag!Clk(1, 0) \o Jtag!Clk(1, 0)

LEMMA StartPath ==
  ASSUME NEW t \in FirstTaps, NEW c \in Seq(Jtag!Bits(CodeBits))
  PROVE  LET q == Jtag!ResetClocks \o Jtag!Clk(1, 1) \o Jtag!Clk(1, 0) \o Jtag!Clk(1, 0) \o Jtag!ScanCode
         IN  /\ q \in Seq(Clock) /\ Len(q) > 0
             /\ \E d : Path(q, 0, [tap |-> t, bits |-> <<>>],
                            State(<<"shift", "dr">>, Jtag!Zeros((0 + 1) * CodeBits), <<>>, d, Code(c, 0 + 1)),
                            Codes(c))
  <1> DEFINE codes == Codes(c)
             a == Jtag!Clk(1, 1)
             b == Jtag!Clk(1, 0)
             r == Jtag!ResetClocks
             x == [tap |-> t, bits |-> <<>>]
             q == (r \o (a \o b \o b)) \o Jtag!ScanCode
  <1>0. 0 \in Jtag!Bit /\ 1 \in Jtag!Bit /\ CodeBits \in Nat \ {0} /\ CodeBits \in Nat
    BY JtagSizes DEF Jtag!JtagAssumption, Jtag!Bit
  <1>1. PICK h, d : Path(r, 0, x, State(Jtag!Run, h, <<>>, d, <<>>), codes) BY ResetPath
  <1>2. r \in Seq(Clock) BY ResetPath
  <1>3. a \in Seq(Clock) /\ b \in Seq(Clock) BY <1>0, ClkIs
  <1>4. /\ a \o b \o b \in Seq(Clock)
        /\ Path(a \o b \o b, 0, State(Jtag!Run, h, <<>>, d, <<>>),
                State(<<"shift", "dr">>, <<>>, <<>>, d, <<>>), codes)
    BY <1>0, ToShiftDr
  <1>5. Jtag!ScanCode \in Seq(Clock) /\ Len(Jtag!ScanCode) = CodeBits
        /\ Path(Jtag!ScanCode, 0, State(<<"shift", "dr">>, Jtag!Zeros(0 * CodeBits), <<>>, d, <<>>),
                State(<<"shift", "dr">>, Jtag!Zeros((0 + 1) * CodeBits), <<>>, d, First(Code(c, 0 + 1), CodeBits)),
                codes)
    BY <1>0, ScanPath
  <1>6. Jtag!Zeros(0 * CodeBits) = <<>>
    <2>1. 0 * CodeBits = 0 BY <1>0, Product
    <2>2. Jtag!Zeros(0) = <<>> BY DEF Jtag!Zeros
    <2> QED BY <2>1, <2>2
  <1>7. First(Code(c, 0 + 1), CodeBits) = Code(c, 0 + 1)
    <2>1. 0 + 1 \in Nat \ {0} OBVIOUS
    <2> QED BY <2>1, CodeIs
  <1> DEFINE z == State(<<"shift", "dr">>, Jtag!Zeros((0 + 1) * CodeBits), <<>>, d, Code(c, 0 + 1))
             y == State(<<"shift", "dr">>, <<>>, <<>>, d, <<>>)
             s == a \o b \o b
  <1>8. Path(Jtag!ScanCode, 0, y, z, codes) BY <1>5, <1>6, <1>7
  <1>9. r \o a \o b \o b = r \o s
    <2> HIDE DEF a, b, r
    <2>1. a \o b \in Seq(Clock) /\ r \o a \in Seq(Clock) BY <1>2, <1>3
    <2>2. (r \o a) \o b = r \o (a \o b) BY <1>2, <1>3, ConcatAssociative
    <2>3. (r \o (a \o b)) \o b = r \o ((a \o b) \o b) BY <1>2, <1>3, <2>1, ConcatAssociative
    <2> QED BY <2>2, <2>3
  <1>10. s \in Seq(Clock) BY <1>4
  <1> HIDE DEF codes, x, y, z, a, b, s, r
  <1>11. Path(r \o s, 0, x, y, codes) /\ r \o s \in Seq(Clock)
    <2>1. Path(s, 0, State(Jtag!Run, h, <<>>, d, <<>>), y, codes) BY <1>4 DEF s, y
    <2>2. 0 \in 0 .. Len(r) BY <1>2
    <2> QED BY <1>1, <1>2, <1>10, <2>1, <2>2, PathJoins
  <1>12. Path((r \o s) \o Jtag!ScanCode, 0, x, z, codes) /\ (r \o s) \o Jtag!ScanCode \in Seq(Clock)
         /\ Len((r \o s) \o Jtag!ScanCode) > 0
    <2>1. 0 \in 0 .. Len(r \o s) /\ Len(r \o s) \in Nat BY <1>11
    <2>2. Len((r \o s) \o Jtag!ScanCode) = Len(r \o s) + Len(Jtag!ScanCode) BY <1>5, <1>11, Longer
    <2>3. Len((r \o s) \o Jtag!ScanCode) > 0 BY <1>0, <1>5, <2>1, <2>2
    <2>4. (r \o s) \o Jtag!ScanCode \in Seq(Clock) BY <1>5, <1>11, Longer
    <2> QED BY <1>5, <1>8, <1>11, <2>1, <2>3, <2>4, PathJoins
  <1> QED BY <1>9, <1>12 DEF r, a, b, s, x, z, codes

LEMMA JtagInvInit == Jtag!Init => JtagInv
  <1> SUFFICES ASSUME Jtag!Init PROVE JtagInv OBVIOUS
  <1>1. Len(<<>>) = 0 /\ <<>> \in Seq(Clock) /\ <<>> \in Seq(Jtag!Bit) OBVIOUS
  <1>2. MaxChain \in Nat BY JtagSizes DEF Jtag!JtagAssumption
  <1>3. tap \in FirstTaps BY DEF Jtag!Init, FirstTaps
  <1>4. tap.shift = <<>> BY DEF Jtag!Init
  <1>5. WellTyped
    <2>1. wanted = [ir |-> wanted.ir, dr |-> wanted.dr] BY DEF Jtag!Init
    <2>2. Len(result) <= IF ready THEN Len(Held) ELSE MaxChain BY <1>1, <1>2 DEF Jtag!Init
    <2>3. clocks \in Seq(Clock) /\ Len(clocks) = 0 /\ sent = 0 /\ bits \in Seq(Jtag!Bit) /\ tap.shift \in Seq(Jtag!Bit)
      BY <1>1, <1>4 DEF Jtag!Init
    <2>4. sent \in 0 .. Len(clocks) BY <2>3
    <2> QED BY <2>1, <2>2, <2>3, <2>4 DEF Jtag!Init, WellTyped
  <1>6. Resting BY <1>3 DEF Jtag!Init, Resting
  <1> QED BY <1>5, <1>6 DEF JtagInv, Jtag!Init

\* What only queues.
LEMMA QueueKeeps ==
  ASSUME JtagInv, NEW more \in Seq(Clock), NEW want, want = [ir |-> want.ir, dr |-> want.dr],
         Jtag!Queue(more, want),
         \A h : \E g : Path(more, 0, Rested(h, <<>>), State(Jtag!Run, g, want.ir, want.dr, <<>>), Codes(chain))
  PROVE  JtagInv'
  <1>1. /\ flush = "idle" /\ ready /\ clocks' = clocks \o more /\ wanted' = want
        /\ UNCHANGED <<sent, bits, job, flush, result, ready, chain, tap>>
    BY DEF Jtag!Queue
  <1>2. WellTyped /\ Resting BY <1>1 DEF JtagInv
  <1>3. clocks' \in Seq(Clock) BY <1>1, <1>2 DEF WellTyped
  <1>4. sent' = 0 /\ 0 \in 0 .. Len(clocks') BY <1>1, <1>2, <1>3 DEF Resting
  <1>5. WellTyped' BY <1>1, <1>2, <1>3, <1>4 DEF WellTyped
  <1>6. PICK h : Path(clocks, 0, Unanswered, Rested(h, <<>>), Codes(chain)) BY <1>1, <1>2 DEF Resting
  <1>7. PICK g : Path(more, 0, Rested(h, <<>>), State(Jtag!Run, g, want.ir, want.dr, <<>>), Codes(chain))
    OBVIOUS
  <1>8. 0 \in 0 .. Len(clocks) /\ clocks \in Seq(Clock) BY <1>2 DEF WellTyped
  <1>9. Path(clocks \o more, 0, Unanswered, State(Jtag!Run, g, want.ir, want.dr, <<>>), Codes(chain))
    BY <1>6, <1>7, <1>8, PathJoins
  <1>10. Unanswered' = Unanswered /\ chain' = chain BY <1>1 DEF Unanswered
  <1>11. Path(clocks', 0, Unanswered', Rested(g, <<>>)', Codes(chain)') BY <1>1, <1>9, <1>10 DEF Rested
  <1>12. Resting' BY <1>1, <1>2, <1>11 DEF Resting
  <1> QED BY <1>1, <1>5, <1>12 DEF JtagInv

LEMMA WriteIrKeeps ==
  ASSUME JtagInv, Jtag!WriteIr PROVE JtagInv'
  <1>1. PICK ir \in Jtag!Bits(IrLength) : Jtag!Queue(Jtag!WriteIrClocks(ir), [wanted EXCEPT !.ir = ir])
    BY DEF Jtag!WriteIr
  <1> DEFINE want == [wanted EXCEPT !.ir = ir]
             more == Jtag!WriteIrClocks(ir)
  <1>2. wanted = [ir |-> wanted.ir, dr |-> wanted.dr] BY DEF JtagInv, WellTyped
  <1>3. want = [ir |-> ir, dr |-> wanted.dr] BY <1>2
  <1>4. want.ir = ir /\ want.dr = wanted.dr /\ want = [ir |-> want.ir, dr |-> want.dr] BY <1>3
  <1> HIDE DEF want
  <1>5. ASSUME NEW h
        PROVE  Path(more, 0, Rested(h, <<>>), State(Jtag!Run, <<>>, want.ir, want.dr, <<>>), Codes(chain))
    <2>1. Path(more, 0, State(Jtag!Run, h, wanted.ir, wanted.dr, <<>>), State(Jtag!Run, <<>>, ir, wanted.dr, <<>>), Codes(chain))
      BY WriteIrPath
    <2> QED BY <1>4, <2>1 DEF Rested
  <1>6. more \in Seq(Clock) BY WriteIrPath
  <1> HIDE DEF more
  <1>7. Jtag!Queue(more, want) BY <1>1 DEF more, want
  <1>8. \A h : \E g : Path(more, 0, Rested(h, <<>>), State(Jtag!Run, g, want.ir, want.dr, <<>>), Codes(chain))
    BY <1>5
  <1> QED BY <1>4, <1>6, <1>7, <1>8, QueueKeeps

LEMMA ShiftsAre ==
  ASSUME NEW n \in Shifts
  PROVE  n \in Nat \ {0} /\ n <= Len(Held) /\ Jtag!Zeros(n) \in Jtag!Bits(n) /\ Len(Jtag!Zeros(n)) = n
  <1>1. n \in Nat \ {0} /\ n <= Len(Held) BY JtagSizes DEF Jtag!JtagAssumption
  <1>2. Jtag!Zeros(n) \in Jtag!Bits(n) BY DEF Jtag!Zeros, Jtag!Bits, Jtag!Bit
  <1> QED BY <1>1, <1>2, ZerosAre

LEMMA WriteDrKeeps ==
  ASSUME JtagInv, Jtag!WriteDr PROVE JtagInv'
  <1>0. PICK n \in Shifts : \E data \in Jtag!Bits(n) : Jtag!Queue(Jtag!DrClocks(data, 0), [wanted EXCEPT !.dr = data])
    BY DEF Jtag!WriteDr
  <1>1. PICK data \in Jtag!Bits(n) : Jtag!Queue(Jtag!DrClocks(data, 0), [wanted EXCEPT !.dr = data]) BY <1>0
  <1> DEFINE want == [wanted EXCEPT !.dr = data]
             more == Jtag!DrClocks(data, 0)
  <1>2. wanted = [ir |-> wanted.ir, dr |-> wanted.dr] BY DEF JtagInv, WellTyped
  <1>3. want = [ir |-> wanted.ir, dr |-> data] BY <1>2
  <1>4. want.ir = wanted.ir /\ want.dr = data /\ want = [ir |-> want.ir, dr |-> want.dr] BY <1>3
  <1> HIDE DEF want
  <1>5. n \in Nat \ {0} /\ 0 \in Jtag!Bit BY ShiftsAre DEF Jtag!Bit
  <1>6. ASSUME NEW h
        PROVE  Path(more, 0, Rested(h, <<>>), State(Jtag!Run, <<>>, want.ir, want.dr, <<>>), Codes(chain))
    <2> DEFINE e == IF 0 = 1 THEN Shown(data, n, "dr", wanted.ir, wanted.dr, Codes(chain)) ELSE <<>>
    <2>1. Path(more, 0, State(Jtag!Run, h, wanted.ir, wanted.dr, <<>>), State(Jtag!Run, <<>>, wanted.ir, data, e), Codes(chain))
      BY <1>5, DrPath
    <2>2. e = <<>> OBVIOUS
    <2> HIDE DEF e, more
    <2> QED BY <1>4, <2>1, <2>2 DEF Rested
  <1>7. more \in Seq(Clock) BY <1>5, DrPath
  <1> HIDE DEF more
  <1>8. Jtag!Queue(more, want) BY <1>1 DEF more, want
  <1>9. \A h : \E g : Path(more, 0, Rested(h, <<>>), State(Jtag!Run, g, want.ir, want.dr, <<>>), Codes(chain))
    BY <1>6
  <1> QED BY <1>4, <1>7, <1>8, <1>9, QueueKeeps

LEMMA IdleKeeps ==
  ASSUME JtagInv, Jtag!Idle PROVE JtagInv'
  <1> DEFINE more == Jtag!Repeat(2, Jtag!Clk(0, 0))
  <1>1. wanted = [ir |-> wanted.ir, dr |-> wanted.dr] BY DEF JtagInv, WellTyped
  <1>2. ASSUME NEW h
        PROVE  Path(more, 0, Rested(h, <<>>), State(Jtag!Run, h, wanted.ir, wanted.dr, <<>>), Codes(chain))
    BY IdlePath DEF Rested
  <1>3. more \in Seq(Clock) BY IdlePath
  <1>4. Jtag!Queue(more, wanted) BY DEF Jtag!Idle
  <1> HIDE DEF more
  <1>5. \A h : \E g : Path(more, 0, Rested(h, <<>>), State(Jtag!Run, g, wanted.ir, wanted.dr, <<>>), Codes(chain))
    BY <1>2
  <1> QED BY <1>1, <1>3, <1>4, <1>5, QueueKeeps

LEMMA FlushKeeps ==
  ASSUME JtagInv, Jtag!Flush PROVE JtagInv'
  <1>1. /\ flush = "idle" /\ clocks # <<>> /\ clocks' = clocks /\ flush' = "flush"
        /\ sent' = 0 /\ bits' = <<>> /\ job' = "none" /\ result' = <<>>
        /\ UNCHANGED <<ready, chain, tap, wanted>>
    BY DEF Jtag!Flush, Jtag!BeginFlush
  <1>2. WellTyped /\ Resting BY <1>1 DEF JtagInv
  <1>3. ready BY <1>1, <1>2 DEF Resting
  <1>4. Len(clocks) > 0 /\ 0 \in 0 .. Len(clocks) BY <1>1, <1>2 DEF WellTyped
  <1>5. WellTyped'
    <2>1. Len(<<>>) = 0 /\ <<>> \in Seq(Jtag!Bit) OBVIOUS
    <2>2. MaxChain \in Nat /\ Len(Held) \in Nat BY JtagSizes DEF Jtag!JtagAssumption
    <2>3. Len(result') <= IF ready' THEN Len(Held) ELSE MaxChain BY <1>1, <2>1, <2>2
    <2> QED BY <1>1, <1>2, <1>4, <2>1, <2>3 DEF WellTyped
  <1>6. PICK h : Path(clocks, 0, Unanswered, Rested(h, <<>>), Codes(chain)) BY <1>2, <1>3 DEF Resting
  <1>7. Now' = Unanswered /\ Rested(h, <<>>)' = Rested(h, <<>>) /\ chain' = chain BY <1>1 DEF Now, Unanswered, Rested
  <1>8. FlushLeadsTo(Rested(h, <<>>))' BY <1>1, <1>6, <1>7 DEF FlushLeadsTo
  <1>9. Flushing' BY <1>1, <1>3, <1>4, <1>8 DEF Flushing, Registering
  <1> QED BY <1>1, <1>5, <1>9 DEF JtagInv

LEMMA ReadDrKeeps ==
  ASSUME JtagInv, Jtag!ReadDr PROVE JtagInv'
  <1>1. PICK n \in Shifts : /\ Jtag!BeginFlush(clocks \o Jtag!DrClocks(Jtag!Zeros(n), 1), "read")
                            /\ wanted' = [wanted EXCEPT !.dr = Jtag!Zeros(n)]
    BY DEF Jtag!ReadDr
  <1> DEFINE more == Jtag!DrClocks(Jtag!Zeros(n), 1)
  <1>2. flush = "idle" /\ ready /\ UNCHANGED <<ready, chain, tap>> BY DEF Jtag!ReadDr
  <1>3. WellTyped /\ Resting BY <1>2 DEF JtagInv
  <1>4. n \in Nat \ {0} /\ n <= Len(Held) /\ Jtag!Zeros(n) \in Jtag!Bits(n) /\ Len(Jtag!Zeros(n)) = n /\ 1 \in Jtag!Bit
    BY ShiftsAre DEF Jtag!Bit
  <1>5. more \in Seq(Clock) /\ Len(more) = n + 5 BY <1>4, DrPath
  <1>6. clocks \in Seq(Clock) /\ 0 \in 0 .. Len(clocks) /\ Len(clocks) \in Nat BY <1>3 DEF WellTyped
  <1> HIDE DEF more
  <1>7. clocks \o more \in Seq(Clock) /\ Len(clocks \o more) = Len(clocks) + Len(more)
    BY <1>5, <1>6, Longer
  <1>8. Len(clocks \o more) > 0 /\ clocks \o more # <<>>
    <2>1. Len(clocks \o more) > 0 BY <1>4, <1>5, <1>6, <1>7
    <2> QED BY <2>1
  <1>9. /\ clocks' = clocks \o more /\ flush' = "flush"
        /\ sent' = 0 /\ bits' = <<>> /\ job' = "read" /\ result' = <<>>
    BY <1>1, <1>8 DEF Jtag!BeginFlush, more
  <1>10. wanted' = [ir |-> wanted.ir, dr |-> Jtag!Zeros(n)]
    <2>1. wanted = [ir |-> wanted.ir, dr |-> wanted.dr] BY <1>3 DEF WellTyped
    <2> QED BY <1>1, <2>1
  <1>11. wanted'.ir = wanted.ir /\ wanted'.dr = Jtag!Zeros(n) /\ wanted' = [ir |-> wanted'.ir, dr |-> wanted'.dr]
    BY <1>10
  <1>12. WellTyped'
    <2>1. Len(<<>>) = 0 /\ <<>> \in Seq(Jtag!Bit) OBVIOUS
    <2>2. MaxChain \in Nat /\ Len(Held) \in Nat BY JtagSizes DEF Jtag!JtagAssumption
    <2>3. Len(result') <= IF ready' THEN Len(Held) ELSE MaxChain BY <1>9, <2>1, <2>2
    <2>4. 0 \in 0 .. Len(clocks') BY <1>7, <1>8, <1>9
    <2> QED BY <1>2, <1>3, <1>7, <1>9, <1>11, <2>1, <2>3, <2>4 DEF WellTyped
  <1>13. PICK h : Path(clocks, 0, Unanswered, Rested(h, <<>>), Codes(chain)) BY <1>2, <1>3 DEF Resting
  <1>21. PICK b : b = Shown(Jtag!Zeros(n), n, "dr", wanted.ir, wanted.dr, Codes(chain)) OBVIOUS
  <1>14. Path(more, 0, Rested(h, <<>>), State(Jtag!Run, <<>>, wanted.ir, Jtag!Zeros(n), b), Codes(chain))
    <2> DEFINE e == IF 1 = 1 THEN b ELSE <<>>
    <2>1. Path(more, 0, State(Jtag!Run, h, wanted.ir, wanted.dr, <<>>), State(Jtag!Run, <<>>, wanted.ir, Jtag!Zeros(n), e), Codes(chain))
      BY <1>4, <1>21, DrPath DEF more
    <2>2. e = b OBVIOUS
    <2> HIDE DEF e
    <2> QED BY <2>1, <2>2 DEF Rested
  <1>15. Len(b) = n BY <1>3, <1>4, <1>21, ChainIs, ShownBits DEF WellTyped
  <1>16. wanted.ir # <<>> => b = SubSeq(Held, 1, n) BY <1>4, <1>21, ShownIs
  <1>17. Path(clocks \o more, 0, Unanswered, State(Jtag!Run, <<>>, wanted.ir, Jtag!Zeros(n), b), Codes(chain))
    BY <1>5, <1>6, <1>13, <1>14, PathJoins
  <1>18. Now' = Unanswered /\ chain' = chain /\ Rested(<<>>, b)' = State(Jtag!Run, <<>>, wanted.ir, Jtag!Zeros(n), b)
    BY <1>2, <1>9, <1>11 DEF Now, Unanswered, Rested
  <1>19. FlushLeadsTo(Rested(<<>>, b))' BY <1>9, <1>17, <1>18 DEF FlushLeadsTo
  <1>20. ReadsBack(b)' BY <1>4, <1>11, <1>15, <1>16 DEF ReadsBack
  <1>22. Flushing' BY <1>2, <1>7, <1>8, <1>9, <1>19, <1>20 DEF Flushing, Registering
  <1> QED BY <1>9, <1>12, <1>22 DEF JtagInv

LEMMA ScanChainKeeps ==
  ASSUME JtagInv, Jtag!ScanChain PROVE JtagInv'
  <1> DEFINE q == Jtag!ResetClocks \o Jtag!Clk(1, 1) \o Jtag!Clk(1, 0) \o Jtag!Clk(1, 0) \o Jtag!ScanCode
  <1>1. flush = "idle" /\ ~ready /\ UNCHANGED <<ready, chain, tap, wanted>> BY DEF Jtag!ScanChain
  <1>2. WellTyped /\ Resting BY <1>1 DEF JtagInv
  <1>3. tap \in FirstTaps BY <1>1, <1>2 DEF Resting
  <1>4. chain \in Seq(Jtag!Bits(CodeBits)) BY <1>2, ChainIs DEF WellTyped
  <1>5. q \in Seq(Clock) /\ Len(q) > 0
        /\ \E d : Path(q, 0, [tap |-> tap, bits |-> <<>>],
                       State(<<"shift", "dr">>, Jtag!Zeros((0 + 1) * CodeBits), <<>>, d, Code(chain, 0 + 1)),
                       Codes(chain))
    BY <1>3, <1>4, StartPath
  <1> HIDE DEF q
  <1>6. Jtag!BeginFlush(q, "scan") BY DEF Jtag!ScanChain, q
  <1>7. q # <<>> BY <1>5
  <1>8. clocks' = q /\ flush' = "flush" /\ sent' = 0 /\ bits' = <<>> /\ job' = "scan" /\ result' = <<>>
    BY <1>6, <1>7 DEF Jtag!BeginFlush
  <1>9. Len(<<>>) = 0 /\ <<>> \in Seq(Jtag!Bit) OBVIOUS
  <1>10. MaxChain \in Nat /\ MaxChain > 1 BY JtagSizes DEF Jtag!JtagAssumption
  <1>11. WellTyped'
    <2>1. Len(result') <= IF ready' THEN Len(Held) ELSE MaxChain BY <1>1, <1>8, <1>9, <1>10
    <2>2. 0 \in 0 .. Len(clocks') BY <1>5, <1>8
    <2> QED BY <1>1, <1>2, <1>5, <1>8, <1>9, <2>1, <2>2 DEF WellTyped
  <1>12. FoundSoFar'
    <2>1. SubSeq(chain, 1, 0) = <<>> BY <1>4
    <2>2. 0 <= Len(chain) BY <1>4
    <2> QED BY <1>1, <1>8, <1>9, <2>1, <2>2 DEF FoundSoFar
  <1>13. PICK d : Path(q, 0, [tap |-> tap, bits |-> <<>>],
                       State(<<"shift", "dr">>, Jtag!Zeros((0 + 1) * CodeBits), <<>>, d, Code(chain, 0 + 1)),
                       Codes(chain))
    BY <1>5
  <1>14. Now' = [tap |-> tap, bits |-> <<>>] /\ chain' = chain BY <1>1, <1>8 DEF Now
  <1>15. Scanning(d)' = State(<<"shift", "dr">>, Jtag!Zeros((0 + 1) * CodeBits), <<>>, d, Code(chain, 0 + 1))
    BY <1>8, <1>9, <1>14 DEF Scanning
  <1>16. FlushLeadsTo(Scanning(d))' BY <1>8, <1>13, <1>14, <1>15 DEF FlushLeadsTo
  <1>17. Flushing'
    BY <1>1, <1>5, <1>8, <1>9, <1>10, <1>12, <1>16 DEF Flushing, Identifying
  <1> QED BY <1>8, <1>11, <1>17 DEF JtagInv

\* A packet that is not the last one.
LEMMA PacketKeeps ==
  ASSUME JtagInv, Jtag!SendPacket, Jtag!AfterPacket < Len(clocks) PROVE JtagInv'
  <1> DEFINE n == Jtag!AfterPacket
  <1>1. /\ flush = "flush" /\ tap' = Jtag!AllPerformed.tap /\ bits' = Jtag!AllPerformed.bits /\ sent' = n
        /\ UNCHANGED <<clocks, job, flush, result, ready, chain, wanted>>
    BY DEF Jtag!SendPacket
  <1>2. WellTyped /\ Flushing BY <1>1 DEF JtagInv
  <1>3. sent < Len(clocks) BY <1>2 DEF Flushing
  <1>4. ASSUME NEW y, FlushLeadsTo(y)
        PROVE  /\ n \in sent + 1 .. Len(clocks) /\ Typed(Jtag!AllPerformed)
               /\ Path(clocks', sent', Now', y, Codes(chain'))
    <2>1. /\ n \in sent + 1 .. Len(clocks) /\ Typed(Jtag!AllPerformed)
          /\ Path(clocks, n, Jtag!AllPerformed, y, Codes(chain))
          /\ Jtag!AllPerformed = [tap |-> Jtag!AllPerformed.tap, bits |-> Jtag!AllPerformed.bits]
      BY <1>2, <1>3, <1>4, PacketIs
    <2>2. Now' = Jtag!AllPerformed BY <1>1, <2>1 DEF Now
    <2> QED BY <1>1, <2>1, <2>2
  <1>5. \E y : FlushLeadsTo(y) BY <1>2 DEF Flushing, Registering, Identifying
  <1>6. n \in sent + 1 .. Len(clocks) /\ Typed(Jtag!AllPerformed) BY <1>4, <1>5
  <1>7. sent \in Nat /\ n \in 0 .. Len(clocks) /\ n < Len(clocks)
    <2>1. sent \in Nat /\ Len(clocks) \in Nat BY <1>2 DEF WellTyped
    <2> HIDE DEF n
    <2>2. n \in 0 .. Len(clocks) BY <1>6, <2>1
    <2> QED BY <2>1, <2>2 DEF n
  <1>8. tap'.shift \in Seq(Jtag!Bit) /\ bits' \in Seq(Jtag!Bit) BY <1>1, <1>6 DEF Typed
  <1> HIDE DEF n
  <1>9. WellTyped' BY <1>1, <1>2, <1>7, <1>8 DEF WellTyped
  <1>10. CASE ready
    <2>1. PICK h, b : FlushLeadsTo(Rested(h, b)) /\ (job = "read" => ReadsBack(b))
      BY <1>2, <1>10 DEF Flushing, Registering
    <2>2. Rested(h, b)' = Rested(h, b) BY <1>1 DEF Rested
    <2>3. FlushLeadsTo(Rested(h, b))' BY <1>1, <1>4, <2>1, <2>2 DEF FlushLeadsTo
    <2>4. (job = "read" => ReadsBack(b))' BY <1>1, <2>1 DEF ReadsBack
    <2>5. job' \in {"none", "read"} BY <1>1, <1>2, <1>10 DEF Flushing, Registering
    <2>6. Registering' BY <2>3, <2>4, <2>5 DEF Registering
    <2> QED BY <1>1, <1>7, <1>9, <1>10, <2>6 DEF JtagInv, Flushing
  <1>11. CASE ~ready
    <2>1. job = "scan" /\ Len(result) < MaxChain /\ FoundSoFar /\ \E d : FlushLeadsTo(Scanning(d))
      BY <1>2, <1>11 DEF Flushing, Identifying
    <2>2. PICK d : FlushLeadsTo(Scanning(d)) BY <2>1
    <2>3. Scanning(d)' = Scanning(d) BY <1>1 DEF Scanning
    <2>4. FlushLeadsTo(Scanning(d))' BY <1>1, <1>4, <2>2, <2>3 DEF FlushLeadsTo
    <2>5. FoundSoFar' BY <1>1, <2>1 DEF FoundSoFar
    <2>6. job' = "scan" /\ Len(result') < MaxChain BY <1>1, <2>1
    <2>7. Identifying' BY <2>4, <2>5, <2>6 DEF Identifying
    <2> QED BY <1>1, <1>7, <1>9, <1>11, <2>7 DEF JtagInv, Flushing
  <1> QED BY <1>10, <1>11

\* The last packet leads to where the whole queue led.
LEMMA LastPacket ==
  ASSUME JtagInv, Jtag!SendPacket, ~(Jtag!AfterPacket < Len(clocks)), NEW y, FlushLeadsTo(y)
  PROVE  /\ tap' = y.tap /\ Jtag!AllPerformed.bits = y.bits
         /\ tap'.shift \in Seq(Jtag!Bit) /\ y.bits \in Seq(Jtag!Bit)
         /\ chain' = chain
  <1>1. flush = "flush" /\ tap' = Jtag!AllPerformed.tap /\ chain' = chain BY DEF Jtag!SendPacket
  <1>2. WellTyped /\ Flushing BY <1>1 DEF JtagInv
  <1>3. sent < Len(clocks) BY <1>2 DEF Flushing
  <1>4. /\ Jtag!AfterPacket \in sent + 1 .. Len(clocks) /\ Typed(Jtag!AllPerformed)
        /\ Jtag!AfterPacket = Len(clocks) => Jtag!AllPerformed = y
    BY <1>2, <1>3, PacketIs
  <1>5. sent \in Nat /\ Len(clocks) \in Nat BY <1>2 DEF WellTyped
  <1>6. Jtag!AfterPacket = Len(clocks) BY <1>4, <1>5
  <1> QED BY <1>1, <1>4, <1>6 DEF Typed

\* The last packet of what is not a scan.
LEMMA RegistersDone ==
  ASSUME JtagInv, Jtag!SendPacket, ~(Jtag!AfterPacket < Len(clocks)), ready
  PROVE  JtagInv' /\ (job = "read" /\ wanted.ir # <<>> => result' = SubSeq(Held, 1, Len(wanted.dr)))
  <1>1. flush = "flush" BY DEF Jtag!SendPacket
  <1>2. WellTyped /\ Flushing BY <1>1 DEF JtagInv
  <1>3. PICK h, b : FlushLeadsTo(Rested(h, b)) /\ (job = "read" => ReadsBack(b))
    BY <1>2 DEF Flushing, Registering
  <1>4. job \in {"none", "read"} BY <1>2 DEF Flushing, Registering
  <1>5. Rested(h, b).tap = Rested(h, <<>>).tap /\ Rested(h, b).bits = b
        /\ Rested(h, <<>>) = [tap |-> Rested(h, <<>>).tap, bits |-> <<>>]
    BY DEF Rested, State
  <1>6. tap' = Rested(h, b).tap /\ Jtag!AllPerformed.bits = b /\ tap'.shift \in Seq(Jtag!Bit) /\ b \in Seq(Jtag!Bit)
        /\ chain' = chain
    BY <1>3, <1>5, LastPacket
  <1>7. /\ clocks' = <<>> /\ sent' = 0 /\ job' = "none" /\ flush' = "idle" /\ bits' = b
        /\ result' = (IF job = "read" THEN b ELSE result) /\ UNCHANGED <<ready, wanted>>
    <2>1. bits' = b BY <1>4, <1>6 DEF Jtag!SendPacket
    <2>2. IF job = "read" THEN Jtag!ReadDone(b) ELSE Jtag!ReadDone(result)
      <3>1. CASE job = "read" BY <1>6, <3>1 DEF Jtag!SendPacket
      <3>2. CASE job = "none" BY <3>2 DEF Jtag!SendPacket
      <3> QED BY <1>4, <3>1, <3>2
    <2> QED BY <2>1, <2>2 DEF Jtag!ReadDone
  <1>8. WellTyped'
    <2>1. Len(<<>>) = 0 /\ <<>> \in Seq(Clock) /\ 0 \in 0 .. 0 OBVIOUS
    <2>2. Len(result') <= Len(Held) BY <1>2, <1>3, <1>7 DEF WellTyped, ReadsBack
    <2>3. clocks' \in Seq(Clock) /\ sent' \in 0 .. Len(clocks') BY <1>7, <2>1
    <2>4. Len(result') <= IF ready' THEN Len(Held) ELSE MaxChain BY <1>7, <2>2
    <2>5. chain' \in Chains /\ wanted' = [ir |-> wanted'.ir, dr |-> wanted'.dr] /\ ready' \in BOOLEAN
      BY <1>2, <1>6, <1>7 DEF WellTyped
    <2>6. flush' \in {"idle", "flush", "exit"} /\ job' \in {"none", "read", "scan"} BY <1>7
    <2>7. bits' \in Seq(Jtag!Bit) /\ tap'.shift \in Seq(Jtag!Bit) BY <1>6, <1>7
    <2> QED BY <2>3, <2>4, <2>5, <2>6, <2>7 DEF WellTyped
  <1>9. Unanswered' = Rested(h, <<>>)' /\ Len(<<>>) = 0 /\ <<>> \in Seq(Clock)
    <2>1. Rested(h, <<>>)' = Rested(h, <<>>) BY <1>7 DEF Rested
    <2>2. Unanswered' = [tap |-> tap', bits |-> <<>>] BY DEF Unanswered
    <2> QED BY <1>5, <1>6, <2>1, <2>2
  <1>10. Path(clocks', 0, Unanswered', Rested(h, <<>>)', Codes(chain)') BY <1>7, <1>9, NoPath
  <1>11. Resting' BY <1>7, <1>10 DEF Resting
  <1>12. job = "read" /\ wanted.ir # <<>> => result' = SubSeq(Held, 1, Len(wanted.dr))
    BY <1>3, <1>7 DEF ReadsBack
  <1> QED BY <1>7, <1>8, <1>11, <1>12 DEF JtagInv

LEMMA OneMoreCode ==
  ASSUME NEW S, NEW c \in Seq(S), NEW k \in Nat, k < Len(c)
  PROVE  Append(SubSeq(c, 1, k), c[k + 1]) = SubSeq(c, 1, k + 1)
  <1> DEFINE u == SubSeq(c, 1, k)
             s == Append(u, c[k + 1])
             t == SubSeq(c, 1, k + 1)
  <1>1. Len(c) \in Nat /\ k + 1 \in 1 .. Len(c) /\ k \in Int /\ k + 1 \in Int /\ 1 \in Int OBVIOUS
  <1>2. \A j \in 1 .. k + 1 : c[j] \in S BY <1>1
  <1>3. t \in Seq(S) /\ Len(t) = k + 1 /\ \A j \in 1 .. k + 1 : t[j] = c[j]
    BY <1>1, <1>2
  <1>4. u \in Seq(S) /\ Len(u) = k /\ \A j \in 1 .. k : u[j] = c[j]
    BY <1>1, <1>2
  <1> HIDE DEF u, t
  <1>5. s \in Seq(S) /\ Len(s) = k + 1 /\ s[k + 1] = c[k + 1] /\ \A j \in 1 .. k : s[j] = u[j]
    BY <1>1, <1>2, <1>4, AppendProperties
  <1> HIDE DEF s
  <1>6. \A j \in 1 .. k + 1 : s[j] = t[j]
    <2>1. ASSUME NEW j \in 1 .. k + 1 PROVE s[j] = c[j]
      <3>1. CASE j = k + 1 BY <1>5, <3>1
      <3>2. CASE j # k + 1 BY <1>4, <1>5, <3>2
      <3> QED BY <3>1, <3>2
    <2> QED BY <1>3, <2>1
  <1>7. s = t BY <1>3, <1>5, <1>6, SeqEqual
  <1> QED BY <1>7 DEF s, t, u

InOrder(codes) ==
  codes = SubSeq(chain, 1, IF Len(chain) < MaxChain THEN Len(chain) ELSE MaxChain)

\* The last packet of a code: the next one is asked for, or the scan is done.
LEMMA CodeDone ==
  ASSUME JtagInv, Jtag!SendPacket, ~(Jtag!AfterPacket < Len(clocks)), ~ready
  PROVE  JtagInv' /\ (job' = "none" => InOrder(result'))
  <1> DEFINE k == Len(result)
             code == Code(chain, k + 1)
             codes == IF Jtag!IsDevice(code) THEN Append(result, code) ELSE result
             done == ~Jtag!IsDevice(code) \/ Jtag!ChainIsFull(codes)
             h == Jtag!Zeros((k + 1) * CodeBits)
  <1>1. flush = "flush" BY DEF Jtag!SendPacket
  <1>2. WellTyped /\ Flushing BY <1>1 DEF JtagInv
  <1>3. job = "scan" /\ k < MaxChain /\ FoundSoFar /\ \E d : FlushLeadsTo(Scanning(d))
    BY <1>2 DEF Flushing, Identifying
  <1>4. PICK d : FlushLeadsTo(Scanning(d)) BY <1>3
  <1> DEFINE y == State(<<"shift", "dr">>, h, <<>>, d, <<>>)
  <1>5. Scanning(d).tap = y.tap /\ Scanning(d).bits = code /\ y = [tap |-> y.tap, bits |-> <<>>]
    BY DEF Scanning, State
  <1> HIDE DEF y
  <1>6. tap' = y.tap /\ Jtag!AllPerformed.bits = code /\ tap'.shift \in Seq(Jtag!Bit) /\ chain' = chain
    BY <1>4, <1>5, LastPacket
  <1>7. bits' = <<>> /\ Jtag!Scanned(code) BY <1>3, <1>6 DEF Jtag!SendPacket
  <1>8. /\ result' = codes /\ sent' = 0
        /\ clocks' = (IF done THEN Closing ELSE Jtag!ScanCode)
        /\ job' = (IF done THEN "none" ELSE "scan")
        /\ flush' = (IF ~done THEN "flush" ELSE IF Len(codes) = 1 THEN "idle" ELSE "exit")
        /\ ready' = (done /\ Len(codes) = 1)
        /\ wanted' = [ir |-> <<>>, dr |-> Append(Jtag!Zeros(2 * CodeBits), 1)]
    BY <1>7 DEF Jtag!Scanned, Closing
  <1>9. /\ MaxChain \in Nat /\ MaxChain > 1 /\ CodeBits \in Nat \ {0} /\ CodeBits \in Nat
        /\ Len(Held) \in Nat /\ Len(Held) > 0
    BY JtagSizes DEF Jtag!JtagAssumption
  <1>10. /\ chain \in Seq(Jtag!Bits(CodeBits)) /\ Len(chain) \in Nat
         /\ \A i \in 1 .. Len(chain) : Jtag!IsDevice(chain[i])
    BY <1>2, ChainIs DEF WellTyped
  <1>11. k \in Nat /\ k <= Len(chain) /\ result = SubSeq(chain, 1, k)
    <2>1. k <= Len(chain) /\ result = SubSeq(chain, 1, k) BY <1>3 DEF FoundSoFar
    <2>2. result \in Seq(Jtag!Bits(CodeBits))
      <3>1. CASE k \in Int
        <4>1. \A i \in 1 .. k : chain[i] \in Jtag!Bits(CodeBits) BY <1>10, <2>1, <3>1
        <4> QED BY <2>1, <3>1, <4>1, SubSeqProperties
      <3>2. CASE k \notin Int BY <1>10, <2>1, <3>2
      <3> QED BY <3>1, <3>2
    <2> QED BY <2>1, <2>2
  <1> HIDE DEF h
  <1>12. Jtag!IsDevice(code) <=> k + 1 <= Len(chain)
    <2>1. CASE k + 1 <= Len(chain)
      <3>1. k + 1 \in 1 .. Len(chain) BY <1>11, <2>1
      <3>2. code = chain[k + 1] BY <2>1 DEF Code
      <3> QED BY <1>10, <2>1, <3>1, <3>2
    <2>2. CASE ~(k + 1 <= Len(chain)) BY <2>2 DEF Code, Jtag!IsDevice
    <2> QED BY <2>1, <2>2
  <1>13. Jtag!IsDevice(code) => codes = SubSeq(chain, 1, k + 1) /\ Len(codes) = k + 1
    <2>1. SUFFICES ASSUME Jtag!IsDevice(code) PROVE codes = SubSeq(chain, 1, k + 1) /\ Len(codes) = k + 1
      OBVIOUS
    <2>2. code = chain[k + 1] BY <1>12, <2>1 DEF Code
    <2>3. k < Len(chain) BY <1>10, <1>11, <1>12, <2>1
    <2>4. Append(SubSeq(chain, 1, k), chain[k + 1]) = SubSeq(chain, 1, k + 1)
      BY <1>10, <1>11, <2>3, OneMoreCode
    <2>5. codes = SubSeq(chain, 1, k + 1) BY <1>11, <2>1, <2>2, <2>4
    <2>6. Len(SubSeq(chain, 1, k + 1)) = k + 1
      <3>1. \A i \in 1 .. k + 1 : chain[i] \in Jtag!Bits(CodeBits) BY <1>10, <1>11, <2>3
      <3> QED BY <1>11, <3>1, SubSeqProperties
    <2> QED BY <2>5, <2>6
  <1>14. ~Jtag!IsDevice(code) => codes = result /\ k = Len(chain) BY <1>10, <1>11, <1>12
  <1> HIDE DEF code
  <1>15. Len(codes) \in Nat /\ Len(codes) <= MaxChain /\ Len(codes) <= Len(chain)
         /\ codes = SubSeq(chain, 1, Len(codes))
    <2> DEFINE l == Len(codes)
    <2>1. CASE Jtag!IsDevice(code)
      <3>1. l = k + 1 /\ codes = SubSeq(chain, 1, k + 1) BY <1>13, <2>1
      <3>2. k + 1 <= Len(chain) /\ k < MaxChain BY <1>3, <1>12, <2>1
      <3> HIDE DEF codes, k, l
      <3>3. l \in Nat /\ l <= MaxChain /\ l <= Len(chain) BY <1>9, <1>10, <1>11, <3>1, <3>2
      <3> QED BY <3>1, <3>3 DEF l
    <2>2. CASE ~Jtag!IsDevice(code)
      <3>1. l = k /\ codes = SubSeq(chain, 1, k) /\ k < MaxChain BY <1>3, <1>11, <1>14, <2>2
      <3> HIDE DEF codes, k, l
      <3>2. l \in Nat /\ l <= MaxChain /\ l <= Len(chain) BY <1>9, <1>10, <1>11, <3>1
      <3> QED BY <3>1, <3>2 DEF l
    <2> QED BY <2>1, <2>2
  <1>16. done => InOrder(codes)
    <2>1. CASE Jtag!IsDevice(code) /\ Len(codes) = MaxChain
      BY <1>9, <1>10, <1>15, <2>1 DEF InOrder
    <2>2. CASE ~Jtag!IsDevice(code)
      <3>1. codes = SubSeq(chain, 1, Len(chain)) /\ Len(chain) < MaxChain BY <1>3, <1>11, <1>14, <2>2
      <3> QED BY <3>1 DEF InOrder
    <2> QED BY <2>1, <2>2 DEF Jtag!ChainIsFull
  <1> HIDE DEF codes
  <1>17. /\ Closing \in Seq(Clock) /\ Jtag!ScanCode \in Seq(Clock) /\ Len(Jtag!ScanCode) = CodeBits
    BY <1>10, <1>11, ClosingPath, ScanPath
  <1>18. WellTyped'
    <2>1. clocks' \in Seq(Clock) BY <1>8, <1>17
    <2>2. sent' = 0 /\ 0 \in 0 .. Len(clocks') BY <1>8, <2>1
    <2>3. Len(result') <= IF ready' THEN Len(Held) ELSE MaxChain
      <3>1. result' = codes /\ (ready' => Len(codes) = 1) BY <1>8
      <3>2. CASE ready' BY <1>9, <3>1, <3>2
      <3>3. CASE ~ready' BY <1>15, <3>1, <3>3
      <3> QED BY <3>2, <3>3
    <2>4. ready' \in BOOLEAN /\ chain' \in Chains /\ <<>> \in Seq(Jtag!Bit) BY <1>2, <1>6, <1>8 DEF WellTyped
    <2>5. wanted' = [ir |-> wanted'.ir, dr |-> wanted'.dr] BY <1>8
    <2>6. flush' \in {"idle", "flush", "exit"} /\ job' \in {"none", "read", "scan"} BY <1>8
    <2> QED BY <1>6, <1>7, <2>1, <2>2, <2>3, <2>4, <2>5, <2>6 DEF WellTyped
  <1>19. Now' = y /\ Unanswered' = y BY <1>5, <1>6, <1>7 DEF Now, Unanswered
  <1>20. ASSUME ~done PROVE Flushing'
    <2>1. Jtag!IsDevice(code) /\ Len(codes) = k + 1 BY <1>13, <1>20 DEF codes
    <2>2. Len(codes) # MaxChain BY <1>20 DEF Jtag!ChainIsFull
    <2>3. ~ready' /\ job' = "scan" /\ clocks' = Jtag!ScanCode BY <1>8, <1>20
    <2>4. Len(result') < MaxChain
      <3> DEFINE l == Len(codes)
      <3>0. l \in Nat /\ l <= MaxChain /\ l # MaxChain BY <1>15, <2>2
      <3> HIDE DEF l
      <3>1. l < MaxChain BY <1>9, <3>0
      <3> QED BY <1>8, <3>1 DEF l
    <2>5. FoundSoFar' BY <1>6, <1>8, <1>15 DEF FoundSoFar
    <2>6. sent' < Len(clocks') BY <1>8, <1>9, <1>17, <2>3
    <2>7. k + 1 \in Nat /\ (k + 1) + 1 \in Nat \ {0} BY <1>11
    <2> DEFINE z == State(<<"shift", "dr">>, Jtag!Zeros(((k + 1) + 1) * CodeBits), <<>>, d,
                          Code(chain, (k + 1) + 1))
    <2>8. Path(Jtag!ScanCode, 0, y, z, Codes(chain))
      <3>1. Path(Jtag!ScanCode, 0, State(<<"shift", "dr">>, Jtag!Zeros((k + 1) * CodeBits), <<>>, d, <<>>),
                 State(<<"shift", "dr">>, Jtag!Zeros(((k + 1) + 1) * CodeBits), <<>>, d,
                       First(Code(chain, (k + 1) + 1), CodeBits)), Codes(chain))
        BY <1>10, <2>7, ScanPath
      <3>2. First(Code(chain, (k + 1) + 1), CodeBits) = Code(chain, (k + 1) + 1)
        BY <1>10, <2>7, CodeIs
      <3> QED BY <3>1, <3>2 DEF y, h
    <2>9. Scanning(d)' = z BY <1>6, <1>8, <2>1 DEF Scanning
    <2> HIDE DEF z, k
    <2>10. FlushLeadsTo(Scanning(d))' BY <1>6, <1>8, <1>19, <2>3, <2>8, <2>9 DEF FlushLeadsTo
    <2> QED BY <2>3, <2>4, <2>5, <2>6, <2>10 DEF Flushing, Identifying
  <1>21. ASSUME done, Len(codes) = 1 PROVE Resting'
    <2>1. ~Jtag!IsDevice(code)
      <3>1. SUFFICES ASSUME Jtag!IsDevice(code) PROVE FALSE OBVIOUS
      <3>2. Len(codes) = MaxChain BY <1>21, <3>1 DEF Jtag!ChainIsFull
      <3> QED BY <1>9, <1>21, <3>2
    <2>2. k = 1 BY <1>21, <2>1 DEF codes
    <2>3. h = Jtag!Zeros(2 * CodeBits)
      <3>1. k + 1 = 2 BY <2>2
      <3> QED BY <3>1 DEF h
    <2>4. clocks' = Closing /\ job' = "none" /\ ready' /\ sent' = 0 BY <1>8, <1>21
    <2>5. wanted'.ir = <<>> /\ wanted'.dr = Append(h, 1) BY <1>8, <2>3
    <2>6. Path(Closing, 0, y, State(Jtag!Run, <<>>, <<>>, Append(h, 1), <<>>), Codes(chain))
      BY ClosingPath DEF y
    <2>7. Rested(<<>>, <<>>)' = State(Jtag!Run, <<>>, <<>>, Append(h, 1), <<>>) BY <2>5 DEF Rested
    <2>8. Path(clocks', 0, Unanswered', Rested(<<>>, <<>>)', Codes(chain)')
      BY <1>6, <1>19, <2>4, <2>6, <2>7
    <2> QED BY <2>4, <2>8 DEF Resting
  <1>22. JtagInv'
    <2>1. CASE ~done BY <1>8, <1>18, <1>20, <2>1 DEF JtagInv
    <2>2. CASE done /\ Len(codes) = 1 BY <1>8, <1>18, <1>21, <2>2 DEF JtagInv
    <2>3. CASE done /\ Len(codes) # 1 BY <1>8, <1>18, <2>3 DEF JtagInv
    <2> QED BY <2>1, <2>2, <2>3
  <1>23. job' = "none" => InOrder(result') BY <1>8, <1>16
  <1> QED BY <1>22, <1>23

LEMMA JtagInvNext ==
  ASSUME JtagInv, Jtag!Next \/ UNCHANGED jtagVars PROVE JtagInv'
  <1>1. CASE Jtag!WriteIr BY <1>1, WriteIrKeeps
  <1>2. CASE Jtag!WriteDr BY <1>2, WriteDrKeeps
  <1>3. CASE Jtag!Idle BY <1>3, IdleKeeps
  <1>4. CASE Jtag!Flush BY <1>4, FlushKeeps
  <1>5. CASE Jtag!ReadDr BY <1>5, ReadDrKeeps
  <1>6. CASE Jtag!ScanChain BY <1>6, ScanChainKeeps
  <1>7. CASE Jtag!SendPacket
    <2>1. CASE Jtag!AfterPacket < Len(clocks) BY <1>7, <2>1, PacketKeeps
    <2>2. CASE ~(Jtag!AfterPacket < Len(clocks)) /\ ready BY <1>7, <2>2, RegistersDone
    <2>3. CASE ~(Jtag!AfterPacket < Len(clocks)) /\ ~ready BY <1>7, <2>3, CodeDone
    <2> QED BY <2>1, <2>2, <2>3
  <1>8. CASE Jtag!Refused BY <1>8 DEF Jtag!Refused, JtagInv, WellTyped
  <1>9. CASE UNCHANGED jtagVars
    <2>1. WellTyped' BY <1>9 DEF jtagVars, JtagInv, WellTyped
    <2>2. flush' = "idle" => Resting'
      BY <1>9 DEF jtagVars, JtagInv, Resting, Unanswered, Rested
    <2>3. flush' = "flush" => Flushing'
      <3>1. /\ UNCHANGED <<clocks, sent, job, ready, chain, wanted, result>>
            /\ Now' = Now /\ flush' = flush
        BY <1>9 DEF jtagVars, Now
      <3>2. \A h, b : Rested(h, b)' = Rested(h, b) BY <3>1 DEF Rested
      <3>3. \A d : Scanning(d)' = Scanning(d) BY <3>1 DEF Scanning
      <3>4. Registering' <=> Registering BY <3>1, <3>2 DEF Registering, FlushLeadsTo, ReadsBack
      <3>5. Identifying' <=> Identifying BY <3>1, <3>3 DEF Identifying, FlushLeadsTo, FoundSoFar
      <3> QED BY <3>1, <3>4, <3>5 DEF JtagInv, Flushing
    <2> QED BY <2>1, <2>2, <2>3 DEF JtagInv
  <1> QED BY <1>1, <1>2, <1>3, <1>4, <1>5, <1>6, <1>7, <1>8, <1>9 DEF Jtag!Next

LEMMA JtagInvTypeOK == JtagInv => Jtag!JtagTypeOK
  <1> SUFFICES ASSUME JtagInv PROVE Jtag!JtagTypeOK OBVIOUS
  <1>1. ASSUME NEW i \in 1 .. Len(clocks) PROVE clocks[i] \in [tdi : Jtag!Bit, tms : Jtag!Bit, tdo : Jtag!Bit]
    <2>1. clocks \in Seq(Clock) BY DEF JtagInv, WellTyped
    <2>2. clocks[i] \in Clock BY <2>1
    <2> QED BY <2>2 DEF Clock
  <1> QED BY <1>1 DEF Jtag!JtagTypeOK, JtagInv, WellTyped

LEMMA JtagInvRegisters == JtagInv => Jtag!RegistersAsWritten
  <1> SUFFICES ASSUME JtagInv, Jtag!Settled PROVE tap.state = Jtag!Run /\ tap.ir = wanted.ir /\ tap.dr = wanted.dr
    BY DEF Jtag!RegistersAsWritten
  <1>1. flush = "idle" /\ ready /\ clocks = <<>> /\ Resting BY DEF Jtag!Settled, JtagInv
  <1>2. PICK h : Path(<<>>, 0, Unanswered, Rested(h, <<>>), Codes(chain)) BY <1>1 DEF Resting
  <1>3. Unanswered = Rested(h, <<>>) BY <1>2, NothingQueued
  <1>4. tap = Rested(h, <<>>).tap BY <1>3 DEF Unanswered
  <1> QED BY <1>4 DEF Rested, State

LEMMA JtagStepExact ==
  ASSUME JtagInv, Jtag!Next \/ UNCHANGED jtagVars
  PROVE  Jtag!RegistersAsWritten' /\ Jtag!ReadsTheRegister
  <1>1. JtagInv' BY JtagInvNext
  <1>2. Jtag!RegistersAsWritten' BY <1>1, JtagInvRegisters, PTL
  <1>3. Jtag!ReadsTheRegister
    <2>1. SUFFICES ASSUME flush = "flush", job = "read", flush' = "idle", wanted.ir # <<>>
                   PROVE  result' = SubSeq(Held, 1, Len(wanted.dr))
      BY DEF Jtag!ReadsTheRegister
    <2>2. ready BY <2>1 DEF JtagInv, Flushing, Identifying
    <2>3. Jtag!SendPacket
      BY <2>1 DEF Jtag!Next, jtagVars, Jtag!WriteIr, Jtag!WriteDr, Jtag!Idle, Jtag!Queue, Jtag!Flush, Jtag!ReadDr, Jtag!ScanChain, Jtag!Refused
    <2>4. ~(Jtag!AfterPacket < Len(clocks)) BY <2>1, <2>3 DEF Jtag!SendPacket
    <2> QED BY <2>1, <2>2, <2>3, <2>4, RegistersDone
  <1> QED BY <1>2, <1>3

LEMMA JtagStepScans ==
  ASSUME JtagInv, Jtag!Next \/ UNCHANGED jtagVars
  PROVE  flush = "flush" /\ job = "scan" /\ job' = "none" /\ flush' # "flush" =>
           result' = SubSeq(chain, 1, IF Len(chain) < MaxChain THEN Len(chain) ELSE MaxChain)
  <1> SUFFICES ASSUME flush = "flush", job = "scan", job' = "none", flush' # "flush"
               PROVE  InOrder(result')
    BY DEF InOrder
  <1>1. ~ready BY DEF JtagInv, Flushing, Registering
  <1>2. Jtag!SendPacket
    BY DEF Jtag!Next, jtagVars, Jtag!WriteIr, Jtag!WriteDr, Jtag!Idle, Jtag!Queue, Jtag!Flush, Jtag!ReadDr, Jtag!ScanChain, Jtag!Refused
  <1>3. ~(Jtag!AfterPacket < Len(clocks)) BY <1>2 DEF Jtag!SendPacket
  <1> QED BY <1>1, <1>2, <1>3, CodeDone

-----------------------------------------------------------------------------
(* The theorems *)

LEMMA JtagInvStep ==
  ASSUME JtagInv, [EdbgNext]_edbgVars PROVE (Jtag!Next \/ UNCHANGED jtagVars) /\ JtagInv'
  <1>1. Jtag!Next \/ UNCHANGED jtagVars
    BY DEF EdbgNext, SessionStep, QueueStep, JtagStep, edbgVars
  <1> QED BY <1>1, JtagInvNext

LEMMA JtagInvariance == EdbgSpec => []JtagInv
  <1>1. EdbgInit => JtagInv BY JtagInvInit DEF EdbgInit
  <1>2. JtagInv /\ [EdbgNext]_edbgVars => JtagInv' BY JtagInvStep
  <1> QED BY <1>1, <1>2, PTL DEF EdbgSpec

LEMMA JtagTypes == EdbgSpec => []Jtag!JtagTypeOK
  BY JtagInvariance, JtagInvTypeOK, PTL

\* Whatever is queued, and however the probe's packets cut it into runs of like
\* clocks, the registers hold what was written last as soon as the queue is
\* empty, and a read returns what the register held.
THEOREM RegistersExact == EdbgSpec => RegistersAreExact
  <1>1. JtagInv /\ [EdbgNext]_edbgVars
          => [Jtag!RegistersAsWritten' /\ Jtag!ReadsTheRegister]_Jtag!vars
    BY JtagInvStep, JtagStepExact
  <1> QED BY <1>1, JtagInvariance, PTL DEF EdbgSpec, RegistersAreExact, Jtag!RegistersAreExact

\* A scan ends with the codes of the devices that are connected, in order, up to
\* MAX_CHAIN_COUNT of them.
THEOREM ScanFinds == EdbgSpec => ScanFindsTheChain
  <1> DEFINE Reported == flush = "flush" /\ job = "scan" /\ job' = "none" /\ flush' # "flush" =>
       result' = SubSeq(chain, 1, IF Len(chain) < MaxChain THEN Len(chain) ELSE MaxChain)
  <1>1. JtagInv /\ [EdbgNext]_edbgVars => [Reported]_Jtag!vars
    BY JtagInvStep, JtagStepScans
  <1> QED BY <1>1, JtagInvariance, PTL DEF EdbgSpec, ScanFindsTheChain, Jtag!ScanFindsTheChain
=============================================================================
