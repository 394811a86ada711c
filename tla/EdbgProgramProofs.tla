-------------------------- MODULE EdbgProgramProofs ---------------------------
(***************************************************************************)
(* A run of edbg that programs and ends without an error has stored its    *)
(* file, whether it verified or not.  The argument follows one unit of the *)
(* flash through the steps of the driver: they erase its row, put the      *)
(* unit of the file there and come to rest; and main's plan disturbs none  *)
(* of it afterwards.                                                       *)
(***************************************************************************)
EXTENDS EdbgOutcomeProofs

-----------------------------------------------------------------------------
(* What becomes of one unit of flash, at address a, that is to hold unit u *)
(* of the file: 0 when nothing is known of it, 1 when it is erased, 2 when *)
(* it holds what it should.                                                *)
Strokes == {s \in StepsBut({}) : s.do \in {"erase", "program", "wait", "settle", "next"}}
Meets(s, a) == s.at <= a /\ a < s.at + s.len
Clear(s, a) == s.do \in {"erase", "program"} => ~Meets(s, a)
Erases(s, a) == s.do = "erase" /\ Meets(s, a)
Puts(s, a, u) == s.do = "program" /\ Meets(s, a) /\ s.from + a - s.at = u
Moves(s, a, u, v, w) ==
  \/ w = 0
  \/ w = 1 /\ (Erases(s, a) \/ (v = 1 /\ Clear(s, a)))
  \/ w = 2 /\ ((v = 1 /\ Puts(s, a, u)) \/ (v = 2 /\ Clear(s, a)))
Leads(t, a, u, v, w) ==
  /\ t \in Seq(Strokes)
  /\ \E f \in [0 .. Len(t) -> 0 .. 2] :
       f[0] = v /\ f[Len(t)] = w /\ \A i \in 1 .. Len(t) : Moves(t[i], a, u, f[i - 1], f[i])

LEMMA LeadsOne ==
  ASSUME NEW s \in Strokes, NEW a, NEW u, NEW v \in 0 .. 2, NEW w \in 0 .. 2, Moves(s, a, u, v, w)
  PROVE  Leads(<<s>>, a, u, v, w)
  <1> DEFINE f == [i \in 0 .. 1 |-> IF i = 0 THEN v ELSE w]
  <1>1. f \in [0 .. Len(<<s>>) -> 0 .. 2] /\ f[0] = v /\ f[Len(<<s>>)] = w OBVIOUS
  <1>2. ASSUME NEW i \in 1 .. Len(<<s>>) PROVE Moves(<<s>>[i], a, u, f[i - 1], f[i])
    <2>1. i = 1 /\ f[i - 1] = v /\ f[i] = w OBVIOUS
    <2> HIDE DEF f
    <2> QED BY <2>1
  <1> HIDE DEF f
  <1> QED BY <1>1, <1>2 DEF Leads

LEMMA LeadsAll ==
  ASSUME NEW t \in Seq(Strokes), NEW a, NEW u, NEW v \in 0 .. 2,
         \A i \in 1 .. Len(t) : Moves(t[i], a, u, v, v)
  PROVE  Leads(t, a, u, v, v)
  <1> DEFINE f == [i \in 0 .. Len(t) |-> v]
  <1>1. f \in [0 .. Len(t) -> 0 .. 2] /\ f[0] = v /\ f[Len(t)] = v OBVIOUS
  <1>2. ASSUME NEW i \in 1 .. Len(t) PROVE Moves(t[i], a, u, f[i - 1], f[i])
    <2>1. f[i - 1] = v /\ f[i] = v OBVIOUS
    <2> HIDE DEF f
    <2> QED BY <2>1
  <1> HIDE DEF f
  <1> QED BY <1>1, <1>2 DEF Leads

LEMMA LeadsJoin ==
  ASSUME NEW s, NEW t, NEW a, NEW u, NEW v, NEW w, NEW x, Leads(s, a, u, v, w), Leads(t, a, u, w, x)
  PROVE  Leads(s \o t, a, u, v, x)
  <1>1. s \in Seq(Strokes) /\ t \in Seq(Strokes) BY DEF Leads
  <1>2. PICK m \in Nat, n \in Nat : m = Len(s) /\ n = Len(t) BY <1>1
  <1>3. PICK f \in [0 .. m -> 0 .. 2] : f[0] = v /\ f[m] = w /\ \A i \in 1 .. m : Moves(s[i], a, u, f[i - 1], f[i])
    BY <1>2 DEF Leads
  <1>4. PICK g \in [0 .. n -> 0 .. 2] : g[0] = w /\ g[n] = x /\ \A i \in 1 .. n : Moves(t[i], a, u, g[i - 1], g[i])
    BY <1>2 DEF Leads
  <1>5. PICK r : r = s \o t OBVIOUS
  <1>6. r \in Seq(Strokes) /\ Len(r) = m + n BY <1>1, <1>2, <1>5
  <1>7. \A i \in 1 .. m : r[i] = s[i] BY <1>1, <1>2, <1>5
  <1>8. \A i \in m + 1 .. m + n : r[i] = t[i - m] BY <1>1, <1>2, <1>5
  <1> DEFINE h == [i \in 0 .. m + n |-> IF i <= m THEN f[i] ELSE g[i - m]]
  <1>9. h \in [0 .. m + n -> 0 .. 2]
    <2>1. ASSUME NEW i \in 0 .. m + n PROVE (IF i <= m THEN f[i] ELSE g[i - m]) \in 0 .. 2
      <3>1. CASE i <= m
        <4>1. i \in 0 .. m BY <3>1
        <4> QED BY <3>1, <4>1
      <3>2. CASE ~(i <= m)
        <4>1. i - m \in 0 .. n BY <3>2
        <4> QED BY <3>2, <4>1
      <3> QED BY <3>1, <3>2
    <2> QED BY <2>1
  <1>10. h[0] = v BY <1>3
  <1>11. h[m + n] = x
    <2>1. CASE n = 0 BY <1>3, <1>4, <2>1
    <2>2. CASE n # 0
      <3>1. ~(m + n <= m) /\ (m + n) - m = n BY <2>2
      <3> QED BY <1>4, <3>1
    <2> QED BY <2>1, <2>2
  <1>12. ASSUME NEW i \in 1 .. m + n PROVE Moves(r[i], a, u, h[i - 1], h[i])
    <2>1. CASE i <= m
      <3>1. i \in 1 .. m /\ h[i - 1] = f[i - 1] /\ h[i] = f[i] BY <2>1
      <3> HIDE DEF h
      <3> QED BY <1>3, <1>7, <3>1
    <2>2. CASE ~(i <= m)
      <3>1. PICK j \in 1 .. n : j = i - m BY <2>2
      <3>2. h[i] = g[j] BY <2>2, <3>1
      <3>3. h[i - 1] = g[j - 1]
        <4>1. CASE j = 1 BY <1>3, <1>4, <3>1, <4>1
        <4>2. CASE j # 1
          <5>1. ~(i - 1 <= m) /\ (i - 1) - m = j - 1 /\ i - 1 \in 0 .. m + n BY <3>1, <4>2
          <5> QED BY <5>1
        <4> QED BY <4>1, <4>2
      <3>4. r[i] = t[j] BY <1>8, <2>2, <3>1
      <3> HIDE DEF h
      <3> QED BY <1>4, <3>2, <3>3, <3>4
    <2> QED BY <2>1, <2>2
  <1> HIDE DEF h
  <1> QED BY <1>5, <1>6, <1>9, <1>10, <1>11, <1>12 DEF Leads

LEMMA LeadsTail ==
  ASSUME NEW t, t # <<>>, NEW a, NEW u, NEW v, NEW w, Leads(t, a, u, v, w)
  PROVE  \E x \in 0 .. 2 : Moves(Head(t), a, u, v, x) /\ Leads(Tail(t), a, u, x, w)
  <1>1. t \in Seq(Strokes) BY DEF Leads
  <1>2. PICK n \in Nat : n = Len(t) BY <1>1
  <1>3. n > 0 BY <1>1, <1>2
  <1>4. PICK f \in [0 .. n -> 0 .. 2] : f[0] = v /\ f[n] = w /\ \A i \in 1 .. n : Moves(t[i], a, u, f[i - 1], f[i])
    BY <1>2 DEF Leads
  <1>5. PICK r : r = Tail(t) OBVIOUS
  <1>6. r \in Seq(Strokes) /\ Len(r) = n - 1 /\ (\A i \in 1 .. n - 1 : r[i] = t[i + 1]) /\ Head(t) = t[1]
    BY <1>1, <1>2, <1>3, <1>5
  <1> DEFINE g == [i \in 0 .. n - 1 |-> f[i + 1]]
  <1>7. g \in [0 .. n - 1 -> 0 .. 2]
    <2>1. ASSUME NEW i \in 0 .. n - 1 PROVE f[i + 1] \in 0 .. 2
      <3>1. i + 1 \in 0 .. n OBVIOUS
      <3> QED BY <3>1
    <2> QED BY <2>1
  <1>8. g[0] = f[1] /\ g[n - 1] = w
    <2>1. 0 \in 0 .. n - 1 /\ n - 1 \in 0 .. n - 1 /\ (n - 1) + 1 = n /\ 0 + 1 = 1 BY <1>3
    <2> QED BY <1>4, <2>1
  <1>9. ASSUME NEW i \in 1 .. n - 1 PROVE Moves(r[i], a, u, g[i - 1], g[i])
    <2>1. i + 1 \in 1 .. n /\ g[i - 1] = f[(i + 1) - 1] /\ g[i] = f[i + 1]
      <3>1. i - 1 \in 0 .. n - 1 /\ i \in 0 .. n - 1 /\ (i - 1) + 1 = i /\ (i + 1) - 1 = i OBVIOUS
      <3> QED BY <3>1
    <2> HIDE DEF g
    <2> QED BY <1>4, <1>6, <2>1
  <1> HIDE DEF g
  <1>10. Leads(r, a, u, f[1], w) BY <1>6, <1>7, <1>8, <1>9 DEF Leads
  <1>11. f[1] \in 0 .. 2 /\ Moves(Head(t), a, u, v, f[1])
    <2>1. 1 \in 0 .. n /\ 1 \in 1 .. n /\ 1 - 1 = 0 BY <1>3
    <2> QED BY <1>4, <1>6, <2>1
  <1> QED BY <1>5, <1>10, <1>11

LEMMA LeadsNone ==
  ASSUME NEW a, NEW u, NEW v, NEW w, Leads(<<>>, a, u, v, w)
  PROVE  v = w
  BY DEF Leads

\* A loop, one round of which makes the difference.
LEMMA LeadsLoop ==
  ASSUME NEW n \in Nat, NEW ss, ss = [i \in 1 .. n |-> ss[i]], NEW a, NEW u, NEW v \in 0 .. 2, NEW w \in 0 .. 2,
         NEW q \in 1 .. n, Leads(ss[q], a, u, v, w),
         \A i \in 1 .. n : (i < q => Leads(ss[i], a, u, v, v)) /\ (q < i => Leads(ss[i], a, u, w, w))
  PROVE  Leads(FlattenSeq(ss), a, u, v, w)
  <1>1. Len(ss) = n /\ n # 0 OBVIOUS
  <1> DEFINE f == CHOOSE g : Flats(g, ss, n)
             Level(i) == IF i < q THEN v ELSE w
             Open == {c \in 1 .. n : ~Leads(f[c], a, u, v, Level(c))}
  <1>2. FlattenSeq(ss) = f[n] BY <1>1 DEF FlattenSeq, Flats
  <1>3. Flats(f, ss, n) BY <1>1, FlatsExists
  <1> HIDE DEF f
  <1>4. \A i \in 1 .. n : f[i] = IF i = 1 THEN ss[i] ELSE f[i - 1] \o ss[i] BY <1>3 DEF Flats
  <1>5. \A i \in 1 .. n : Leads(ss[i], a, u, IF i <= q THEN v ELSE w, Level(i))
    <2> SUFFICES ASSUME NEW i \in 1 .. n PROVE Leads(ss[i], a, u, IF i <= q THEN v ELSE w, Level(i)) OBVIOUS
    <2>1. CASE i < q
      <3>1. i <= q BY <2>1
      <3> QED BY <2>1, <3>1
    <2>2. CASE i = q BY <2>2
    <2>3. CASE q < i
      <3>1. ~(i <= q) /\ ~(i < q) BY <2>3
      <3> QED BY <2>3, <3>1
    <2> QED BY <2>1, <2>2, <2>3
  <1>6. Open = {}
    <2>1. SUFFICES ASSUME Open # {} PROVE FALSE OBVIOUS
    <2>2. PICK c \in Open : \A m \in Open : c <= m
      <3>1. Open \subseteq Nat OBVIOUS
      <3> HIDE DEF Open
      <3> QED BY <2>1, <3>1, LeastNat
    <2>3. c \in 1 .. n /\ ~Leads(f[c], a, u, v, Level(c)) BY <2>2
    <2>4. CASE c = 1
      <3>1. f[c] = ss[c] /\ c <= q BY <1>4, <2>3, <2>4
      <3> QED BY <1>5, <2>3, <3>1
    <2>5. CASE c # 1
      <3>1. c - 1 \in 1 .. n /\ ~(c <= c - 1) BY <2>3, <2>5
      <3>2. Leads(f[c - 1], a, u, v, Level(c - 1)) BY <2>2, <3>1
      <3>3. Level(c - 1) = IF c <= q THEN v ELSE w
        <4>1. c - 1 < q <=> c <= q BY <2>3
        <4> QED BY <4>1
      <3>4. Leads(ss[c], a, u, Level(c - 1), Level(c)) BY <1>5, <2>3, <3>3
      <3>5. f[c] = f[c - 1] \o ss[c] BY <1>4, <2>3, <2>5
      <3> HIDE DEF Level
      <3> QED BY <2>3, <3>2, <3>4, <3>5, LeadsJoin
    <2> QED BY <2>4, <2>5
  <1>7. n \in 1 .. n /\ ~(n < q) BY <1>1
  <1> QED BY <1>2, <1>6, <1>7

\* Only step q of a sequence makes a difference.
LEMMA LeadsPick ==
  ASSUME NEW t \in Seq(Strokes), NEW a, NEW u, NEW v \in 0 .. 2, NEW w \in 0 .. 2, NEW q \in 1 .. Len(t),
         Moves(t[q], a, u, v, w),
         \A i \in 1 .. Len(t) : (i < q => Moves(t[i], a, u, v, v)) /\ (q < i => Moves(t[i], a, u, w, w))
  PROVE  Leads(t, a, u, v, w)
  <1>0. PICK n \in Nat : n = Len(t) OBVIOUS
  <1> DEFINE f == [i \in 0 .. n |-> IF i < q THEN v ELSE w]
  <1>1. f \in [0 .. n -> 0 .. 2] OBVIOUS
  <1>2. f[0] = v /\ f[n] = w
    <2>1. 0 < q /\ ~(n < q) BY <1>0
    <2> QED BY <2>1
  <1>3. ASSUME NEW i \in 1 .. n PROVE Moves(t[i], a, u, f[i - 1], f[i])
    <2>1. i - 1 \in 0 .. n /\ i \in 0 .. n OBVIOUS
    <2>2. CASE i < q
      <3>1. f[i - 1] = v /\ f[i] = v BY <2>1, <2>2
      <3> HIDE DEF f
      <3> QED BY <1>0, <2>2, <3>1
    <2>3. CASE i = q
      <3>1. f[i - 1] = v /\ f[i] = w BY <2>1, <2>3
      <3> HIDE DEF f
      <3> QED BY <2>3, <3>1
    <2>4. CASE q < i
      <3>1. f[i - 1] = w /\ f[i] = w BY <2>1, <2>4
      <3> HIDE DEF f
      <3> QED BY <1>0, <2>4, <3>1
    <2> QED BY <2>2, <2>3, <2>4
  <1> HIDE DEF f
  <1> QED BY <1>0, <1>1, <1>2, <1>3 DEF Leads

\* A file cut in blocks of b: unit u lies in block u \div b.
LEMMA BlockMeets ==
  ASSUME NEW b \in Nat \ {0}, NEW off \in Nat, NEW u \in Nat, NEW p \in Nat, NEW s,
         s.at = off + p * b, s.len = b
  PROVE  Meets(s, off + u) <=> p = u \div b
  <1>1. PICK q \in Nat : q = u \div b BY Division
  <1>2. PICK r \in 0 .. b - 1 : r = u % b /\ b * q + r = u BY <1>1, Division
  <1>3. PICK x \in Nat : x = p * b OBVIOUS
  <1>4. PICK y \in Nat : y = b * q /\ y = q * b OBVIOUS
  <1>5. CASE p = q
    <2>1. x = y BY <1>3, <1>4, <1>5
    <2> QED BY <1>1, <1>2, <1>3, <1>4, <1>5, <2>1 DEF Meets
  <1>6. CASE p < q
    <2>1. x + b <= y BY <1>3, <1>4, <1>6, Below
    <2> QED BY <1>1, <1>2, <1>3, <1>4, <1>6, <2>1 DEF Meets
  <1>7. CASE q < p
    <2>1. y + b <= b * p BY <1>4, <1>7, Below
    <2>2. b * p = x BY <1>3
    <2> QED BY <1>1, <1>2, <1>3, <1>4, <1>7, <2>1, <2>2 DEF Meets
  <1> QED BY <1>1, <1>5, <1>6, <1>7

\* The steps of program.
LEMMA StrokeTyped ==
  ASSUME NEW a \in Nat, NEW l \in Nat, NEW f \in Nat
  PROVE  /\ Area("erase", a, l) \in Strokes /\ Data(a, l, f) \in Strokes
         /\ Do("wait") \in Strokes /\ Do("settle") \in Strokes /\ Do("next") \in Strokes
  <1>1. {"erase", "program", "wait", "settle", "next"} \subseteq StepNames \ {} BY DEF StepNames
  <1>2. Area("erase", a, l) \in StepsBut({}) /\ Do("wait") \in StepsBut({}) /\ Do("settle") \in StepsBut({})
        /\ Do("next") \in StepsBut({})
    BY <1>1, AreaTyped
  <1>3. Data(a, l, f) \in StepsBut({}) BY <1>1, StepTyped DEF Data
  <1> QED BY <1>2, <1>3 DEF Strokes, Area, Data, Do

LEMMA IdleLeads ==
  ASSUME NEW a, NEW u, NEW v \in 0 .. 2
  PROVE  Leads(<<Do("wait")>>, a, u, v, v) /\ Leads(<<Do("settle")>>, a, u, v, v)
  <1>1. Do("wait") \in Strokes /\ Do("settle") \in Strokes BY StrokeTyped
  <1>2. Moves(Do("wait"), a, u, v, v) /\ Moves(Do("settle"), a, u, v, v)
    <2>1. Clear(Do("wait"), a) /\ Clear(Do("settle"), a) BY DEF Clear, Do, Area
    <2> QED BY <2>1 DEF Moves
  <1> QED BY <1>1, <1>2, LeadsOne

LEMMA EraseMoves ==
  ASSUME NEW a, NEW u, NEW s, s.do = "erase"
  PROVE  /\ Moves(s, a, u, 0, 0) /\ Moves(s, a, u, 1, 1)
         /\ Meets(s, a) => Moves(s, a, u, 0, 1)
         /\ ~Meets(s, a) => Moves(s, a, u, 2, 2)
  BY DEF Moves, Erases, Clear

LEMMA DataMoves ==
  ASSUME NEW a, NEW u, NEW s, s.do = "program"
  PROVE  /\ Moves(s, a, u, 0, 0)
         /\ Meets(s, a) /\ s.from + a - s.at = u => Moves(s, a, u, 1, 2)
         /\ ~Meets(s, a) => Moves(s, a, u, 1, 1) /\ Moves(s, a, u, 2, 2)
  BY DEF Moves, Puts, Clear

\* Erasing block p.
LEMMA EraseLeads ==
  ASSUME NEW b \in Nat \ {0}, NEW off \in Nat, NEW u \in Nat, NEW p \in Nat,
         NEW s, s = Area("erase", off + p * b, b)
  PROVE  /\ Leads(<<s>>, off + u, u, 0, 0) /\ Leads(<<s>>, off + u, u, 1, 1)
         /\ p = u \div b => Leads(<<s>>, off + u, u, 0, 1)
         /\ p # u \div b => Leads(<<s>>, off + u, u, 2, 2)
  <1>1. s \in Strokes /\ s.do = "erase" /\ s.at = off + p * b /\ s.len = b
    <2>1. p * b \in Nat OBVIOUS
    <2> QED BY <2>1, StrokeTyped DEF Area
  <1>2. Meets(s, off + u) <=> p = u \div b BY <1>1, BlockMeets
  <1>3. /\ Moves(s, off + u, u, 0, 0) /\ Moves(s, off + u, u, 1, 1)
        /\ Meets(s, off + u) => Moves(s, off + u, u, 0, 1)
        /\ ~Meets(s, off + u) => Moves(s, off + u, u, 2, 2)
    BY <1>1, EraseMoves
  <1> QED BY <1>1, <1>2, <1>3, LeadsOne

\* Writing block p.
LEMMA DataBlock ==
  ASSUME NEW b \in Nat \ {0}, NEW off \in Nat, NEW u \in Nat, NEW p \in Nat,
         NEW s, s = Data(off + p * b, b, p * b)
  PROVE  /\ s \in Strokes /\ Moves(s, off + u, u, 0, 0)
         /\ p = u \div b => Moves(s, off + u, u, 1, 2)
         /\ p # u \div b => Moves(s, off + u, u, 1, 1) /\ Moves(s, off + u, u, 2, 2)
  <1>0. PICK x \in Nat : x = p * b OBVIOUS
  <1>1. s \in Strokes /\ s.do = "program" /\ s.at = off + x /\ s.len = b /\ s.from = x
    BY <1>0, StrokeTyped DEF Data
  <1>5. s.at = off + p * b BY <1>0, <1>1
  <1>2. Meets(s, off + u) <=> p = u \div b BY <1>1, <1>5, BlockMeets
  <1>3. s.from + (off + u) - s.at = u BY <1>1
  <1>4. /\ Moves(s, off + u, u, 0, 0)
        /\ Meets(s, off + u) /\ s.from + (off + u) - s.at = u => Moves(s, off + u, u, 1, 2)
        /\ ~Meets(s, off + u) => Moves(s, off + u, u, 1, 1) /\ Moves(s, off + u, u, 2, 2)
    BY <1>1, DataMoves
  <1> QED BY <1>1, <1>2, <1>3, <1>4

LEMMA DataLeads ==
  ASSUME NEW b \in Nat \ {0}, NEW off \in Nat, NEW u \in Nat, NEW p \in Nat,
         NEW s, s = Data(off + p * b, b, p * b)
  PROVE  /\ Leads(<<s>>, off + u, u, 0, 0)
         /\ p = u \div b => Leads(<<s>>, off + u, u, 1, 2)
         /\ p # u \div b => Leads(<<s>>, off + u, u, 1, 1) /\ Leads(<<s>>, off + u, u, 2, 2)
  <1>1. /\ s \in Strokes /\ Moves(s, off + u, u, 0, 0)
        /\ p = u \div b => Moves(s, off + u, u, 1, 2)
        /\ p # u \div b => Moves(s, off + u, u, 1, 1) /\ Moves(s, off + u, u, 2, 2)
    BY DataBlock
  <1> QED BY <1>1, LeadsOne

\* The rows of page p, written one after the other, or one by one.
LEMMA RowsLead ==
  ASSUME NEW o, Paged(o), NEW u \in Nat, NEW p \in Nat
  PROVE  LET t == RowsOfPage(o, p)
             a == o.offset + u
             q == u \div PageUnits
         IN  /\ t \in Seq(Strokes) /\ Len(t) \in Nat \ {0}
             /\ \A i \in 1 .. Len(t) : Moves(t[i], a, u, 0, 0)
             /\ p # q => \A i \in 1 .. Len(t) : Moves(t[i], a, u, 1, 1) /\ Moves(t[i], a, u, 2, 2)
             /\ p = q => \E j \in 1 .. Len(t) :
                  /\ Moves(t[j], a, u, 1, 2)
                  /\ \A i \in 1 .. Len(t) : i # j => Moves(t[i], a, u, 1, 1) /\ Moves(t[i], a, u, 2, 2)
  <1>1. PICK k \in Nat \ {0}, r \in Nat \ {0} : k = PageUnits /\ r = RowUnits BY Geometry
  <1>2. PICK c \in Nat : c = PageRows /\ k = r * c BY <1>1, Layout
  <1>3. PICK off \in Nat : off = o.offset BY PagesFit
  <1>4. PICK b \in Nat : b = p * k OBVIOUS
  <1>5. c # 0 BY <1>1, <1>2
  <1>6. PICK t : t = RowsOfPage(o, p) OBVIOUS
  <1>7. PICK a \in Nat : a = off + u OBVIOUS
  <1>8. t = [i \in 1 .. c |-> Data(off + b + (i - 1) * r, r, b + (i - 1) * r)]
    BY <1>1, <1>2, <1>3, <1>4, <1>6 DEF RowsOfPage, PageRows
  <1>9. ASSUME NEW i \in 1 .. c
        PROVE  /\ t[i] \in Strokes /\ t[i].do = "program" /\ t[i].at = off + b + (i - 1) * r
               /\ t[i].len = r /\ t[i].from = b + (i - 1) * r
    <2>1. PICK y \in Nat : y = (i - 1) * r OBVIOUS
    <2>2. t[i] = Data(off + b + y, r, b + y) BY <1>8, <2>1
    <2>3. off + b + y \in Nat /\ b + y \in Nat OBVIOUS
    <2>4. t[i] \in Strokes BY <2>2, <2>3, StrokeTyped
    <2> QED BY <2>1, <2>2, <2>4 DEF Data
  <1>10. t \in Seq(Strokes) /\ Len(t) = c
    <2>1. \A i \in 1 .. c : t[i] \in Strokes BY <1>9
    <2>2. t = [i \in 1 .. c |-> t[i]] BY <1>8
    <2>3. t \in [1 .. c -> Strokes] BY <2>1, <2>2
    <2> QED BY <2>3
  <1>11. ASSUME NEW i \in 1 .. c, Meets(t[i], a) PROVE p = u \div k
    <2>1. PICK j \in Nat : j = i - 1 /\ j < c OBVIOUS
    <2>2. PICK y \in Nat : y = j * r /\ y + r <= r * c BY <2>1, Below
    <2>3. off + b + y <= a /\ a < off + b + y + r BY <1>9, <1>11, <2>1, <2>2 DEF Meets
    <2>4. off + b <= a /\ a < off + b + k BY <1>2, <2>2, <2>3
    <2>5. PICK s : s = Data(off + p * k, k, 0) OBVIOUS
    <2>6. s.at = off + p * k /\ s.len = k BY <2>5 DEF Data
    <2>7. Meets(s, off + u) BY <1>4, <1>7, <2>4, <2>6 DEF Meets
    <2>8. Meets(s, off + u) <=> p = u \div k BY <2>6, BlockMeets
    <2> QED BY <2>7, <2>8
  <1>12. ASSUME NEW i \in 1 .. c
         PROVE  /\ Moves(t[i], a, u, 0, 0)
                /\ Meets(t[i], a) => Moves(t[i], a, u, 1, 2)
                /\ ~Meets(t[i], a) => Moves(t[i], a, u, 1, 1) /\ Moves(t[i], a, u, 2, 2)
    <2>1. PICK y \in Nat : y = (i - 1) * r OBVIOUS
    <2>2. t[i].from + a - t[i].at = u BY <1>7, <1>9, <2>1
    <2> QED BY <1>9, <2>2, DataMoves
  <1>13. ASSUME p = u \div k
         PROVE  \E j \in 1 .. c : Meets(t[j], a) /\ \A i \in 1 .. c : i # j => ~Meets(t[i], a)
    <2>1. PICK m \in 0 .. k - 1 : m = u % k /\ k * p + m = u BY <1>13, Division
    <2>2. m \in Nat /\ b + m = u BY <1>4, <2>1
    <2>3. a = (off + b) + m BY <1>7, <2>2
    <2>4. PICK j \in Nat : j = m \div r BY <2>2, Division
    <2>5. r * j <= m
      <3>1. PICK z \in 0 .. r - 1 : z = m % r /\ r * j + z = m BY <2>2, <2>4, Division
      <3>2. r * j \in Nat OBVIOUS
      <3> QED BY <3>1, <3>2
    <2>6. j < c
      <3>1. r * j < r * c
        <4>1. r * j \in Nat /\ r * c \in Nat OBVIOUS
        <4> QED BY <1>2, <2>1, <2>5, <4>1
      <3> QED BY <3>1, Z3
    <2>7. \A i \in 1 .. c : Meets(t[i], a) <=> i - 1 = j
      <3> SUFFICES ASSUME NEW i \in 1 .. c PROVE Meets(t[i], a) <=> i - 1 = j OBVIOUS
      <3>1. PICK x \in Nat : x = i - 1 OBVIOUS
      <3>2. t[i].at = (off + b) + x * r /\ t[i].len = r BY <1>9, <3>1
      <3>3. off + b \in Nat OBVIOUS
      <3>4. Meets(t[i], (off + b) + m) <=> x = m \div r BY <2>2, <3>2, <3>3, BlockMeets
      <3> QED BY <2>3, <2>4, <3>1, <3>4
    <2>8. j + 1 \in 1 .. c /\ (j + 1) - 1 = j BY <2>6
    <2> QED BY <2>7, <2>8
  <1>14. p # u \div k => \A i \in 1 .. c : Moves(t[i], a, u, 1, 1) /\ Moves(t[i], a, u, 2, 2) BY <1>11, <1>12
  <1>15. p = u \div k => \E j \in 1 .. c :
                  /\ Moves(t[j], a, u, 1, 2)
                  /\ \A i \in 1 .. c : i # j => Moves(t[i], a, u, 1, 1) /\ Moves(t[i], a, u, 2, 2)
    BY <1>12, <1>13
  <1> QED BY <1>1, <1>3, <1>5, <1>6, <1>7, <1>10, <1>12, <1>14, <1>15

\* A round of a loop over the blocks of a file: here is the block of unit u.
Away(s, a, u) == \A x \in 0 .. 2 : Leads(s, a, u, x, x)
Round(s, a, u, v, w, p, q) == IF p = q THEN Leads(s, a, u, v, w) ELSE Away(s, a, u)

LEMMA RoundJoin ==
  ASSUME NEW s, NEW t, NEW a, NEW u, NEW v, NEW w, NEW x, NEW p, NEW h,
         Round(s, a, u, v, w, p, h), Round(t, a, u, w, x, p, h)
  PROVE  Round(s \o t, a, u, v, x, p, h)
  <1>1. CASE p = h
    <2>1. Leads(s, a, u, v, w) /\ Leads(t, a, u, w, x) BY <1>1 DEF Round
    <2>2. Leads(s \o t, a, u, v, x) BY <2>1, LeadsJoin
    <2> QED BY <1>1, <2>2 DEF Round
  <1>2. CASE p # h
    <2>1. \A y \in 0 .. 2 : Leads(s, a, u, y, y) /\ Leads(t, a, u, y, y) BY <1>2 DEF Round, Away
    <2>2. \A y \in 0 .. 2 : Leads(s \o t, a, u, y, y) BY <2>1, LeadsJoin
    <2> QED BY <1>2, <2>2 DEF Round, Away
  <1> QED BY <1>1, <1>2

LEMMA RoundIdle ==
  ASSUME NEW a, NEW u, NEW v \in 0 .. 2, NEW p, NEW h
  PROVE  Round(<<Do("wait")>>, a, u, v, v, p, h) /\ Round(<<Do("settle")>>, a, u, v, v, p, h)
  BY IdleLeads DEF Round, Away

LEMMA RoundsLead ==
  ASSUME NEW n \in Nat, NEW ss, ss = [i \in 1 .. n |-> ss[i]], NEW a, NEW u, NEW v \in 0 .. 2, NEW w \in 0 .. 2,
         NEW q \in Nat, q < n, \A i \in 1 .. n : Round(ss[i], a, u, v, w, i - 1, q)
  PROVE  Leads(FlattenSeq(ss), a, u, v, w)
  <1>1. PICK j \in 1 .. n : j = q + 1 /\ j - 1 = q OBVIOUS
  <1>2. Leads(ss[j], a, u, v, w) BY <1>1 DEF Round
  <1>3. \A i \in 1 .. n : i # j => Leads(ss[i], a, u, v, v) /\ Leads(ss[i], a, u, w, w)
    <2> SUFFICES ASSUME NEW i \in 1 .. n, i # j
                 PROVE  Leads(ss[i], a, u, v, v) /\ Leads(ss[i], a, u, w, w)
      OBVIOUS
    <2>1. i - 1 # q BY <1>1
    <2>2. Away(ss[i], a, u) BY <2>1 DEF Round
    <2> QED BY <2>2 DEF Away
  <1>4. \A i \in 1 .. n : (i < j => Leads(ss[i], a, u, v, v)) /\ (j < i => Leads(ss[i], a, u, w, w))
    BY <1>1, <1>3
  <1> QED BY <1>2, <1>4, LeadsLoop

\* A sequence that ends with one of G.
EndsIn(t, G) == t # <<>> /\ t[Len(t)].do \in G

LEMMA EndsJoin ==
  ASSUME NEW s \in Seq(Strokes), NEW t \in Seq(Strokes), NEW G, EndsIn(t, G)
  PROVE  EndsIn(s \o t, G)
  <1>1. PICK m \in Nat, n \in Nat : m = Len(s) /\ n = Len(t) OBVIOUS
  <1>2. n # 0 BY <1>1 DEF EndsIn
  <1>3. PICK r : r = s \o t OBVIOUS
  <1>4. Len(r) = m + n /\ r[m + n] = t[n] /\ r # <<>> BY <1>1, <1>2, <1>3
  <1> QED BY <1>1, <1>3, <1>4 DEF EndsIn

LEMMA RoundsEnd ==
  ASSUME NEW n \in Nat \ {0}, NEW ss, ss = [i \in 1 .. n |-> ss[i]], NEW G,
         \A i \in 1 .. n : ss[i] \in Seq(Strokes) /\ EndsIn(ss[i], G)
  PROVE  EndsIn(FlattenSeq(ss), G) /\ FlattenSeq(ss) \in Seq(Strokes)
  <1>1. Len(ss) = n /\ n # 0 OBVIOUS
  <1> DEFINE f == CHOOSE g : Flats(g, ss, n)
             Open == {c \in 1 .. n : ~(f[c] \in Seq(Strokes) /\ EndsIn(f[c], G))}
  <1>2. FlattenSeq(ss) = f[n] BY <1>1 DEF FlattenSeq, Flats
  <1>3. Flats(f, ss, n) BY <1>1, FlatsExists
  <1> HIDE DEF f
  <1>4. \A i \in 1 .. n : f[i] = IF i = 1 THEN ss[i] ELSE f[i - 1] \o ss[i] BY <1>3 DEF Flats
  <1>5. Open = {}
    <2>1. SUFFICES ASSUME Open # {} PROVE FALSE OBVIOUS
    <2>2. PICK c \in Open : \A m \in Open : c <= m
      <3>1. Open \subseteq Nat OBVIOUS
      <3> HIDE DEF Open
      <3> QED BY <2>1, <3>1, LeastNat
    <2>3. c \in 1 .. n /\ ~(f[c] \in Seq(Strokes) /\ EndsIn(f[c], G)) BY <2>2
    <2>4. CASE c = 1 BY <1>4, <2>3, <2>4
    <2>5. CASE c # 1
      <3>1. c - 1 \in 1 .. n /\ ~(c <= c - 1) BY <2>3, <2>5
      <3>2. f[c - 1] \in Seq(Strokes) BY <2>2, <3>1
      <3>3. f[c] = f[c - 1] \o ss[c] /\ ss[c] \in Seq(Strokes) /\ EndsIn(ss[c], G) BY <1>4, <2>3, <2>5
      <3>4. EndsIn(f[c], G) BY <3>2, <3>3, EndsJoin
      <3> QED BY <2>3, <3>2, <3>3, <3>4
    <2> QED BY <2>4, <2>5
  <1>6. n \in 1 .. n BY <1>1
  <1> QED BY <1>2, <1>5, <1>6

LEMMA EndsOne ==
  ASSUME NEW s \in Seq(Strokes)
  PROVE  /\ s \o <<Do("wait")>> \in Seq(Strokes) /\ EndsIn(s \o <<Do("wait")>>, {"wait"})
         /\ s \o <<Do("settle")>> \in Seq(Strokes) /\ EndsIn(s \o <<Do("settle")>>, {"settle"})
  <1>1. <<Do("wait")>> \in Seq(Strokes) /\ <<Do("settle")>> \in Seq(Strokes) BY StrokeTyped
  <1>2. EndsIn(<<Do("wait")>>, {"wait"}) /\ EndsIn(<<Do("settle")>>, {"settle"}) BY DEF EndsIn, Do, Area
  <1>3. PICK x : x = <<Do("wait")>> OBVIOUS
  <1>4. PICK y : y = <<Do("settle")>> OBVIOUS
  <1>5. EndsIn(s \o x, {"wait"}) /\ EndsIn(s \o y, {"settle"}) BY <1>1, <1>2, <1>3, <1>4, EndsJoin
  <1>6. s \o x \in Seq(Strokes) /\ s \o y \in Seq(Strokes) BY <1>1, <1>3, <1>4
  <1> QED BY <1>3, <1>4, <1>5, <1>6

\* The blocks of page p, as rounds.
LEMMA PageRound ==
  ASSUME NEW o, Paged(o), NEW u \in Nat, NEW p \in Nat, NEW a, a = o.offset + u, NEW h, h = u \div PageUnits
  PROVE  /\ Round(RowsOfPage(o, p), a, u, 1, 2, p, h) /\ Round(WholePage(o, p), a, u, 1, 2, p, h)
         /\ Round(<<Area("erase", PageAt(o, p), PageUnits)>>, a, u, 0, 1, p, h)
         /\ Round(<<Area("erase", o.offset + p * PageUnits, PageUnits)>>, a, u, 0, 1, p, h)
  <1>1. PICK k \in Nat \ {0} : k = PageUnits BY Geometry
  <1>2. PICK off \in Nat : off = o.offset BY PagesFit
  <1>3. PageAt(o, p) = off + p * k BY <1>1, <1>2, PagesFit
  <1>4. Round(<<Area("erase", off + p * k, k)>>, a, u, 0, 1, p, h)
    <2>1. PICK s : s = Area("erase", off + p * k, k) OBVIOUS
    <2>2. /\ Leads(<<s>>, a, u, 0, 0) /\ Leads(<<s>>, a, u, 1, 1)
          /\ p = u \div k => Leads(<<s>>, a, u, 0, 1)
          /\ p # u \div k => Leads(<<s>>, a, u, 2, 2)
      BY <1>2, <2>1, EraseLeads
    <2> QED BY <1>1, <2>1, <2>2 DEF Round, Away
  <1>5. Round(WholePage(o, p), a, u, 1, 2, p, h)
    <2>1. PICK s : s = Data(off + p * k, k, p * k) OBVIOUS
    <2>2. /\ Leads(<<s>>, a, u, 0, 0)
          /\ p = u \div k => Leads(<<s>>, a, u, 1, 2)
          /\ p # u \div k => Leads(<<s>>, a, u, 1, 1) /\ Leads(<<s>>, a, u, 2, 2)
      BY <1>2, <2>1, DataLeads
    <2>3. WholePage(o, p) = <<s>> BY <1>1, <1>2, <2>1 DEF WholePage
    <2> QED BY <1>1, <2>2, <2>3 DEF Round, Away
  <1>6. Round(RowsOfPage(o, p), a, u, 1, 2, p, h)
    <2>1. PICK t : t = RowsOfPage(o, p) OBVIOUS
    <2>2. /\ t \in Seq(Strokes) /\ Len(t) \in Nat \ {0}
          /\ \A i \in 1 .. Len(t) : Moves(t[i], a, u, 0, 0)
          /\ p # h => \A i \in 1 .. Len(t) : Moves(t[i], a, u, 1, 1) /\ Moves(t[i], a, u, 2, 2)
          /\ p = h => \E j \in 1 .. Len(t) :
                  /\ Moves(t[j], a, u, 1, 2)
                  /\ \A i \in 1 .. Len(t) : i # j => Moves(t[i], a, u, 1, 1) /\ Moves(t[i], a, u, 2, 2)
      BY <2>1, RowsLead
    <2>3. CASE p = h
      <3>1. PICK j \in 1 .. Len(t) :
                  /\ Moves(t[j], a, u, 1, 2)
                  /\ \A i \in 1 .. Len(t) : i # j => Moves(t[i], a, u, 1, 1) /\ Moves(t[i], a, u, 2, 2)
        BY <2>2, <2>3
      <3>2. \A i \in 1 .. Len(t) : (i < j => Moves(t[i], a, u, 1, 1)) /\ (j < i => Moves(t[i], a, u, 2, 2))
        BY <2>2, <3>1
      <3>3. Leads(t, a, u, 1, 2) BY <2>2, <3>1, <3>2, LeadsPick
      <3> QED BY <2>1, <2>3, <3>3 DEF Round
    <2>4. CASE p # h
      <3>1. Leads(t, a, u, 0, 0) /\ Leads(t, a, u, 1, 1) /\ Leads(t, a, u, 2, 2) BY <2>2, <2>4, LeadsAll
      <3> QED BY <2>1, <2>4, <3>1 DEF Round, Away
    <2> QED BY <2>3, <2>4
  <1> QED BY <1>1, <1>2, <1>3, <1>4, <1>5, <1>6

\* The rows of a page, each waited for.
LEMMA SettledRound ==
  ASSUME NEW o, Paged(o), NEW u \in Nat, NEW p \in Nat, NEW a, a = o.offset + u, NEW h, h = u \div PageUnits
  PROVE  /\ Round(Settled(RowsOfPage(o, p)), a, u, 1, 2, p, h)
         /\ EndsIn(Settled(RowsOfPage(o, p)), {"settle"}) /\ Settled(RowsOfPage(o, p)) \in Seq(Strokes)
  <1>1. PICK t : t = RowsOfPage(o, p) OBVIOUS
  <1>2. /\ t \in Seq(Strokes) /\ Len(t) \in Nat \ {0}
        /\ \A i \in 1 .. Len(t) : Moves(t[i], a, u, 0, 0)
        /\ p # h => \A i \in 1 .. Len(t) : Moves(t[i], a, u, 1, 1) /\ Moves(t[i], a, u, 2, 2)
        /\ p = h => \E j \in 1 .. Len(t) :
                /\ Moves(t[j], a, u, 1, 2)
                /\ \A i \in 1 .. Len(t) : i # j => Moves(t[i], a, u, 1, 1) /\ Moves(t[i], a, u, 2, 2)
    BY <1>1, RowsLead
  <1>3. PICK n \in Nat \ {0} : n = Len(t) BY <1>2
  <1>4. DOMAIN t = 1 .. n BY <1>2, <1>3
  <1> DEFINE ss == [i \in 1 .. n |-> <<t[i], Do("settle")>>]
  <1>5. Settled(t) = FlattenSeq(ss) BY <1>4 DEF Settled
  <1>6. ASSUME NEW i \in 1 .. n PROVE t[i] \in Strokes /\ ss[i] = <<t[i]>> \o <<Do("settle")>>
    BY <1>2, <1>3, Joined
  <1>7. ss = [i \in 1 .. n |-> ss[i]] OBVIOUS
  <1> HIDE DEF ss
  <1>8. ASSUME NEW i \in 1 .. n PROVE ss[i] \in Seq(Strokes) /\ EndsIn(ss[i], {"settle"})
    <2>1. PICK x \in Strokes : x = t[i] BY <1>6
    <2>2. PICK y : y = <<x>> OBVIOUS
    <2>3. y \in Seq(Strokes) BY <2>2
    <2>4. ss[i] = y \o <<Do("settle")>> BY <1>6, <2>1, <2>2
    <2> QED BY <2>3, <2>4, EndsOne
  <1>9. EndsIn(Settled(t), {"settle"}) /\ Settled(t) \in Seq(Strokes) BY <1>5, <1>7, <1>8, RoundsEnd
  <1>10. ASSUME NEW i \in 1 .. n, NEW v \in 0 .. 2, NEW w \in 0 .. 2, Moves(t[i], a, u, v, w)
         PROVE  Leads(ss[i], a, u, v, w)
    <2>1. Leads(<<t[i]>>, a, u, v, w) BY <1>6, <1>10, LeadsOne
    <2>2. Leads(<<Do("settle")>>, a, u, w, w) BY IdleLeads
    <2> QED BY <1>6, <2>1, <2>2, LeadsJoin
  <1>11. CASE p = h
    <2>1. PICK j \in 1 .. n :
                /\ Moves(t[j], a, u, 1, 2)
                /\ \A i \in 1 .. n : i # j => Moves(t[i], a, u, 1, 1) /\ Moves(t[i], a, u, 2, 2)
      BY <1>2, <1>3, <1>11
    <2>2. Leads(ss[j], a, u, 1, 2) BY <1>10, <2>1
    <2>3. \A i \in 1 .. n : (i < j => Leads(ss[i], a, u, 1, 1)) /\ (j < i => Leads(ss[i], a, u, 2, 2))
      BY <1>10, <2>1
    <2>4. Leads(Settled(t), a, u, 1, 2) BY <1>5, <1>7, <2>2, <2>3, LeadsLoop
    <2> QED BY <1>1, <1>9, <1>11, <2>4 DEF Round
  <1>12. CASE p # h
    <2>1. ASSUME NEW x \in 0 .. 2 PROVE Leads(Settled(t), a, u, x, x)
      <3>1. \A i \in 1 .. n : Moves(t[i], a, u, x, x) BY <1>2, <1>3, <1>12
      <3>2. \A i \in 1 .. n : Leads(ss[i], a, u, x, x) BY <1>10, <3>1
      <3>3. 1 \in 1 .. n OBVIOUS
      <3> QED BY <1>5, <1>7, <3>2, <3>3, LeadsLoop
    <2> QED BY <1>1, <1>9, <1>12, <2>1 DEF Round, Away
  <1> QED BY <1>11, <1>12

\* Row p of the file, written or first erased.
LEMMA RowRound ==
  ASSUME NEW o \in Options, NEW u \in Nat, NEW p \in Nat, NEW a, a = o.offset + u, NEW h, h = u \div RowUnits
  PROVE  /\ Round(<<Data(o.offset + p * RowUnits, RowUnits, p * RowUnits)>>, a, u, 1, 2, p, h)
         /\ Round(<<Area("erase", o.offset + p * RowUnits, RowUnits)>>, a, u, 0, 1, p, h)
  <1>1. PICK k \in Nat \ {0} : k = RowUnits BY Geometry
  <1>2. PICK off \in Nat : off = o.offset BY Pages
  <1>3. Round(<<Area("erase", off + p * k, k)>>, a, u, 0, 1, p, h)
    <2>1. PICK s : s = Area("erase", off + p * k, k) OBVIOUS
    <2>2. /\ Leads(<<s>>, a, u, 0, 0) /\ Leads(<<s>>, a, u, 1, 1)
          /\ p = u \div k => Leads(<<s>>, a, u, 0, 1)
          /\ p # u \div k => Leads(<<s>>, a, u, 2, 2)
      BY <1>2, <2>1, EraseLeads
    <2> QED BY <1>1, <2>1, <2>2 DEF Round, Away
  <1>4. Round(<<Data(off + p * k, k, p * k)>>, a, u, 1, 2, p, h)
    <2>1. PICK s : s = Data(off + p * k, k, p * k) OBVIOUS
    <2>2. /\ Leads(<<s>>, a, u, 0, 0)
          /\ p = u \div k => Leads(<<s>>, a, u, 1, 2)
          /\ p # u \div k => Leads(<<s>>, a, u, 1, 1) /\ Leads(<<s>>, a, u, 2, 2)
      BY <1>2, <2>1, DataLeads
    <2> QED BY <1>1, <2>1, <2>2 DEF Round, Away
  <1> QED BY <1>1, <1>2, <1>3, <1>4

LEMMA RoundTyped ==
  ASSUME NEW s, NEW a, NEW u, NEW v, NEW w, NEW p, NEW h, Round(s, a, u, v, w, p, h)
  PROVE  s \in Seq(Strokes)
  BY DEF Round, Away, Leads

LEMMA RoundEnds ==
  ASSUME NEW s, NEW a, NEW u, NEW v \in 0 .. 2, NEW w \in 0 .. 2, NEW p, NEW h, Round(s, a, u, v, w, p, h)
  PROVE  Round(s \o <<Do("wait")>>, a, u, v, w, p, h) /\ Round(s \o <<Do("settle")>>, a, u, v, w, p, h)
  <1>1. Round(<<Do("wait")>>, a, u, w, w, p, h) /\ Round(<<Do("settle")>>, a, u, w, w, p, h) BY RoundIdle
  <1>2. PICK x : x = <<Do("wait")>> OBVIOUS
  <1>3. PICK y : y = <<Do("settle")>> OBVIOUS
  <1>4. Round(s \o x, a, u, v, w, p, h) /\ Round(s \o y, a, u, v, w, p, h) BY <1>1, <1>2, <1>3, RoundJoin
  <1> QED BY <1>2, <1>3, <1>4

\* The rounds of the loops over the pages.
LEMMA PageTurns ==
  ASSUME NEW o, Paged(o), NEW u \in Nat, NEW p \in Nat, NEW a, a = o.offset + u, NEW h, h = u \div PageUnits,
         NEW e, e = Area("erase", PageAt(o, p), PageUnits)
  PROVE  /\ Round(<<e>> \o <<Do("wait")>>, a, u, 0, 1, p, h) /\ Round(<<e, Do("settle")>>, a, u, 0, 1, p, h)
         /\ M4Command(e) = <<e>> \o <<Do("wait")>>
         /\ Round(<<e>> \o <<Do("wait")>> \o RowsOfPage(o, p) \o <<Do("wait")>>, a, u, 0, 2, p, h)
         /\ EndsIn(<<e>> \o <<Do("wait")>> \o RowsOfPage(o, p) \o <<Do("wait")>>, {"wait"})
         /\ Round(<<e>> \o <<Do("wait")>> \o WholePage(o, p) \o <<Do("wait")>>, a, u, 0, 2, p, h)
         /\ EndsIn(<<e>> \o <<Do("wait")>> \o WholePage(o, p) \o <<Do("wait")>>, {"wait"})
         /\ Round(<<e, Do("settle")>> \o Settled(RowsOfPage(o, p)), a, u, 0, 2, p, h)
         /\ EndsIn(<<e, Do("settle")>> \o Settled(RowsOfPage(o, p)), {"settle"})
         /\ Round(RowsOfPage(o, p) \o <<Do("wait")>>, a, u, 1, 2, p, h)
         /\ EndsIn(RowsOfPage(o, p) \o <<Do("wait")>>, {"wait"})
         /\ Round(WholePage(o, p), a, u, 1, 2, p, h)
         /\ e = Area("erase", o.offset + p * PageUnits, PageUnits)
  <1>1. Round(RowsOfPage(o, p), a, u, 1, 2, p, h) /\ Round(WholePage(o, p), a, u, 1, 2, p, h)
        /\ Round(<<e>>, a, u, 0, 1, p, h)
    BY PageRound
  <1>2. /\ Round(Settled(RowsOfPage(o, p)), a, u, 1, 2, p, h)
        /\ EndsIn(Settled(RowsOfPage(o, p)), {"settle"}) /\ Settled(RowsOfPage(o, p)) \in Seq(Strokes)
    BY SettledRound
  <1>3. e = Area("erase", o.offset + p * PageUnits, PageUnits) BY PagesFit
  <1>4. <<e>> \o <<Do("wait")>> = <<e, Do("wait")>> /\ <<e>> \o <<Do("settle")>> = <<e, Do("settle")>> BY Joined
  <1>5. M4Command(e) = <<e>> \o <<Do("wait")>> BY <1>4 DEF M4Command
  <1>6. PICK x : x = <<e>> \o <<Do("wait")>> OBVIOUS
  <1>7. PICK y : y = <<e>> \o <<Do("settle")>> OBVIOUS
  <1>8. PICK r : r = RowsOfPage(o, p) OBVIOUS
  <1>9. PICK w : w = WholePage(o, p) OBVIOUS
  <1>10. PICK z : z = Settled(RowsOfPage(o, p)) OBVIOUS
  <1>11. Round(x, a, u, 0, 1, p, h) /\ Round(y, a, u, 0, 1, p, h) BY <1>1, <1>6, <1>7, RoundEnds
  <1>12. Round(x \o r, a, u, 0, 2, p, h) /\ Round(x \o w, a, u, 0, 2, p, h) /\ Round(y \o z, a, u, 0, 2, p, h)
    BY <1>1, <1>2, <1>8, <1>9, <1>10, <1>11, RoundJoin
  <1>17. PICK b : b = x \o r OBVIOUS
  <1>18. PICK c : c = x \o w OBVIOUS
  <1>19. Round(b, a, u, 0, 2, p, h) /\ Round(c, a, u, 0, 2, p, h) /\ Round(r, a, u, 1, 2, p, h) BY <1>1, <1>8, <1>12, <1>17, <1>18
  <1>13. Round(b \o <<Do("wait")>>, a, u, 0, 2, p, h) /\ EndsIn(b \o <<Do("wait")>>, {"wait"})
    <2>1. b \in Seq(Strokes) BY <1>19, RoundTyped
    <2>2. EndsIn(b \o <<Do("wait")>>, {"wait"}) BY <2>1, EndsOne
    <2>3. Round(b, a, u, 0, 2, p, h) BY <1>19
    <2>4. Round(b \o <<Do("wait")>>, a, u, 0, 2, p, h) BY <2>3, RoundEnds
    <2> QED BY <2>2, <2>4
  <1>14. Round(c \o <<Do("wait")>>, a, u, 0, 2, p, h) /\ EndsIn(c \o <<Do("wait")>>, {"wait"})
    <2>1. c \in Seq(Strokes) BY <1>19, RoundTyped
    <2>2. EndsIn(c \o <<Do("wait")>>, {"wait"}) BY <2>1, EndsOne
    <2>3. Round(c, a, u, 0, 2, p, h) BY <1>19
    <2>4. Round(c \o <<Do("wait")>>, a, u, 0, 2, p, h) BY <2>3, RoundEnds
    <2> QED BY <2>2, <2>4
  <1>15. Round(r \o <<Do("wait")>>, a, u, 1, 2, p, h) /\ EndsIn(r \o <<Do("wait")>>, {"wait"})
    <2>1. r \in Seq(Strokes) BY <1>19, RoundTyped
    <2>2. EndsIn(r \o <<Do("wait")>>, {"wait"}) BY <2>1, EndsOne
    <2> QED BY <1>19, <2>2, RoundEnds
  <1>16. EndsIn(y \o z, {"settle"})
    <2>1. y \in Seq(Strokes) BY <1>11, RoundTyped
    <2> QED BY <1>2, <1>10, <2>1, EndsJoin
  <1> QED BY <1>1, <1>3, <1>4, <1>5, <1>6, <1>7, <1>8, <1>9, <1>10, <1>11, <1>12, <1>13, <1>14, <1>15, <1>16, <1>17, <1>18

\* A row is committed where it is addressed.
LEMMA RowCommit ==
  ASSUME NEW o \in Options, NEW p \in Nat
  PROVE  Data(o.offset + p * RowUnits, RowUnits, p * RowUnits)
           = Commit(o.offset + p * RowUnits, p * RowUnits)
  BY DEF Commit

\* The rounds of the loops over the rows.
LEMMA RowTurns ==
  ASSUME NEW o \in Options, NEW u \in Nat, NEW p \in Nat, NEW a, a = o.offset + u, NEW h, h = u \div RowUnits,
         NEW d, d = Data(o.offset + p * RowUnits, RowUnits, p * RowUnits)
  PROVE  /\ Round(<<d, Do("settle")>>, a, u, 1, 2, p, h) /\ EndsIn(<<d, Do("settle")>>, {"settle"})
         /\ d = Commit(o.offset + p * RowUnits, p * RowUnits)
         /\ Round(<<Area("erase", d.at, RowUnits), d, Do("settle")>>, a, u, 0, 2, p, h)
         /\ EndsIn(<<Area("erase", d.at, RowUnits), d, Do("settle")>>, {"settle"})
  <1>1. PICK e : e = Area("erase", d.at, RowUnits) OBVIOUS
  <1>2. d.at = o.offset + p * RowUnits BY DEF Data
  <1>3. Round(<<d>>, a, u, 1, 2, p, h) /\ Round(<<e>>, a, u, 0, 1, p, h) BY <1>1, <1>2, RowRound
  <1>4. d = Commit(o.offset + p * RowUnits, p * RowUnits) BY RowCommit
  <1>5. <<d>> \o <<Do("settle")>> = <<d, Do("settle")>> /\ <<e>> \o <<d>> = <<e, d>>
        /\ <<e, d>> \o <<Do("settle")>> = <<e, d, Do("settle")>>
    BY Joined
  <1>7. PICK x : x = <<e>> OBVIOUS
  <1>8. PICK y : y = <<d>> OBVIOUS
  <1>6. Round(y \o <<Do("settle")>>, a, u, 1, 2, p, h) /\ EndsIn(y \o <<Do("settle")>>, {"settle"})
    <2>1. Round(y, a, u, 1, 2, p, h) BY <1>3, <1>8
    <2>2. y \in Seq(Strokes) BY <2>1, RoundTyped
    <2>3. EndsIn(y \o <<Do("settle")>>, {"settle"}) BY <2>2, EndsOne
    <2> QED BY <2>1, <2>3, RoundEnds
  <1>9. Round(x \o y, a, u, 0, 2, p, h) BY <1>3, <1>7, <1>8, RoundJoin
  <1>10. Round((x \o y) \o <<Do("settle")>>, a, u, 0, 2, p, h) /\ EndsIn((x \o y) \o <<Do("settle")>>, {"settle"})
    <2>1. PICK z : z = x \o y OBVIOUS
    <2>2. Round(z, a, u, 0, 2, p, h) BY <1>9, <2>1
    <2>3. z \in Seq(Strokes) BY <2>2, RoundTyped
    <2>4. EndsIn(z \o <<Do("settle")>>, {"settle"}) BY <2>3, EndsOne
    <2>5. Round(z \o <<Do("settle")>>, a, u, 0, 2, p, h) BY <2>2, RoundEnds
    <2> QED BY <2>1, <2>4, <2>5
  <1> QED BY <1>1, <1>4, <1>5, <1>6, <1>7, <1>8, <1>10

\* A file that is not empty has a first page and a first row, and unit u lies in one.
LEMMA FileBlocks ==
  ASSUME NEW b \in Nat \ {0}, NEW f \in Nat, NEW u \in Nat, u < f
  PROVE  CeilDiv(f, b) \in Nat \ {0} /\ u \div b \in Nat /\ u \div b < CeilDiv(f, b)
  <1>1. PICK c \in Nat : c = CeilDiv(f, b) BY Counts
  <1>2. PICK q \in Nat : q = u \div b BY Division
  <1>3. PICK r \in 0 .. b - 1 : r = u % b /\ b * q + r = u BY <1>2, Division
  <1>4. b * c >= f
    <2>1. b * 0 + f <= b * f
      <3>1. b >= 1 OBVIOUS
      <3>2. f <= b * f BY <3>1, Z3
      <3> QED BY <3>2
    <2> QED BY <1>1, <2>1, MultipleFits
  <1>5. b * q < b * c
    <2>1. b * q \in Nat /\ b * c \in Nat OBVIOUS
    <2> QED BY <1>3, <1>4, <2>1
  <1>6. q < c BY <1>5, Z3
  <1> QED BY <1>1, <1>2, <1>6

\* program of every driver but SAM D leaves every unit of the file as it should be, in its last step a wait.
LEMMA G0Leads ==
  ASSUME NEW o, Paged(o), NEW u \in Nat, u < o.file, NEW a, a = o.offset + u
  PROVE  Leads(G0Program(o), a, u, 0, 2) /\ EndsIn(G0Program(o), {"wait"})
  <1>1. o \in Options /\ o.file \in Nat BY Pages DEF Paged
  <1>2. PageUnits \in Nat \ {0} /\ RowUnits \in Nat \ {0} BY Geometry
  <1>3. PICK n \in Nat \ {0}, q \in Nat : n = PagesOf(o) /\ q = u \div PageUnits /\ q < n
    BY <1>1, <1>2, FileBlocks DEF PagesOf
  <1>4. PICK m \in Nat \ {0}, r \in Nat : m = CeilDiv(o.file, RowUnits) /\ r = u \div RowUnits /\ r < m
    BY <1>1, <1>2, FileBlocks
  <1> DEFINE s == [i \in 1 .. n |-> <<Area("erase", PageAt(o, (i - 1)), PageUnits)>> \o <<Do("wait")>> \o RowsOfPage(o, (i - 1)) \o <<Do("wait")>>]
  <1>5. ASSUME NEW i \in 1 .. n
        PROVE  Round(s[i], a, u, 0, 2, i - 1, q) /\ EndsIn(s[i], {"wait"})
    <2>1. PICK p \in Nat : p = i - 1 OBVIOUS
    <2>2. s[i] = <<Area("erase", PageAt(o, p), PageUnits)>> \o <<Do("wait")>> \o RowsOfPage(o, p) \o <<Do("wait")>> BY <2>1
    <2> HIDE DEF s
    <2>3. PICK e : e = Area("erase", PageAt(o, p), PageUnits) OBVIOUS
    <2>4. q = u \div PageUnits BY <1>3
    <2>6. Round(<<e>> \o <<Do("wait")>> \o RowsOfPage(o, p) \o <<Do("wait")>>, a, u, 0, 2, p, q) BY <2>3, <2>4, PageTurns
    <2>7. EndsIn(<<e>> \o <<Do("wait")>> \o RowsOfPage(o, p) \o <<Do("wait")>>, {"wait"}) BY <2>3, <2>4, PageTurns
    <2> QED BY <2>1, <2>2, <2>3, <2>6, <2>7
  <1>6. s = [i \in 1 .. n |-> s[i]] OBVIOUS
  <1>7. PICK fs : fs = FlattenSeq(s) OBVIOUS
  <1>8. G0Program(o) = FlattenSeq(s) BY <1>3, <1>4 DEF G0Program, Times, G0Wait
  <1> HIDE DEF s
  <1>9. Leads(fs, a, u, 0, 2) /\ fs \in Seq(Strokes) /\ EndsIn(fs, {"wait"})
    <2>1. \A i \in 1 .. n : Round(s[i], a, u, 0, 2, i - 1, q) BY <1>5
    <2>2. n \in Nat /\ q \in Nat /\ q < n /\ 0 \in 0 .. 2 /\ 2 \in 0 .. 2 BY <1>3
    <2>3. Leads(FlattenSeq(s), a, u, 0, 2) BY <1>6, <2>1, <2>2, RoundsLead
    <2>4. Leads(fs, a, u, 0, 2) BY <1>7, <2>3
    <2>5. \A i \in 1 .. n : s[i] \in Seq(Strokes) /\ EndsIn(s[i], {"wait"}) BY <1>5, RoundTyped
    <2>6. EndsIn(fs, {"wait"}) BY <2>5, <1>6, <1>7, RoundsEnd
    <2> QED BY <2>4, <2>6 DEF Leads
  <1> QED BY <1>8, <1>9, <1>7

LEMMA G4Leads ==
  ASSUME NEW o, Paged(o), NEW u \in Nat, u < o.file, NEW a, a = o.offset + u
  PROVE  Leads(G4Program(o), a, u, 0, 2) /\ EndsIn(G4Program(o), {"wait"})
  <1>1. o \in Options /\ o.file \in Nat BY Pages DEF Paged
  <1>2. PageUnits \in Nat \ {0} /\ RowUnits \in Nat \ {0} BY Geometry
  <1>3. PICK n \in Nat \ {0}, q \in Nat : n = PagesOf(o) /\ q = u \div PageUnits /\ q < n
    BY <1>1, <1>2, FileBlocks DEF PagesOf
  <1>4. PICK m \in Nat \ {0}, r \in Nat : m = CeilDiv(o.file, RowUnits) /\ r = u \div RowUnits /\ r < m
    BY <1>1, <1>2, FileBlocks
  <1> DEFINE s == [i \in 1 .. n |-> <<Area("erase", PageAt(o, (i - 1)), PageUnits)>> \o <<Do("wait")>> \o RowsOfPage(o, (i - 1)) \o <<Do("wait")>>]
  <1>5. ASSUME NEW i \in 1 .. n
        PROVE  Round(s[i], a, u, 0, 2, i - 1, q) /\ EndsIn(s[i], {"wait"})
    <2>1. PICK p \in Nat : p = i - 1 OBVIOUS
    <2>2. s[i] = <<Area("erase", PageAt(o, p), PageUnits)>> \o <<Do("wait")>> \o RowsOfPage(o, p) \o <<Do("wait")>> BY <2>1
    <2> HIDE DEF s
    <2>3. PICK e : e = Area("erase", PageAt(o, p), PageUnits) OBVIOUS
    <2>4. q = u \div PageUnits BY <1>3
    <2>6. Round(<<e>> \o <<Do("wait")>> \o RowsOfPage(o, p) \o <<Do("wait")>>, a, u, 0, 2, p, q) BY <2>3, <2>4, PageTurns
    <2>7. EndsIn(<<e>> \o <<Do("wait")>> \o RowsOfPage(o, p) \o <<Do("wait")>>, {"wait"}) BY <2>3, <2>4, PageTurns
    <2> QED BY <2>1, <2>2, <2>3, <2>6, <2>7
  <1>6. s = [i \in 1 .. n |-> s[i]] OBVIOUS
  <1>7. PICK fs : fs = FlattenSeq(s) OBVIOUS
  <1>8. G4Program(o) = FlattenSeq(s) BY <1>3, <1>4 DEF G4Program, Times, G4Wait
  <1> HIDE DEF s
  <1>9. Leads(fs, a, u, 0, 2) /\ fs \in Seq(Strokes) /\ EndsIn(fs, {"wait"})
    <2>1. \A i \in 1 .. n : Round(s[i], a, u, 0, 2, i - 1, q) BY <1>5
    <2>2. n \in Nat /\ q \in Nat /\ q < n /\ 0 \in 0 .. 2 /\ 2 \in 0 .. 2 BY <1>3
    <2>3. Leads(FlattenSeq(s), a, u, 0, 2) BY <1>6, <2>1, <2>2, RoundsLead
    <2>4. Leads(fs, a, u, 0, 2) BY <1>7, <2>3
    <2>5. \A i \in 1 .. n : s[i] \in Seq(Strokes) /\ EndsIn(s[i], {"wait"}) BY <1>5, RoundTyped
    <2>6. EndsIn(fs, {"wait"}) BY <2>5, <1>6, <1>7, RoundsEnd
    <2> QED BY <2>4, <2>6 DEF Leads
  <1> QED BY <1>8, <1>9, <1>7

LEMMA PyLeads ==
  ASSUME NEW o, Paged(o), NEW u \in Nat, u < o.file, NEW a, a = o.offset + u
  PROVE  Leads(PyProgram(o), a, u, 0, 2) /\ EndsIn(PyProgram(o), {"wait"})
  <1>1. o \in Options /\ o.file \in Nat BY Pages DEF Paged
  <1>2. PageUnits \in Nat \ {0} /\ RowUnits \in Nat \ {0} BY Geometry
  <1>3. PICK n \in Nat \ {0}, q \in Nat : n = PagesOf(o) /\ q = u \div PageUnits /\ q < n
    BY <1>1, <1>2, FileBlocks DEF PagesOf
  <1>4. PICK m \in Nat \ {0}, r \in Nat : m = CeilDiv(o.file, RowUnits) /\ r = u \div RowUnits /\ r < m
    BY <1>1, <1>2, FileBlocks
  <1> DEFINE s == [i \in 1 .. n |-> <<Area("erase", o.offset + (i - 1) * PageUnits, PageUnits)>> \o <<Do("wait")>> \o WholePage(o, (i - 1)) \o <<Do("wait")>>]
  <1>5. ASSUME NEW i \in 1 .. n
        PROVE  Round(s[i], a, u, 0, 2, i - 1, q) /\ EndsIn(s[i], {"wait"})
    <2>1. PICK p \in Nat : p = i - 1 OBVIOUS
    <2>2. s[i] = <<Area("erase", o.offset + p * PageUnits, PageUnits)>> \o <<Do("wait")>> \o WholePage(o, p) \o <<Do("wait")>> BY <2>1
    <2> HIDE DEF s
    <2>3. PICK e : e = Area("erase", PageAt(o, p), PageUnits) OBVIOUS
    <2>4. q = u \div PageUnits BY <1>3
    <2>5. e = Area("erase", o.offset + p * PageUnits, PageUnits) BY <2>3, PagesFit
    <2>6. Round(<<e>> \o <<Do("wait")>> \o WholePage(o, p) \o <<Do("wait")>>, a, u, 0, 2, p, q) BY <2>3, <2>4, PageTurns
    <2>7. EndsIn(<<e>> \o <<Do("wait")>> \o WholePage(o, p) \o <<Do("wait")>>, {"wait"}) BY <2>3, <2>4, PageTurns
    <2> QED BY <2>1, <2>2, <2>3, <2>5, <2>6, <2>7
  <1>6. s = [i \in 1 .. n |-> s[i]] OBVIOUS
  <1>7. PICK fs : fs = FlattenSeq(s) OBVIOUS
  <1>8. PyProgram(o) = FlattenSeq(s) BY <1>3, <1>4 DEF PyProgram, Times, PyWait
  <1> HIDE DEF s
  <1>9. Leads(fs, a, u, 0, 2) /\ fs \in Seq(Strokes) /\ EndsIn(fs, {"wait"})
    <2>1. \A i \in 1 .. n : Round(s[i], a, u, 0, 2, i - 1, q) BY <1>5
    <2>2. n \in Nat /\ q \in Nat /\ q < n /\ 0 \in 0 .. 2 /\ 2 \in 0 .. 2 BY <1>3
    <2>3. Leads(FlattenSeq(s), a, u, 0, 2) BY <1>6, <2>1, <2>2, RoundsLead
    <2>4. Leads(fs, a, u, 0, 2) BY <1>7, <2>3
    <2>5. \A i \in 1 .. n : s[i] \in Seq(Strokes) /\ EndsIn(s[i], {"wait"}) BY <1>5, RoundTyped
    <2>6. EndsIn(fs, {"wait"}) BY <2>5, <1>6, <1>7, RoundsEnd
    <2> QED BY <2>4, <2>6 DEF Leads
  <1> QED BY <1>8, <1>9, <1>7

LEMMA SeLeads ==
  ASSUME NEW o, Paged(o), NEW u \in Nat, u < o.file, NEW a, a = o.offset + u
  PROVE  Leads(SeProgram(o), a, u, 0, 2) /\ EndsIn(SeProgram(o), {"settle"})
  <1>1. o \in Options /\ o.file \in Nat BY Pages DEF Paged
  <1>2. PageUnits \in Nat \ {0} /\ RowUnits \in Nat \ {0} BY Geometry
  <1>3. PICK n \in Nat \ {0}, q \in Nat : n = PagesOf(o) /\ q = u \div PageUnits /\ q < n
    BY <1>1, <1>2, FileBlocks DEF PagesOf
  <1>4. PICK m \in Nat \ {0}, r \in Nat : m = CeilDiv(o.file, RowUnits) /\ r = u \div RowUnits /\ r < m
    BY <1>1, <1>2, FileBlocks
  <1> DEFINE s == [i \in 1 .. n |-> <<Area("erase", o.offset + (i - 1) * PageUnits, PageUnits), Do("settle")>> \o Settled(RowsOfPage(o, (i - 1)))]
  <1>5. ASSUME NEW i \in 1 .. n
        PROVE  Round(s[i], a, u, 0, 2, i - 1, q) /\ EndsIn(s[i], {"settle"})
    <2>1. PICK p \in Nat : p = i - 1 OBVIOUS
    <2>2. s[i] = <<Area("erase", o.offset + p * PageUnits, PageUnits), Do("settle")>> \o Settled(RowsOfPage(o, p)) BY <2>1
    <2> HIDE DEF s
    <2>3. PICK e : e = Area("erase", PageAt(o, p), PageUnits) OBVIOUS
    <2>4. q = u \div PageUnits BY <1>3
    <2>5. e = Area("erase", o.offset + p * PageUnits, PageUnits) BY <2>3, PagesFit
    <2>6. Round(<<e, Do("settle")>> \o Settled(RowsOfPage(o, p)), a, u, 0, 2, p, q) BY <2>3, <2>4, PageTurns
    <2>7. EndsIn(<<e, Do("settle")>> \o Settled(RowsOfPage(o, p)), {"settle"}) BY <2>3, <2>4, PageTurns
    <2> QED BY <2>1, <2>2, <2>3, <2>5, <2>6, <2>7
  <1>6. s = [i \in 1 .. n |-> s[i]] OBVIOUS
  <1>7. PICK fs : fs = FlattenSeq(s) OBVIOUS
  <1>8. SeProgram(o) = FlattenSeq(s) BY <1>3, <1>4 DEF SeProgram, Times
  <1> HIDE DEF s
  <1>9. Leads(fs, a, u, 0, 2) /\ fs \in Seq(Strokes) /\ EndsIn(fs, {"settle"})
    <2>1. \A i \in 1 .. n : Round(s[i], a, u, 0, 2, i - 1, q) BY <1>5
    <2>2. n \in Nat /\ q \in Nat /\ q < n /\ 0 \in 0 .. 2 /\ 2 \in 0 .. 2 BY <1>3
    <2>3. Leads(FlattenSeq(s), a, u, 0, 2) BY <1>6, <2>1, <2>2, RoundsLead
    <2>4. Leads(fs, a, u, 0, 2) BY <1>7, <2>3
    <2>5. \A i \in 1 .. n : s[i] \in Seq(Strokes) /\ EndsIn(s[i], {"settle"}) BY <1>5, RoundTyped
    <2>6. EndsIn(fs, {"settle"}) BY <2>5, <1>6, <1>7, RoundsEnd
    <2> QED BY <2>4, <2>6 DEF Leads
  <1> QED BY <1>8, <1>9, <1>7

LEMMA WbLeads ==
  ASSUME NEW o, Paged(o), NEW u \in Nat, u < o.file, NEW a, a = o.offset + u
  PROVE  Leads(WbProgram(o), a, u, 0, 2) /\ EndsIn(WbProgram(o), {"wait"})
  <1>1. o \in Options /\ o.file \in Nat BY Pages DEF Paged
  <1>2. PageUnits \in Nat \ {0} /\ RowUnits \in Nat \ {0} BY Geometry
  <1>3. PICK n \in Nat \ {0}, q \in Nat : n = PagesOf(o) /\ q = u \div PageUnits /\ q < n
    BY <1>1, <1>2, FileBlocks DEF PagesOf
  <1>4. PICK m \in Nat \ {0}, r \in Nat : m = CeilDiv(o.file, RowUnits) /\ r = u \div RowUnits /\ r < m
    BY <1>1, <1>2, FileBlocks
  <1> DEFINE s == [i \in 1 .. n |-> <<Area("erase", PageAt(o, (i - 1)), PageUnits)>> \o <<Do("wait")>>]
  <1>5. ASSUME NEW i \in 1 .. n
        PROVE  Round(s[i], a, u, 0, 1, i - 1, q)
    <2>1. PICK p \in Nat : p = i - 1 OBVIOUS
    <2>2. s[i] = <<Area("erase", PageAt(o, p), PageUnits)>> \o <<Do("wait")>> BY <2>1
    <2> HIDE DEF s
    <2>3. PICK e : e = Area("erase", PageAt(o, p), PageUnits) OBVIOUS
    <2>4. q = u \div PageUnits BY <1>3
    <2>6. Round(<<e>> \o <<Do("wait")>>, a, u, 0, 1, p, q) BY <2>3, <2>4, PageTurns
    <2> QED BY <2>1, <2>2, <2>3, <2>6
  <1>6. s = [i \in 1 .. n |-> s[i]] OBVIOUS
  <1>7. PICK fs : fs = FlattenSeq(s) OBVIOUS
  <1> DEFINE t == [i \in 1 .. n |-> RowsOfPage(o, (i - 1)) \o <<Do("wait")>>]
  <1>8. ASSUME NEW i \in 1 .. n
        PROVE  Round(t[i], a, u, 1, 2, i - 1, q) /\ EndsIn(t[i], {"wait"})
    <2>1. PICK p \in Nat : p = i - 1 OBVIOUS
    <2>2. t[i] = RowsOfPage(o, p) \o <<Do("wait")>> BY <2>1
    <2> HIDE DEF t
    <2>3. PICK e : e = Area("erase", PageAt(o, p), PageUnits) OBVIOUS
    <2>4. q = u \div PageUnits BY <1>3
    <2>6. Round(RowsOfPage(o, p) \o <<Do("wait")>>, a, u, 1, 2, p, q) BY <2>3, <2>4, PageTurns
    <2>7. EndsIn(RowsOfPage(o, p) \o <<Do("wait")>>, {"wait"}) BY <2>3, <2>4, PageTurns
    <2> QED BY <2>1, <2>2, <2>3, <2>6, <2>7
  <1>9. t = [i \in 1 .. n |-> t[i]] OBVIOUS
  <1>10. PICK ft : ft = FlattenSeq(t) OBVIOUS
  <1>11. WbProgram(o) = FlattenSeq(s) \o FlattenSeq(t) BY <1>3, <1>4 DEF WbProgram, Times, WbWait
  <1> HIDE DEF s, t
  <1>12. Leads(fs, a, u, 0, 1) /\ fs \in Seq(Strokes)
    <2>1. \A i \in 1 .. n : Round(s[i], a, u, 0, 1, i - 1, q) BY <1>5
    <2>2. n \in Nat /\ q \in Nat /\ q < n /\ 0 \in 0 .. 2 /\ 1 \in 0 .. 2 BY <1>3
    <2>3. Leads(FlattenSeq(s), a, u, 0, 1) BY <1>6, <2>1, <2>2, RoundsLead
    <2>4. Leads(fs, a, u, 0, 1) BY <1>7, <2>3
    <2> QED BY <2>4 DEF Leads
  <1>13. Leads(ft, a, u, 1, 2) /\ ft \in Seq(Strokes) /\ EndsIn(ft, {"wait"})
    <2>1. \A i \in 1 .. n : Round(t[i], a, u, 1, 2, i - 1, q) BY <1>8
    <2>2. n \in Nat /\ q \in Nat /\ q < n /\ 1 \in 0 .. 2 /\ 2 \in 0 .. 2 BY <1>3
    <2>3. Leads(FlattenSeq(t), a, u, 1, 2) BY <1>9, <2>1, <2>2, RoundsLead
    <2>4. Leads(ft, a, u, 1, 2) BY <1>10, <2>3
    <2>5. \A i \in 1 .. n : t[i] \in Seq(Strokes) /\ EndsIn(t[i], {"wait"}) BY <1>8, RoundTyped
    <2>6. EndsIn(ft, {"wait"}) BY <2>5, <1>9, <1>10, RoundsEnd
    <2> QED BY <2>4, <2>6 DEF Leads
  <1>14. Leads(fs \o ft, a, u, 0, 2) BY <1>12, <1>13, LeadsJoin
  <1>15. EndsIn(fs \o ft, {"wait"}) BY <1>12, <1>13, EndsJoin
  <1> QED BY <1>11, <1>14, <1>15, <1>7, <1>10

LEMMA A4Leads ==
  ASSUME NEW o, Paged(o), NEW u \in Nat, u < o.file, NEW a, a = o.offset + u
  PROVE  Leads(A4Program(o), a, u, 0, 2) /\ EndsIn(A4Program(o), {"settle"})
  <1>1. o \in Options /\ o.file \in Nat BY Pages DEF Paged
  <1>2. PageUnits \in Nat \ {0} /\ RowUnits \in Nat \ {0} BY Geometry
  <1>3. PICK n \in Nat \ {0}, q \in Nat : n = PagesOf(o) /\ q = u \div PageUnits /\ q < n
    BY <1>1, <1>2, FileBlocks DEF PagesOf
  <1>4. PICK m \in Nat \ {0}, r \in Nat : m = CeilDiv(o.file, RowUnits) /\ r = u \div RowUnits /\ r < m
    BY <1>1, <1>2, FileBlocks
  <1> DEFINE s == [i \in 1 .. n |-> <<Area("erase", PageAt(o, (i - 1)), PageUnits), Do("settle")>>]
  <1>5. ASSUME NEW i \in 1 .. n
        PROVE  Round(s[i], a, u, 0, 1, i - 1, q)
    <2>1. PICK p \in Nat : p = i - 1 OBVIOUS
    <2>2. s[i] = <<Area("erase", PageAt(o, p), PageUnits), Do("settle")>> BY <2>1
    <2> HIDE DEF s
    <2>3. PICK e : e = Area("erase", PageAt(o, p), PageUnits) OBVIOUS
    <2>4. q = u \div PageUnits BY <1>3
    <2>6. Round(<<e, Do("settle")>>, a, u, 0, 1, p, q) BY <2>3, <2>4, PageTurns
    <2> QED BY <2>1, <2>2, <2>3, <2>6
  <1>6. s = [i \in 1 .. n |-> s[i]] OBVIOUS
  <1>7. PICK fs : fs = FlattenSeq(s) OBVIOUS
  <1> DEFINE t == [i \in 1 .. m |-> <<Commit(o.offset + (i - 1) * RowUnits, (i - 1) * RowUnits), Do("settle")>>]
  <1>8. ASSUME NEW i \in 1 .. m
        PROVE  Round(t[i], a, u, 1, 2, i - 1, r) /\ EndsIn(t[i], {"settle"})
    <2>1. PICK p \in Nat : p = i - 1 OBVIOUS
    <2>2. t[i] = <<Commit(o.offset + p * RowUnits, p * RowUnits), Do("settle")>> BY <2>1
    <2> HIDE DEF t
    <2>3. PICK d : d = Data(o.offset + p * RowUnits, RowUnits, p * RowUnits) OBVIOUS
    <2>4. r = u \div RowUnits BY <1>4
    <2>5. d = Commit(o.offset + p * RowUnits, p * RowUnits) BY <1>1, <2>3, RowCommit
    <2>6. Round(<<d, Do("settle")>>, a, u, 1, 2, p, r) BY <1>1, <2>3, <2>4, RowTurns
    <2>7. EndsIn(<<d, Do("settle")>>, {"settle"}) BY <1>1, <2>3, <2>4, RowTurns
    <2> QED BY <2>1, <2>2, <2>3, <2>5, <2>6, <2>7
  <1>9. t = [i \in 1 .. m |-> t[i]] OBVIOUS
  <1>10. PICK ft : ft = FlattenSeq(t) OBVIOUS
  <1>11. A4Program(o) = FlattenSeq(s) \o FlattenSeq(t) BY <1>3, <1>4 DEF A4Program, Times
  <1> HIDE DEF s, t
  <1>12. Leads(fs, a, u, 0, 1) /\ fs \in Seq(Strokes)
    <2>1. \A i \in 1 .. n : Round(s[i], a, u, 0, 1, i - 1, q) BY <1>5
    <2>2. n \in Nat /\ q \in Nat /\ q < n /\ 0 \in 0 .. 2 /\ 1 \in 0 .. 2 BY <1>3
    <2>3. Leads(FlattenSeq(s), a, u, 0, 1) BY <1>6, <2>1, <2>2, RoundsLead
    <2>4. Leads(fs, a, u, 0, 1) BY <1>7, <2>3
    <2> QED BY <2>4 DEF Leads
  <1>13. Leads(ft, a, u, 1, 2) /\ ft \in Seq(Strokes) /\ EndsIn(ft, {"settle"})
    <2>1. \A i \in 1 .. m : Round(t[i], a, u, 1, 2, i - 1, r) BY <1>8
    <2>2. m \in Nat /\ r \in Nat /\ r < m /\ 1 \in 0 .. 2 /\ 2 \in 0 .. 2 BY <1>4
    <2>3. Leads(FlattenSeq(t), a, u, 1, 2) BY <1>9, <2>1, <2>2, RoundsLead
    <2>4. Leads(ft, a, u, 1, 2) BY <1>10, <2>3
    <2>5. \A i \in 1 .. m : t[i] \in Seq(Strokes) /\ EndsIn(t[i], {"settle"}) BY <1>8, RoundTyped
    <2>6. EndsIn(ft, {"settle"}) BY <2>5, <1>9, <1>10, RoundsEnd
    <2> QED BY <2>4, <2>6 DEF Leads
  <1>14. Leads(fs \o ft, a, u, 0, 2) BY <1>12, <1>13, LeadsJoin
  <1>15. EndsIn(fs \o ft, {"settle"}) BY <1>12, <1>13, EndsJoin
  <1> QED BY <1>11, <1>14, <1>15, <1>7, <1>10

LEMMA A7Leads ==
  ASSUME NEW o, Paged(o), NEW u \in Nat, u < o.file, NEW a, a = o.offset + u
  PROVE  Leads(A7Program(o), a, u, 0, 2) /\ EndsIn(A7Program(o), {"settle"})
  <1>1. o \in Options /\ o.file \in Nat BY Pages DEF Paged
  <1>2. PageUnits \in Nat \ {0} /\ RowUnits \in Nat \ {0} BY Geometry
  <1>3. PICK n \in Nat \ {0}, q \in Nat : n = PagesOf(o) /\ q = u \div PageUnits /\ q < n
    BY <1>1, <1>2, FileBlocks DEF PagesOf
  <1>4. PICK m \in Nat \ {0}, r \in Nat : m = CeilDiv(o.file, RowUnits) /\ r = u \div RowUnits /\ r < m
    BY <1>1, <1>2, FileBlocks
  <1> DEFINE s == [i \in 1 .. n |-> <<Area("erase", PageAt(o, (i - 1)), PageUnits), Do("settle")>>]
  <1>5. ASSUME NEW i \in 1 .. n
        PROVE  Round(s[i], a, u, 0, 1, i - 1, q)
    <2>1. PICK p \in Nat : p = i - 1 OBVIOUS
    <2>2. s[i] = <<Area("erase", PageAt(o, p), PageUnits), Do("settle")>> BY <2>1
    <2> HIDE DEF s
    <2>3. PICK e : e = Area("erase", PageAt(o, p), PageUnits) OBVIOUS
    <2>4. q = u \div PageUnits BY <1>3
    <2>6. Round(<<e, Do("settle")>>, a, u, 0, 1, p, q) BY <2>3, <2>4, PageTurns
    <2> QED BY <2>1, <2>2, <2>3, <2>6
  <1>6. s = [i \in 1 .. n |-> s[i]] OBVIOUS
  <1>7. PICK fs : fs = FlattenSeq(s) OBVIOUS
  <1> DEFINE t == [i \in 1 .. m |-> <<Data(o.offset + (i - 1) * RowUnits, RowUnits, (i - 1) * RowUnits), Do("settle")>>]
  <1>8. ASSUME NEW i \in 1 .. m
        PROVE  Round(t[i], a, u, 1, 2, i - 1, r) /\ EndsIn(t[i], {"settle"})
    <2>1. PICK p \in Nat : p = i - 1 OBVIOUS
    <2>2. t[i] = <<Data(o.offset + p * RowUnits, RowUnits, p * RowUnits), Do("settle")>> BY <2>1
    <2> HIDE DEF t
    <2>3. PICK d : d = Data(o.offset + p * RowUnits, RowUnits, p * RowUnits) OBVIOUS
    <2>4. r = u \div RowUnits BY <1>4
    <2>6. Round(<<d, Do("settle")>>, a, u, 1, 2, p, r) BY <1>1, <2>3, <2>4, RowTurns
    <2>7. EndsIn(<<d, Do("settle")>>, {"settle"}) BY <1>1, <2>3, <2>4, RowTurns
    <2> QED BY <2>1, <2>2, <2>3, <2>6, <2>7
  <1>9. t = [i \in 1 .. m |-> t[i]] OBVIOUS
  <1>10. PICK ft : ft = FlattenSeq(t) OBVIOUS
  <1>11. A7Program(o) = FlattenSeq(s) \o FlattenSeq(t) BY <1>3, <1>4 DEF A7Program, Times
  <1> HIDE DEF s, t
  <1>12. Leads(fs, a, u, 0, 1) /\ fs \in Seq(Strokes)
    <2>1. \A i \in 1 .. n : Round(s[i], a, u, 0, 1, i - 1, q) BY <1>5
    <2>2. n \in Nat /\ q \in Nat /\ q < n /\ 0 \in 0 .. 2 /\ 1 \in 0 .. 2 BY <1>3
    <2>3. Leads(FlattenSeq(s), a, u, 0, 1) BY <1>6, <2>1, <2>2, RoundsLead
    <2>4. Leads(fs, a, u, 0, 1) BY <1>7, <2>3
    <2> QED BY <2>4 DEF Leads
  <1>13. Leads(ft, a, u, 1, 2) /\ ft \in Seq(Strokes) /\ EndsIn(ft, {"settle"})
    <2>1. \A i \in 1 .. m : Round(t[i], a, u, 1, 2, i - 1, r) BY <1>8
    <2>2. m \in Nat /\ r \in Nat /\ r < m /\ 1 \in 0 .. 2 /\ 2 \in 0 .. 2 BY <1>4
    <2>3. Leads(FlattenSeq(t), a, u, 1, 2) BY <1>9, <2>1, <2>2, RoundsLead
    <2>4. Leads(ft, a, u, 1, 2) BY <1>10, <2>3
    <2>5. \A i \in 1 .. m : t[i] \in Seq(Strokes) /\ EndsIn(t[i], {"settle"}) BY <1>8, RoundTyped
    <2>6. EndsIn(ft, {"settle"}) BY <2>5, <1>9, <1>10, RoundsEnd
    <2> QED BY <2>4, <2>6 DEF Leads
  <1>14. Leads(fs \o ft, a, u, 0, 2) BY <1>12, <1>13, LeadsJoin
  <1>15. EndsIn(fs \o ft, {"settle"}) BY <1>12, <1>13, EndsJoin
  <1> QED BY <1>11, <1>14, <1>15, <1>7, <1>10

\* SAM3 erases and writes row by row; the numbers are those of the rows of a file at 0.
LEMMA A3Leads ==
  ASSUME NEW o \in Options, o.offset = 0, NEW u \in Nat, u < o.file, NEW a, a = o.offset + u
  PROVE  Leads(A3Program(o), a, u, 0, 2) /\ EndsIn(A3Program(o), {"settle"})
  <1>1. o.file \in Nat BY Pages
  <1>2. RowUnits \in Nat \ {0} BY Geometry
  <1>3. PICK m \in Nat \ {0}, r \in Nat : m = CeilDiv(o.file, RowUnits) /\ r = u \div RowUnits /\ r < m
    BY <1>1, <1>2, FileBlocks
  <1> DEFINE t == [i \in 1 .. m |->
                LET write == Commit((i - 1) * RowUnits, (i - 1) * RowUnits)
                IN  <<Area("erase", write.at, RowUnits), write, Do("settle")>>]
  <1>4. ASSUME NEW i \in 1 .. m
        PROVE  Round(t[i], a, u, 0, 2, i - 1, r) /\ EndsIn(t[i], {"settle"})
    <2>1. PICK p \in Nat : p = i - 1 OBVIOUS
    <2>2. PICK w : w = Commit(p * RowUnits, p * RowUnits) OBVIOUS
    <2>3. t[i] = <<Area("erase", w.at, RowUnits), w, Do("settle")>> BY <2>1, <2>2
    <2> HIDE DEF t
    <2>4. PICK d : d = Data(o.offset + p * RowUnits, RowUnits, p * RowUnits) OBVIOUS
    <2>5. w = d
      <3>1. p * RowUnits = o.offset + p * RowUnits
        <4>1. PICK y \in Nat : y = p * RowUnits BY <1>2
        <4> QED BY <4>1
      <3> QED BY <2>2, <2>4, <3>1, RowCommit
    <2>6. r = u \div RowUnits BY <1>3
    <2>7. Round(<<Area("erase", d.at, RowUnits), d, Do("settle")>>, a, u, 0, 2, p, r) BY <2>4, <2>6, RowTurns
    <2>8. EndsIn(<<Area("erase", d.at, RowUnits), d, Do("settle")>>, {"settle"}) BY <2>4, <2>6, RowTurns
    <2> QED BY <2>1, <2>3, <2>5, <2>7, <2>8
  <1>5. t = [i \in 1 .. m |-> t[i]] OBVIOUS
  <1>6. A3Program(o) = FlattenSeq(t) BY <1>3 DEF A3Program, Times
  <1> HIDE DEF t
  <1>7. \A i \in 1 .. m : Round(t[i], a, u, 0, 2, i - 1, r) BY <1>4
  <1>8. m \in Nat /\ r \in Nat /\ r < m /\ 0 \in 0 .. 2 /\ 2 \in 0 .. 2 BY <1>3
  <1>9. Leads(FlattenSeq(t), a, u, 0, 2) BY <1>5, <1>7, <1>8, RoundsLead
  <1>10. \A i \in 1 .. m : t[i] \in Seq(Strokes) /\ EndsIn(t[i], {"settle"}) BY <1>4, RoundTyped
  <1>11. EndsIn(FlattenSeq(t), {"settle"}) BY <1>10, <1>5, RoundsEnd
  <1> QED BY <1>6, <1>9, <1>11

\* The sectors a GD32 erases.
GdErases(o) ==
  [s \in DOMAIN Sectors |->
    IF Touched(o, s) THEN <<Area("erase", SectorStart(s), Sectors[s])>> \o GdWait ELSE <<>>]

LEMMA SectorsLead ==
  ASSUME NEW o \in Options, o.offset % RowUnits = 0, o.offset + o.file <= Total,
         NEW u \in Nat, u < o.file, NEW a, a = o.offset + u
  PROVE  Leads(FlattenSeq(GdErases(o)), a, u, 0, 1)
  <1>1. o.offset \in Nat /\ o.file \in Nat BY Pages
  <1>2. PICK n \in Nat : n = Len(Sectors) /\ DOMAIN Sectors = 1 .. n BY Geometry
  <1>3. PICK s : s = GdErases(o) OBVIOUS
  <1>4. s = [i \in 1 .. n |-> s[i]] BY <1>2, <1>3 DEF GdErases
  <1>5. \A i \in 1 .. n : s[i] = IF Touched(o, i) THEN <<Area("erase", SectorStart(i), Sectors[i])>> \o GdWait ELSE <<>>
    BY <1>2, <1>3 DEF GdErases
  <1>6. a \in Units
    <2>1. Total \in Nat BY Geometry
    <2> QED BY <1>1, <2>1 DEF Units
  <1>7. PICK j \in 1 .. n : SectorStart(j) <= a /\ a < SectorEnd(j) BY <1>2, <1>6, InSector
  <1>8. \A i \in 1 .. n : SectorStart(i) \in Nat /\ Sectors[i] \in Nat
    <2> SUFFICES ASSUME NEW i \in 1 .. n PROVE SectorStart(i) \in Nat /\ Sectors[i] \in Nat OBVIOUS
    <2>1. i \in 1 .. Len(Sectors) + 1 BY <1>2
    <2>2. PICK q \in Nat : SectorStart(i) = RowUnits * q
      <3>1. \E q \in Nat : SectorStart(i) = RowUnits * q BY <2>1, SectorRows
      <3> QED BY <3>1
    <2>3. RowUnits \in Nat BY Geometry
    <2> QED BY <1>2, <2>2, <2>3, Geometry
  <1>9. Touched(o, j)
    <2>1. PICK c \in Nat : c = RowUnits * CeilDiv(o.file, RowUnits) /\ c >= o.file BY RowFits
    <2>2. RoundedSize(o) = c
      <3>1. CeilDiv(o.file, RowUnits) \in Nat /\ RowUnits \in Nat BY Geometry, Pages
      <3> QED BY <2>1, <3>1 DEF RoundedSize
    <2>3. PICK x \in Nat, y \in Nat : x = SectorStart(j) /\ y = SectorEnd(j) BY <1>8 DEF SectorEnd
    <2> QED BY <1>1, <1>7, <2>1, <2>2, <2>3 DEF Touched
  <1>10. ASSUME NEW i \in 1 .. n
         PROVE  Leads(s[i], a, u, 0, 0) /\ Leads(s[i], a, u, 1, 1) /\ (i = j => Leads(s[i], a, u, 0, 1))
    <2>1. CASE ~Touched(o, i)
      <3>1. PICK t : t = <<>> OBVIOUS
      <3>2. t \in Seq(Strokes) /\ \A k \in 1 .. Len(t) : Moves(t[k], a, u, 0, 0) /\ Moves(t[k], a, u, 1, 1) BY <3>1
      <3>3. Leads(t, a, u, 0, 0) /\ Leads(t, a, u, 1, 1) BY <3>2, LeadsAll
      <3>4. s[i] = t BY <1>5, <2>1, <3>1
      <3> QED BY <1>9, <2>1, <3>3, <3>4
    <2>2. CASE Touched(o, i)
      <3>1. PICK e : e = Area("erase", SectorStart(i), Sectors[i]) OBVIOUS
      <3>2. e \in Strokes BY <1>8, <3>1, StrokeTyped
      <3>3. e.do = "erase" /\ (i = j => Meets(e, a))
        <4>1. e.do = "erase" /\ e.at = SectorStart(i) /\ e.len = Sectors[i] BY <3>1 DEF Area
        <4> QED BY <1>7, <4>1 DEF Meets, SectorEnd
      <3>4. /\ Moves(e, a, u, 0, 0) /\ Moves(e, a, u, 1, 1)
            /\ i = j => Moves(e, a, u, 0, 1)
        BY <3>3, EraseMoves
      <3>5. PICK x : x = <<e>> OBVIOUS
      <3>6. PICK w : w = <<Do("wait")>> OBVIOUS
      <3>7. Leads(x, a, u, 0, 0) /\ Leads(x, a, u, 1, 1) /\ (i = j => Leads(x, a, u, 0, 1))
        BY <3>2, <3>4, <3>5, LeadsOne
      <3>8. Leads(w, a, u, 0, 0) /\ Leads(w, a, u, 1, 1) BY <3>6, IdleLeads
      <3>9. s[i] = x \o w BY <1>5, <2>2, <3>1, <3>5, <3>6 DEF GdWait
      <3> QED BY <3>7, <3>8, <3>9, LeadsJoin
    <2> QED BY <2>1, <2>2
  <1>11. Leads(s[j], a, u, 0, 1) BY <1>10
  <1>12. \A i \in 1 .. n : (i < j => Leads(s[i], a, u, 0, 0)) /\ (j < i => Leads(s[i], a, u, 1, 1)) BY <1>10
  <1>13. 0 \in 0 .. 2 /\ 1 \in 0 .. 2 OBVIOUS
  <1>14. Leads(FlattenSeq(s), a, u, 0, 1) BY <1>4, <1>11, <1>12, <1>13, LeadsLoop
  <1> QED BY <1>3, <1>14

\* The rows a GD32 writes.
GdWrites(o) ==
  [i \in 1 .. RoundedSize(o) \div RowUnits |->
     Data(o.offset + (i - 1) * RowUnits, RowUnits, (i - 1) * RowUnits)]

LEMMA WritesLead ==
  ASSUME NEW o \in Options, NEW u \in Nat, u < o.file, NEW a, a = o.offset + u
  PROVE  Leads(GdWrites(o), a, u, 1, 2)
  <1>1. o.offset \in Nat /\ o.file \in Nat BY Pages
  <1>2. PICK k \in Nat \ {0} : k = RowUnits BY Geometry
  <1>3. PICK m \in Nat \ {0}, r \in Nat : m = CeilDiv(o.file, k) /\ r = u \div k /\ r < m
    BY <1>1, <1>2, FileBlocks
  <1>4. RoundedSize(o) \div RowUnits = m
    <2>1. PICK y \in Nat : y = m * k /\ y = k * m OBVIOUS
    <2>2. PICK q \in Nat, z \in 0 .. k - 1 : q = y \div k /\ k * q + z = y BY Division
    <2>3. q = m
      <3>1. CASE q < m
        <4>1. q * k + k <= k * m /\ q * k = k * q BY <3>1, Below
        <4>2. PICK x \in Nat : x = k * q OBVIOUS
        <4> QED BY <2>1, <2>2, <4>1, <4>2
      <3>2. CASE m < q
        <4>1. m * k + k <= k * q BY <3>2, Below
        <4>2. PICK x \in Nat : x = k * q OBVIOUS
        <4> QED BY <2>1, <2>2, <4>1, <4>2
      <3> QED BY <3>1, <3>2
    <2> QED BY <1>2, <1>3, <2>1, <2>2, <2>3 DEF RoundedSize
  <1>5. PICK t : t = GdWrites(o) OBVIOUS
  <1>6. t = [i \in 1 .. m |-> Data(o.offset + (i - 1) * k, k, (i - 1) * k)] BY <1>2, <1>4, <1>5 DEF GdWrites
  <1>7. ASSUME NEW i \in 1 .. m
        PROVE  /\ t[i] \in Strokes
               /\ i - 1 = r => Moves(t[i], a, u, 1, 2)
               /\ i - 1 # r => Moves(t[i], a, u, 1, 1) /\ Moves(t[i], a, u, 2, 2)
    <2>1. PICK p \in Nat : p = i - 1 OBVIOUS
    <2>2. t[i] = Data(o.offset + p * k, k, p * k) BY <1>6, <2>1
    <2>3. PICK s : s = t[i] OBVIOUS
    <2>4. /\ s \in Strokes
          /\ p = u \div k => Moves(s, o.offset + u, u, 1, 2)
          /\ p # u \div k => Moves(s, o.offset + u, u, 1, 1) /\ Moves(s, o.offset + u, u, 2, 2)
      BY <1>1, <2>2, <2>3, DataBlock
    <2> QED BY <1>3, <2>1, <2>3, <2>4
  <1>8. t \in Seq(Strokes) /\ Len(t) = m
    <2>1. t = [i \in 1 .. m |-> t[i]] /\ Len(t) = m BY <1>6
    <2>2. \A i \in 1 .. m : t[i] \in Strokes BY <1>7
    <2> QED BY <2>1, <2>2
  <1>9. PICK j \in 1 .. m : j - 1 = r
    <2>1. r + 1 \in 1 .. m /\ (r + 1) - 1 = r BY <1>3
    <2> QED BY <2>1
  <1>10. Moves(t[j], a, u, 1, 2) BY <1>7, <1>9
  <1>11. \A i \in 1 .. Len(t) : (i < j => Moves(t[i], a, u, 1, 1)) /\ (j < i => Moves(t[i], a, u, 2, 2))
    <2> SUFFICES ASSUME NEW i \in 1 .. m, i # j PROVE Moves(t[i], a, u, 1, 1) /\ Moves(t[i], a, u, 2, 2) BY <1>8
    <2>1. i - 1 # r BY <1>9
    <2> QED BY <1>7, <2>1
  <1>12. 1 \in 0 .. 2 /\ 2 \in 0 .. 2 /\ j \in 1 .. Len(t) BY <1>8
  <1>13. Leads(t, a, u, 1, 2) BY <1>8, <1>10, <1>11, <1>12, LeadsPick
  <1> QED BY <1>5, <1>13

LEMMA GdLeads ==
  ASSUME NEW o \in Options, o.offset % RowUnits = 0, o.offset + o.file <= Total,
         NEW u \in Nat, u < o.file, NEW a, a = o.offset + u
  PROVE  Leads(GdProgram(o), a, u, 0, 2) /\ EndsIn(GdProgram(o), {"wait"})
  <1>1. PICK s : s = FlattenSeq(GdErases(o)) OBVIOUS
  <1>2. PICK t : t = GdWrites(o) OBVIOUS
  <1>3. GdProgram(o) = (s \o t) \o <<Do("wait")>> BY <1>1, <1>2 DEF GdProgram, GdErases, GdWrites, GdWait
  <1>4. PICK x : x = s \o t OBVIOUS
  <1>5. Leads(s, a, u, 0, 1) BY <1>1, SectorsLead
  <1>6. Leads(t, a, u, 1, 2) BY <1>2, WritesLead
  <1>7. Leads(x, a, u, 0, 2) BY <1>4, <1>5, <1>6, LeadsJoin
  <1>8. x \in Seq(Strokes) BY <1>7 DEF Leads
  <1>9. EndsIn(x \o <<Do("wait")>>, {"wait"}) BY <1>8, EndsOne
  <1>10. Leads(<<Do("wait")>>, a, u, 2, 2) BY IdleLeads
  <1>11. Leads(x \o <<Do("wait")>>, a, u, 0, 2) BY <1>7, <1>10, LeadsJoin
  <1> QED BY <1>3, <1>4, <1>9, <1>11

(* Every driver but those of SAMD and M480 waits for its last row; most    *)
(* look at the errors then.                                                *)
LEMMA ProgramLeads ==
  ASSUME NEW d \in Drivers \ {"samd", "m480"}, NEW o \in Options, o.offset % Align(d) = 0, o.offset + o.file <= Total,
         d = "sam3" => o.offset = 0, NEW u \in Nat, u < o.file, NEW a, a = o.offset + u
  PROVE  /\ Leads(Ops(d, o).program, a, u, 0, 2)
         /\ EndsIn(Ops(d, o).program, {IF d \in Blind THEN "settle" ELSE "wait"})
  <1>1. CASE d \in {"gd32f4xx", "sam3"}
    <2>1. o.offset % RowUnits = 0 BY <1>1 DEF Align
    <2>2. d = "gd32f4xx" => Leads(GdProgram(o), a, u, 0, 2) /\ EndsIn(GdProgram(o), {"wait"}) BY <2>1, GdLeads
    <2>3. d = "sam3" => Leads(A3Program(o), a, u, 0, 2) /\ EndsIn(A3Program(o), {"settle"}) BY A3Leads
    <2>4. GdOps(o).program = GdProgram(o) /\ A3Ops(o).program = A3Program(o) BY DEF GdOps, A3Ops
    <2> QED BY <1>1, <2>2, <2>3, <2>4, OpsOf DEF Blind
  <1>2. CASE d \notin {"gd32f4xx", "sam3"}
    <2>1. Paged(o) BY <1>2 DEF Align, Paged
    <2>2. CASE d \in {"stm32g0", "stm32g4", "stm32wb55"}
      <3>1. Leads(G0Program(o), a, u, 0, 2) /\ EndsIn(G0Program(o), {"wait"}) BY <2>1, G0Leads
      <3>2. Leads(G4Program(o), a, u, 0, 2) /\ EndsIn(G4Program(o), {"wait"}) BY <2>1, G4Leads
      <3>3. Leads(WbProgram(o), a, u, 0, 2) /\ EndsIn(WbProgram(o), {"wait"}) BY <2>1, WbLeads
      <3>4. G0Ops(o).program = G0Program(o) /\ G4Ops(o).program = G4Program(o) /\ WbOps(o).program = WbProgram(o)
        BY DEF G0Ops, G4Ops, WbOps
      <3> QED BY <2>2, <3>1, <3>2, <3>3, <3>4, OpsOf DEF Blind
    <2>3. CASE d = "py32f0"
      <3>1. Leads(PyProgram(o), a, u, 0, 2) /\ EndsIn(PyProgram(o), {"wait"}) BY <2>1, PyLeads
      <3>2. PyOps(o).program = PyProgram(o) BY DEF PyOps
      <3> QED BY <2>3, <3>1, <3>2, OpsOf DEF Blind
    <2>4. CASE d \in {"same5x", "sam4", "same70"}
      <3>1. Leads(SeProgram(o), a, u, 0, 2) /\ EndsIn(SeProgram(o), {"settle"}) BY <2>1, SeLeads
      <3>2. Leads(A4Program(o), a, u, 0, 2) /\ EndsIn(A4Program(o), {"settle"}) BY <2>1, A4Leads
      <3>3. Leads(A7Program(o), a, u, 0, 2) /\ EndsIn(A7Program(o), {"settle"}) BY <2>1, A7Leads
      <3>4. SeOps(o).program = SeProgram(o) /\ A4Ops(o).program = A4Program(o) /\ A7Ops(o).program = A7Program(o)
        BY DEF SeOps, A4Ops, A7Ops
      <3> QED BY <2>4, <3>1, <3>2, <3>3, <3>4, OpsOf DEF Blind
    <2> QED BY <1>2, <2>2, <2>3, <2>4 DEF Drivers
  <1> QED BY <1>1, <1>2

(* Programming: each byte of the file is what it should be, or will be, or *)
(* the controller has noted an error that the last wait will see.          *)
Shut == world.locked /\ dev.locked
Noted == driver \notin Blind /\ dev.err
Stands(d, a, u, v) == (v = 1 => d.flash[a] = Free) /\ (v = 2 => d.flash[a] = FileByte(u))
LastWait == IF driver \in Blind THEN "settle" ELSE "wait"
Programming(t) ==
  /\ t \in Seq(Strokes) /\ Len(t) >= 1 /\ t[Len(t)] = Do("next")
  /\ Len(t) = 1 => Still(dev) /\ ~Noted
  /\ Len(t) > 1 => t[Len(t) - 1].do = LastWait
  /\ driver \in Blind => ~Shut
  /\ \A u \in 0 .. opt.file - 1 :
       Noted \/ \E v \in 0 .. 2 : Leads(t, opt.offset + u, u, v, 2) /\ Stands(dev, opt.offset + u, u, v)

LEMMA StrokeMoves ==
  ASSUME NEW d, IsDevice(d), NEW s \in Strokes, NEW x, ~Refuses(d, Span(s)),
         (s.do = "erase" /\ x = Erased(d, s)) \/ (s.do = "program" /\ x = Programmed(d, s)),
         opt.file \in Nat, NEW u \in 0 .. opt.file - 1, NEW a \in Units, NEW v \in 0 .. 2, NEW w \in 0 .. 2,
         Moves(s, a, u, v, w), Stands(d, a, u, v)
  PROVE  Stands(x, a, u, w)
  <1>0. s.at \in Nat /\ s.len \in Nat /\ s.from \in Nat /\ a \in Nat BY Geometry DEF Strokes, StepsBut, Units
  <1>1. Meets(s, a) <=> a \in Span(s) BY <1>0 DEF Meets, Span
  <1>2. CASE s.do = "erase" /\ x = Erased(d, s)
    <2>1. x.flash = ErasedFlash(d, s) BY <1>2, ErasedIs
    <2>2. x.flash[a] = IF Meets(s, a) THEN Free ELSE d.flash[a] BY <1>1, <2>1 DEF ErasedFlash
    <2> QED BY <1>2, <2>2 DEF Moves, Stands, Erases, Puts, Clear
  <1>3. CASE s.do = "program" /\ x = Programmed(d, s)
    <2>1. x.flash = ProgrammedFlash(d, s) BY <1>3, ProgrammedIs
    <2>2. ~Meets(s, a) => x.flash[a] = d.flash[a] BY <1>1, <2>1 DEF ProgrammedFlash
    <2>3. Meets(s, a) /\ d.flash[a] = Free => x.flash[a] = Buffer(s.from + a - s.at)
      BY <1>1, <2>1 DEF ProgrammedFlash
    <2>4. Puts(s, a, u) /\ d.flash[a] = Free => x.flash[a] = FileByte(u)
      <3>1. Puts(s, a, u) => Meets(s, a) /\ s.from + a - s.at = u BY DEF Puts
      <3>2. Buffer(u) = FileByte(u) BY DEF Buffer
      <3> QED BY <2>3, <3>1, <3>2
    <2> QED BY <1>3, <2>2, <2>4 DEF Moves, Stands, Erases, Clear
  <1> QED BY <1>2, <1>3

\* A blind driver's pages are not refused where nothing is protected.
LEMMA BlindServed ==
  ASSUME AskInv, Working, Head(todo).do \in {"erase", "program"},
         driver \in Blind, world.bad \notin Units, ~Shut
  PROVE  ~Refuses(dev, Span(Head(todo)))
  <1>1. exit = "running" /\ todo # <<>> BY WorkMoves
  <1>2. plan # <<>> /\ plan[1][1] = "fuse" => FuseTodo \/ todo \in Seq(Within(Reach)) \/ Selecting
    BY <1>1 DEF AskInv, Serving
  <1>3. todo \in Seq(Within(Reach))
    <2>1. ~Selecting
      <3>1. todo \in Seq(Opening) => Head(todo) \in Opening BY <1>1
      <3>2. Head(todo).do \in FlashWork BY DEF FlashWork
      <3> QED BY <3>1, <3>2 DEF Selecting, Opening, StepsBut
    <2>2. ~FuseTodo
      <3>1. todo \in Seq(Fusing) => Head(todo) \in Fusing BY <1>1
      <3>2. Head(todo).do \in FlashWork BY DEF FlashWork
      <3> QED BY <3>1, <3>2 DEF FuseTodo, Fusing, StepsBut
    <2> QED BY <1>1, <2>1, <2>2 DEF AskInv, Serving
  <1>4. Head(todo) \in Within(Reach) BY <1>1, <1>3
  <1>5. Span(Head(todo)) \subseteq Units BY <1>4, ReachIn DEF Within, Inside
  <1>6. driver \notin Keyed BY DEF Blind, Keyed
  <1> QED BY <1>5, <1>6 DEF Refuses, Shut

\* What a step of a stroke does to the device.
LEMMA StrokeIs ==
  ASSUME AskInv, Working, exit' # "error", Head(todo) \in Strokes,
         driver \in Blind => world.bad \notin Units /\ ~Shut
  PROVE  LET s == Head(todo)
         IN  /\ UNCHANGED opt /\ s.do # "next"
             /\ s.do \in Waits => Still(dev') /\ dev'.flash = dev.flash /\ dev'.err = dev.err
             /\ s.do = "wait" => ~dev.err
             /\ s.do \in {"erase", "program"} =>
                  \/ driver \notin Blind /\ dev'.err
                  \/ /\ ~Refuses(dev, Span(s))
                     /\ (s.do = "erase" /\ dev' = Erased(dev, s)) \/ (s.do = "program" /\ dev' = Programmed(dev, s))
             /\ driver \in Blind => ~(world.locked /\ dev'.locked)
             /\ dev.err => dev'.err
  <1> DEFINE s == Head(todo)
  <1>1. exit = "running" /\ todo # <<>> /\ UNCHANGED <<driver, world>> BY WorkMoves
  <1>2. s.do \in {"erase", "program", "wait", "settle", "next"} BY DEF Strokes
  <1>3. Flash /\ s.do # "next"
    BY <1>2, WorkOf DEF Working, ProbeWork, TargetWork, CheckWork, FlashWork, FuseWork
  <1>4. UNCHANGED opt /\ (WaitDone \/ WaitReady \/ EraseArea \/ ProgramArea)
    BY <1>2, <1>3 DEF Flash, EraseChip, SetLock, Compare, Fetch, Save, Step, WaitDone, WaitReady, EraseArea, ProgramArea,
                      OnlyDevice
  <1>5. IsDevice(dev) BY DEF AskInv, InPlan
  <1>6. CASE WaitDone \/ WaitReady
    <2>1. dev' = Settle(dev) /\ s.do \in Waits BY <1>6 DEF WaitDone, WaitReady, Step, Waits
    <2>2. dev'.flash = dev.flash /\ dev'.err = dev.err /\ dev'.locked = dev.locked /\ dev'.busy = {}
      BY <1>5, <2>1, SettleIs
    <2>3. s.do = "wait" => ~dev.err BY <1>6 DEF WaitDone, WaitReady, Step, Unless, Stop
    <2>4. Still(dev') BY <2>2 DEF Still
    <2> QED BY <1>3, <1>4, <2>1, <2>2, <2>3, <2>4 DEF Waits, Shut
  <1>7. CASE EraseArea \/ ProgramArea
    <2>1. (s.do = "erase" /\ dev' = Erased(dev, s)) \/ (s.do = "program" /\ dev' = Programmed(dev, s))
      <3>1. EraseArea => s.do = "erase" /\ dev' = Erased(dev, s) BY DEF EraseArea, Step
      <3>2. ProgramArea => s.do = "program" /\ dev' = Programmed(dev, s) BY DEF ProgramArea, Step
      <3> QED BY <1>7, <3>1, <3>2
    <2>2. CASE Refuses(dev, Span(s))
      <3>1. dev' = [Settle(dev) EXCEPT !.err = TRUE] BY <2>1, <2>2 DEF Erased, Programmed
      <3>2. dev'.err BY <1>5, <3>1, RefusedIs
      <3>3. driver \notin Blind BY <2>1, <2>2, BlindServed
      <3> QED BY <1>4, <2>1, <3>2, <3>3 DEF Waits
    <2>3. CASE ~Refuses(dev, Span(s))
      <3>1. dev'.locked = dev.locked /\ (dev.err => dev'.err) BY <1>5, <2>1, <2>3, ErasedIs, ProgrammedIs
      <3> QED BY <1>4, <2>1, <2>3, <3>1 DEF Waits, Shut
    <2> QED BY <2>2, <2>3
  <1> QED BY <1>4, <1>6, <1>7

LEMMA WaitMoves ==
  ASSUME NEW s, s.do \in Waits, NEW a, NEW u, NEW v \in 0 .. 2, NEW w \in 0 .. 2, Moves(s, a, u, v, w),
         NEW d, NEW x, x.flash = d.flash, Stands(d, a, u, v)
  PROVE  Stands(x, a, u, w)
  BY DEF Moves, Erases, Puts, Clear, Stands, Waits

LEMMA ProgramWorks ==
  ASSUME AskInv, OrderInv, Working, exit' # "error", Programming(todo), "program" \in cmd.acts,
         driver \in Blind => world.bad \notin Units
  PROVE  Programming(todo)' /\ UNCHANGED opt
  <1> DEFINE s == Head(todo)
             n == Len(todo)
  <1>1. todo # <<>> /\ todo' = Tail(todo) /\ UNCHANGED <<driver, cmd, world>>
    BY WorkMoves DEF Continue, Stop
  <1>2. todo \in Seq(Strokes) /\ n \in Nat /\ n >= 1 /\ todo[n] = Do("next") BY DEF Programming
  <1>3. s \in Strokes /\ s = todo[1] BY <1>1, <1>2
  <1>4. driver \in Blind => world.bad \notin Units /\ ~Shut BY DEF Programming
  <1>5. /\ UNCHANGED opt /\ s.do # "next"
        /\ s.do \in Waits => Still(dev') /\ dev'.flash = dev.flash /\ dev'.err = dev.err
        /\ s.do = "wait" => ~dev.err
        /\ s.do \in {"erase", "program"} =>
             \/ driver \notin Blind /\ dev'.err
             \/ /\ ~Refuses(dev, Span(s))
                /\ (s.do = "erase" /\ dev' = Erased(dev, s)) \/ (s.do = "program" /\ dev' = Programmed(dev, s))
        /\ driver \in Blind => ~(world.locked /\ dev'.locked)
        /\ dev.err => dev'.err
    BY <1>3, <1>4, StrokeIs
  <1>6. n >= 2
    <2>1. n = 1 => s.do = "next" BY <1>2, <1>3 DEF Do, Area
    <2>2. n # 1 BY <1>5, <2>1
    <2>3. n \in Nat /\ n >= 1 BY <1>2
    <2> HIDE DEF n
    <2> QED BY <2>2, <2>3
  <1>7. /\ Tail(todo) \in Seq(Strokes) /\ Len(Tail(todo)) = n - 1
        /\ \A i \in 1 .. n - 1 : Tail(todo)[i] = todo[i + 1]
    BY <1>1, <1>2
  <1>8. todo' \in Seq(Strokes) /\ Len(todo') = n - 1 /\ todo'[n - 1] = Do("next")
    BY <1>1, <1>2, <1>6, <1>7
  <1>9. Noted' = (driver \notin Blind /\ dev'.err) /\ Shut' = (world.locked /\ dev'.locked) /\ LastWait' = LastWait
    BY <1>1 DEF Noted, Shut, LastWait
  <1>10. todo[n - 1].do = LastWait BY <1>2, <1>6 DEF Programming
  <1>11. n = 2 => Still(dev') /\ ~Noted'
    <2> SUFFICES ASSUME n = 2 PROVE Still(dev') /\ ~Noted' OBVIOUS
    <2>1. s.do = LastWait BY <1>3, <1>10
    <2>2. s.do \in Waits /\ (driver \notin Blind => s.do = "wait") BY <2>1 DEF LastWait, Waits
    <2> QED BY <1>5, <1>9, <2>2
  <1>12. n > 2 => todo'[n - 2].do = LastWait BY <1>1, <1>2, <1>7, <1>10
  <1>13. ASSUME NEW u \in 0 .. opt.file - 1
         PROVE  Noted' \/ \E v \in 0 .. 2 : Leads(todo', opt.offset + u, u, v, 2) /\ Stands(dev', opt.offset + u, u, v)
    <2>1. CASE Noted BY <1>5, <1>9, <2>1 DEF Noted
    <2>2. CASE ~Noted
      <3> DEFINE a == opt.offset + u
      <3>1. PICK v \in 0 .. 2 : Leads(todo, a, u, v, 2) /\ Stands(dev, a, u, v) BY <2>2 DEF Programming
      <3>2. opt \in Options /\ opt.offset \in Nat /\ opt.file \in Nat BY DEF AskInv, InPlan, Options
      <3>3. a \in Units
        <4>1. opt.offset + opt.file <= Total BY ProgramReach DEF AskInv
        <4>2. PICK c \in Nat : c = Total BY Geometry
        <4>3. a \in Nat /\ a < c BY <3>2, <4>1, <4>2
        <4>4. Units = 0 .. c - 1 BY <4>2 DEF Units
        <4> HIDE DEF a
        <4> QED BY <4>2, <4>3, <4>4
      <3> HIDE DEF a
      <3>4. PICK x \in 0 .. 2 : Moves(s, a, u, v, x) /\ Leads(Tail(todo), a, u, x, 2) BY <1>1, <3>1, LeadsTail
      <3>5. s.do \in {"erase", "program"} \/ s.do \in Waits BY <1>3, <1>5 DEF Strokes, Waits
      <3>6. CASE s.do \in Waits
        <4>1. Stands(dev', a, u, x) BY <1>5, <3>1, <3>4, <3>6, WaitMoves
        <4> QED BY <1>1, <3>4, <4>1 DEF a
      <3>7. CASE driver \notin Blind /\ dev'.err BY <1>9, <3>7
      <3>8. CASE /\ ~Refuses(dev, Span(s))
                 /\ (s.do = "erase" /\ dev' = Erased(dev, s)) \/ (s.do = "program" /\ dev' = Programmed(dev, s))
        <4>1. IsDevice(dev) BY DEF AskInv, InPlan
        <4>2. Stands(dev', a, u, x) BY <1>3, <3>1, <3>2, <3>3, <3>4, <3>8, <4>1, StrokeMoves
        <4> QED BY <1>1, <3>4, <4>2 DEF a
      <3> QED BY <1>5, <3>5, <3>6, <3>7, <3>8
    <2> QED BY <2>1, <2>2
  <1>14. Stands(dev, 0, 0, 0) BY DEF Stands
  <1>15. \A u \in 0 .. opt'.file - 1 :
           Noted' \/ \E v \in 0 .. 2 : /\ Leads(todo', opt'.offset + u, u, v, 2)
                                      /\ (v = 1 => dev'.flash[opt'.offset + u] = Free)
                                      /\ (v = 2 => dev'.flash[opt'.offset + u] = FileByte(u))
    BY <1>5, <1>13 DEF Stands
  <1>16. Still(dev)' = Still(dev') BY DEF Still
  <1>17. ASSUME NEW u, NEW v
         PROVE  /\ Leads(todo, opt.offset + u, u, v, 2)' = Leads(todo', opt'.offset + u, u, v, 2)
                /\ Stands(dev, opt.offset + u, u, v)'
                      = ((v = 1 => dev'.flash[opt'.offset + u] = Free) /\ (v = 2 => dev'.flash[opt'.offset + u] = FileByte(u)))
    <2>1. Leads(todo, opt.offset + u, u, v, 2)' = Leads(todo', opt'.offset + u, u, v, 2)
      BY DEF Leads, Moves, Erases, Puts, Clear, Meets, Strokes, StepsBut, StepNames
    <2>2. Stands(dev, opt.offset + u, u, v)'
            = ((v = 1 => dev'.flash[opt'.offset + u] = Free) /\ (v = 2 => dev'.flash[opt'.offset + u] = FileByte(u)))
      BY DEF Stands, FileByte, Free
    <2> QED BY <2>1, <2>2
  <1>18. Strokes' = Strokes BY DEF Strokes, StepsBut, StepNames
  <1>19. Do("next")' = Do("next") BY DEF Do, Area
  <1>20. Programming(todo)'
    <2>0. PICK m \in Nat : m = n BY <1>2
    <2>5. Len(todo') = m - 1 BY <1>8, <2>0
    <2> HIDE DEF n, s
    <2>1. ASSUME Len(todo') = 1 PROVE Still(dev') /\ ~Noted'
      <3>0. m - 1 = 1 BY <2>5, <2>1
      <3>1. m = 2 BY <3>0
      <3> QED BY <1>11, <2>0, <3>1
    <2>2. Len(todo') > 1 => todo'[Len(todo') - 1].do = LastWait' BY <1>2, <1>8, <1>9, <1>12
    <2>3. driver' \in Blind => ~Shut' BY <1>1, <1>5, <1>9
    <2>4. Len(todo') >= 1 /\ todo'[Len(todo')] = Do("next") BY <1>2, <1>6, <1>8
    <2> QED BY <1>8, <1>15, <1>16, <1>17, <1>18, <1>19, <2>1, <2>2, <2>3, <2>4 DEF Programming
  <1> QED BY <1>5, <1>20

LEMMA NextLeads ==
  ASSUME NEW a, NEW u
  PROVE  /\ Leads(<<Do("next")>>, a, u, 2, 2)
         /\ \A v : Leads(<<Do("next")>>, a, u, v, 2) => v = 2
  <1>1. Do("next") \in Strokes /\ Do("next").do = "next" BY StrokeTyped DEF Do, Area
  <1>2. Moves(Do("next"), a, u, 2, 2) BY <1>1 DEF Moves, Clear
  <1>3. Leads(<<Do("next")>>, a, u, 2, 2) BY <1>1, <1>2, LeadsOne
  <1>4. ASSUME NEW v, Leads(<<Do("next")>>, a, u, v, 2) PROVE v = 2
    <2>0. <<Do("next")>> # <<>> /\ Head(<<Do("next")>>) = Do("next") /\ Tail(<<Do("next")>>) = <<>> OBVIOUS
    <2>1. PICK x \in 0 .. 2 : Moves(Do("next"), a, u, v, x) /\ Leads(<<>>, a, u, x, 2)
      BY <1>4, <2>0, LeadsTail
    <2>2. x = 2 BY <2>1, LeadsNone
    <2> QED BY <1>1, <2>1, <2>2 DEF Moves, Puts
  <1> QED BY <1>3, <1>4

LEMMA ProgramBegins ==
  ASSUME InPlan, InOptions, "program" \in cmd.acts, driver \notin {"samd", "m480"}, driver = "sam3" => opt.offset = 0,
         opt.file # 0, driver \in Blind => ~Shut
  PROVE  Programming(StepsOf("program") \o <<Do("next")>>)
  <1> DEFINE s == Ops(driver, opt).program
             t == s \o <<Do("next")>>
  <1>1. StepsOf("program") = s BY DEF StepsOf
  <1>2. driver \in Drivers \ {"samd", "m480"} /\ opt \in Options /\ opt.offset \in Nat /\ opt.file \in Nat
    BY DEF InPlan, Options
  <1>3. opt.offset % Align(driver) = 0 /\ opt.offset + opt.file <= Total BY ProgramReach DEF InOptions
  <1>4. ASSUME NEW u \in 0 .. opt.file - 1
        PROVE  Leads(s, opt.offset + u, u, 0, 2) /\ EndsIn(s, {LastWait})
    <2>1. u \in Nat /\ u < opt.file BY <1>2, <1>4
    <2> HIDE DEF s
    <2>2. PICK a : a = opt.offset + u OBVIOUS
    <2> QED BY <1>2, <1>3, <2>1, <2>2, ProgramLeads DEF LastWait, s
  <1>5. 0 \in 0 .. opt.file - 1 BY <1>2
  <1> HIDE DEF s
  <1>6. s \in Seq(Strokes) BY <1>4, <1>5 DEF Leads
  <1>7. s # <<>> /\ s[Len(s)].do = LastWait BY <1>4, <1>5 DEF EndsIn
  <1>8. <<Do("next")>> \in Seq(Strokes) BY StrokeTyped
  <1>9. /\ t \in Seq(Strokes) /\ Len(t) = Len(s) + 1 /\ t[Len(t)] = Do("next") /\ Len(s) >= 1 /\ Len(s) \in Nat
        /\ t[Len(t) - 1] = s[Len(s)]
    BY <1>6, <1>7, <1>8
  <1>10. ASSUME NEW u \in 0 .. opt.file - 1
         PROVE  Leads(t, opt.offset + u, u, 0, 2) /\ Stands(dev, opt.offset + u, u, 0)
    <2>1. Leads(s, opt.offset + u, u, 0, 2) BY <1>4
    <2>2. Leads(t, opt.offset + u, u, 0, 2) BY <2>1, NextLeads, LeadsJoin
    <2> QED BY <2>2 DEF Stands
  <1> HIDE DEF t
  <1>11. Programming(t)
    <2>1. PICK m \in Nat : m = Len(s) BY <1>9
    <2>2. Len(t) = m + 1 /\ m >= 1 BY <1>9, <2>1
    <2>3. m + 1 # 1 /\ m + 1 >= 1 BY <2>2
    <2>4. Len(t) # 1 /\ Len(t) >= 1 BY <2>2, <2>3
    <2>5. t[Len(t) - 1].do = LastWait BY <1>7, <1>9
    <2>6. 0 \in 0 .. 2 OBVIOUS
    <2> QED BY <1>9, <1>10, <2>4, <2>5, <2>6 DEF Programming
  <1> QED BY <1>1, <1>11 DEF t

LEMMA ProgramEnds ==
  ASSUME InPlan, todo = <<Do("next")>>, Programming(todo)
  PROVE  Stored /\ AtRest(dev)
  <1>1. Len(todo) = 1 OBVIOUS
  <1>2. Still(dev) /\ ~Noted BY <1>1 DEF Programming
  <1>3. ASSUME NEW u \in 0 .. opt.file - 1 PROVE dev.flash[opt.offset + u] = FileByte(u)
    <2>1. PICK v \in 0 .. 2 : Leads(todo, opt.offset + u, u, v, 2) /\ Stands(dev, opt.offset + u, u, v)
      BY <1>2, <1>3 DEF Programming
    <2>2. v = 2 BY <2>1, NextLeads
    <2> QED BY <2>1, <2>2 DEF Stands
  <1> QED BY <1>2, <1>3 DEF Stored, AtRest

(* A locked device is not programmed in silence.  Those with an EEFC do    *)
(* not let themselves be halted, and SAME5x is looked at, or erased, first.*)
RunAnswers ==
  driver \in Eefc /\ "program" \in cmd.acts =>
    Through(<<"select", 0>>, plan, todo, exit, ~world.locked, world.locked => HasGate(todo, {"halt", "catch"}))

Opener == IF "unlock" \in cmd.acts THEN <<"unlock", 0>> ELSE <<"select", 0>>
OpenGate == IF "unlock" \in cmd.acts THEN {"chipErase"} ELSE {"locked"}
Begun == plan # <<>> => Place(plan[1]) > 6 \/ (Place(plan[1]) = 6 /\ todo # <<>>)
RunOpens ==
  driver = "same5x" /\ "program" \in cmd.acts =>
    Through(Opener, plan, todo, exit, dev.locked => Begun, dev.locked => HasGate(todo, OpenGate))

Unsealing == StepsBut({"setLock"})
Early == {e \in Jobs : Place(e) \in 3 .. 5}
RunUnseals == driver = "same5x" /\ plan # <<>> /\ plan[1] \in Early => todo \in Seq(Unsealing)

\* What an operation has left to do ends with what leads to the next one.
RunFollows == plan # <<>> /\ todo # <<>> => HasGate(todo, {"next"})

LEMMA FollowsStep ==
  ASSUME AskInv, OrderInv, RunFollows, Next
  PROVE  RunFollows'
  <1>0. HasGate(<<>>, {"next"})' = HasGate(<<>>, {"next"}) /\ HasGate(todo, {"next"})' = HasGate(todo', {"next"})
    BY DEF HasGate
  <1>1. CASE exit' = "error"
    <2>1. plan' = <<>> BY OrderStep, <1>1 DEF OrderInv
    <2> QED BY <2>1 DEF RunFollows
  <1>2. CASE exit' # "error"
    <2>1. CASE todo' = <<>> BY <2>1 DEF RunFollows
    <2>2. CASE Begin /\ plan # <<>> /\ todo' = StepsOf(plan[1][1]) \o <<Do("next")>>
      <3>1. \E S : StepsOf(plan[1][1]) \in Seq(S)
        <4>1. InPlan BY DEF AskInv
        <4>2. Without(StepsOf(plan[1][1]), {"save"}) \/ StepsOf(plan[1][1]) \in Seq(Easy) BY <2>2, <4>1, OpSteps
        <4> QED BY <4>2 DEF Without
      <3>2. PICK S : StepsOf(plan[1][1]) \in Seq(S) BY <3>1
      <3>3. StepsOf(plan[1][1]) \in Seq(S \cup {Do("next")}) /\ <<Do("next")>> \in Seq(S \cup {Do("next")})
        BY <3>2
      <3>4. HasGate(<<Do("next")>>, {"next"}) BY DEF HasGate, Do, Area
      <3>5. HasGate(StepsOf(plan[1][1]) \o <<Do("next")>>, {"next"}) BY <3>3, <3>4, GateConcat
      <3> QED BY <1>0, <2>2, <3>5 DEF RunFollows
    <2>3. CASE Working /\ plan # <<>> /\ plan' = plan /\ todo # <<>> /\ todo' = Tail(todo)
      <3>1. HasGate(todo, {"next"}) BY <2>3 DEF RunFollows
      <3>2. Head(todo).do # "next"
        BY <2>3, WorkOf DEF Working, ProbeWork, TargetWork, CheckWork, FlashWork, FuseWork
      <3>3. todo \in Todos BY <2>3, WorkMoves, TodoTyped
      <3>4. HasGate(Tail(todo), {"next"}) BY <2>3, <3>1, <3>2, <3>3, GateTail DEF Todos
      <3> QED BY <1>0, <2>3, <3>4 DEF RunFollows
    <2> QED BY <1>2, <2>1, <2>2, <2>3, RunGoes
  <1> QED BY <1>1, <1>2

LEMMA UnsealsBegin ==
  ASSUME InPlan, driver = "same5x", NEW o \in {"select", "unlock", "erase"}
  PROVE  StepsOf(o) \o <<Do("next")>> \in Seq(Unsealing)
  <1>1. Plain \subseteq Unsealing BY DEF Plain, Unsealing, StepsBut, FlashWork
  <1>2. SeSelect \in Seq(Plain)
    <2>1. Ops("same5x", opt).select \in Seq(Plain) BY SelectPlain DEF Drivers
    <2> QED BY <2>1, OpsOf DEF SeOps
  <1>3. SeErase \in Seq(Unsealing)
    <2>1. Do("chipErase") \in Unsealing /\ Do("settle") \in Unsealing
      BY <1>1, PlainStep, AreaTyped DEF Unsealing, StepNames
    <2>2. <<Do("chipErase"), Do("settle")>> \in Seq(Unsealing) BY <2>1
    <2>3. SeExtend \in Seq(Unsealing) /\ SeFinishReset \in Seq(Unsealing) BY <1>1, PlainShared
    <2> QED BY <2>2, <2>3 DEF SeErase
  <1>4. StepsOf(o) = IF o = "select" THEN SeSelect ELSE SeErase BY OpsOf DEF StepsOf, SeOps
  <1>5. StepsOf(o) \in Seq(Unsealing) /\ <<Do("next")>> \in Seq(Unsealing) BY <1>1, <1>2, <1>3, <1>4, PlainStep
  <1> QED BY <1>5

LEMMA UnsealsStep ==
  ASSUME AskInv, OrderInv, RunUnseals, Next
  PROVE  RunUnseals'
  <1>0. InPlan /\ Scheduled(plan) BY DEF OrderInv
  <1>1. UNCHANGED <<driver, cmd, world>> BY NextIs
  <1>2. Early' = Early /\ Unsealing' = Unsealing
    BY <1>1 DEF Early, Jobs, Wanted, Active, Place, Unsealing, StepsBut, StepNames
  <1>3. CASE driver = "same5x"
    <2>1. plan # <<>> /\ plan[1] \in Early => todo \in Seq(Unsealing) BY <1>3 DEF RunUnseals
    <2>2. ASSUME Begin, plan[1] \in Early PROVE todo' \in Seq(Unsealing)
      <3>1. plan # <<>> /\ todo' = StepsOf(plan[1][1]) \o <<Do("next")>> BY <2>2 DEF Begin
      <3>2. plan[1] \in Jobs /\ Place(plan[1]) \in 3 .. 5 BY <2>2 DEF Early
      <3>3. plan[1][1] \in {"select", "unlock", "erase"}
        <4>1. PICK o \in OpNames : o = plan[1][1] BY <1>0, <3>2, PlaceRange
        <4>2. o # "fuse"
          <5>1. Place(plan[1]) < 9 BY <3>2
          <5> QED BY <1>0, <3>2, <4>1, <5>1, PlaceNames
        <4>3. plan[1] = <<o, 0>> /\ Len(cmd.fuse) \in Nat BY <1>0, <3>2, <4>1, <4>2, PlaceRange
        <4>4. Place(<<o, 0>>) \in 3 .. 5 BY <3>2, <4>3
        <4>5. o \notin {"open", "pulse", "program", "verify", "lock", "read"}
          <5>1. /\ Place(<<"open", 0>>) \notin 3 .. 5 /\ Place(<<"pulse", 0>>) \notin 3 .. 5
                /\ Place(<<"program", 0>>) \notin 3 .. 5 /\ Place(<<"verify", 0>>) \notin 3 .. 5
                /\ Place(<<"lock", 0>>) \notin 3 .. 5 /\ Place(<<"read", 0>>) \notin 3 .. 5
            BY Places
          <5> QED BY <4>4, <5>1
        <4>6. o \notin {"deselect", "restart", "close"}
          <5> DEFINE n == Len(cmd.fuse)
          <5>1. 10 + n \notin 3 .. 5 /\ 11 + n \notin 3 .. 5 /\ 12 + n \notin 3 .. 5 BY <4>3
          <5> QED BY <4>4, <5>1, Places
        <4> QED BY <4>1, <4>2, <4>5, <4>6 DEF OpNames
      <3> QED BY <1>0, <1>3, <3>1, <3>3, UnsealsBegin
    <2> HIDE DEF Early, Unsealing
    <2>3. plan' # <<>> /\ plan'[1] \in Early => todo' \in Seq(Unsealing) BY <2>1, <2>2, TodoStep
    <2> QED BY <1>2, <2>3 DEF RunUnseals
  <1>4. CASE driver # "same5x" BY <1>1, <1>4 DEF RunUnseals
  <1> QED BY <1>3, <1>4

\* Nothing but setLock locks a device.
LEMMA UnlockedKept ==
  ASSUME AskInv, Working, Head(todo).do # "setLock", ~dev.locked
  PROVE  ~dev'.locked
  <1>1. IsDevice(dev) /\ exit = "running" BY WorkMoves DEF AskInv, InPlan
  <1>2. CASE FuseWrite BY <1>1, <1>2, FuseWriteShape
  <1>3. CASE Head(todo).do \in PlainNames
    <2>1. Spared BY <1>1, <1>3, PlainSpares
    <2>2. PICK d \in {dev, Cut(dev)} : Alike(dev', d) BY <2>1 DEF Spared
    <2>3. Cut(dev).locked = (dev.locked /\ LockUnit \notin dev.busy) BY <1>1, CutShape
    <2>4. ~Cut(dev).locked BY <2>3
    <2> QED BY <2>2, <2>4 DEF Alike
  <1>4. CASE Head(todo).do \in FlashWork
    <2>1. Flash BY <1>4, FlashDoes
    <2>2. Fetch \/ Save \/ EraseArea \/ ProgramArea \/ EraseChip
      BY <1>4, <2>1 DEF Flash, WaitDone, WaitReady, SetLock, Compare, Step, FlashWork
    <2>3. CASE Fetch \/ Save
      <3>1. dev' = dev \/ dev' = Settle(dev) BY <2>3 DEF Fetch, Save
      <3> QED BY <1>1, <3>1, SettleIs
    <2>4. CASE EraseArea \/ ProgramArea
      <3>1. dev' = Erased(dev, Head(todo)) \/ dev' = Programmed(dev, Head(todo)) BY <2>4 DEF EraseArea, ProgramArea
      <3>2. CASE Refuses(dev, Span(Head(todo)))
        <4>1. dev' = [Settle(dev) EXCEPT !.err = TRUE] BY <3>1, <3>2 DEF Erased, Programmed
        <4> QED BY <1>1, <4>1, RefusedIs
      <3>3. CASE ~Refuses(dev, Span(Head(todo)))
        <4>1. dev'.locked = dev.locked BY <1>1, <3>1, <3>3, ErasedIs, ProgrammedIs
        <4> QED BY <4>1
      <3> QED BY <3>2, <3>3
    <2>5. CASE EraseChip
      <3>1. dev' = Chip(dev) \/ dev' = Settle(dev) BY <2>5 DEF EraseChip
      <3> QED BY <1>1, <3>1, ChipIs, SettleIs
    <2> QED BY <2>2, <2>3, <2>4, <2>5
  <1>5. Head(todo).do \in FlashWork \cup FuseWork \/ Head(todo).do \in PlainNames
    <2>1. todo \in Todos /\ todo # <<>> BY <1>1, TodoTyped, WorkMoves
    <2>2. Head(todo) \in StepsBut({}) BY <2>1 DEF Todos
    <2> QED BY <2>2 DEF StepsBut, PlainNames
  <1>6. Head(todo).do \in FuseWork => FuseWrite BY FusesDo
  <1> QED BY <1>2, <1>3, <1>4, <1>5, <1>6

\* The step that looks at the device, or opens it.
LEMMA GateOpens ==
  ASSUME AskInv, Working, exit' # "error"
  PROVE  /\ driver \in Eefc /\ world.locked => Head(todo).do \notin {"halt", "catch"}
         /\ "unlock" \notin cmd.acts /\ dev.locked => Head(todo).do # "locked"
         /\ Head(todo).do = "chipErase" => ~dev'.locked
  <1>1. IsDevice(dev) BY DEF AskInv, InPlan
  <1>2. Head(todo).do \in {"halt", "catch"} => Halt \/ Catch
    BY WorkOf DEF Working, ProbeWork, CheckWork, FlashWork, FuseWork, Target, ResetPin, ResetTarget, ReleaseCore,
                  EndExtension, FinishIfOpen, DebugStep, Step
  <1>3. Head(todo).do = "locked" => CheckLocked
    BY WorkOf DEF Working, ProbeWork, TargetWork, FlashWork, FuseWork, Checks, Identify, Unlocked, FindErrors, NotImplemented,
                  CheckOptions, Step
  <1>4. Head(todo).do = "chipErase" => dev' = Chip(dev)
    <2> SUFFICES ASSUME Head(todo).do = "chipErase" PROVE dev' = Chip(dev) OBVIOUS
    <2>1. Flash BY FlashDoes DEF FlashWork
    <2> QED BY <2>1 DEF Flash, WaitDone, WaitReady, EraseArea, ProgramArea, SetLock, Compare, Fetch, Save, EraseChip, Step
  <1>5. driver \in Eefc /\ world.locked => Head(todo).do \notin {"halt", "catch"}
    BY <1>2 DEF Halt, Catch, DebugStep, Unless, Mute, Stop
  <1>6. "unlock" \notin cmd.acts /\ dev.locked => Head(todo).do # "locked"
    BY <1>3 DEF CheckLocked, Unless, Stop
  <1>7. Head(todo).do = "chipErase" => ~dev'.locked BY <1>1, <1>4, ChipIs
  <1> QED BY <1>5, <1>6, <1>7

LEMMA AnswersStep ==
  ASSUME AskInv, OrderInv, RunAnswers, Next
  PROVE  RunAnswers'
  <1>0. UNCHANGED <<driver, cmd, world>> BY NextIs
  <1>1. CASE driver \in Eefc /\ "program" \in cmd.acts
    <2> DEFINE e == <<"select", 0>>
               G == {"halt", "catch"}
               Q == ~world.locked
               R == world.locked => HasGate(todo, G)
               T == world.locked => HasGate(todo', G)
    <2>1. InPlan BY DEF AskInv
    <2>2. e \in Wanted /\ e # <<"close", 0>> /\ Place(e) = 3 BY <1>1, Places DEF Wanted, Active
    <2>3. Through(e, plan, todo, exit, Q, R) BY <1>1 DEF RunAnswers
    <2>4. plan # <<>> /\ plan[1] = e /\ todo = <<Do("next")>> /\ R => Q BY LastStep
    <2>5. ASSUME Begin, plan[1] = e PROVE T
      <3>1. plan # <<>> /\ todo' = StepsOf("select") \o <<Do("next")>> BY <2>5 DEF Begin
      <3>2. HasGate(StepsOf("select") \o <<Do("next")>>, GatesOf(driver)) BY <2>1, <2>5, <3>1, OpSteps
      <3> QED BY <1>1, <3>1, <3>2 DEF GatesOf
    <2>6. ASSUME Working, exit' # "error", R PROVE T
      <3> SUFFICES ASSUME world.locked PROVE HasGate(todo', G) OBVIOUS
      <3>1. HasGate(todo, G) BY <2>6
      <3>2. todo # <<>> /\ todo \in Todos /\ todo' = Tail(todo) BY <2>6, WorkMoves, TodoTyped DEF Continue, Stop
      <3>3. Head(todo).do \notin G BY <1>1, <2>6, GateOpens
      <3> QED BY <3>1, <3>2, <3>3, GateTail DEF Todos
    <2> HIDE DEF e, G, Q, R, T
    <2>7. Place(e) > 1 BY <2>2
    <2>8. Through(e, plan', todo', exit', Q, T) BY <2>2, <2>3, <2>4, <2>5, <2>6, <2>7, ThroughStep
    <2>9. Place(e)' = Place(e) /\ Place(plan[1])' = Place(plan'[1]) /\ Listed' = Listed
      BY <1>0 DEF Place, Listed, e
    <2>10. Q' = Q /\ (world.locked => HasGate(todo, {"halt", "catch"}))' = T BY <1>0 DEF Q, T, G, HasGate
    <2> QED BY <1>0, <2>8, <2>9, <2>10 DEF RunAnswers, Through, e, Q
  <1>2. CASE ~(driver \in Eefc /\ "program" \in cmd.acts) BY <1>0, <1>2 DEF RunAnswers
  <1> QED BY <1>1, <1>2

LEMMA TailFollows ==
  ASSUME AskInv, RunFollows, Working, plan # <<>>, exit' # "error"
  PROVE  todo' # <<>> /\ todo' = Tail(todo) /\ plan' = plan /\ todo # <<>> /\ todo \in Todos
  <1>1. todo # <<>> /\ todo \in Todos /\ todo' = Tail(todo) /\ plan' = plan
    BY WorkMoves, TodoTyped DEF Continue, Stop
  <1>2. Head(todo).do # "next"
    BY WorkOf DEF Working, ProbeWork, TargetWork, CheckWork, FlashWork, FuseWork
  <1>3. HasGate(Tail(todo), {"next"}) BY <1>1, <1>2, GateTail DEF RunFollows, Todos
  <1>4. ~HasGate(<<>>, {"next"})
    <2>1. Len(<<>>) = 0 /\ 1 .. 0 = {} OBVIOUS
    <2> QED BY <2>1 DEF HasGate
  <1> QED BY <1>1, <1>3, <1>4

LEMMA EarlyKept ==
  ASSUME AskInv, OrderInv, RunUnseals, Working, exit' # "error", driver = "same5x", plan # <<>>, plan[1] \in Early,
         ~dev.locked
  PROVE  ~dev'.locked
  <1>1. todo \in Seq(Unsealing) /\ todo # <<>> BY WorkMoves DEF RunUnseals
  <1>2. Head(todo) \in Unsealing BY <1>1
  <1>3. Head(todo).do # "setLock" BY <1>2 DEF Unsealing, StepsBut
  <1> QED BY <1>3, UnlockedKept

LEMMA OpenerGated ==
  ASSUME InPlan, driver = "same5x", plan # <<>>, plan[1] = Opener
  PROVE  HasGate(StepsOf(plan[1][1]) \o <<Do("next")>>, OpenGate)
  <1>1. CASE "unlock" \in cmd.acts
    <2>1. StepsOf("unlock") = SeErase BY OpsOf DEF StepsOf, SeOps
    <2> DEFINE T == {Do("chipErase"), Do("settle"), Do("next")} \cup Plain
    <2>2. <<Do("chipErase"), Do("settle")>> \in Seq(T) /\ SeExtend \in Seq(T) /\ SeFinishReset \in Seq(T)
          /\ <<Do("next")>> \in Seq(T)
      BY PlainShared
    <2>3. HasGate(<<Do("chipErase"), Do("settle")>>, {"chipErase"})
      <3>1. <<Do("chipErase"), Do("settle")>>[1].do = "chipErase" BY DEF Do, Area
      <3>2. 1 \in 1 .. Len(<<Do("chipErase"), Do("settle")>>) OBVIOUS
      <3> QED BY <3>1, <3>2 DEF HasGate
    <2> HIDE DEF T
    <2>4. PICK h : h = <<Do("chipErase"), Do("settle")>> OBVIOUS
    <2>5. SeErase \in Seq(T) /\ HasGate(SeErase, {"chipErase"})
      <3>1. h \in Seq(T) /\ HasGate(h, {"chipErase"}) BY <2>2, <2>3, <2>4
      <3>2. h \o SeExtend \in Seq(T) BY <2>2, <3>1
      <3>3. HasGate(h \o SeExtend, {"chipErase"}) BY <2>2, <3>1, GateConcat
      <3>4. SeErase = (h \o SeExtend) \o SeFinishReset BY <2>4 DEF SeErase
      <3>5. PICK k : k = h \o SeExtend OBVIOUS
      <3>6. k \o SeFinishReset \in Seq(T) BY <2>2, <3>2, <3>5
      <3>7. HasGate(k \o SeFinishReset, {"chipErase"}) BY <2>2, <3>2, <3>3, <3>5, GateConcat
      <3> QED BY <3>4, <3>5, <3>6, <3>7
    <2>6. HasGate(SeErase \o <<Do("next")>>, {"chipErase"}) BY <2>2, <2>5, GateConcat
    <2> QED BY <1>1, <2>1, <2>6 DEF Opener, OpenGate
  <1>2. CASE "unlock" \notin cmd.acts
    <2>1. plan[1][1] = "select" BY <1>2 DEF Opener
    <2>2. HasGate(StepsOf(plan[1][1]) \o <<Do("next")>>, GatesOf(driver)) BY <2>1, OpSteps
    <2>3. GatesOf(driver) = {"locked"} BY DEF GatesOf, Eefc
    <2> QED BY <1>2, <2>2, <2>3 DEF OpenGate
  <1> QED BY <1>1, <1>2

LEMMA OpensStep ==
  ASSUME AskInv, OrderInv, RunFollows, RunUnseals, RunOpens, Next
  PROVE  RunOpens'
  <1>0. UNCHANGED <<driver, cmd, world>> BY NextIs
  <1>1. CASE driver = "same5x" /\ "program" \in cmd.acts
    <2> DEFINE e == Opener
               G == OpenGate
               Q == dev.locked => Begun
               S == dev'.locked => Begun'
               R == dev.locked => HasGate(todo, G)
               T == dev'.locked => HasGate(todo', G)
    <2>1. InPlan /\ Scheduled(plan) BY DEF OrderInv
    <2>2. e \in Wanted /\ e # <<"close", 0>> /\ Place(e) \in {3, 4} /\ e \in Jobs
      BY <1>1, Places DEF Wanted, Active, Opener, Jobs
    <2>3. Through(e, plan, todo, exit, Q, R) BY <1>1 DEF RunOpens
    <2>4. plan # <<>> => /\ plan[1] \in Jobs /\ Place(plan[1]) \in Nat
                         /\ Tail(plan) # <<>> => Place(plan[1]) < Place(Tail(plan)[1])
      BY <2>1, ScheduledTail
    <2>5. Begun' = (plan' # <<>> => Place(plan'[1]) > 6 \/ (Place(plan'[1]) = 6 /\ todo' # <<>>))
      BY <1>0 DEF Begun, Place
    <2>6. ASSUME Begin \/ NextOperation, plan # <<>>, Place(e) < Place(plan[1]), Q PROVE S
      <3> SUFFICES ASSUME dev.locked PROVE Begun' BY <2>6, MainLeaves
      <3>1. Place(plan[1]) > 6 \/ (Place(plan[1]) = 6 /\ todo # <<>>) BY <2>6 DEF Begun
      <3>2. CASE Begin
        <4>1. plan' = plan /\ todo = <<>> BY <3>2 DEF Begin
        <4> QED BY <2>5, <3>1, <4>1
      <3>3. CASE NextOperation
        <4>1. plan' = Tail(plan) BY <3>3 DEF NextOperation
        <4>2. Tail(plan) # <<>> => Place(Tail(plan)[1]) \in Nat BY <2>1, <2>6, ScheduledTail
        <4>3. Place(plan[1]) \in Nat /\ (Tail(plan) # <<>> => Place(plan[1]) < Place(Tail(plan)[1])) BY <2>4, <2>6
        <4>4. ASSUME Tail(plan) # <<>> PROVE Place(Tail(plan)[1]) > 6
          <5>1. PICK p \in Nat : p = Place(plan[1]) BY <4>3
          <5>2. PICK q \in Nat : q = Place(Tail(plan)[1]) BY <4>2, <4>4
          <5>3. p < q /\ p >= 6 BY <3>1, <4>3, <4>4, <5>1, <5>2
          <5>4. q > 6 BY <5>3
          <5> QED BY <5>2, <5>4
        <4> QED BY <2>5, <4>1, <4>4
      <3> QED BY <2>6, <3>2, <3>3
    <2>7. ASSUME Working, exit' # "error", Place(e) < Place(plan[1]), Q PROVE S
      <3>1. plan # <<>>
        <4>1. todo # <<>> BY <2>7, WorkMoves
        <4> QED BY <4>1 DEF OrderInv
      <3>2. todo' # <<>> /\ plan' = plan BY <2>7, <3>1, TailFollows
      <3>3. CASE Place(plan[1]) >= 6 
        <4>1. Place(plan[1]) \in Nat BY <2>4, <3>1
        <4>2. PICK p \in Nat : p = Place(plan[1]) BY <4>1
        <4>3. p > 6 \/ p = 6 BY <3>3, <4>2
        <4> QED BY <2>5, <3>2, <4>2, <4>3
      <3>4. CASE ~(Place(plan[1]) >= 6)
        <4>1. plan[1] \in Early BY <2>2, <2>4, <2>7, <3>1, <3>4 DEF Early
        <4>2. ~Begun BY <2>4, <3>1, <3>4 DEF Begun
        <4>3. ~dev.locked BY <2>7, <4>2
        <4>4. ~dev'.locked BY <1>1, <2>7, <3>1, <4>1, <4>3, EarlyKept
        <4> QED BY <4>4
      <3> QED BY <3>3, <3>4
    <2>8. ASSUME plan # <<>>, plan[1] = e, todo = <<Do("next")>>, R PROVE S
      <3>1. ~HasGate(todo, G) BY <2>8, LastStep DEF OpenGate
      <3>2. ~dev.locked BY <2>8, <3>1
      <3>3. ~Working
        <4>1. Working => Head(todo).do # "next"
          BY WorkOf DEF Working, ProbeWork, TargetWork, CheckWork, FlashWork, FuseWork
        <4>2. Head(todo).do = "next" BY <2>8 DEF Do, Area
        <4> QED BY <4>1, <4>2
      <3>4. dev' = dev BY <3>3, NextIs, MainLeaves
      <3> QED BY <3>2, <3>4
    <2>9. ASSUME Begin, plan[1] = e PROVE T
      <3>1. plan # <<>> /\ todo' = StepsOf(plan[1][1]) \o <<Do("next")>> BY <2>9 DEF Begin
      <3> QED BY <1>1, <2>1, <2>9, <3>1, OpenerGated
    <2>10. ASSUME Working, exit' # "error", plan[1] = e, R PROVE T
      <3>1. plan # <<>>
        <4>1. todo # <<>> BY <2>10, WorkMoves
        <4> QED BY <4>1 DEF OrderInv
      <3>2. CASE ~dev.locked
        <4>1. plan[1] \in Early BY <2>2, <2>10 DEF Early
        <4>2. ~dev'.locked BY <1>1, <2>10, <3>1, <3>2, <4>1, EarlyKept
        <4> QED BY <4>2
      <3>3. CASE dev.locked
        <4>1. HasGate(todo, G) BY <2>10, <3>3
        <4>2. todo # <<>> /\ todo \in Todos /\ todo' = Tail(todo) BY <2>10, <3>1, TailFollows
        <4>3. CASE Head(todo).do \in G
          <5>1. Head(todo).do = "chipErase" \/ ("unlock" \notin cmd.acts /\ Head(todo).do = "locked")
            BY <4>3 DEF OpenGate
          <5>2. ~dev'.locked BY <2>10, <3>3, <5>1, GateOpens
          <5> QED BY <5>2
        <4>4. CASE Head(todo).do \notin G BY <4>1, <4>2, <4>4, GateTail DEF Todos
        <4> QED BY <4>3, <4>4
      <3> QED BY <3>2, <3>3
    <2>11. Q' = S /\ (dev.locked => HasGate(todo, OpenGate))' = T /\ Opener' = Opener
      BY <1>0 DEF HasGate, OpenGate, Opener
    <2>12. Place(Opener)' = Place(Opener) /\ Place(plan[1])' = Place(plan'[1]) /\ Listed' = Listed
      BY <1>0, <2>11 DEF Place, Listed
    <2>13. Place(e) > 1 BY <2>2
    <2> HIDE DEF e, G, Q, R, S, T
    <2>14. Through(e, plan', todo', exit', S, T)
      BY <2>2, <2>3, <2>6, <2>7, <2>8, <2>9, <2>10, <2>13, ThroughStep
    <2> QED BY <1>0, <2>11, <2>12, <2>14 DEF RunOpens, Through, e, Q
  <1>2. CASE ~(driver = "same5x" /\ "program" \in cmd.acts) BY <1>0, <1>2 DEF RunOpens
  <1> QED BY <1>1, <1>2

(* A run that programs has stored the file once programming is over, where *)
(* errors are looked at, or where none can go unnoticed.                   *)
SureWrites ==
  /\ "program" \in cmd.acts /\ driver \notin {"samd", "m480"}
  /\ driver \in Blind => world.bad \notin Units
AtPlace == driver = "sam3" => opt.offset = 0
RunPrograms ==
  SureWrites =>
    Through(<<"program", 0>>, plan, todo, exit,
            AtPlace => Stored /\ AtRest(dev), AtPlace /\ opt.file # 0 => Programming(todo))

LEMMA StoredStays ==
  ASSUME UNCHANGED <<dev, opt>>
  PROVE  (Stored /\ AtRest(dev))' = (Stored /\ AtRest(dev))
  BY DEF Stored, AtRest, Still, FileByte

LEMMA ProgrammingNext ==
  ASSUME UNCHANGED <<driver, world, opt, dev>>
  PROVE  Programming(todo)' = Programming(todo')
  <1>1. Strokes' = Strokes BY DEF Strokes, StepsBut, StepNames
  <1>2. Do("next")' = Do("next") BY DEF Do, Area
  <1>3. ASSUME NEW u, NEW v
        PROVE  /\ Leads(todo, opt.offset + u, u, v, 2)' = Leads(todo', opt.offset + u, u, v, 2)
               /\ Stands(dev, opt.offset + u, u, v)' = Stands(dev, opt.offset + u, u, v)
    <2>1. Leads(todo, opt.offset + u, u, v, 2)' = Leads(todo', opt.offset + u, u, v, 2)
      BY DEF Leads, Moves, Erases, Puts, Clear, Meets, Strokes, StepsBut, StepNames
    <2>2. Stands(dev, opt.offset + u, u, v)' = Stands(dev, opt.offset + u, u, v)
      BY DEF Stands, FileByte, Free
    <2> QED BY <2>1, <2>2
  <1>4. Still(dev)' = Still(dev) /\ Noted' = Noted /\ Shut' = Shut /\ LastWait' = LastWait
    BY DEF Still, Noted, Shut, LastWait
  <1> QED BY <1>1, <1>2, <1>3, <1>4 DEF Programming

\* Once the device is reached, one that would refuse in silence is open.
LEMMA OpenToPrograms ==
  ASSUME OrderInv, RunAnswers, RunOpens, "program" \in cmd.acts, driver \in Blind \ {"samd"},
         plan # <<>>, plan[1] = <<"program", 0>>, todo = <<>>
  PROVE  ~Shut
  <1>1. Place(plan[1]) = 6 BY Places
  <1>2. CASE driver \in Eefc
    <2>1. Place(<<"select", 0>>) = 3 BY Places
    <2>2. Place(<<"select", 0>>) < Place(plan[1]) BY <1>1, <2>1
    <2>3. ~world.locked BY <1>2, <2>2 DEF RunAnswers, Through
    <2> QED BY <2>3 DEF Shut
  <1>3. CASE driver = "same5x"
    <2>1. Place(Opener) \in {3, 4} BY Places DEF Opener
    <2>2. Place(Opener) < Place(plan[1]) BY <1>1, <2>1
    <2>3. dev.locked => Begun BY <1>3, <2>2 DEF RunOpens, Through
    <2>4. ~Begun BY <1>1 DEF Begun
    <2> QED BY <2>3, <2>4 DEF Shut
  <1> QED BY <1>2, <1>3 DEF Blind, Eefc

LEMMA ProgramsStep ==
  ASSUME AskInv, OrderInv, RunKeeps, RunAnswers, RunOpens, RunPrograms, Next
  PROVE  RunPrograms'
  <1>0. /\ UNCHANGED <<driver, cmd, world>> /\ exit = "running"
        /\ Working \/ Main \/ Begin \/ NextOperation \/ Fail
    BY NextIs
  <1>1. InPlan /\ Scheduled(plan) /\ InOptions BY DEF AskInv, OrderInv
  <1> DEFINE e == <<"program", 0>>
             W == Stored /\ AtRest(dev)
             Q == AtPlace => W
             S == AtPlace' => W'
             R == AtPlace /\ opt.file # 0 => Programming(todo)
             T == AtPlace' /\ opt'.file # 0 => Programming(todo)'
  <1>2. CASE SureWrites
    <2>1. Place(e) = 6 /\ e \in Wanted /\ e # <<"close", 0>> BY <1>2, Places DEF SureWrites, Wanted
    <2>2. Through(e, plan, todo, exit, Q, R) BY <1>2 DEF RunPrograms
    <2>3. Working => Head(todo).do # "next" /\ todo # <<>> /\ plan # <<>>
      <3>1. Working => Head(todo).do # "next" /\ todo # <<>>
        BY WorkOf, WorkMoves DEF Working, ProbeWork, TargetWork, CheckWork, FlashWork, FuseWork
      <3> QED BY <3>1 DEF OrderInv
    <2>4. UNCHANGED opt => AtPlace' = AtPlace BY <1>0 DEF AtPlace
    <2>5. ASSUME ~Working, Q PROVE S
      <3>1. UNCHANGED <<dev, opt>> BY <1>0, <2>5, MainLeaves
      <3>2. W' = W BY <3>1, StoredStays
      <3> QED BY <2>4, <2>5, <3>1, <3>2
    <2>6. (Begin \/ NextOperation) /\ plan # <<>> /\ Place(e) < Place(plan[1]) /\ Q => S
      <3>1. (Begin \/ NextOperation) => ~Working
        <4>1. NextOperation => Head(todo).do = "next" BY DEF NextOperation, Do, Area
        <4>2. Begin => todo = <<>> BY DEF Begin
        <4> QED BY <2>3, <4>1, <4>2
      <3> QED BY <2>5, <3>1
    <2>7. ASSUME Working, Place(e) < Place(plan[1]), Q PROVE S
      <3>1. plan # <<>> /\ todo # <<>> BY <2>3, <2>7
      <3>2. plan[1] \in Jobs /\ Place(plan[1]) \in Nat BY <1>1, <3>1, ScheduledTail
      <3>3. Place(plan[1]) > 6 BY <2>1, <2>7, <3>2
      <3>4. todo \in Seq(Keeping) BY <3>1, <3>2, <3>3 DEF RunKeeps, Behindhand
      <3>5. Head(todo) \in Keeping BY <3>1, <3>4
      <3>6. opt' = opt BY <2>7, <3>5, OptionsLater DEF Keeping, StepsBut
      <3>7. W => W' BY <2>7, <3>1, <3>3, StoredKept
      <3> QED BY <2>4, <2>7, <3>6, <3>7
    <2>8. ASSUME todo = <<Do("next")>>, R PROVE S
      <3>1. ~Working BY <2>3, <2>8 DEF Do, Area
      <3>2. Q
        <4>1. CASE opt.file = 0
          <5>1. 0 .. opt.file - 1 = {} BY <4>1
          <5> QED BY <4>1, <5>1 DEF Stored, AtRest
        <4>2. CASE opt.file # 0
          <5>1. AtPlace => Programming(todo) BY <2>8, <4>2
          <5> QED BY <1>1, <2>8, <5>1, ProgramEnds
        <4> QED BY <4>1, <4>2
      <3> QED BY <2>5, <3>1, <3>2
    <2>9. ASSUME Begin, plan[1] = e PROVE T
      <3>1. plan # <<>> /\ todo = <<>> /\ todo' = StepsOf("program") \o <<Do("next")>> /\ UNCHANGED <<dev, opt>>
        BY <2>9 DEF Begin
      <3> SUFFICES ASSUME AtPlace, opt.file # 0 PROVE Programming(todo)' BY <2>4, <3>1
      <3>2. "program" \in cmd.acts /\ driver \notin {"samd", "m480"} BY <1>2 DEF SureWrites
      <3>3. driver \in Blind => ~Shut BY <2>9, <3>1, <3>2, OpenToPrograms
      <3>4. driver = "sam3" => opt.offset = 0 BY DEF AtPlace
      <3>5. Programming(StepsOf("program") \o <<Do("next")>>) BY <1>1, <3>2, <3>3, <3>4, ProgramBegins
      <3>6. Programming(todo)' = Programming(todo') BY <1>0, <3>1, ProgrammingNext
      <3> QED BY <3>1, <3>5, <3>6
    <2>10. ASSUME Working, exit' # "error", plan[1] = e, R PROVE T
      <3>1. plan # <<>> /\ todo # <<>> /\ plan[1] \in Jobs /\ plan \in Seq(Jobs)
        BY <1>1, <2>3, <2>10, ScheduledTail
      <3>2. ~Selecting
        <4>1. Guarded(plan) => plan[1][1] \in Outside \cup {"select"} BY <3>1, GuardFirst
        <4> QED BY <2>10, <4>1 DEF Selecting, Outside
      <3>3. todo \in Seq(Within(Reach)) BY <1>0, <2>10, <3>2 DEF AskInv, Serving
      <3>4. Head(todo) \in Within(Reach) BY <3>1, <3>3
      <3>5. opt' = opt BY <2>10, <3>4, OptionsLater DEF Within, StepsBut
      <3> SUFFICES ASSUME AtPlace, opt.file # 0 PROVE Programming(todo)' BY <2>4, <3>5
      <3>6. Programming(todo) BY <2>10
      <3>7. "program" \in cmd.acts /\ (driver \in Blind => world.bad \notin Units) BY <1>2 DEF SureWrites
      <3> QED BY <2>10, <3>6, <3>7, ProgramWorks
    <2>11. Working /\ exit' # "error" /\ Place(e) < Place(plan[1]) /\ Q => S BY <2>7
    <2>12. plan # <<>> /\ plan[1] = e /\ todo = <<Do("next")>> /\ R => S BY <2>8
    <2>13. Begin /\ plan[1] = e => T BY <2>9
    <2>14. Working /\ exit' # "error" /\ plan[1] = e /\ R => T BY <2>10
    <2>15. Place(e) > 1 BY <2>1
    <2>16. /\ Place(<<"program", 0>>)' = Place(<<"program", 0>>) /\ Place(plan[1])' = Place(plan'[1])
           /\ Listed' = Listed
      BY <1>0 DEF Place, Listed
    <2>17. (AtPlace => Stored /\ AtRest(dev))' = S
           /\ (AtPlace /\ opt.file # 0 => Programming(todo))' = T
      OBVIOUS
    <2> HIDE DEF e, W, Q, R, S, T
    <2>18. Through(e, plan', todo', exit', S, T)
      BY <2>1, <2>2, <2>6, <2>11, <2>12, <2>13, <2>14, <2>15, ThroughStep
    <2> QED BY <2>16, <2>17, <2>18 DEF RunPrograms, Through, e
  <1>3. CASE ~SureWrites BY <1>0, <1>3 DEF SureWrites, RunPrograms
  <1> QED BY <1>2, <1>3

LEMMA GatesInit == EdbgInit => RunFollows /\ RunUnseals /\ RunAnswers /\ RunOpens /\ RunPrograms
  <1> SUFFICES ASSUME EdbgInit PROVE RunFollows /\ RunUnseals /\ RunAnswers /\ RunOpens /\ RunPrograms OBVIOUS
  <1>1. plan = <<>> /\ exit = "running" BY DEF EdbgInit, Init
  <1> QED BY <1>1 DEF RunFollows, RunUnseals, RunAnswers, RunOpens, RunPrograms, Through

LEMMA ProgramsHold ==
  ASSUME OrderInv, RunVerifies, RunPrograms
  PROVE  SuccessIsStored
  <1> SUFFICES ASSUME exit = "ok", Sure PROVE Stored BY DEF SuccessIsStored
  <1>1. CASE "verify" \in cmd.acts BY <1>1, VerifiesHold
  <1>2. CASE Listed
    <2>1. opt = NoOptions BY <1>2 DEF OrderInv, Unspent
    <2>2. 0 .. opt.file - 1 = {} BY <2>1 DEF NoOptions
    <2> QED BY <2>2 DEF Stored
  <1>3. CASE "verify" \notin cmd.acts /\ ~Listed
    <2>1. plan = <<>> BY DEF OrderInv
    <2>2. SureWrites /\ AtPlace BY <1>3 DEF Sure, SureWrites, AtPlace
    <2> QED BY <1>3, <2>1, <2>2 DEF RunPrograms, Through
  <1> QED BY <1>1, <1>2, <1>3
-----------------------------------------------------------------------------
(* A run, from its first step to its last *)

ProgramInv == OutcomeInv /\ RunFollows /\ RunUnseals /\ RunAnswers /\ RunOpens /\ RunPrograms

LEMMA GatesStill ==
  ASSUME ProgramInv, UNCHANGED vars
  PROVE  RunFollows' /\ RunUnseals' /\ RunAnswers' /\ RunOpens' /\ RunPrograms'
  <1>1. UNCHANGED <<driver, cmd, world, dev, opt, plan, todo, exit>> BY DEF vars
  <1>2. RunFollows /\ RunUnseals /\ RunAnswers /\ RunOpens /\ RunPrograms BY DEF ProgramInv
  <1>3. Place(plan[1])' = Place(plan[1]) /\ \A e : Place(e)' = Place(e) BY <1>1 DEF Place
  <1>4. Listed' = Listed BY <1>1 DEF Listed
  <1>5. RunFollows' BY <1>1, <1>2 DEF RunFollows, HasGate
  <1>6. RunUnseals'
    <2>1. Early' = Early /\ Unsealing' = Unsealing
      BY <1>1 DEF Early, Jobs, Wanted, Active, Place, Unsealing, StepsBut, StepNames
    <2> QED BY <1>1, <1>2, <2>1 DEF RunUnseals
  <1>7. RunAnswers' BY <1>1, <1>2, <1>3, <1>4 DEF RunAnswers, Through, HasGate
  <1>8. RunOpens'
    <2>1. Begun' = Begun /\ Opener' = Opener /\ OpenGate' = OpenGate BY <1>1, <1>3 DEF Begun, Opener, OpenGate
    <2>2. Place(Opener)' = Place(Opener) BY <1>1, <2>1 DEF Place
    <2> QED BY <1>1, <1>2, <1>3, <1>4, <2>1, <2>2 DEF RunOpens, Through, HasGate
  <1>9. RunPrograms'
    <2>1. (Stored /\ AtRest(dev))' = (Stored /\ AtRest(dev)) BY <1>1, StoredStays
    <2>2. Programming(todo)' = Programming(todo) BY <1>1, ProgrammingNext
    <2>3. AtPlace' = AtPlace /\ SureWrites' = SureWrites BY <1>1 DEF AtPlace, SureWrites
    <2>4. Place(<<"program", 0>>)' = Place(<<"program", 0>>) BY <1>3
    <2> QED BY <1>1, <1>2, <1>3, <1>4, <2>1, <2>2, <2>3, <2>4 DEF RunPrograms, Through
  <1> QED BY <1>5, <1>6, <1>7, <1>8, <1>9

LEMMA ProgramStep == ASSUME ProgramInv, [EdbgNext]_edbgVars PROVE ProgramInv'
  <1>1. OutcomeInv' BY OutcomeStep DEF ProgramInv
  <1>2. /\ AskInv /\ OrderInv /\ RunLocks /\ RunReads /\ RunKeeps /\ RunVerifies
        /\ RunFollows /\ RunUnseals /\ RunAnswers /\ RunOpens /\ RunPrograms
    BY DEF ProgramInv, OutcomeInv, ReleaseInv
  <1>3. CASE UNCHANGED vars BY <1>1, <1>3, GatesStill DEF ProgramInv
  <1>4. CASE Next
    <2>1. RunFollows' /\ RunUnseals' /\ RunAnswers' BY <1>2, <1>4, FollowsStep, UnsealsStep, AnswersStep
    <2>2. RunOpens' BY <1>2, <1>4, OpensStep
    <2>3. RunPrograms' BY <1>2, <1>4, ProgramsStep
    <2> QED BY <1>1, <2>1, <2>2, <2>3 DEF ProgramInv
  <1> QED BY <1>3, <1>4, MainSteps

\* What inductiveness gives of every state.
LEMMA ProgramHolds == EdbgSpec => []ProgramInv
  <1>1. EdbgInit => ProgramInv BY OutcomeInit, GatesInit DEF ProgramInv
  <1>2. ProgramInv /\ [EdbgNext]_edbgVars => ProgramInv' BY ProgramStep
  <1> QED BY <1>1, <1>2, PTL DEF EdbgSpec

(* A run that ends without an error has stored its file: if it verified,   *)
(* and without that, for the drivers that wait for their last row, where   *)
(* the error flags are looked at or nothing was protected, and where the   *)
(* pages written are the ones addressed.                                   *)
THEOREM StoredIfSure == EdbgSpec => []SuccessIsStored
  <1>1. ProgramInv => SuccessIsStored BY ProgramsHold DEF ProgramInv, OutcomeInv, ReleaseInv
  <1> QED BY <1>1, ProgramHolds, PTL
=============================================================================
