-------------------------- MODULE EdbgOutcomeProofs ---------------------------
(***************************************************************************)
(* What a run of edbg that ends without an error has done: the target is   *)
(* released and the probe disconnected, a device that was to be locked is  *)
(* locked, what was read is what the flash held, and what was compared is  *)
(* what the file holds.  The argument goes along the plan of main: each of *)
(* its operations is carried out once and in this order, so a fact that    *)
(* one establishes and no later one disturbs holds at the end.             *)
(***************************************************************************)
EXTENDS EdbgSessionProofs

-----------------------------------------------------------------------------
(* The order of main's plan *)

\* Where an entry stands in a plan that holds everything.
Place(e) ==
  LET n == Len(cmd.fuse)
  IN  IF e[1] = "fuse" THEN 9 + e[2]
      ELSE [open |-> 1, pulse |-> 2, select |-> 3, unlock |-> 4, erase |-> 5, program |-> 6,
            verify |-> 7, lock |-> 8, read |-> 9, deselect |-> 10 + n, restart |-> 11 + n,
            close |-> 12 + n][e[1]]

\* What a plan holds for sure, and what it may hold.
Wanted ==
  {<<"close", 0>>} \cup {<<a, 0>> : a \in cmd.acts} \cup {<<"fuse", k>> : k \in DOMAIN cmd.fuse}
  \cup (IF Active THEN {<<"select", 0>>, <<"deselect", 0>>, <<"restart", 0>>} ELSE {})
Jobs == Wanted \cup {<<"open", 0>>, <<"pulse", 0>>}

Ordered(s, a, b) ==
  /\ s \in Seq(Jobs)
  /\ \A i \in 1 .. Len(s) : a <= Place(s[i]) /\ Place(s[i]) < b
  /\ \A i, j \in 1 .. Len(s) : i < j => Place(s[i]) < Place(s[j])
Has(s, e) == \E i \in 1 .. Len(s) : s[i] = e

\* A plan in order that leaves out nothing from its first entry on.
Scheduled(p) ==
  /\ Ordered(p, 1, 13 + Len(cmd.fuse))
  /\ p # <<>> => \A e \in Wanted : Place(p[1]) <= Place(e) => Has(p, e)

LEMMA Places ==
  LET n == Len(cmd.fuse)
  IN  /\ Place(<<"open", 0>>) = 1 /\ Place(<<"pulse", 0>>) = 2 /\ Place(<<"select", 0>>) = 3
      /\ Place(<<"unlock", 0>>) = 4 /\ Place(<<"erase", 0>>) = 5 /\ Place(<<"program", 0>>) = 6
      /\ Place(<<"verify", 0>>) = 7 /\ Place(<<"lock", 0>>) = 8 /\ Place(<<"read", 0>>) = 9
      /\ Place(<<"deselect", 0>>) = 10 + n /\ Place(<<"restart", 0>>) = 11 + n
      /\ Place(<<"close", 0>>) = 12 + n /\ \A k : Place(<<"fuse", k>>) = 9 + k
  BY DEF Place

\* The place of every entry, by its name.
LEMMA PlaceRange ==
  ASSUME InPlan, NEW e \in Jobs
  PROVE  /\ Len(cmd.fuse) \in Nat /\ Place(e) \in Nat /\ 1 <= Place(e) /\ Place(e) <= 12 + Len(cmd.fuse)
         /\ e[1] = "fuse" => e[2] \in 1 .. Len(cmd.fuse) /\ e = <<"fuse", e[2]>>
         /\ e[1] # "fuse" => e = <<e[1], 0>>
         /\ e[1] \in OpNames
         /\ e[1] \in Actions => e[1] \in cmd.acts
  <1>1. cmd.acts \subseteq Actions /\ cmd.fuse \in Seq(FuseCommand) BY CaseTyped
  <1>2. Len(cmd.fuse) \in Nat /\ DOMAIN cmd.fuse = 1 .. Len(cmd.fuse) BY <1>1
  <1>3. CASE \E k \in DOMAIN cmd.fuse : e = <<"fuse", k>>
    <2>1. PICK k \in DOMAIN cmd.fuse : e = <<"fuse", k>> BY <1>3
    <2>2. Place(e) = 9 + k BY <2>1, Places
    <2>3. e[1] = "fuse" /\ e[2] = k BY <2>1
    <2> QED BY <1>2, <2>1, <2>2, <2>3 DEF OpNames, Actions
  <1>4. CASE \E a \in cmd.acts : e = <<a, 0>>
    <2>1. PICK a \in cmd.acts : e = <<a, 0>> BY <1>4
    <2>2. a \in Actions BY <1>1, <2>1
    <2>3. Place(e) \in {4, 5, 6, 7, 8, 9}
      <3>1. a \in {"unlock", "erase", "program", "verify", "lock", "read"} BY <2>2 DEF Actions
      <3>2. CASE a = "unlock" BY <2>1, <3>2, Places
      <3>3. CASE a = "erase" BY <2>1, <3>3, Places
      <3>4. CASE a = "program" BY <2>1, <3>4, Places
      <3>5. CASE a = "verify" BY <2>1, <3>5, Places
      <3>6. CASE a = "lock" BY <2>1, <3>6, Places
      <3>7. CASE a = "read" BY <2>1, <3>7, Places
      <3> QED BY <3>1, <3>2, <3>3, <3>4, <3>5, <3>6, <3>7
    <2>4. e[1] = a /\ a # "fuse" BY <2>1, <2>2 DEF Actions
    <2> QED BY <1>2, <2>1, <2>2, <2>3, <2>4 DEF OpNames, Actions
  <1>5. CASE e \in {<<"open", 0>>, <<"pulse", 0>>, <<"select", 0>>, <<"deselect", 0>>, <<"restart", 0>>,
                    <<"close", 0>>}
    <2>1. Place(e) \in {1, 2, 3} \cup {10 + Len(cmd.fuse), 11 + Len(cmd.fuse), 12 + Len(cmd.fuse)}
      BY <1>5, Places
    <2>2. e[1] \in {"open", "pulse", "select", "deselect", "restart", "close"} /\ e = <<e[1], 0>> BY <1>5
    <2> QED BY <1>2, <2>1, <2>2 DEF OpNames, Actions
  <1> QED BY <1>3, <1>4, <1>5 DEF Jobs, Wanted

LEMMA OrderedJoin ==
  ASSUME NEW a \in Nat, NEW b \in Nat, NEW c \in Nat, NEW s, NEW t, Ordered(s, a, b), Ordered(t, b, c),
         a <= b, b <= c, \A e \in Jobs : Place(e) \in Nat
  PROVE  Ordered(s \o t, a, c)
  <1>1. s \in Seq(Jobs) /\ t \in Seq(Jobs) BY DEF Ordered
  <1>2. Len(s) \in Nat /\ Len(t) \in Nat /\ Len(s \o t) = Len(s) + Len(t) /\ s \o t \in Seq(Jobs) BY <1>1
  <1>3. ASSUME NEW i \in 1 .. Len(s \o t)
        PROVE  /\ \/ i <= Len(s) /\ (s \o t)[i] = s[i] /\ i \in 1 .. Len(s)
                  \/ i > Len(s) /\ (s \o t)[i] = t[i - Len(s)] /\ i - Len(s) \in 1 .. Len(t)
               /\ Place((s \o t)[i]) \in Nat
    <2>1. (s \o t)[i] \in Jobs BY <1>2
    <2>2. CASE i <= Len(s)
      <3>1. (s \o t)[i] = s[i] BY <1>1, <1>2, <2>2
      <3> QED BY <1>2, <2>1, <2>2, <3>1
    <2>3. CASE i > Len(s) BY <1>1, <1>2, <2>1, <2>3
    <2> QED BY <1>2, <2>2, <2>3
  <1>4. \A i \in 1 .. Len(s) : a <= Place(s[i]) /\ Place(s[i]) < b BY DEF Ordered
  <1>5. \A i \in 1 .. Len(t) : b <= Place(t[i]) /\ Place(t[i]) < c BY DEF Ordered
  <1>6. ASSUME NEW i \in 1 .. Len(s \o t) PROVE a <= Place((s \o t)[i]) /\ Place((s \o t)[i]) < c
    BY <1>3, <1>4, <1>5
  <1>7. ASSUME NEW i \in 1 .. Len(s \o t), NEW j \in 1 .. Len(s \o t), i < j
        PROVE  Place((s \o t)[i]) < Place((s \o t)[j])
    <2>1. CASE j <= Len(s) BY <1>2, <1>3, <1>7, <2>1 DEF Ordered
    <2>2. CASE i > Len(s)
      <3>1. /\ (s \o t)[i] = t[i - Len(s)] /\ i - Len(s) \in 1 .. Len(t)
            /\ (s \o t)[j] = t[j - Len(s)] /\ j - Len(s) \in 1 .. Len(t) /\ i - Len(s) < j - Len(s)
        BY <1>2, <1>3, <1>7, <2>2
      <3> QED BY <3>1 DEF Ordered
    <2>3. CASE i <= Len(s) /\ j > Len(s)
      <3>1. /\ (s \o t)[i] = s[i] /\ i \in 1 .. Len(s)
            /\ (s \o t)[j] = t[j - Len(s)] /\ j - Len(s) \in 1 .. Len(t)
        BY <1>2, <1>3, <1>7, <2>3
      <3>2. Place((s \o t)[i]) < b /\ b <= Place((s \o t)[j]) BY <3>1, <1>4, <1>5
      <3>3. Place((s \o t)[i]) \in Nat /\ Place((s \o t)[j]) \in Nat BY <1>3
      <3> QED BY <3>2, <3>3
    <2>4. i \in Nat /\ j \in Nat /\ Len(s) \in Nat BY <1>2
    <2>5. j <= Len(s) \/ i > Len(s) \/ (i <= Len(s) /\ j > Len(s)) BY <2>4
    <2> QED BY <2>1, <2>2, <2>3, <2>5
  <1> QED BY <1>2, <1>6, <1>7 DEF Ordered

LEMMA HasJoin ==
  ASSUME NEW s \in Seq(Jobs), NEW t \in Seq(Jobs), NEW e, Has(s, e) \/ Has(t, e)
  PROVE  Has(s \o t, e)
  <1>1. Len(s) \in Nat /\ Len(t) \in Nat /\ Len(s \o t) = Len(s) + Len(t) OBVIOUS
  <1>2. CASE Has(s, e)
    <2>1. PICK i \in 1 .. Len(s) : s[i] = e BY <1>2 DEF Has
    <2>2. (s \o t)[i] = e /\ i \in 1 .. Len(s \o t) BY <1>1, <2>1
    <2> QED BY <2>2 DEF Has
  <1>3. CASE Has(t, e)
    <2>1. PICK i \in 1 .. Len(t) : t[i] = e BY <1>3 DEF Has
    <2>2. (s \o t)[i + Len(s)] = e /\ i + Len(s) \in 1 .. Len(s \o t) BY <1>1, <2>1
    <2> QED BY <2>2 DEF Has
  <1> QED BY <1>2, <1>3

LEMMA OrderedOne ==
  ASSUME NEW e \in Jobs, NEW a, NEW b, a <= Place(e), Place(e) < b
  PROVE  Ordered(<<e>>, a, b) /\ Has(<<e>>, e)
  <1>1. <<e>> \in Seq(Jobs) /\ Len(<<e>>) = 1 /\ <<e>>[1] = e OBVIOUS
  <1>2. 1 .. 1 = {1} OBVIOUS
  <1>3. Has(<<e>>, e) BY <1>1, <1>2 DEF Has
  <1> QED BY <1>1, <1>2, <1>3 DEF Ordered

LEMMA OrderedNone ==
  ASSUME NEW a, NEW b
  PROVE  Ordered(<<>>, a, b)
  <1>1. <<>> \in Seq(Jobs) /\ Len(<<>>) = 0 /\ 1 .. 0 = {} OBVIOUS
  <1> QED BY <1>1 DEF Ordered

LEMMA PlanScheduled ==
  ASSUME InPlan
  PROVE  Scheduled(Plan) /\ Plan # <<>> /\ Plan[1] = <<"open", 0>>
  <1> DEFINE n == Len(cmd.fuse)
             P1 == <<<<"open", 0>>>>
             P2 == IF cmd.reset > 0 THEN <<<<"pulse", 0>>>> ELSE <<>>
             F == [k \in DOMAIN cmd.fuse |-> <<"fuse", k>>]
             L == <<<<"deselect", 0>>, <<"restart", 0>>>>
             A == <<<<"select", 0>>>> \o Turn("unlock") \o Turn("erase") \o Turn("program")
                    \o Turn("verify") \o Turn("lock") \o Turn("read") \o F \o L
             P3 == IF ~Active THEN <<>> ELSE A
             P4 == <<<<"close", 0>>>>
  <1>1. Plan = P1 \o P2 \o P3 \o P4 BY DEF Plan
  <1>2. cmd.acts \subseteq Actions /\ cmd.fuse \in Seq(FuseCommand) BY CaseTyped
  <1>3. n \in Nat /\ DOMAIN cmd.fuse = 1 .. n BY <1>2
  <1>4. \A e \in Jobs : Place(e) \in Nat /\ 1 <= Place(e) /\ Place(e) <= 12 + n BY PlaceRange
  <1>5. <<"open", 0>> \in Jobs /\ <<"pulse", 0>> \in Jobs /\ <<"close", 0>> \in Jobs BY DEF Jobs, Wanted
  <1>6. Active => <<"select", 0>> \in Jobs /\ <<"deselect", 0>> \in Jobs /\ <<"restart", 0>> \in Jobs
    BY DEF Jobs, Wanted
  <1>7. \A k \in 1 .. n : <<"fuse", k>> \in Jobs BY <1>3 DEF Jobs, Wanted
  <1>8. \A a \in cmd.acts : <<a, 0>> \in Jobs BY DEF Jobs, Wanted
  <1>9. Ordered(P1, 1, 2) BY <1>5, OrderedOne, Places
  <1>10. Ordered(P2, 2, 3) BY <1>5, OrderedOne, OrderedNone, Places
  <1>11. Ordered(P4, 12 + n, 13 + n) /\ Has(P4, <<"close", 0>>)
    <2>1. Place(<<"close", 0>>) = 12 + n BY Places
    <2>2. 12 + n <= Place(<<"close", 0>>) /\ Place(<<"close", 0>>) < 13 + n BY <1>3, <2>1
    <2> QED BY <1>5, <2>2, OrderedOne
  <1>12. ASSUME NEW a \in Actions, NEW x \in Nat, Place(<<a, 0>>) = x
         PROVE  Ordered(Turn(a), x, x + 1) /\ (a \in cmd.acts => Has(Turn(a), <<a, 0>>))
    <2>1. CASE a \in cmd.acts
      <3>1. Turn(a) = <<<<a, 0>>>> BY <2>1 DEF Turn
      <3>2. <<a, 0>> \in Jobs BY <1>8, <2>1
      <3> QED BY <1>12, <3>1, <3>2, OrderedOne
    <2>2. CASE a \notin cmd.acts
      <3>1. Turn(a) = <<>> BY <2>2 DEF Turn
      <3> QED BY <2>2, <3>1, OrderedNone
    <2> QED BY <2>1, <2>2
  <1>13. Ordered(F, 10, 10 + n) /\ \A k \in 1 .. n : Has(F, <<"fuse", k>>)
    <2>1. F \in Seq(Jobs) /\ Len(F) = n /\ \A k \in 1 .. n : F[k] = <<"fuse", k>> BY <1>3, <1>7
    <2> HIDE DEF F
    <2>2. \A k \in 1 .. n : Place(F[k]) = 9 + k BY <2>1, Places
    <2>3. \A k \in 1 .. n : 10 <= 9 + k /\ 9 + k < 10 + n BY <1>3
    <2>4. \A i, j \in 1 .. n : i < j => 9 + i < 9 + j BY <1>3
    <2> QED BY <2>1, <2>2, <2>3, <2>4 DEF Ordered, Has
  <1>14. Active => Ordered(P3, 3, 12 + n)
                   /\ Has(P3, <<"select", 0>>) /\ Has(P3, <<"deselect", 0>>) /\ Has(P3, <<"restart", 0>>)
                   /\ (\A a \in cmd.acts : Has(P3, <<a, 0>>)) /\ \A k \in 1 .. n : Has(P3, <<"fuse", k>>)
    <2> SUFFICES ASSUME Active
                 PROVE  /\ Ordered(A, 3, 12 + n)
                        /\ Has(A, <<"select", 0>>) /\ Has(A, <<"deselect", 0>>) /\ Has(A, <<"restart", 0>>)
                        /\ \A a \in cmd.acts : Has(A, <<a, 0>>)
                        /\ \A k \in 1 .. n : Has(A, <<"fuse", k>>)
      OBVIOUS
    <2> DEFINE S0 == <<<<"select", 0>>>>
               S1 == S0 \o Turn("unlock")
               S2 == S1 \o Turn("erase")
               S3 == S2 \o Turn("program")
               S4 == S3 \o Turn("verify")
               S5 == S4 \o Turn("lock")
               S6 == S5 \o Turn("read")
               S7 == S6 \o F
    <2>1. A = S7 \o L OBVIOUS
    <2>2. Ordered(S0, 3, 4) /\ Has(S0, <<"select", 0>>)
      <3>1. 3 <= Place(<<"select", 0>>) /\ Place(<<"select", 0>>) < 4 BY Places
      <3>2. <<"select", 0>> \in Jobs BY <1>6
      <3> QED BY <3>1, <3>2, OrderedOne
    <2>3. /\ Ordered(Turn("unlock"), 4, 5) /\ Ordered(Turn("erase"), 5, 6) /\ Ordered(Turn("program"), 6, 7)
          /\ Ordered(Turn("verify"), 7, 8) /\ Ordered(Turn("lock"), 8, 9) /\ Ordered(Turn("read"), 9, 10)
          /\ \A a \in Actions : a \in cmd.acts => Has(Turn(a), <<a, 0>>)
      <3>1. Place(<<"unlock", 0>>) = 4 /\ Place(<<"erase", 0>>) = 5 /\ Place(<<"program", 0>>) = 6
            /\ Place(<<"verify", 0>>) = 7 /\ Place(<<"lock", 0>>) = 8 /\ Place(<<"read", 0>>) = 9 BY Places
      <3>2. \A a \in Actions, x \in Nat : Place(<<a, 0>>) = x =>
              Ordered(Turn(a), x, x + 1) /\ (a \in cmd.acts => Has(Turn(a), <<a, 0>>))
        BY <1>12
      <3>3. Ordered(Turn("unlock"), 4, 4 + 1) BY <3>1, <3>2 DEF Actions
      <3>4. Ordered(Turn("erase"), 5, 5 + 1) BY <3>1, <3>2 DEF Actions
      <3>5. Ordered(Turn("program"), 6, 6 + 1) BY <3>1, <3>2 DEF Actions
      <3>6. Ordered(Turn("verify"), 7, 7 + 1) BY <3>1, <3>2 DEF Actions
      <3>7. Ordered(Turn("lock"), 8, 8 + 1) BY <3>1, <3>2 DEF Actions
      <3>8. Ordered(Turn("read"), 9, 9 + 1) BY <3>1, <3>2 DEF Actions
      <3>9. \A a \in Actions : a \in cmd.acts => Has(Turn(a), <<a, 0>>) BY <3>1, <3>2 DEF Actions
      <3> QED BY <3>3, <3>4, <3>5, <3>6, <3>7, <3>8, <3>9
    <2>4. Ordered(L, 10 + n, 12 + n) /\ Has(L, <<"deselect", 0>>) /\ Has(L, <<"restart", 0>>)
      <3>1. L = <<<<"deselect", 0>>>> \o <<<<"restart", 0>>>> OBVIOUS
      <3>2. Ordered(<<<<"deselect", 0>>>>, 10 + n, 11 + n) /\ Has(<<<<"deselect", 0>>>>, <<"deselect", 0>>)
        <4>1. Place(<<"deselect", 0>>) = 10 + n BY Places
        <4>2. 10 + n <= Place(<<"deselect", 0>>) /\ Place(<<"deselect", 0>>) < 11 + n BY <1>3, <4>1
        <4>3. <<"deselect", 0>> \in Jobs BY <1>6
        <4> QED BY <4>2, <4>3, OrderedOne
      <3>3. Ordered(<<<<"restart", 0>>>>, 11 + n, 12 + n) /\ Has(<<<<"restart", 0>>>>, <<"restart", 0>>)
        <4>1. Place(<<"restart", 0>>) = 11 + n BY Places
        <4>2. 11 + n <= Place(<<"restart", 0>>) /\ Place(<<"restart", 0>>) < 12 + n BY <1>3, <4>1
        <4>3. <<"restart", 0>> \in Jobs BY <1>6
        <4> QED BY <4>2, <4>3, OrderedOne
      <3>4. 10 + n \in Nat /\ 11 + n \in Nat /\ 12 + n \in Nat /\ 10 + n <= 11 + n /\ 11 + n <= 12 + n BY <1>3
      <3>5. Ordered(<<<<"deselect", 0>>>> \o <<<<"restart", 0>>>>, 10 + n, 12 + n)
        BY <1>4, <3>2, <3>3, <3>4, OrderedJoin
      <3>6. <<<<"deselect", 0>>>> \in Seq(Jobs) /\ <<<<"restart", 0>>>> \in Seq(Jobs) BY <1>6
      <3> QED BY <3>1, <3>2, <3>3, <3>5, <3>6, HasJoin
    <2> HIDE DEF L, F
    <2>6. Ordered(S1, 3, 5) BY <1>4, <2>2, <2>3, OrderedJoin
    <2>7. Ordered(S2, 3, 6) BY <1>4, <2>3, <2>6, OrderedJoin
    <2>8. Ordered(S3, 3, 7) BY <1>4, <2>3, <2>7, OrderedJoin
    <2>9. Ordered(S4, 3, 8) BY <1>4, <2>3, <2>8, OrderedJoin
    <2>10. Ordered(S5, 3, 9) BY <1>4, <2>3, <2>9, OrderedJoin
    <2>11. Ordered(S6, 3, 10) BY <1>4, <2>3, <2>10, OrderedJoin
    <2>12. Ordered(S7, 3, 10 + n) BY <1>3, <1>4, <1>13, <2>11, OrderedJoin
    <2>13. Ordered(A, 3, 12 + n) BY <1>3, <1>4, <2>1, <2>4, <2>12, OrderedJoin
    <2>14. /\ S0 \in Seq(Jobs) /\ S1 \in Seq(Jobs) /\ S2 \in Seq(Jobs) /\ S3 \in Seq(Jobs) /\ S4 \in Seq(Jobs)
           /\ S5 \in Seq(Jobs) /\ S6 \in Seq(Jobs) /\ S7 \in Seq(Jobs) /\ F \in Seq(Jobs) /\ L \in Seq(Jobs)
      BY <1>13, <2>2, <2>4, <2>6, <2>7, <2>8, <2>9, <2>10, <2>11, <2>12 DEF Ordered
    <2>15. \A a \in Actions : Turn(a) \in Seq(Jobs)
      BY <2>3 DEF Ordered, Actions
    <2>16. \A e : Has(S0, e) \/ Has(Turn("unlock"), e) => Has(S1, e) BY <2>14, <2>15, HasJoin DEF Actions
    <2>17. \A e : Has(S1, e) \/ Has(Turn("erase"), e) => Has(S2, e) BY <2>14, <2>15, HasJoin DEF Actions
    <2>18. \A e : Has(S2, e) \/ Has(Turn("program"), e) => Has(S3, e) BY <2>14, <2>15, HasJoin DEF Actions
    <2>19. \A e : Has(S3, e) \/ Has(Turn("verify"), e) => Has(S4, e) BY <2>14, <2>15, HasJoin DEF Actions
    <2>20. \A e : Has(S4, e) \/ Has(Turn("lock"), e) => Has(S5, e) BY <2>14, <2>15, HasJoin DEF Actions
    <2>21. \A e : Has(S5, e) \/ Has(Turn("read"), e) => Has(S6, e) BY <2>14, <2>15, HasJoin DEF Actions
    <2>22. \A e : Has(S6, e) \/ Has(F, e) => Has(S7, e) BY <2>14, HasJoin
    <2>23. \A e : Has(S7, e) \/ Has(L, e) => Has(A, e) BY <2>1, <2>14, HasJoin
    <2> HIDE DEF S0, S1, S2, S3, S4, S5, S6, S7, A
    <2>24. \A a \in cmd.acts : Has(A, <<a, 0>>)
      <3> SUFFICES ASSUME NEW a \in cmd.acts PROVE Has(A, <<a, 0>>) OBVIOUS
      <3>1. Has(Turn(a), <<a, 0>>) BY <1>2, <2>3
      <3>2. a \in {"unlock", "erase", "program", "verify", "lock", "read"} BY <1>2 DEF Actions
      <3> QED BY <3>1, <3>2, <2>16, <2>17, <2>18, <2>19, <2>20, <2>21, <2>22, <2>23
    <2>25. Has(A, <<"select", 0>>) BY <2>2, <2>16, <2>17, <2>18, <2>19, <2>20, <2>21, <2>22, <2>23
    <2>26. \A k \in 1 .. n : Has(A, <<"fuse", k>>) BY <1>13, <2>22, <2>23
    <2> QED BY <2>4, <2>13, <2>23, <2>24, <2>25, <2>26
  <1>15. ~Active => Ordered(P3, 3, 12 + n) BY OrderedNone
  <1> DEFINE Q2 == P1 \o P2
             Q3 == Q2 \o P3
  <1>16. Plan = Q3 \o P4 BY <1>1
  <1> HIDE DEF F, L, A, P1, P2, P3, P4
  <1>17. Ordered(Q2, 1, 3) BY <1>4, <1>9, <1>10, OrderedJoin
  <1>18. Ordered(P3, 3, 12 + n) BY <1>14, <1>15
  <1>19. Ordered(Q3, 1, 12 + n) BY <1>3, <1>4, <1>17, <1>18, OrderedJoin
  <1>20. Ordered(Plan, 1, 13 + n) BY <1>3, <1>4, <1>11, <1>16, <1>19, OrderedJoin
  <1>21. Q2 \in Seq(Jobs) /\ P3 \in Seq(Jobs) /\ Q3 \in Seq(Jobs) /\ P4 \in Seq(Jobs)
    BY <1>11, <1>17, <1>18, <1>19 DEF Ordered
  <1>22. \A e : Has(P3, e) => Has(Plan, e) BY <1>16, <1>21, HasJoin
  <1>23. Has(Plan, <<"close", 0>>) BY <1>11, <1>16, <1>21, HasJoin
  <1>24. ASSUME NEW e \in Wanted PROVE Has(Plan, e)
    <2>1. CASE e = <<"close", 0>> BY <1>23, <2>1
    <2>2. CASE e # <<"close", 0>>
      <3>1. Active
        <4>1. \A k \in DOMAIN cmd.fuse : cmd.fuse # <<>> BY <1>2
        <4> QED BY <2>2, <4>1 DEF Wanted, Active
      <3>2. Has(P3, e) BY <1>3, <1>14, <2>2, <3>1 DEF Wanted
      <3> QED BY <1>22, <3>2
    <2> QED BY <2>1, <2>2
  <1>25. Plan # <<>> BY <1>11, <1>23 DEF Has
  <1>26. Plan[1] = <<"open", 0>>
    <2>1. P1 \in Seq(Jobs) /\ P1 # <<>> /\ P1[1] = <<"open", 0>> BY <1>5 DEF P1
    <2>2. P2 \in Seq(Jobs) BY <1>10 DEF Ordered
    <2>3. Q2 # <<>> /\ Q2[1] = P1[1] BY <2>1, <2>2, FirstOf
    <2>4. Q3 # <<>> /\ Q3[1] = Q2[1] BY <1>21, <2>3, FirstOf
    <2>5. Plan[1] = Q3[1] BY <1>16, <1>21, <2>4, FirstOf
    <2> QED BY <2>1, <2>3, <2>4, <2>5
  <1> QED BY <1>20, <1>24, <1>25, <1>26 DEF Scheduled

\* The first entry of a plan: nothing that is wanted lies between it and the next.
LEMMA ScheduledTail ==
  ASSUME InPlan, NEW p, Scheduled(p), p # <<>>
  PROVE  /\ Scheduled(Tail(p)) /\ p[1] \in Jobs /\ Place(p[1]) \in Nat /\ p \in Seq(Jobs)
         /\ Tail(p) # <<>> => Place(p[1]) < Place(Tail(p)[1])
         /\ \A e \in Wanted : /\ Place(p[1]) <= Place(e)
                              /\ Tail(p) # <<>> => Place(e) < Place(Tail(p)[1])
              => p[1] = e
         /\ Len(p) = 1 => p[1] = <<"close", 0>>
  <1> DEFINE t == Tail(p)
  <1>1. p \in Seq(Jobs) /\ Len(p) \in Nat \ {0} BY DEF Scheduled, Ordered
  <1>2. t \in Seq(Jobs) /\ Len(t) = Len(p) - 1 /\ \A i \in 1 .. Len(t) : t[i] = p[i + 1] BY <1>1
  <1>3. p[1] \in Jobs BY <1>1
  <1>4. \A e \in Jobs : Place(e) \in Nat /\ Place(e) <= 12 + Len(cmd.fuse) BY PlaceRange
  <1>5. \A i \in 1 .. Len(t) : i + 1 \in 1 .. Len(p) BY <1>1, <1>2
  <1>6. Ordered(t, 1, 13 + Len(cmd.fuse))
    <2>1. \A i \in 1 .. Len(p) : 1 <= Place(p[i]) /\ Place(p[i]) < 13 + Len(cmd.fuse)
      BY DEF Scheduled, Ordered
    <2>2. \A i, j \in 1 .. Len(p) : i < j => Place(p[i]) < Place(p[j]) BY DEF Scheduled, Ordered
    <2>3. \A i \in 1 .. Len(t) : 1 <= Place(t[i]) /\ Place(t[i]) < 13 + Len(cmd.fuse) BY <1>2, <1>5, <2>1
    <2>4. ASSUME NEW i \in 1 .. Len(t), NEW j \in 1 .. Len(t), i < j PROVE Place(t[i]) < Place(t[j])
      <3>1. i + 1 \in 1 .. Len(p) /\ j + 1 \in 1 .. Len(p) /\ i + 1 < j + 1 BY <1>5, <2>4
      <3>2. Place(p[i + 1]) < Place(p[j + 1]) BY <2>2, <3>1
      <3> QED BY <1>2, <3>2
    <2> QED BY <1>2, <2>3, <2>4 DEF Ordered
  <1>7. \A i \in 2 .. Len(p) : t[i - 1] = p[i] /\ i - 1 \in 1 .. Len(t) BY <1>1, <1>2
  <1>8. ASSUME t # <<>> PROVE Place(p[1]) < Place(t[1]) /\ t[1] = p[2] /\ 2 \in 1 .. Len(p)
    <2>1. Len(t) # 0 BY <1>2, <1>8
    <2>2. Len(t) \in Nat BY <1>2
    <2>3. 1 \in 1 .. Len(t) /\ 2 \in 1 .. Len(p) /\ 1 \in 1 .. Len(p) BY <1>1, <1>2, <2>1, <2>2
    <2>4. t[1] = p[2] BY <1>2, <2>3
    <2>5. Place(p[1]) < Place(p[2]) BY <2>3 DEF Scheduled, Ordered
    <2> QED BY <2>3, <2>4, <2>5
  <1>9. ASSUME NEW e \in Wanted, Place(p[1]) <= Place(e)
        PROVE  p[1] = e \/ (Has(t, e) /\ t # <<>> /\ Place(t[1]) <= Place(e))
    <2>1. PICK i \in 1 .. Len(p) : p[i] = e BY <1>9 DEF Scheduled, Has
    <2>2. CASE i = 1 BY <2>1, <2>2
    <2>3. CASE i # 1
      <3>1. i \in 2 .. Len(p) BY <1>1, <2>1, <2>3
      <3>2. t[i - 1] = e /\ i - 1 \in 1 .. Len(t) BY <1>7, <2>1, <3>1
      <3>3. Has(t, e) BY <3>2 DEF Has
      <3>4. t # <<>>
        <4>1. Len(<<>>) = 0 OBVIOUS
        <4>2. Len(t) \in Nat BY <1>1, <1>2
        <4>3. Len(t) # 0
          <5> HIDE DEF t
          <5> QED BY <3>2, <4>2
        <4> QED BY <4>1, <4>3
      <3>5. Place(t[1]) <= Place(e)
        <4>1. CASE i - 1 = 1
          <5>1. Place(e) \in Nat BY <1>4 DEF Jobs
          <5> QED BY <3>2, <4>1, <5>1
        <4>2. CASE i - 1 # 1
          <5>1. 1 \in 1 .. Len(t) /\ 1 < i - 1 BY <1>2, <3>2, <4>2
          <5>2. Place(t[1]) < Place(t[i - 1]) BY <1>6, <3>2, <5>1 DEF Ordered
          <5>3. Place(t[1]) \in Nat /\ Place(e) \in Nat BY <1>2, <1>4, <5>1 DEF Jobs
          <5> QED BY <3>2, <5>2, <5>3
        <4> QED BY <4>1, <4>2
      <3> QED BY <3>3, <3>4, <3>5
    <2> QED BY <2>2, <2>3
  <1>10. Scheduled(t)
    <2>1. ASSUME t # <<>>, NEW e \in Wanted, Place(t[1]) <= Place(e) PROVE Has(t, e)
      <3>1. Place(p[1]) < Place(t[1]) /\ t[1] \in Jobs BY <1>1, <1>8, <2>1
      <3>2. Place(p[1]) \in Nat /\ Place(t[1]) \in Nat /\ Place(e) \in Nat BY <1>3, <1>4, <3>1 DEF Jobs
      <3>3. Place(p[1]) <= Place(e) BY <2>1, <3>1, <3>2
      <3>4. p[1] # e BY <2>1, <3>1, <3>2
      <3> QED BY <1>9, <3>3, <3>4
    <2> QED BY <1>6, <2>1 DEF Scheduled
  <1>11. \A e \in Wanted : /\ Place(p[1]) <= Place(e) /\ (t # <<>> => Place(e) < Place(t[1])) => p[1] = e
    <2> SUFFICES ASSUME NEW e \in Wanted, Place(p[1]) <= Place(e), t # <<>> => Place(e) < Place(t[1])
                 PROVE  p[1] = e
      OBVIOUS
    <2>1. CASE t = <<>> BY <1>9, <2>1
    <2>2. CASE t # <<>>
      <3>1. t[1] \in Jobs BY <1>1, <1>8, <2>2
      <3>2. Place(t[1]) \in Nat /\ Place(e) \in Nat BY <1>4, <3>1 DEF Jobs
      <3> QED BY <1>9, <2>2, <3>2
    <2> QED BY <2>1, <2>2
  <1>12. Len(p) = 1 => p[1] = <<"close", 0>>
    <2>1. <<"close", 0>> \in Wanted BY DEF Wanted
    <2>2. Place(p[1]) <= Place(<<"close", 0>>) BY <1>3, <1>4, Places
    <2>3. Len(p) = 1 => ~Has(t, <<"close", 0>>) BY <1>2 DEF Has
    <2> QED BY <1>9, <2>1, <2>2, <2>3
  <1> QED BY <1>1, <1>3, <1>4, <1>8, <1>10, <1>11, <1>12

(* A run goes through its plan in order.                                   *)
Unspent ==
  dev = NewDevice(world) /\ ~connected /\ opt = NoOptions /\ todo = <<>> /\ saved = <<>> /\ plan = <<>>
OrderInv ==
  /\ InPlan /\ Scheduled(plan)
  /\ exit = "running" /\ plan = <<>> => Unspent
  /\ exit = "ok" /\ Listed => Unspent
  /\ plan # <<>> => exit = "running" /\ ~Listed
  /\ todo # <<>> => plan # <<>>

LEMMA OrderInit == EdbgInit => OrderInv
  <1> SUFFICES ASSUME EdbgInit PROVE OrderInv OBVIOUS
  <1>1. InPlan BY LockInit DEF LockInv
  <1>2. dev = NewDevice(world) /\ connected = FALSE /\ opt = NoOptions /\ plan = <<>> /\ todo = <<>>
        /\ saved = <<>> /\ exit = "running"
    BY DEF EdbgInit, Init
  <1>3. Scheduled(<<>>) BY OrderedNone DEF Scheduled
  <1> QED BY <1>1, <1>2, <1>3 DEF OrderInv, Unspent

LEMMA ScheduledNext ==
  ASSUME UNCHANGED cmd, Scheduled(plan')
  PROVE  Scheduled(plan)'
  <1>1. \A e : Place(e)' = Place(e) BY DEF Place
  <1>2. Wanted' = Wanted /\ Jobs' = Jobs BY DEF Jobs, Wanted, Active
  <1>3. Ordered(plan, 1, 13 + Len(cmd.fuse))' BY <1>1, <1>2 DEF Scheduled, Ordered
  <1>4. \A e \in Wanted : plan' # <<>> /\ Place(plan'[1]) <= Place(e) => Has(plan', e) BY DEF Scheduled
  <1>5. \A e : Has(plan, e)' = Has(plan', e) BY DEF Has
  <1>6. Place(plan[1])' = Place(plan'[1]) BY DEF Place
  <1>7. (\A e \in Wanted : Place(plan[1]) <= Place(e) => Has(plan, e))' \/ plan' = <<>>
    BY <1>1, <1>2, <1>4, <1>5, <1>6
  <1> QED BY <1>3, <1>7 DEF Scheduled

LEMMA OrderStep == ASSUME OrderInv, [Next]_vars PROVE OrderInv'
  <1>1. CASE UNCHANGED vars
    <2>1. UNCHANGED <<driver, cmd, world, dev, connected, opt, plan, todo, saved, exit>> BY <1>1 DEF vars
    <2>2. InPlan' BY <2>1 DEF OrderInv, InPlan, Entry, IsDevice, Refused, Active
    <2>3. Scheduled(plan)'
      BY <2>1, ScheduledNext DEF OrderInv
    <2> QED BY <2>1, <2>2, <2>3 DEF OrderInv, Unspent, Listed, NewDevice, FirstFlash
  <1>2. CASE Next
    <2>1. InPlan' /\ UNCHANGED <<driver, cmd, world>> /\ exit = "running"
          /\ (Working \/ Main \/ Begin \/ NextOperation \/ Fail)
      BY <1>2, InPlanStep, NextIs DEF OrderInv
    <2>2. Listed' = Listed BY <2>1 DEF Listed
    <2>3. Scheduled(<<>>) BY OrderedNone DEF Scheduled
    <2>4. CASE Main
      <3>1. Unspent BY <2>4 DEF Main, OrderInv
      <3>2. UNCHANGED <<world, dev, connected, opt, todo, saved>> /\ plan' \in {<<>>, Plan}
            /\ \/ plan' = <<>> /\ exit' \in {"ok", "error"}
               \/ plan' = Plan /\ exit' = exit /\ ~Listed
        BY <2>4 DEF Main
      <3>3. Scheduled(plan') /\ Plan # <<>> BY <2>3, <3>2, PlanScheduled DEF OrderInv
      <3>4. Scheduled(plan)' BY <2>1, <3>3, ScheduledNext
      <3> QED BY <2>1, <2>2, <3>1, <3>2, <3>3, <3>4 DEF OrderInv, Unspent, NewDevice, FirstFlash
    <2>5. CASE Begin
      <3>1. UNCHANGED <<plan, exit>> /\ plan # <<>> BY <2>5 DEF Begin
      <3>2. Scheduled(plan)' BY <2>1, <3>1, ScheduledNext DEF OrderInv
      <3> QED BY <2>1, <2>2, <3>1, <3>2 DEF OrderInv
    <2>6. CASE NextOperation
      <3>1. plan # <<>> /\ plan' = Tail(plan) /\ todo' = <<>> /\ exit' = (IF Len(plan) = 1 THEN "ok" ELSE exit)
        BY <2>6 DEF NextOperation
      <3>2. Scheduled(Tail(plan)) /\ plan \in Seq(Jobs) BY <3>1, ScheduledTail DEF OrderInv
      <3>3. Scheduled(plan)' BY <2>1, <3>1, <3>2, ScheduledNext
      <3>4. ~Listed BY <3>1 DEF OrderInv
      <3>5. Tail(plan) # <<>> => Len(plan) # 1 BY <3>1, <3>2
      <3>6. Tail(plan) = <<>> => Len(plan) = 1
        <4>1. Len(plan) # 1 => Tail(plan) # <<>> BY <3>1, <3>2, MoreIsLeft
        <4> QED BY <4>1
      <3> QED BY <2>1, <2>2, <3>1, <3>3, <3>4, <3>5, <3>6 DEF OrderInv
    <2>7. CASE Fail \/ Working
      <3>1. (Continue \/ Stop) /\ plan # <<>>
        BY <2>7, WorkMoves DEF Fail, OrderInv
      <3>2. CASE Continue
        <4>1. UNCHANGED <<plan, exit>> BY <3>2 DEF Continue
        <4>2. Scheduled(plan)' BY <2>1, <4>1, ScheduledNext DEF OrderInv
        <4> QED BY <2>1, <2>2, <3>1, <4>1, <4>2 DEF OrderInv
      <3>3. CASE Stop
        <4>1. plan' = <<>> /\ todo' = <<>> /\ exit' = "error" BY <3>3 DEF Stop
        <4>2. Scheduled(plan)' BY <2>1, <2>3, <4>1, ScheduledNext
        <4> QED BY <2>1, <2>2, <4>1, <4>2 DEF OrderInv
      <3> QED BY <3>1, <3>2, <3>3
    <2> QED BY <2>1, <2>4, <2>5, <2>6, <2>7
  <1> QED BY <1>1, <1>2

-----------------------------------------------------------------------------
(* What the operations of the device come to, field by field *)

\* The lines by which a target is held, and its flags.
Lines(x, d) == x.halting = d.halting /\ x.held = d.held /\ x.low = d.low

CutFlash(d) == [u \in Units |-> IF u \in d.busy THEN Torn ELSE d.flash[u]]
CutFuses(d) == [s \in FuseSections |-> IF FuseUnit(s) \in d.busy THEN FreeFuses ELSE d.fuses[s]]
CutLock(d) == d.locked /\ LockUnit \notin d.busy
ErasedFlash(d, s) == [u \in Units |-> IF u \in Span(s) THEN Free ELSE d.flash[u]]
ProgrammedFlash(d, s) ==
  [u \in Units |-> IF u \notin Span(s) THEN d.flash[u]
                    ELSE IF d.flash[u] = Free THEN Buffer(s.from + u - s.at) ELSE Torn]

LEMMA SettleIs ==
  ASSUME NEW d, IsDevice(d), NEW x, x = Settle(d)
  PROVE  /\ IsDevice(x) /\ Lines(x, d) /\ x.flash = d.flash /\ x.fuses = d.fuses /\ x.locked = d.locked
         /\ x.keyed = d.keyed /\ x.err = d.err /\ x.busy = {}
  <1>1. x = [d EXCEPT !.busy = {}] BY DEF Settle
  <1> QED BY <1>1 DEF IsDevice, Lines

LEMMA CutIs ==
  ASSUME NEW d, IsDevice(d), NEW x, x = Cut(d)
  PROVE  /\ IsDevice(x) /\ Lines(x, d) /\ x.flash = CutFlash(d) /\ x.fuses = CutFuses(d)
         /\ x.locked = CutLock(d) /\ x.keyed = d.keyed /\ x.err = d.err /\ x.busy = d.busy
  <1>1. x = [d EXCEPT !.flash = CutFlash(d), !.fuses = CutFuses(d), !.locked = CutLock(d)]
    BY DEF Cut, CutFlash, CutFuses, CutLock
  <1> QED BY <1>1 DEF IsDevice, Lines

LEMMA RefusedIs ==
  ASSUME NEW d, IsDevice(d), NEW x, x = [Settle(d) EXCEPT !.err = TRUE]
  PROVE  /\ IsDevice(x) /\ Lines(x, d) /\ x.flash = d.flash /\ x.fuses = d.fuses /\ x.locked = d.locked
         /\ x.keyed = d.keyed /\ x.err /\ x.busy = {}
  <1> DEFINE y == Settle(d)
  <1>1. /\ IsDevice(y) /\ Lines(y, d) /\ y.flash = d.flash /\ y.fuses = d.fuses /\ y.locked = d.locked
        /\ y.keyed = d.keyed /\ y.busy = {}
    BY SettleIs
  <1>2. x = [y EXCEPT !.err = TRUE] OBVIOUS
  <1> HIDE DEF y
  <1> QED BY <1>1, <1>2 DEF IsDevice, Lines

LEMMA ErasedIs ==
  ASSUME NEW d, IsDevice(d), NEW s, ~Refuses(d, Span(s)), NEW x, x = Erased(d, s)
  PROVE  /\ IsDevice(x) /\ Lines(x, d) /\ x.flash = ErasedFlash(d, s) /\ x.fuses = d.fuses
         /\ x.locked = d.locked /\ x.keyed = d.keyed /\ x.err = d.err /\ x.busy = Span(s)
  <1> DEFINE y == Settle(d)
             f == [u \in Units |-> IF u \in Span(s) THEN Free ELSE y.flash[u]]
  <1>1. /\ IsDevice(y) /\ Lines(y, d) /\ y.flash = d.flash /\ y.fuses = d.fuses /\ y.locked = d.locked
        /\ y.keyed = d.keyed /\ y.err = d.err
    BY SettleIs
  <1>2. x = [y EXCEPT !.flash = f, !.busy = Span(s)] BY DEF Erased
  <1>3. f = ErasedFlash(d, s) BY <1>1 DEF ErasedFlash
  <1> HIDE DEF y, f
  <1> QED BY <1>1, <1>2, <1>3 DEF IsDevice, Lines

LEMMA ProgrammedIs ==
  ASSUME NEW d, IsDevice(d), NEW s, ~Refuses(d, Span(s)), NEW x, x = Programmed(d, s)
  PROVE  /\ IsDevice(x) /\ Lines(x, d) /\ x.flash = ProgrammedFlash(d, s) /\ x.fuses = d.fuses
         /\ x.locked = d.locked /\ x.keyed = d.keyed /\ (d.err => x.err) /\ x.busy = Span(s)
  <1> DEFINE y == Settle(d)
             f == [u \in Units |-> IF u \notin Span(s) THEN y.flash[u]
                                   ELSE IF y.flash[u] = Free THEN Buffer(s.from + u - s.at)
                                   ELSE Torn]
             e == y.err \/ \E u \in Span(s) : d.flash[u] # Free
  <1>1. /\ IsDevice(y) /\ Lines(y, d) /\ y.flash = d.flash /\ y.fuses = d.fuses /\ y.locked = d.locked
        /\ y.keyed = d.keyed /\ y.err = d.err
    BY SettleIs
  <1>2. x = [y EXCEPT !.flash = f, !.err = e, !.busy = Span(s)] BY DEF Programmed
  <1>3. f = ProgrammedFlash(d, s) BY <1>1 DEF ProgrammedFlash
  <1>4. d.err => e BY <1>1
  <1> HIDE DEF y, f, e
  <1>5. x.err = e /\ x.flash = f /\ x.busy = Span(s) /\ x.fuses = y.fuses /\ x.locked = y.locked /\ x.keyed = y.keyed
        /\ IsDevice(x) /\ Lines(x, y)
    BY <1>1, <1>2 DEF IsDevice, Lines
  <1> QED BY <1>1, <1>3, <1>4, <1>5 DEF Lines

LEMMA ChipIs ==
  ASSUME NEW d, IsDevice(d), NEW x, x = Chip(d)
  PROVE  /\ IsDevice(x) /\ Lines(x, d) /\ x.flash = AllFree /\ x.fuses = d.fuses
         /\ ~x.locked /\ x.keyed = d.keyed /\ x.err = d.err /\ x.busy = Units
  <1> DEFINE y == Settle(d)
             w == [y EXCEPT !.flash = AllFree, !.busy = Units]
  <1>1. /\ IsDevice(y) /\ Lines(y, d) /\ y.fuses = d.fuses /\ y.keyed = d.keyed /\ y.err = d.err
    BY SettleIs
  <1>2. x = [w EXCEPT !.locked = FALSE] BY DEF Chip, Wiped, AllFree
  <1>3. w = [y EXCEPT !.flash = AllFree, !.busy = Units] OBVIOUS
  <1> HIDE DEF y, w
  <1>4. /\ IsDevice(w) /\ Lines(w, d) /\ w.flash = AllFree /\ w.fuses = d.fuses /\ w.keyed = d.keyed
        /\ w.err = d.err /\ w.busy = Units
    BY <1>1, <1>3 DEF IsDevice, Lines
  <1> QED BY <1>2, <1>4 DEF IsDevice, Lines

LEMMA PutIs ==
  ASSUME NEW d, IsDevice(d), NEW s, NEW v, ~Refuses(d, {FuseUnit(s)}), NEW x, x = PutFuses(d, s, v)
  PROVE  /\ IsDevice(x) /\ Lines(x, d) /\ x.flash = d.flash /\ x.fuses = [d.fuses EXCEPT ![s] = v]
         /\ x.locked = d.locked /\ x.keyed = d.keyed /\ x.err = d.err /\ x.busy = {FuseUnit(s)}
  <1> DEFINE y == Settle(d)
             g == [y.fuses EXCEPT ![s] = v]
  <1>1. /\ IsDevice(y) /\ Lines(y, d) /\ y.flash = d.flash /\ y.fuses = d.fuses /\ y.locked = d.locked
        /\ y.keyed = d.keyed /\ y.err = d.err
    BY SettleIs
  <1>2. x = [y EXCEPT !.fuses = g, !.busy = {FuseUnit(s)}] BY DEF PutFuses
  <1>3. g = [d.fuses EXCEPT ![s] = v] BY <1>1
  <1> HIDE DEF y, g
  <1> QED BY <1>1, <1>2, <1>3 DEF IsDevice, Lines

LEMMA AllFusesIs ==
  ASSUME NEW d, IsDevice(d), NEW f, NEW b, NEW x, x = [Settle(d) EXCEPT !.fuses = f, !.busy = b]
  PROVE  /\ IsDevice(x) /\ Lines(x, d) /\ x.flash = d.flash /\ x.fuses = f
         /\ x.locked = d.locked /\ x.keyed = d.keyed /\ x.err = d.err /\ x.busy = b
  <1> DEFINE y == Settle(d)
  <1>1. /\ IsDevice(y) /\ Lines(y, d) /\ y.flash = d.flash /\ y.locked = d.locked
        /\ y.keyed = d.keyed /\ y.err = d.err
    BY SettleIs
  <1>2. x = [y EXCEPT !.fuses = f, !.busy = b] OBVIOUS
  <1> HIDE DEF y
  <1> QED BY <1>1, <1>2 DEF IsDevice, Lines

LEMMA LockedIs ==
  ASSUME NEW d, IsDevice(d), NEW x, x = [Settle(d) EXCEPT !.locked = TRUE, !.busy = {LockUnit}]
  PROVE  /\ IsDevice(x) /\ Lines(x, d) /\ x.flash = d.flash /\ x.fuses = d.fuses
         /\ x.locked /\ x.keyed = d.keyed /\ x.err = d.err /\ x.busy = {LockUnit}
  <1> DEFINE y == Settle(d)
  <1>1. /\ IsDevice(y) /\ Lines(y, d) /\ y.flash = d.flash /\ y.fuses = d.fuses
        /\ y.keyed = d.keyed /\ y.err = d.err
    BY SettleIs
  <1>2. x = [y EXCEPT !.locked = TRUE, !.busy = {LockUnit}] OBVIOUS
  <1> HIDE DEF y
  <1> QED BY <1>1, <1>2 DEF IsDevice, Lines

LEMMA KeyedIs ==
  ASSUME NEW d, IsDevice(d), NEW x, x = [d EXCEPT !.keyed = TRUE]
  PROVE  /\ IsDevice(x) /\ Lines(x, d) /\ x.flash = d.flash /\ x.fuses = d.fuses
         /\ x.locked = d.locked /\ x.err = d.err /\ x.busy = d.busy
  BY DEF IsDevice, Lines

LEMMA ResetIs ==
  ASSUME NEW d, IsDevice(d), NEW x \in AfterReset(d)
  PROVE  /\ IsDevice(x) /\ Lines(x, d) /\ x.busy = {}
         /\ \/ x.flash = d.flash /\ x.fuses = d.fuses /\ x.locked = d.locked
            \/ x.flash = CutFlash(d) /\ x.fuses = CutFuses(d) /\ x.locked = CutLock(d)
  <1>1. PICK y \in {d, Cut(d)} : x = [y EXCEPT !.busy = {}, !.keyed = FALSE, !.err = FALSE] BY DEF AfterReset
  <1>2. /\ IsDevice(y) /\ Lines(y, d)
        /\ \/ y.flash = d.flash /\ y.fuses = d.fuses /\ y.locked = d.locked
           \/ y.flash = CutFlash(d) /\ y.fuses = CutFuses(d) /\ y.locked = CutLock(d)
    <2>1. CASE y = d BY <2>1 DEF Lines
    <2>2. CASE y = Cut(d) BY <2>2, CutIs
    <2> QED BY <1>1, <2>1, <2>2
  <1>3. IsDevice(x) /\ Lines(x, y) /\ x.busy = {} /\ x.flash = y.flash /\ x.fuses = y.fuses /\ x.locked = y.locked
    BY <1>1, <1>2 DEF IsDevice, Lines
  <1> QED BY <1>2, <1>3 DEF Lines

LEMMA LinesKept ==
  ASSUME IsDevice(dev), Working, ~Target
  PROVE  Lines(dev', dev)
  <1>0. Lines(dev, dev) BY DEF Lines
  <1>1. CASE Probe
    <2>1. dev' = dev
      BY <1>1 DEF Probe, Disclose, Connect, Disconnect, Configure, Led, Link, OnlyProgress
    <2> QED BY <1>0, <2>1
  <1>2. CASE Checks
    <2>1. dev' = dev \/ dev' = [dev EXCEPT !.keyed = TRUE]
      BY <1>2 DEF Checks, Identify, CheckLocked, Unlocked, FindErrors, NotImplemented, CheckOptions, OnlyProgress
    <2> QED BY <1>0, <2>1, KeyedIs
  <1>3. CASE Flash
    <2>1. CASE WaitDone \/ WaitReady \/ Compare \/ Fetch
      <3>1. dev' = Settle(dev) BY <2>1 DEF WaitDone, WaitReady, Compare, Fetch
      <3> QED BY <3>1, SettleIs
    <2>2. CASE EraseArea
      <3>1. PICK s : dev' = Erased(dev, s) BY <2>2 DEF EraseArea
      <3>2. CASE Refuses(dev, Span(s)) BY <3>1, <3>2, RefusedIs DEF Erased
      <3>3. CASE ~Refuses(dev, Span(s)) BY <3>1, <3>3, ErasedIs
      <3> QED BY <3>2, <3>3
    <2>3. CASE ProgramArea
      <3>1. PICK s : dev' = Programmed(dev, s) BY <2>3 DEF ProgramArea
      <3>2. CASE Refuses(dev, Span(s)) BY <3>1, <3>2, RefusedIs DEF Programmed
      <3>3. CASE ~Refuses(dev, Span(s)) BY <3>1, <3>3, ProgrammedIs
      <3> QED BY <3>2, <3>3
    <2>4. CASE EraseChip
      <3>1. dev' = Chip(dev) \/ dev' = Settle(dev) BY <2>4 DEF EraseChip
      <3> QED BY <3>1, ChipIs, SettleIs
    <2>5. CASE SetLock
      <3>1. dev' = [Settle(dev) EXCEPT !.locked = TRUE, !.busy = {LockUnit}] BY <2>5 DEF SetLock
      <3> QED BY <3>1, LockedIs
    <2>6. CASE Save
      <3>1. dev' = dev BY <2>6 DEF Save
      <3> QED BY <1>0, <3>1
    <2> QED BY <1>3, <2>1, <2>2, <2>3, <2>4, <2>5, <2>6 DEF Flash
  <1>4. CASE Fuses
    <2>1. CASE FuseWrite
      <3>1. \/ dev' = [Settle(dev) EXCEPT !.err = TRUE]
            \/ \E s, v : dev' = PutFuses(dev, s, v)
            \/ \E f, b : dev' = [Settle(dev) EXCEPT !.fuses = f, !.busy = b]
        BY <2>1 DEF FuseWrite
      <3>2. CASE dev' = [Settle(dev) EXCEPT !.err = TRUE] BY <3>2, RefusedIs
      <3>3. CASE \E s, v : dev' = PutFuses(dev, s, v)
        <4>1. PICK s, v : dev' = PutFuses(dev, s, v) BY <3>3
        <4>2. CASE Refuses(dev, {FuseUnit(s)}) BY <4>1, <4>2, RefusedIs DEF PutFuses
        <4>3. CASE ~Refuses(dev, {FuseUnit(s)}) BY <4>1, <4>3, PutIs
        <4> QED BY <4>2, <4>3
      <3>4. CASE \E f, b : dev' = [Settle(dev) EXCEPT !.fuses = f, !.busy = b]
        <4>1. PICK f, b : dev' = [Settle(dev) EXCEPT !.fuses = f, !.busy = b] BY <3>4
        <4> QED BY <4>1, AllFusesIs
      <3> QED BY <3>1, <3>2, <3>3, <3>4
    <2>2. CASE ~FuseWrite
      <3>1. dev' = dev
        BY <1>4, <2>2 DEF Fuses, FuseParse, FuseRead, FuseApply, FuseMatch, FuseGather, OnlyProgress, OnlyFuseData
      <3> QED BY <1>0, <3>1
    <2> QED BY <2>1, <2>2
  <1> QED BY <1>1, <1>2, <1>3, <1>4 DEF Working

\* What the steps towards the target do to its lines.
LEMMA TargetLines ==
  ASSUME IsDevice(dev), Target
  PROVE  LET do == Head(todo).do
         IN  /\ dev'.halting => dev.halting \/ do \in {"halt", "catch", "finishIfOpen"}
             /\ dev'.held => dev.held \/ do = "extend"
             /\ dev'.low => dev.low \/ do = "pinLow"
             /\ exit' = "running" /\ do \in {"release", "letGo"} => ~dev'.halting
             /\ do = "restart" => ~dev'.held /\ ~dev'.low
             /\ do = "pinHigh" => ~dev'.low
             /\ Step(do)
  <1> DEFINE do == Head(todo).do
  <1>1. CASE ResetPin
    <2>1. CASE do = "pinLow"
      <3>1. PICK d \in AfterReset(dev) : dev' = [d EXCEPT !.low = TRUE] BY <1>1, <2>1 DEF ResetPin, Step
      <3>2. IsDevice(d) /\ Lines(d, dev) BY ResetIs
      <3>3. dev'.halting = d.halting /\ dev'.held = d.held BY <3>1, <3>2 DEF IsDevice
      <3> QED BY <1>1, <2>1, <3>2, <3>3 DEF Lines, ResetPin, Step
    <2>2. CASE do # "pinLow"
      <3>1. dev' = [dev EXCEPT !.low = FALSE] /\ do = "pinHigh" BY <1>1, <2>2 DEF ResetPin, Step
      <3>2. dev'.halting = dev.halting /\ dev'.held = dev.held /\ ~dev'.low BY <3>1 DEF IsDevice
      <3> QED BY <1>1, <3>1, <3>2 DEF ResetPin, Step
    <2> QED BY <2>1, <2>2
  <1>2. CASE ResetTarget
    <2>1. CASE do = "restart"
      <3>1. PICK d \in AfterReset(dev) : dev' = [d EXCEPT !.low = FALSE, !.held = FALSE]
        BY <1>2, <2>1 DEF ResetTarget, Step
      <3>2. IsDevice(d) /\ Lines(d, dev) BY ResetIs
      <3>3. dev'.halting = d.halting /\ ~dev'.held /\ ~dev'.low BY <3>1, <3>2 DEF IsDevice
      <3> QED BY <1>2, <2>1, <3>2, <3>3 DEF Lines, ResetTarget, Step
    <2>2. CASE do # "restart"
      <3>1. PICK d \in AfterReset(dev) : dev' = [d EXCEPT !.low = FALSE, !.held = TRUE]
        BY <1>2, <2>2 DEF ResetTarget, Step
      <3>2. IsDevice(d) /\ Lines(d, dev) BY ResetIs
      <3>3. dev'.halting = d.halting /\ ~dev'.low BY <3>1, <3>2 DEF IsDevice
      <3>4. do = "extend" BY <1>2, <2>2 DEF ResetTarget, Step
      <3> QED BY <1>2, <3>2, <3>3, <3>4 DEF Lines, ResetTarget, Step
    <2> QED BY <2>1, <2>2
  <1>3. CASE Halt
    <2>1. PICK d \in AfterReset(dev) : dev' = IF Mute THEN dev ELSE [d EXCEPT !.halting = TRUE]
      BY <1>3 DEF Halt
    <2>2. IsDevice(d) /\ Lines(d, dev) BY ResetIs
    <2>3. dev' = dev \/ dev' = [d EXCEPT !.halting = TRUE] BY <2>1
    <2>4. dev'.held = dev.held /\ dev'.low = dev.low BY <2>2, <2>3 DEF IsDevice, Lines
    <2>5. do = "halt" BY <1>3 DEF Halt, DebugStep, Step
    <2> QED BY <1>3, <2>4, <2>5 DEF Halt, DebugStep, Step
  <1>4. CASE Catch
    <2>1. dev' = dev \/ dev' = [dev EXCEPT !.halting = TRUE] BY <1>4 DEF Catch
    <2>2. dev'.held = dev.held /\ dev'.low = dev.low BY <2>1 DEF IsDevice
    <2>3. do = "catch" BY <1>4 DEF Catch, DebugStep, Step
    <2> QED BY <1>4, <2>2, <2>3 DEF Catch, DebugStep, Step
  <1>5. CASE ReleaseCore
    <2>1. \E d \in AfterReset(dev) \cup {dev} : dev' = [d EXCEPT !.halting = FALSE] BY <1>5 DEF ReleaseCore
    <2>2. PICK d \in AfterReset(dev) \cup {dev} : dev' = [d EXCEPT !.halting = FALSE] BY <2>1
    <2>3. IsDevice(d) /\ Lines(d, dev)
      <3>1. CASE d = dev BY <3>1 DEF Lines
      <3>2. CASE d \in AfterReset(dev) BY <3>2, ResetIs
      <3> QED BY <3>1, <3>2
    <2>4. dev'.held = d.held /\ dev'.low = d.low /\ ~dev'.halting BY <2>2, <2>3 DEF IsDevice
    <2>5. do \in {"release", "letGo"} /\ Step(do) BY <1>5 DEF ReleaseCore, DebugStep, Step
    <2> QED BY <2>3, <2>4, <2>5 DEF Lines
  <1>6. CASE EndExtension
    <2>1. dev' = [dev EXCEPT !.held = FALSE] BY <1>6 DEF EndExtension
    <2>2. dev'.halting = dev.halting /\ dev'.low = dev.low /\ ~dev'.held BY <2>1 DEF IsDevice
    <2>3. do = "endExtension" /\ Step(do) BY <1>6 DEF EndExtension, Step
    <2> QED BY <2>2, <2>3
  <1>7. CASE FinishIfOpen
    <2>1. PICK d \in AfterReset(dev) :
            dev' = IF dev.locked THEN dev ELSE [d EXCEPT !.halting = TRUE, !.held = FALSE]
      BY <1>7 DEF FinishIfOpen
    <2>2. IsDevice(d) /\ Lines(d, dev) BY ResetIs
    <2>3. dev' = dev \/ dev' = [d EXCEPT !.halting = TRUE, !.held = FALSE] BY <2>1
    <2>4. (dev'.held => dev.held) /\ dev'.low = dev.low BY <2>2, <2>3 DEF IsDevice, Lines
    <2>5. do = "finishIfOpen" /\ Step(do) BY <1>7 DEF FinishIfOpen, Step
    <2> QED BY <2>4, <2>5
  <1> QED BY <1>1, <1>2, <1>3, <1>4, <1>5, <1>6, <1>7 DEF Target

-----------------------------------------------------------------------------
(* The target is released *)

\* Every step of X is followed by one of G.
Followed(t, X, G) ==
  \A i \in 1 .. Len(t) : t[i].do \in X => \E j \in i + 1 .. Len(t) : t[j].do \in G

LEMMA FollowedTail ==
  ASSUME NEW T, NEW t \in Seq(T), t # <<>>, NEW X, NEW G, Followed(t, X, G)
  PROVE  Followed(Tail(t), X, G) /\ (Head(t).do \in X => HasGate(Tail(t), G))
  <1>1. Len(t) \in Nat \ {0} /\ Len(Tail(t)) = Len(t) - 1 /\ Head(t) = t[1]
        /\ \A i \in 1 .. Len(Tail(t)) : Tail(t)[i] = t[i + 1]
    OBVIOUS
  <1>2. ASSUME NEW i \in 1 .. Len(Tail(t)), Tail(t)[i].do \in X
        PROVE  \E j \in i + 1 .. Len(Tail(t)) : Tail(t)[j].do \in G
    <2>1. i + 1 \in 1 .. Len(t) /\ t[i + 1].do \in X BY <1>1, <1>2
    <2>2. PICK j \in i + 1 + 1 .. Len(t) : t[j].do \in G BY <2>1 DEF Followed
    <2>3. j - 1 \in i + 1 .. Len(Tail(t)) /\ j - 1 \in 1 .. Len(Tail(t)) BY <1>1, <2>1, <2>2
    <2>4. Tail(t)[j - 1] = t[j] BY <1>1, <2>3
    <2> QED BY <2>2, <2>3, <2>4
  <1>3. ASSUME Head(t).do \in X PROVE HasGate(Tail(t), G)
    <2>1. 1 \in 1 .. Len(t) /\ t[1].do \in X BY <1>1, <1>3
    <2>2. PICK j \in 1 + 1 .. Len(t) : t[j].do \in G BY <2>1 DEF Followed
    <2>3. j - 1 \in 1 .. Len(Tail(t)) BY <1>1, <2>2
    <2>4. Tail(t)[j - 1] = t[j] BY <1>1, <2>3
    <2> QED BY <2>2, <2>3, <2>4 DEF HasGate
  <1> QED BY <1>2, <1>3 DEF Followed

\* What is never done is always followed.
LEMMA NoneFollowed ==
  ASSUME NEW t, NEW X, NEW G, Without(t, X)
  PROVE  Followed(t, X, G)
  <1>1. PICK S : t \in Seq(S) /\ \A x \in S : x.do \notin X BY DEF Without
  <1>2. \A i \in 1 .. Len(t) : t[i] \in S BY <1>1
  <1> QED BY <1>1, <1>2 DEF Followed

(* A line b of the target: what sets it is done no more once the operation *)
(* e that clears it is through.                                            *)
Quiet(b, p, t, x, S, C, e) ==
  IF p = <<>> THEN x # "error" => ~b
  ELSE /\ e \notin Wanted => ~b /\ Without(t, S)
       /\ Place(e) < Place(p[1]) => ~b /\ Without(t, S)
       /\ p[1] = e /\ t # <<>> => Without(t, S) /\ (b => HasGate(t, C))

Todos == Seq(StepsBut({}))

LEMMA LastStep ==
  ASSUME NEW G, HasGate(<<Do("next")>>, G)
  PROVE  "next" \in G
  <1>1. PICK i \in 1 .. Len(<<Do("next")>>) : <<Do("next")>>[i].do \in G BY DEF HasGate
  <1>2. Len(<<Do("next")>>) = 1 OBVIOUS
  <1>3. i = 1 BY <1>1, <1>2
  <1>4. <<Do("next")>>[1] = Do("next") /\ Do("next").do = "next" BY DEF Do, Area
  <1> QED BY <1>1, <1>3, <1>4

LEMMA QuietStep ==
  ASSUME OrderInv, todo \in Todos, Next,
         NEW b, NEW c, NEW S, NEW C, NEW e, Quiet(b, plan, todo, exit, S, C, e), "next" \notin C,
         e \in {<<"deselect", 0>>, <<"restart", 0>>, <<"close", 0>>},
         plan = <<>> => ~b,
         ~Working => c = b,
         Working /\ c => b \/ Head(todo).do \in S,
         Working /\ Head(todo).do \in C /\ exit' = "running" => ~c,
         Begin /\ (e \notin Wanted \/ Place(e) <= Place(plan[1])) => Without(todo', S),
         Begin /\ plan[1] = e => HasGate(todo', C)
  PROVE  Quiet(c, plan', todo', exit', S, C, e)
  <1>1. exit = "running" /\ (Working \/ Main \/ Begin \/ NextOperation \/ Fail) BY NextIs
  <1>2. InPlan BY DEF OrderInv
  <1>3. Without(<<>>, S)
    <2>1. <<>> \in Seq(StepsBut(S)) OBVIOUS
    <2> QED BY <2>1, StepsWithout
  <1>4. CASE Main
    <2>1. plan = <<>> /\ plan' \in {<<>>, Plan} /\ todo' = <<>> BY <1>4 DEF Main
    <2>2. ~Working
      <3>1. todo = <<>> BY <1>4 DEF Main
      <3> QED BY <3>1, WorkMoves
    <2> QED BY <1>3, <2>1, <2>2 DEF Quiet
  <1>5. CASE Begin
    <2>1. todo = <<>> /\ plan' = plan /\ plan # <<>> /\ exit' = exit BY <1>5 DEF Begin
    <2>2. ~Working BY <2>1, WorkMoves
    <2>3. plan[1] = e => Place(e) <= Place(plan[1])
      <3>1. Place(plan[1]) \in Nat BY <1>2, <2>1, ScheduledTail DEF OrderInv
      <3> QED BY <3>1
    <2>4. Place(e) < Place(plan[1]) => Place(e) <= Place(plan[1])
      <3>1. Place(plan[1]) \in Nat BY <1>2, <2>1, ScheduledTail DEF OrderInv
      <3>2. Place(e) \in Nat
        <4>1. cmd.fuse \in Seq(FuseCommand) BY <1>2, CaseTyped
        <4>2. Len(cmd.fuse) \in Nat BY <4>1
        <4>3. CASE e = <<"deselect", 0>> BY <4>2, <4>3, Places
        <4>4. CASE e = <<"restart", 0>> BY <4>2, <4>4, Places
        <4>5. CASE e = <<"close", 0>> BY <4>2, <4>5, Places
        <4> QED BY <4>3, <4>4, <4>5
      <3> QED BY <3>1, <3>2
    <2> QED BY <1>5, <2>1, <2>2, <2>3, <2>4 DEF Quiet
  <1>6. CASE Working \/ Fail
    <2>1. Continue \/ Stop BY <1>6, WorkMoves DEF Fail
    <2>2. CASE Stop
      <3>1. plan' = <<>> /\ exit' = "error" BY <2>2 DEF Stop
      <3> QED BY <3>1 DEF Quiet
    <2>3. CASE ~Stop
      <3>0. Working BY <1>6, <2>3 DEF Fail
      <3>1. plan' = plan /\ todo' = Tail(todo) /\ exit' = exit /\ todo # <<>>
        BY <2>1, <2>3, <3>0, WorkMoves DEF Continue
      <3>2. plan # <<>> BY <3>1 DEF OrderInv
      <3>3. Without(todo, S) => Without(todo', S) /\ (c => b) BY <3>0, <3>1, WithoutTail
      <3>5. HasGate(todo, C) /\ c => HasGate(todo', C)
        <4>1. c => Head(todo).do \notin C BY <1>1, <3>0, <3>1
        <4> QED BY <3>1, <4>1, GateTail DEF Todos
      <3> QED BY <3>1, <3>2, <3>3, <3>5 DEF Quiet
    <2> QED BY <2>2, <2>3
  <1>7. CASE NextOperation
    <2>1. /\ plan # <<>> /\ todo = <<Do("next")>> /\ plan' = Tail(plan) /\ todo' = <<>>
          /\ exit' = (IF Len(plan) = 1 THEN "ok" ELSE exit)
      BY <1>7 DEF NextOperation
    <2>2. /\ plan[1] \in Jobs /\ Place(plan[1]) \in Nat /\ plan \in Seq(Jobs)
          /\ Tail(plan) # <<>> => Place(plan[1]) < Place(Tail(plan)[1])
          /\ \A k \in Wanted : /\ Place(plan[1]) <= Place(k)
                               /\ Tail(plan) # <<>> => Place(k) < Place(Tail(plan)[1])
                => plan[1] = k
          /\ Scheduled(Tail(plan))
      BY <1>2, <2>1, ScheduledTail DEF OrderInv
    <2>3. ~Working
      <3>1. Do("next").do = "next" BY DEF Do, Area
      <3>2. Head(todo).do = "next" BY <2>1, <3>1
      <3>3. Working => Head(todo).do # "next"
        BY WorkOf DEF Working, ProbeWork, TargetWork, CheckWork, FlashWork, FuseWork
      <3> QED BY <3>2, <3>3
    <2>4. ~HasGate(todo, C) BY <2>1, LastStep
    <2>5. todo # <<>> BY <2>1
    <2>6. e \in Wanted /\ (Tail(plan) = <<>> \/ Place(e) < Place(Tail(plan)[1])) => ~b
      <3> SUFFICES ASSUME e \in Wanted, Tail(plan) = <<>> \/ Place(e) < Place(Tail(plan)[1]) PROVE ~b OBVIOUS
      <3>1. CASE Place(e) < Place(plan[1]) BY <2>1, <3>1 DEF Quiet
      <3>2. CASE Place(plan[1]) <= Place(e)
        <4>1. plan[1] = e BY <2>2, <3>2
        <4> QED BY <2>1, <2>4, <2>5, <4>1 DEF Quiet
      <3>3. Place(e) \in Nat
        <4>1. cmd.fuse \in Seq(FuseCommand) BY <1>2, CaseTyped
        <4>2. Len(cmd.fuse) \in Nat BY <4>1
        <4>3. CASE e = <<"deselect", 0>> BY <4>2, <4>3, Places
        <4>4. CASE e = <<"restart", 0>> BY <4>2, <4>4, Places
        <4>5. CASE e = <<"close", 0>> BY <4>2, <4>5, Places
        <4> QED BY <4>3, <4>4, <4>5
      <3> QED BY <2>2, <3>1, <3>2, <3>3
    <2>7. e \notin Wanted => ~b BY <2>1 DEF Quiet
    <2> QED BY <1>3, <2>1, <2>3, <2>6, <2>7 DEF Quiet
  <1> QED BY <1>1, <1>4, <1>5, <1>6, <1>7

\* The operations that end a run, and those that only reach the probe.
LEMMA EndSteps ==
  ASSUME driver \in Drivers
  PROVE  /\ StepsOf("open") = <<Do("disclose"), Do("disconnect"), Do("connect"), Do("configure")>>
         /\ StepsOf("pulse") = <<Do("pinLow"), Do("pinHigh")>>
         /\ StepsOf("deselect") \in {<<Do("release")>>, <<Do("letGo"), Do("restart")>>}
         /\ StepsOf("restart") = <<Do("restart")>>
         /\ StepsOf("close") = <<Do("led"), Do("disconnect")>>
  <1>1. StepsOf("deselect") = Ops(driver, opt).deselect BY DEF StepsOf
  <1>2. Ops(driver, opt).deselect \in {<<Do("release")>>, <<Do("letGo"), Do("restart")>>}
    BY OpsOf DEF Drivers, G0Ops, G4Ops, WbOps, GdOps, M4Ops, PyOps, SdOps, SeOps, A3Ops, A4Ops, A7Ops,
                 G0Deselect, G4Deselect, WbDeselect, GdDeselect, M4Deselect, PyDeselect, SdDeselect,
                 SeDeselect, A3Deselect, A4Deselect, A7Deselect, Release
  <1>3. /\ StepsOf("open") = <<Do("disclose"), Do("disconnect"), Do("connect"), Do("configure")>>
        /\ StepsOf("pulse") = <<Do("pinLow"), Do("pinHigh")>>
        /\ StepsOf("restart") = <<Do("restart")>>
        /\ StepsOf("close") = <<Do("led"), Do("disconnect")>>
    BY DEF StepsOf
  <1> QED BY <1>1, <1>2, <1>3

\* What ends a run comes behind everything else.
LEMMA LastEntries ==
  ASSUME InPlan, NEW e \in Jobs
  PROVE  /\ Place(e) >= 10 + Len(cmd.fuse)
              => e \in {<<"deselect", 0>>, <<"restart", 0>>, <<"close", 0>>}
         /\ Place(e) >= 11 + Len(cmd.fuse) => e \in {<<"restart", 0>>, <<"close", 0>>}
         /\ Place(e) >= 12 + Len(cmd.fuse) => e = <<"close", 0>>
         /\ ~Active => e \in {<<"open", 0>>, <<"pulse", 0>>, <<"close", 0>>}
  <1>1. cmd.acts \subseteq Actions /\ cmd.fuse \in Seq(FuseCommand) BY CaseTyped
  <1>2. Len(cmd.fuse) \in Nat /\ DOMAIN cmd.fuse = 1 .. Len(cmd.fuse) BY <1>1
  <1>3. CASE e \in {<<"open", 0>>, <<"pulse", 0>>, <<"close", 0>>}
    <2>1. CASE e = <<"open", 0>>
      <3>1. Place(e) = 1 BY <2>1, Places
      <3> QED BY <1>2, <2>1, <3>1
    <2>2. CASE e = <<"pulse", 0>>
      <3>1. Place(e) = 2 BY <2>2, Places
      <3> QED BY <1>2, <2>2, <3>1
    <2>3. CASE e = <<"close", 0>> BY <2>3
    <2> QED BY <1>3, <2>1, <2>2, <2>3
  <1>4. CASE Active /\ e \in {<<"select", 0>>, <<"deselect", 0>>, <<"restart", 0>>}
    <2>1. CASE e = <<"select", 0>>
      <3>1. Place(e) = 3 BY <2>1, Places
      <3> QED BY <1>2, <1>4, <3>1
    <2>2. CASE e = <<"deselect", 0>>
      <3>1. Place(e) = 10 + Len(cmd.fuse) BY <2>2, Places
      <3> QED BY <1>2, <1>4, <2>2, <3>1
    <2>3. CASE e = <<"restart", 0>>
      <3>1. Place(e) = 11 + Len(cmd.fuse) BY <2>3, Places
      <3> QED BY <1>2, <1>4, <2>3, <3>1
    <2> QED BY <1>4, <2>1, <2>2, <2>3
  <1>5. CASE \E k \in DOMAIN cmd.fuse : e = <<"fuse", k>>
    <2>1. PICK k \in DOMAIN cmd.fuse : e = <<"fuse", k>> BY <1>5
    <2>2. Place(e) = 9 + k BY <2>1, Places
    <2>3. cmd.fuse # <<>> BY <1>1, <2>1
    <2> QED BY <1>2, <2>2, <2>3 DEF Active
  <1>6. CASE \E a \in cmd.acts : e = <<a, 0>>
    <2>1. PICK a \in cmd.acts : e = <<a, 0>> BY <1>6
    <2>2. a \in {"unlock", "erase", "program", "verify", "lock", "read"} BY <1>1, <2>1 DEF Actions
    <2>3. Place(e) \in {4, 5, 6, 7, 8, 9}
      <3>2. CASE a = "unlock" BY <2>1, <3>2, Places
      <3>3. CASE a = "erase" BY <2>1, <3>3, Places
      <3>4. CASE a = "program" BY <2>1, <3>4, Places
      <3>5. CASE a = "verify" BY <2>1, <3>5, Places
      <3>6. CASE a = "lock" BY <2>1, <3>6, Places
      <3>7. CASE a = "read" BY <2>1, <3>7, Places
      <3> QED BY <2>2, <3>2, <3>3, <3>4, <3>5, <3>6, <3>7
    <2>4. cmd.acts # {} OBVIOUS
    <2> QED BY <1>2, <2>3, <2>4 DEF Active
  <1> QED BY <1>3, <1>4, <1>5, <1>6 DEF Jobs, Wanted

LEMMA WithoutLess ==
  ASSUME NEW s, NEW X, NEW Y, Without(s, X), Y \subseteq X
  PROVE  Without(s, Y)
  <1>1. PICK T : s \in Seq(T) /\ \A x \in T : x.do \notin X BY DEF Without
  <1>2. \A x \in T : x.do \notin Y BY <1>1
  <1> QED BY <1>1, <1>2 DEF Without

\* What ends a run takes hold of nothing.
Ends == {"open", "pulse", "deselect", "restart", "close"}
LEMMA EndWithout ==
  ASSUME driver \in Drivers
  PROVE  /\ \A o \in Ends : Without(StepsOf(o) \o <<Do("next")>>, {"halt", "catch", "finishIfOpen", "extend"})
         /\ \A o \in {"open", "restart", "close"} : Without(StepsOf(o) \o <<Do("next")>>, {"pinLow"})
         /\ Without(StepsOf("close") \o <<Do("next")>>, {"connect"})
  <1>1. ASSUME NEW X
        PROVE  /\ X \cap {"disclose", "disconnect", "connect", "configure", "next"} = {}
                     => Without(StepsOf("open") \o <<Do("next")>>, X)
               /\ X \cap {"pinLow", "pinHigh", "next"} = {}
                     => Without(StepsOf("pulse") \o <<Do("next")>>, X)
               /\ X \cap {"letGo", "release", "restart", "next"} = {}
                     => Without(StepsOf("deselect") \o <<Do("next")>>, X)
               /\ X \cap {"restart", "next"} = {} => Without(StepsOf("restart") \o <<Do("next")>>, X)
               /\ X \cap {"led", "disconnect", "next"} = {} => Without(StepsOf("close") \o <<Do("next")>>, X)
    <2>1. \A d \in StepNames \ X : Do(d) \in StepsBut(X) BY AreaTyped
    <2>2. /\ "next" \in StepNames /\ "disclose" \in StepNames /\ "disconnect" \in StepNames
          /\ "connect" \in StepNames /\ "configure" \in StepNames /\ "pinLow" \in StepNames
          /\ "pinHigh" \in StepNames /\ "release" \in StepNames /\ "letGo" \in StepNames
          /\ "restart" \in StepNames /\ "led" \in StepNames
      BY DEF StepNames
    <2>3. ASSUME X \cap {"disclose", "disconnect", "connect", "configure", "next"} = {}
          PROVE  Without(StepsOf("open") \o <<Do("next")>>, X)
      <3>1. <<Do("disclose"), Do("disconnect"), Do("connect"), Do("configure")>> \in Seq(StepsBut(X))
        BY <2>1, <2>2, <2>3
      <3>2. <<Do("next")>> \in Seq(StepsBut(X)) BY <2>1, <2>2, <2>3
      <3> QED BY <3>1, <3>2, StepsWithout, WithoutConcat, EndSteps
    <2>4. ASSUME X \cap {"pinLow", "pinHigh", "next"} = {}
          PROVE  Without(StepsOf("pulse") \o <<Do("next")>>, X)
      <3>1. <<Do("pinLow"), Do("pinHigh")>> \in Seq(StepsBut(X)) BY <2>1, <2>2, <2>4
      <3>2. <<Do("next")>> \in Seq(StepsBut(X)) BY <2>1, <2>2, <2>4
      <3> QED BY <3>1, <3>2, StepsWithout, WithoutConcat, EndSteps
    <2>5. ASSUME X \cap {"letGo", "release", "restart", "next"} = {}
          PROVE  Without(StepsOf("deselect") \o <<Do("next")>>, X)
      <3>1. <<Do("release")>> \in Seq(StepsBut(X)) /\ <<Do("letGo"), Do("restart")>> \in Seq(StepsBut(X))
        BY <2>1, <2>2, <2>5
      <3>2. <<Do("next")>> \in Seq(StepsBut(X)) BY <2>1, <2>2, <2>5
      <3>3. StepsOf("deselect") \in Seq(StepsBut(X)) BY <3>1, EndSteps
      <3> QED BY <3>2, <3>3, StepsWithout, WithoutConcat
    <2>6. ASSUME X \cap {"restart", "next"} = {} PROVE Without(StepsOf("restart") \o <<Do("next")>>, X)
      <3>1. <<Do("restart")>> \in Seq(StepsBut(X)) BY <2>1, <2>2, <2>6
      <3>2. <<Do("next")>> \in Seq(StepsBut(X)) BY <2>1, <2>2, <2>6
      <3> QED BY <3>1, <3>2, StepsWithout, WithoutConcat, EndSteps
    <2>7. ASSUME X \cap {"led", "disconnect", "next"} = {} PROVE Without(StepsOf("close") \o <<Do("next")>>, X)
      <3>1. <<Do("led"), Do("disconnect")>> \in Seq(StepsBut(X)) BY <2>1, <2>2, <2>7
      <3>2. <<Do("next")>> \in Seq(StepsBut(X)) BY <2>1, <2>2, <2>7
      <3> QED BY <3>1, <3>2, StepsWithout, WithoutConcat, EndSteps
    <2> QED BY <2>3, <2>4, <2>5, <2>6, <2>7
  <1> DEFINE H == {"halt", "catch", "finishIfOpen", "extend"}
  <1>2. /\ Without(StepsOf("open") \o <<Do("next")>>, H) /\ Without(StepsOf("pulse") \o <<Do("next")>>, H)
        /\ Without(StepsOf("deselect") \o <<Do("next")>>, H) /\ Without(StepsOf("restart") \o <<Do("next")>>, H)
        /\ Without(StepsOf("close") \o <<Do("next")>>, H)
    BY <1>1
  <1>3. /\ Without(StepsOf("open") \o <<Do("next")>>, {"pinLow"})
        /\ Without(StepsOf("restart") \o <<Do("next")>>, {"pinLow"})
        /\ Without(StepsOf("close") \o <<Do("next")>>, {"pinLow"})
    BY <1>1
  <1>4. Without(StepsOf("close") \o <<Do("next")>>, {"connect"}) BY <1>1
  <1> QED BY <1>2, <1>3, <1>4 DEF Ends

LEMMA Joined ==
  ASSUME NEW a, NEW b, NEW c
  PROVE  <<a>> \o <<b>> = <<a, b>> /\ <<a, b>> \o <<c>> = <<a, b, c>>
  <1>1. PICK T : T = {a, b, c} OBVIOUS
  <1>2. a \in T /\ b \in T /\ c \in T BY <1>1
  <1>3. <<a>> \o <<b>> \in Seq(T) /\ <<a, b>> \in Seq(T) /\ <<a, b>> \o <<c>> \in Seq(T) /\ <<a, b, c>> \in Seq(T)
     BY <1>2
  <1>4. <<a>> \o <<b>> = <<a, b>>
    <2>1. Len(<<a>> \o <<b>>) = Len(<<a, b>>) /\ Len(<<a, b>>) = 2 OBVIOUS
    <2>2. \A i \in 1 .. 2 : (<<a>> \o <<b>>)[i] = <<a, b>>[i] BY <1>2
    <2> QED BY <1>3, <2>1, <2>2, SeqEqual
  <1>5. <<a, b>> \o <<c>> = <<a, b, c>>
    <2>1. Len(<<a, b>> \o <<c>>) = Len(<<a, b, c>>) /\ Len(<<a, b, c>>) = 3 OBVIOUS
    <2>2. \A i \in 1 .. 3 : (<<a, b>> \o <<c>>)[i] = <<a, b, c>>[i] BY <1>2
    <2> QED BY <1>3, <2>1, <2>2, SeqEqual
  <1> QED BY <1>4, <1>5

\* The ends of a run let go of what a run takes hold of.
LEMMA EndGates ==
  ASSUME driver \in Drivers
  PROVE  /\ HasGate(StepsOf("deselect") \o <<Do("next")>>, {"release", "letGo"})
         /\ HasGate(StepsOf("restart") \o <<Do("next")>>, {"restart"})
         /\ HasGate(StepsOf("close") \o <<Do("next")>>, {"disconnect"})
         /\ Followed(StepsOf("pulse") \o <<Do("next")>>, {"pinLow"}, {"pinHigh"})
  <1>1. /\ Do("release").do = "release" /\ Do("letGo").do = "letGo" /\ Do("restart").do = "restart"
        /\ Do("disconnect").do = "disconnect" /\ Do("pinLow").do = "pinLow" /\ Do("pinHigh").do = "pinHigh"
        /\ Do("next").do = "next" /\ Do("led").do = "led"
    BY DEF Do, Area
  <1>2. HasGate(StepsOf("deselect") \o <<Do("next")>>, {"release", "letGo"})
    <2>1. PICK s : s = StepsOf("deselect") \o <<Do("next")>> OBVIOUS
    <2>2. s[1] \in {Do("release"), Do("letGo")} /\ 1 \in 1 .. Len(s)
      <3>1. CASE StepsOf("deselect") = <<Do("release")>>
        <4>1. s = <<Do("release"), Do("next")>> BY <2>1, <3>1, Joined
        <4> QED BY <4>1
      <3>2. CASE StepsOf("deselect") = <<Do("letGo"), Do("restart")>>
        <4>1. s = <<Do("letGo"), Do("restart"), Do("next")>> BY <2>1, <3>2, Joined
        <4> QED BY <4>1
      <3> QED BY <3>1, <3>2, EndSteps
    <2> QED BY <1>1, <2>1, <2>2 DEF HasGate
  <1>3. HasGate(StepsOf("restart") \o <<Do("next")>>, {"restart"})
    <2>1. StepsOf("restart") \o <<Do("next")>> = <<Do("restart"), Do("next")>> BY EndSteps, Joined
    <2>2. <<Do("restart"), Do("next")>>[1] = Do("restart") /\ 1 \in 1 .. Len(<<Do("restart"), Do("next")>>) OBVIOUS
    <2> QED BY <1>1, <2>1, <2>2 DEF HasGate
  <1>4. HasGate(StepsOf("close") \o <<Do("next")>>, {"disconnect"})
    <2> DEFINE s == <<Do("led"), Do("disconnect"), Do("next")>>
    <2>1. StepsOf("close") \o <<Do("next")>> = s BY EndSteps, Joined
    <2>2. s[2] = Do("disconnect") /\ 2 \in 1 .. Len(s) OBVIOUS
    <2> HIDE DEF s
    <2> QED BY <1>1, <2>1, <2>2 DEF HasGate
  <1>5. Followed(StepsOf("pulse") \o <<Do("next")>>, {"pinLow"}, {"pinHigh"})
    <2> DEFINE s == <<Do("pinLow"), Do("pinHigh"), Do("next")>>
    <2>1. StepsOf("pulse") \o <<Do("next")>> = s BY EndSteps, Joined
    <2>2. Len(s) = 3 /\ s[1] = Do("pinLow") /\ s[2] = Do("pinHigh") /\ s[3] = Do("next") OBVIOUS
    <2> HIDE DEF s
    <2>3. ASSUME NEW i \in 1 .. Len(s), s[i].do \in {"pinLow"}
          PROVE  \E j \in i + 1 .. Len(s) : s[j].do \in {"pinHigh"}
      <3>1. i = 1
        <4>1. i \in {1, 2, 3} BY <2>2
        <4> QED BY <1>1, <2>2, <2>3, <4>1
      <3>2. 2 \in i + 1 .. Len(s) BY <2>2, <3>1
      <3> QED BY <1>1, <2>2, <3>2
    <2> QED BY <2>1, <2>3 DEF Followed
  <1> QED BY <1>2, <1>3, <1>4, <1>5

\* What a run does to the lines of the target and to the probe.
LEMMA LinesMove ==
  ASSUME OrderInv, Next
  PROVE  LET do == Head(todo).do
         IN  /\ ~Working => UNCHANGED <<dev, connected>>
             /\ Working /\ dev'.halting => dev.halting \/ do \in {"halt", "catch", "finishIfOpen"}
             /\ Working /\ dev'.held => dev.held \/ do \in {"extend"}
             /\ Working /\ dev'.low => dev.low \/ do \in {"pinLow"}
             /\ Working /\ do \in {"release", "letGo"} /\ exit' = "running" => ~dev'.halting
             /\ Working /\ do \in {"restart"} => ~dev'.held /\ ~dev'.low
             /\ Working /\ do \in {"pinHigh"} => ~dev'.low
             /\ Working /\ connected' => connected \/ do \in {"connect"}
             /\ Working /\ do \in {"disconnect"} => ~connected'
  <1> DEFINE do == Head(todo).do
  <1>1. ~Working => UNCHANGED <<dev, connected>> BY NextIs, MainLeaves
  <1>2. IsDevice(dev) BY DEF OrderInv, InPlan
  <1>3. CASE Working /\ Target
    <2>1. connected' = connected
      BY <1>3 DEF Target, ResetPin, ResetTarget, Halt, Catch, ReleaseCore, EndExtension, FinishIfOpen, DebugStep,
                  OnlyDevice
    <2>2. do \notin {"connect", "disconnect"} BY <1>3, WorkOf DEF TargetWork
    <2> QED BY <1>1, <1>2, <1>3, <2>1, <2>2, TargetLines
  <1>4. CASE Working /\ ~Target
    <2>1. dev'.halting = dev.halting /\ dev'.held = dev.held /\ dev'.low = dev.low
      BY <1>2, <1>4, LinesKept DEF Lines
    <2>2. do \notin {"release", "letGo", "restart", "pinHigh"}
      BY <1>4, WorkOf DEF Working, ProbeWork, CheckWork, FlashWork, FuseWork
    <2>3. /\ connected' => connected \/ do \in {"connect"}
          /\ do \in {"disconnect"} => ~connected'
      <3>1. CASE Probe
        BY <3>1 DEF Probe, Disclose, Connect, Disconnect, Configure, Led, Link, OnlyProgress, OnlyDevice, Step
      <3>2. CASE ~Probe
        <4>1. do \notin {"connect", "disconnect"}
          BY <1>4, <3>2, WorkOf DEF Working, CheckWork, FlashWork, FuseWork
        <4>2. connected' = connected
          <5>1. CASE Checks
            BY <5>1 DEF Checks, Identify, CheckLocked, Unlocked, FindErrors, NotImplemented, CheckOptions, OnlyProgress,
                        OnlyDevice
          <5>2. CASE Flash
            BY <5>2 DEF Flash, WaitDone, WaitReady, EraseArea, ProgramArea, EraseChip, SetLock, Compare, Fetch,
                        Save, OnlyDevice
          <5>3. CASE Fuses
            BY <5>3 DEF Fuses, FuseParse, FuseRead, FuseApply, FuseMatch, FuseGather, FuseWrite, OnlyProgress,
                        OnlyDevice, OnlyFuseData
          <5> QED BY <1>4, <3>2, <5>1, <5>2, <5>3 DEF Working
        <4> QED BY <4>1, <4>2
      <3> QED BY <3>1, <3>2
    <2> QED BY <1>1, <1>4, <2>1, <2>2, <2>3
  <1> QED BY <1>1, <1>3, <1>4

(* What holds the target or the probe is let go of by the operations that  *)
(* end a run: deselect the core, restart the extension and the pin, close  *)
(* the probe; a pulse without any other action releases the pin itself.    *)
Pulsed ==
  exit # "error" => /\ dev.low => HasGate(todo, {"pinHigh"})
                    /\ Followed(todo, {"pinLow"}, {"pinHigh"})
RunHalts ==
  Quiet(dev.halting, plan, todo, exit, {"halt", "catch", "finishIfOpen"}, {"release", "letGo"}, <<"deselect", 0>>)
RunHolds == Quiet(dev.held, plan, todo, exit, {"extend"}, {"restart"}, <<"restart", 0>>)
RunPulls == IF Active THEN Quiet(dev.low, plan, todo, exit, {"pinLow"}, {"restart"}, <<"restart", 0>>) ELSE Pulsed
RunConnects == Quiet(connected, plan, todo, exit, {"connect"}, {"disconnect"}, <<"close", 0>>)
ReleaseInv == AskInv /\ OrderInv /\ RunHalts /\ RunHolds /\ RunPulls /\ RunConnects

\* The steps of every operation are steps.
LEMMA TodoTyped ==
  ASSUME AskInv, exit = "running"
  PROVE  todo \in Todos
  <1>1. Opening \subseteq StepsBut({}) BY DEF Opening, StepsBut
  <1>2. Fusing \subseteq StepsBut({}) BY DEF Fusing, StepsBut
  <1>3. Within(Reach) \subseteq StepsBut({}) BY DEF Within, StepsBut
  <1>4. todo \in Seq(Opening) \/ todo \in Seq(Fusing) \/ todo \in Seq(Within(Reach))
    BY DEF AskInv, Selecting, Serving, FuseTodo
  <1> QED BY <1>1, <1>2, <1>3, <1>4 DEF Todos

\* Where a run begins an operation that comes after its first actions.
LEMMA BeginsLate ==
  ASSUME OrderInv, Begin
  PROVE  /\ plan[1] \in Jobs /\ Place(plan[1]) \in Nat /\ driver \in Drivers
         /\ todo' = StepsOf(plan[1][1]) \o <<Do("next")>>
         /\ Place(<<"deselect", 0>>) <= Place(plan[1]) => plan[1][1] \in {"deselect", "restart", "close"}
         /\ Place(<<"restart", 0>>) <= Place(plan[1]) => plan[1][1] \in {"restart", "close"}
         /\ Place(<<"close", 0>>) <= Place(plan[1]) => plan[1][1] = "close"
         /\ ~Active => plan[1][1] \in {"open", "pulse", "close"}
  <1>1. InPlan /\ plan # <<>> BY DEF OrderInv, Begin
  <1>2. plan[1] \in Jobs /\ Place(plan[1]) \in Nat BY <1>1, ScheduledTail DEF OrderInv
  <1>3. cmd.fuse \in Seq(FuseCommand) /\ driver \in Drivers BY <1>1, CaseTyped
  <1>4. Len(cmd.fuse) \in Nat BY <1>3
  <1>5. Place(<<"deselect", 0>>) = 10 + Len(cmd.fuse) /\ Place(<<"restart", 0>>) = 11 + Len(cmd.fuse)
        /\ Place(<<"close", 0>>) = 12 + Len(cmd.fuse)
    BY Places
  <1>6. /\ Place(<<"deselect", 0>>) <= Place(plan[1])
             => plan[1] \in {<<"deselect", 0>>, <<"restart", 0>>, <<"close", 0>>}
        /\ Place(<<"restart", 0>>) <= Place(plan[1]) => plan[1] \in {<<"restart", 0>>, <<"close", 0>>}
        /\ Place(<<"close", 0>>) <= Place(plan[1]) => plan[1] = <<"close", 0>>
        /\ ~Active => plan[1] \in {<<"open", 0>>, <<"pulse", 0>>, <<"close", 0>>}
    <2>1. PICK p : p = Place(plan[1]) OBVIOUS
    <2>2. PICK e : e = plan[1] OBVIOUS
    <2>3. /\ p >= 10 + Len(cmd.fuse) => e \in {<<"deselect", 0>>, <<"restart", 0>>, <<"close", 0>>}
          /\ p >= 11 + Len(cmd.fuse) => e \in {<<"restart", 0>>, <<"close", 0>>}
          /\ p >= 12 + Len(cmd.fuse) => e = <<"close", 0>>
          /\ ~Active => e \in {<<"open", 0>>, <<"pulse", 0>>, <<"close", 0>>}
      BY <1>1, <1>2, <2>1, <2>2, LastEntries
    <2>4. p \in Nat BY <1>2, <2>1
    <2> QED BY <1>4, <1>5, <2>1, <2>2, <2>3, <2>4
  <1> QED BY <1>2, <1>3, <1>6 DEF Begin

\* Quiet speaks of nothing but its parameters and the command line.
LEMMA QuietNext ==
  ASSUME UNCHANGED cmd
  PROVE  /\ RunHalts' = Quiet(dev'.halting, plan', todo', exit', {"halt", "catch", "finishIfOpen"},
                              {"release", "letGo"}, <<"deselect", 0>>)
         /\ RunHolds' = Quiet(dev'.held, plan', todo', exit', {"extend"}, {"restart"}, <<"restart", 0>>)
         /\ RunConnects' = Quiet(connected', plan', todo', exit', {"connect"}, {"disconnect"}, <<"close", 0>>)
         /\ RunPulls' = IF Active
                        THEN Quiet(dev'.low, plan', todo', exit', {"pinLow"}, {"restart"}, <<"restart", 0>>)
                        ELSE exit' # "error" => /\ dev'.low => HasGate(todo', {"pinHigh"})
                                                /\ Followed(todo', {"pinLow"}, {"pinHigh"})
  BY DEF RunHalts, RunHolds, RunConnects, RunPulls, Pulsed, Quiet, Place, Wanted, Active, Without, HasGate, Followed

LEMMA IdleLines ==
  ASSUME OrderInv, Next, plan = <<>>
  PROVE  ~dev.halting /\ ~dev.held /\ ~dev.low /\ ~connected
  <1>1. Unspent BY NextIs DEF OrderInv
  <1> QED BY <1>1 DEF Unspent, NewDevice

\* Which of the last operations a run has to go through.
LEMMA WantedLast ==
  /\ <<"deselect", 0>> \notin Wanted => ~Active
  /\ <<"restart", 0>> \notin Wanted => ~Active
  /\ <<"close", 0>> \in Wanted
  BY DEF Wanted

LEMMA HaltsStep ==
  ASSUME ReleaseInv, Next
  PROVE  Quiet(dev'.halting, plan', todo', exit', {"halt", "catch", "finishIfOpen"},
               {"release", "letGo"}, <<"deselect", 0>>)
  <1> DEFINE S == {"halt", "catch", "finishIfOpen"}
             C == {"release", "letGo"}
             e == <<"deselect", 0>>
  <1>1. OrderInv /\ AskInv /\ exit = "running" BY NextIs DEF ReleaseInv
  <1>2. todo \in Todos BY <1>1, TodoTyped
  <1>3. Quiet(dev.halting, plan, todo, exit, S, C, e) BY DEF ReleaseInv, RunHalts
  <1>4. /\ ~Working => dev'.halting = dev.halting
        /\ Working /\ dev'.halting => dev.halting \/ Head(todo).do \in S
        /\ Working /\ Head(todo).do \in C /\ exit' = "running" => ~dev'.halting
    BY <1>1, LinesMove
  <1>5. plan = <<>> => ~dev.halting BY <1>1, IdleLines
  <1>6. Begin /\ (e \notin Wanted \/ Place(e) <= Place(plan[1])) => Without(todo', S)
    <2> SUFFICES ASSUME Begin, e \notin Wanted \/ Place(e) <= Place(plan[1]) PROVE Without(todo', S) OBVIOUS
    <2>1. plan[1][1] \in Ends /\ driver \in Drivers /\ todo' = StepsOf(plan[1][1]) \o <<Do("next")>>
      BY <1>1, BeginsLate, WantedLast DEF Ends
    <2>2. Without(todo', {"halt", "catch", "finishIfOpen", "extend"}) BY <2>1, EndWithout
    <2> QED BY <2>2, WithoutLess
  <1>7. Begin /\ plan[1] = e => HasGate(todo', C)
    <2> SUFFICES ASSUME Begin, plan[1] = e PROVE HasGate(todo', C) OBVIOUS
    <2>1. driver \in Drivers /\ todo' = StepsOf(plan[1][1]) \o <<Do("next")>> BY <1>1, BeginsLate
    <2>2. plan[1][1] = "deselect" OBVIOUS
    <2> QED BY <2>1, <2>2, EndGates
  <1>8. "next" \notin C OBVIOUS
  <1>9. e \in {<<"deselect", 0>>, <<"restart", 0>>, <<"close", 0>>} OBVIOUS
  <1> HIDE DEF S, C, e
  <1>10. Quiet(dev'.halting, plan', todo', exit', S, C, e)
    BY <1>1, <1>2, <1>3, <1>4, <1>5, <1>6, <1>7, <1>8, <1>9, QuietStep
  <1> QED BY <1>10 DEF S, C, e

LEMMA HoldsStep ==
  ASSUME ReleaseInv, Next
  PROVE  Quiet(dev'.held, plan', todo', exit', {"extend"}, {"restart"}, <<"restart", 0>>)
  <1> DEFINE S == {"extend"}
             C == {"restart"}
             e == <<"restart", 0>>
  <1>1. OrderInv /\ AskInv /\ exit = "running" BY NextIs DEF ReleaseInv
  <1>2. todo \in Todos BY <1>1, TodoTyped
  <1>3. Quiet(dev.held, plan, todo, exit, S, C, e) BY DEF ReleaseInv, RunHolds
  <1>4. /\ ~Working => dev'.held = dev.held
        /\ Working /\ dev'.held => dev.held \/ Head(todo).do \in S
        /\ Working /\ Head(todo).do \in C /\ exit' = "running" => ~dev'.held
    BY <1>1, LinesMove
  <1>5. plan = <<>> => ~dev.held BY <1>1, IdleLines
  <1>6. Begin /\ (e \notin Wanted \/ Place(e) <= Place(plan[1])) => Without(todo', S)
    <2> SUFFICES ASSUME Begin, e \notin Wanted \/ Place(e) <= Place(plan[1]) PROVE Without(todo', S) OBVIOUS
    <2>1. plan[1][1] \in Ends /\ driver \in Drivers /\ todo' = StepsOf(plan[1][1]) \o <<Do("next")>>
      BY <1>1, BeginsLate, WantedLast DEF Ends
    <2>2. Without(todo', {"halt", "catch", "finishIfOpen", "extend"}) BY <2>1, EndWithout
    <2> QED BY <2>2, WithoutLess
  <1>7. Begin /\ plan[1] = e => HasGate(todo', C)
    <2> SUFFICES ASSUME Begin, plan[1] = e PROVE HasGate(todo', C) OBVIOUS
    <2>1. driver \in Drivers /\ todo' = StepsOf(plan[1][1]) \o <<Do("next")>> BY <1>1, BeginsLate
    <2>2. plan[1][1] = "restart" OBVIOUS
    <2> QED BY <2>1, <2>2, EndGates
  <1>8. "next" \notin C OBVIOUS
  <1>9. e \in {<<"deselect", 0>>, <<"restart", 0>>, <<"close", 0>>} OBVIOUS
  <1> HIDE DEF S, C, e
  <1>10. Quiet(dev'.held, plan', todo', exit', S, C, e)
    BY <1>1, <1>2, <1>3, <1>4, <1>5, <1>6, <1>7, <1>8, <1>9, QuietStep
  <1> QED BY <1>10 DEF S, C, e

LEMMA ConnectsStep ==
  ASSUME ReleaseInv, Next
  PROVE  Quiet(connected', plan', todo', exit', {"connect"}, {"disconnect"}, <<"close", 0>>)
  <1> DEFINE S == {"connect"}
             C == {"disconnect"}
             e == <<"close", 0>>
  <1>1. OrderInv /\ AskInv /\ exit = "running" BY NextIs DEF ReleaseInv
  <1>2. todo \in Todos BY <1>1, TodoTyped
  <1>3. Quiet(connected, plan, todo, exit, S, C, e) BY DEF ReleaseInv, RunConnects
  <1>4. /\ ~Working => connected' = connected
        /\ Working /\ connected' => connected \/ Head(todo).do \in S
        /\ Working /\ Head(todo).do \in C /\ exit' = "running" => ~connected'
    BY <1>1, LinesMove
  <1>5. plan = <<>> => ~connected BY <1>1, IdleLines
  <1>6. Begin /\ (e \notin Wanted \/ Place(e) <= Place(plan[1])) => Without(todo', S)
    <2> SUFFICES ASSUME Begin, e \notin Wanted \/ Place(e) <= Place(plan[1]) PROVE Without(todo', S) OBVIOUS
    <2>1. plan[1][1] = "close" /\ driver \in Drivers /\ todo' = StepsOf(plan[1][1]) \o <<Do("next")>>
      BY <1>1, BeginsLate, WantedLast
    <2> QED BY <2>1, EndWithout
  <1>7. Begin /\ plan[1] = e => HasGate(todo', C)
    <2> SUFFICES ASSUME Begin, plan[1] = e PROVE HasGate(todo', C) OBVIOUS
    <2>1. driver \in Drivers /\ todo' = StepsOf(plan[1][1]) \o <<Do("next")>> BY <1>1, BeginsLate
    <2>2. plan[1][1] = "close" OBVIOUS
    <2> QED BY <2>1, <2>2, EndGates
  <1>8. "next" \notin C OBVIOUS
  <1>9. e \in {<<"deselect", 0>>, <<"restart", 0>>, <<"close", 0>>} OBVIOUS
  <1> HIDE DEF S, C, e
  <1>10. Quiet(connected', plan', todo', exit', S, C, e)
    BY <1>1, <1>2, <1>3, <1>4, <1>5, <1>6, <1>7, <1>8, <1>9, QuietStep
  <1> QED BY <1>10 DEF S, C, e

LEMMA PullsStep ==
  ASSUME ReleaseInv, Next, Active
  PROVE  Quiet(dev'.low, plan', todo', exit', {"pinLow"}, {"restart"}, <<"restart", 0>>)
  <1> DEFINE S == {"pinLow"}
             C == {"restart"}
             e == <<"restart", 0>>
  <1>1. OrderInv /\ AskInv /\ exit = "running" BY NextIs DEF ReleaseInv
  <1>2. todo \in Todos BY <1>1, TodoTyped
  <1>3. Quiet(dev.low, plan, todo, exit, S, C, e) BY DEF ReleaseInv, RunPulls
  <1>4. /\ ~Working => dev'.low = dev.low
        /\ Working /\ dev'.low => dev.low \/ Head(todo).do \in S
        /\ Working /\ Head(todo).do \in C /\ exit' = "running" => ~dev'.low
    BY <1>1, LinesMove
  <1>5. plan = <<>> => ~dev.low BY <1>1, IdleLines
  <1>6. Begin /\ (e \notin Wanted \/ Place(e) <= Place(plan[1])) => Without(todo', S)
    <2> SUFFICES ASSUME Begin, e \notin Wanted \/ Place(e) <= Place(plan[1]) PROVE Without(todo', S) OBVIOUS
    <2>1. plan[1][1] \in {"restart", "close"} /\ driver \in Drivers
          /\ todo' = StepsOf(plan[1][1]) \o <<Do("next")>>
      BY <1>1, BeginsLate, WantedLast
    <2> QED BY <2>1, EndWithout
  <1>7. Begin /\ plan[1] = e => HasGate(todo', C)
    <2> SUFFICES ASSUME Begin, plan[1] = e PROVE HasGate(todo', C) OBVIOUS
    <2>1. driver \in Drivers /\ todo' = StepsOf(plan[1][1]) \o <<Do("next")>> BY <1>1, BeginsLate
    <2>2. plan[1][1] = "restart" OBVIOUS
    <2> QED BY <2>1, <2>2, EndGates
  <1>8. "next" \notin C OBVIOUS
  <1>9. e \in {<<"deselect", 0>>, <<"restart", 0>>, <<"close", 0>>} OBVIOUS
  <1> HIDE DEF S, C, e
  <1>10. Quiet(dev'.low, plan', todo', exit', S, C, e)
    BY <1>1, <1>2, <1>3, <1>4, <1>5, <1>6, <1>7, <1>8, <1>9, QuietStep
  <1> QED BY <1>10 DEF S, C, e

LEMMA PulseStep ==
  ASSUME ReleaseInv, Next, ~Active
  PROVE  exit' # "error" => /\ dev'.low => HasGate(todo', {"pinHigh"})
                            /\ Followed(todo', {"pinLow"}, {"pinHigh"})
  <1> SUFFICES ASSUME exit' # "error"
               PROVE  /\ dev'.low => HasGate(todo', {"pinHigh"})
                      /\ Followed(todo', {"pinLow"}, {"pinHigh"})
    OBVIOUS
  <1>1. /\ OrderInv /\ AskInv /\ exit = "running"
        /\ Working \/ Main \/ Begin \/ NextOperation \/ Fail
    BY NextIs DEF ReleaseInv
  <1>2. /\ dev.low => HasGate(todo, {"pinHigh"})
        /\ Followed(todo, {"pinLow"}, {"pinHigh"})
    BY <1>1 DEF ReleaseInv, RunPulls, Pulsed
  <1>3. todo \in Todos BY <1>1, TodoTyped
  <1>4. Len(<<>>) = 0 /\ 1 .. 0 = {} OBVIOUS
  <1>5. Followed(<<>>, {"pinLow"}, {"pinHigh"}) /\ ~HasGate(<<>>, {"pinHigh"}) BY <1>4 DEF Followed, HasGate
  <1>6. CASE Main
    <2>1. todo = <<>> /\ todo' = <<>> BY <1>6 DEF Main
    <2>2. ~Working BY <2>1, WorkMoves
    <2>3. dev' = dev BY <1>1, <2>2, LinesMove
    <2> QED BY <1>2, <1>5, <2>1, <2>3
  <1>7. CASE Begin
    <2>1. todo = <<>> BY <1>7 DEF Begin
    <2>2. ~Working BY <2>1, WorkMoves
    <2>3. dev' = dev BY <1>1, <2>2, LinesMove
    <2>4. ~dev'.low BY <1>2, <1>5, <2>1, <2>3
    <2>5. plan[1][1] \in {"open", "pulse", "close"} /\ driver \in Drivers
          /\ todo' = StepsOf(plan[1][1]) \o <<Do("next")>>
      BY <1>1, <1>7, BeginsLate
    <2>6. Followed(todo', {"pinLow"}, {"pinHigh"})
      <3>1. CASE plan[1][1] = "pulse" BY <2>5, <3>1, EndGates
      <3>2. CASE plan[1][1] # "pulse"
        <4>1. Without(todo', {"pinLow"}) BY <2>5, <3>2, EndWithout
        <4> QED BY <4>1, NoneFollowed
      <3> QED BY <3>1, <3>2
    <2> QED BY <2>4, <2>6
  <1>8. CASE NextOperation
    <2>1. todo = <<Do("next")>> /\ todo' = <<>> BY <1>8 DEF NextOperation
    <2>2. Do("next").do = "next" /\ Head(todo).do = "next"
      <3>1. Do("next").do = "next" BY DEF Do, Area
      <3> QED BY <2>1, <3>1
    <2>3. ~Working
      BY <2>2, WorkOf DEF Working, ProbeWork, TargetWork, CheckWork, FlashWork, FuseWork
    <2>4. dev' = dev BY <1>1, <2>3, LinesMove
    <2>5. ~HasGate(todo, {"pinHigh"}) BY <2>1, LastStep
    <2> QED BY <1>2, <1>5, <2>1, <2>4, <2>5
  <1>9. CASE Working \/ Fail
    <2>1. ~Stop BY DEF Stop
    <2>2. Working /\ Continue /\ todo # <<>> BY <1>9, <2>1, WorkMoves DEF Fail
    <2>3. todo' = Tail(todo) BY <2>2 DEF Continue
    <2>4. /\ dev'.low => dev.low \/ Head(todo).do \in {"pinLow"}
          /\ Head(todo).do \in {"pinHigh"} => ~dev'.low
      BY <1>1, <2>2, LinesMove
    <2>5. Followed(Tail(todo), {"pinLow"}, {"pinHigh"})
          /\ (Head(todo).do \in {"pinLow"} => HasGate(Tail(todo), {"pinHigh"}))
      BY <1>2, <1>3, <2>2, FollowedTail DEF Todos
    <2>6. HasGate(todo, {"pinHigh"}) /\ Head(todo).do \notin {"pinHigh"} => HasGate(Tail(todo), {"pinHigh"})
      BY <1>3, <2>2, GateTail DEF Todos
    <2> QED BY <1>2, <2>3, <2>4, <2>5, <2>6
  <1> QED BY <1>1, <1>6, <1>7, <1>8, <1>9

LEMMA ReleaseInit == EdbgInit => ReleaseInv
  <1> SUFFICES ASSUME EdbgInit PROVE ReleaseInv OBVIOUS
  <1>1. AskInv /\ OrderInv BY AskInit, OrderInit
  <1>2. dev = NewDevice(world) /\ connected = FALSE /\ plan = <<>> /\ todo = <<>> /\ exit = "running" BY DEF EdbgInit, Init
  <1>3. ~dev.halting /\ ~dev.held /\ ~dev.low /\ ~connected BY <1>2 DEF NewDevice
  <1>4. Len(<<>>) = 0 /\ 1 .. 0 = {} OBVIOUS
  <1>5. Followed(todo, {"pinLow"}, {"pinHigh"}) BY <1>2, <1>4 DEF Followed
  <1> QED BY <1>1, <1>2, <1>3, <1>5 DEF ReleaseInv, RunHalts, RunHolds, RunPulls, RunConnects, Quiet, Pulsed

LEMMA ReleaseStep == ASSUME ReleaseInv, [EdbgNext]_edbgVars PROVE ReleaseInv'
  <1>0. UNCHANGED vars \/ Next
    BY DEF EdbgNext, SessionStep, QueueStep, JtagStep, edbgVars
  <1>1. AskInv' /\ OrderInv' BY <1>0, AskStep, OrderStep DEF ReleaseInv
  <1>2. UNCHANGED cmd
    <2>1. CASE Next BY <2>1, NextIs
    <2>2. CASE UNCHANGED vars BY <2>2 DEF vars
    <2> QED BY <1>0, <2>1, <2>2
  <1>3. CASE Next
    <2>1. Active => RunPulls' BY <1>2, <1>3, PullsStep, QuietNext
    <2>2. ~Active => RunPulls' BY <1>2, <1>3, PulseStep, QuietNext
    <2> QED BY <1>1, <1>2, <1>3, <2>1, <2>2, HaltsStep, HoldsStep, ConnectsStep, QuietNext DEF ReleaseInv
  <1>4. CASE UNCHANGED vars
    <2>1. UNCHANGED <<dev, connected, plan, todo, exit>> BY <1>4 DEF vars
    <2> QED BY <1>1, <1>2, <2>1, QuietNext DEF ReleaseInv, RunHalts, RunHolds, RunPulls, RunConnects, Pulsed
  <1> QED BY <1>0, <1>3, <1>4

(* A run of edbg that ends without an error leaves the target running, its *)
(* reset line high and outside the reset extension, and the probe          *)
(* disconnected, whatever it was asked to do and on whatever driver.       *)
THEOREM TargetReleased == EdbgSpec => []ReleasedAtExit
  <1>1. EdbgInit => ReleaseInv BY ReleaseInit
  <1>2. ReleaseInv /\ [EdbgNext]_edbgVars => ReleaseInv' BY ReleaseStep
  <1>3. ReleaseInv => ReleasedAtExit
    <2> SUFFICES ASSUME ReleaseInv, exit = "ok" PROVE ~dev.halting /\ ~dev.held /\ ~dev.low /\ ~connected
      BY DEF ReleasedAtExit
    <2>1. plan = <<>> BY DEF ReleaseInv, OrderInv
    <2>2. todo = <<>> BY <2>1 DEF ReleaseInv, OrderInv
    <2>3. ~HasGate(<<>>, {"pinHigh"})
      <3>1. Len(<<>>) = 0 /\ 1 .. 0 = {} OBVIOUS
      <3> QED BY <3>1 DEF HasGate
    <2> QED BY <2>1, <2>2, <2>3 DEF ReleaseInv, RunHalts, RunHolds, RunPulls, RunConnects, Quiet, Pulsed
  <1> QED BY <1>1, <1>2, <1>3, PTL DEF EdbgSpec

-----------------------------------------------------------------------------
(* What is done stays done *)

\* The entries of a plan, by their places.
LEMMA PlaceNames ==
  ASSUME InPlan, NEW e \in Jobs
  PROVE  /\ Place(e) = 3 <=> e = <<"select", 0>>
         /\ Place(e) = 4 <=> e = <<"unlock", 0>>
         /\ Place(e) = 6 <=> e = <<"program", 0>>
         /\ Place(e) = 7 <=> e = <<"verify", 0>>
         /\ Place(e) = 8 <=> e = <<"lock", 0>>
         /\ Place(e) = 9 <=> e = <<"read", 0>>
         /\ Place(e) < 9 => e[1] # "fuse"
         /\ Place(e) < 3 => e[1] \in {"open", "pulse"}
         /\ Place(e) > 3 => e[1] \notin {"open", "pulse", "select"}
         /\ Place(e) > 4 => e[1] # "unlock"
         /\ Place(e) > 7 => e[1] \in {"lock", "read", "fuse", "deselect", "restart", "close"}
         /\ Place(e) > 9 => e[1] \in {"fuse", "deselect", "restart", "close"}
         /\ Place(e) > 9 /\ e[1] = "fuse" =>
              e[2] \in 1 .. Len(cmd.fuse) /\ e = <<"fuse", e[2]>> /\ Place(e) = 9 + e[2]
         /\ Place(e) > 9 + Len(cmd.fuse) => e[1] \in {"deselect", "restart", "close"}
  <1>1. cmd.acts \subseteq Actions /\ cmd.fuse \in Seq(FuseCommand) BY CaseTyped
  <1>2. Len(cmd.fuse) \in Nat /\ DOMAIN cmd.fuse = 1 .. Len(cmd.fuse) BY <1>1
  <1>3. CASE \E k \in DOMAIN cmd.fuse : e = <<"fuse", k>>
    <2>1. PICK k \in 1 .. Len(cmd.fuse) : e = <<"fuse", k>> BY <1>2, <1>3
    <2>2. Place(e) = 9 + k BY <2>1, Places
    <2>3. e[1] = "fuse" /\ e[2] = k BY <2>1
    <2> QED BY <1>2, <2>1, <2>2, <2>3
  <1>4. ASSUME NEW a \in {"open", "pulse", "select", "unlock", "erase", "program", "verify", "lock", "read",
                          "deselect", "restart", "close"}, e = <<a, 0>>
        PROVE  /\ a = "open" => Place(e) = 1
               /\ a = "pulse" => Place(e) = 2
               /\ a = "select" => Place(e) = 3
               /\ a = "unlock" => Place(e) = 4
               /\ a = "erase" => Place(e) = 5
               /\ a = "program" => Place(e) = 6
               /\ a = "verify" => Place(e) = 7
               /\ a = "lock" => Place(e) = 8
               /\ a = "read" => Place(e) = 9
               /\ a = "deselect" => Place(e) = 10 + Len(cmd.fuse)
               /\ a = "restart" => Place(e) = 11 + Len(cmd.fuse)
               /\ a = "close" => Place(e) = 12 + Len(cmd.fuse)
    BY <1>4, Places
  <1>5. CASE \E a \in {"open", "pulse", "select", "unlock", "erase", "program", "verify", "lock", "read",
                       "deselect", "restart", "close"} : e = <<a, 0>>
    <2>1. PICK a \in {"open", "pulse", "select", "unlock", "erase", "program", "verify", "lock", "read",
                       "deselect", "restart", "close"} : e = <<a, 0>> BY <1>5
    <2>2. PICK p : p = Place(e) OBVIOUS
    <2>3. e[1] = a BY <2>1
    <2>4. /\ a = "open" => p = 1
          /\ a = "pulse" => p = 2
          /\ a = "select" => p = 3
          /\ a = "unlock" => p = 4
          /\ a = "erase" => p = 5
          /\ a = "program" => p = 6
          /\ a = "verify" => p = 7
          /\ a = "lock" => p = 8
          /\ a = "read" => p = 9
          /\ a = "deselect" => p = 10 + Len(cmd.fuse)
          /\ a = "restart" => p = 11 + Len(cmd.fuse)
          /\ a = "close" => p = 12 + Len(cmd.fuse)
      BY <1>4, <2>1, <2>2
    <2> QED BY <1>2, <2>1, <2>2, <2>3, <2>4
  <1>6. e \in Wanted \cup {<<"open", 0>>, <<"pulse", 0>>} BY DEF Jobs
  <1>7. (\E k \in DOMAIN cmd.fuse : e = <<"fuse", k>>)
        \/ \E a \in {"open", "pulse", "select", "unlock", "erase", "program", "verify", "lock", "read",
                       "deselect", "restart", "close"} : e = <<a, 0>>
    <2>1. CASE \E a \in cmd.acts : e = <<a, 0>> BY <1>1, <2>1 DEF Actions
    <2>2. CASE ~\E a \in cmd.acts : e = <<a, 0>> BY <1>6, <2>2 DEF Wanted
    <2> QED BY <2>1, <2>2
  <1> QED BY <1>3, <1>5, <1>7

\* Who writes fuses.
LEMMA FuseWorkIn ==
  ASSUME AskInv, exit = "running", todo # <<>>, Head(todo).do \in FuseWork
  PROVE  plan # <<>> /\ plan[1][1] = "fuse" /\ Head(todo).at \in Nat /\ FuseTodo
  <1>1. todo \in Todos BY TodoTyped
  <1>2. Head(todo) \in StepsBut({}) BY <1>1 DEF Todos
  <1>3. Head(todo).at \in Nat BY <1>2 DEF StepsBut
  <1>4. todo \notin Seq(Opening)
    <2>1. todo \in Seq(Opening) => Head(todo) \in Opening OBVIOUS
    <2> QED BY <2>1 DEF Opening, StepsBut, FuseSide
  <1>5. todo \notin Seq(Within(Reach))
    <2>1. todo \in Seq(Within(Reach)) => Head(todo) \in Within(Reach) OBVIOUS
    <2> QED BY <2>1 DEF Within, StepsBut, FuseSide
  <1> QED BY <1>3, <1>4, <1>5 DEF AskInv, Selecting, Serving

LEMMA FuseBusy ==
  ASSUME AskInv, FuseWrite
  PROVE  Still(dev') /\ LockUnit \notin dev'.busy
  <1>1. exit = "running" /\ todo # <<>> /\ Head(todo).do \in FuseWork
    <2>1. Fuses BY DEF Fuses
    <2> QED BY DEF FuseWrite, FuseWork, Step
  <1>2. plan # <<>> /\ plan[1][1] = "fuse" /\ Head(todo).at \in Nat /\ InPlan BY <1>1, FuseWorkIn DEF AskInv
  <1>3. \/ dev'.busy = {} \/ dev'.busy \subseteq {FuseUnit(s) : s \in FuseSections}
        \/ dev'.busy = {FuseUnit(Command.section)} \/ dev'.busy = {FuseUnit(Head(todo).at)}
    BY <1>2, FuseWriteShape DEF InPlan
  <1>4. Command.section \in Nat
    <2>1. plan[1] \in Entry BY <1>2 DEF InPlan
    <2>2. plan[1][2] \in DOMAIN cmd.fuse BY <1>2, <2>1 DEF Entry
    <2>3. Command \in FuseCommand BY <1>2, <2>2, CaseTyped DEF Command
    <2> QED BY <2>3 DEF FuseCommand
  <1>5. dev'.busy \subseteq {FuseUnit(s) : s \in Nat}
    <2>1. FuseSections \subseteq Nat BY DEF FuseSections
    <2> QED BY <1>2, <1>3, <1>4, <2>1
  <1> QED BY <1>5, Apart DEF Still

\* Steps that do not write the flash keep it, and those that do not lock keep
\* the lock, unless it is being written when the target is reset.
Writes == {"chipErase", "regress", "erase", "program"}
LEMMA StepKeeps ==
  ASSUME AskInv, Working, Head(todo).do \notin Writes
  PROVE  /\ Still(dev) => dev'.flash = dev.flash /\ Still(dev')
         /\ Head(todo).do \in Waits => dev'.flash = dev.flash /\ dev'.locked = dev.locked /\ dev'.busy = {}
         /\ Head(todo).do # "setLock" /\ LockUnit \notin dev.busy
               => (dev'.locked <=> dev.locked) /\ LockUnit \notin dev'.busy
  <1>1. InPlan /\ IsDevice(dev) /\ exit = "running" BY WorkMoves DEF AskInv, InPlan
  <1>2. CASE FuseWrite
    <2>1. dev'.flash = dev.flash /\ dev'.locked = dev.locked BY <1>1, <1>2, FuseWriteShape
    <2>2. Head(todo).do \notin Waits BY <1>2 DEF FuseWrite, Step, Waits
    <2> QED BY <1>2, <2>1, <2>2, FuseBusy
  <1>3. CASE SetLock
    <2>1. dev' = [Settle(dev) EXCEPT !.locked = TRUE, !.busy = {LockUnit}] BY <1>3 DEF SetLock
    <2>2. dev'.flash = dev.flash /\ dev'.busy = {LockUnit} BY <1>1, <2>1, LockedIs
    <2>3. Head(todo).do = "setLock" BY <1>3 DEF SetLock, Step
    <2> QED BY <2>2, <2>3, Apart DEF Still, Waits
  <1>4. CASE Head(todo).do \in PlainNames
    <2>1. Spared BY <1>1, <1>4, PlainSpares
    <2>2. PICK d \in {dev, Cut(dev)} : Alike(dev', d) BY <2>1 DEF Spared
    <2>3. Still(dev) => Cut(dev).flash = dev.flash
      <3>1. Cut(dev).flash = CutFlash(dev) BY <1>1, CutIs
      <3>2. dev.flash \in [Units -> {Torn, Old} \cup 0 .. Total] BY DEF AskInv, Proper, FlashProper
      <3> QED BY <3>1, <3>2 DEF Still, CutFlash
    <2>4. LockUnit \notin dev.busy => (Cut(dev).locked <=> dev.locked)
      <3>1. Cut(dev).locked = (dev.locked /\ LockUnit \notin dev.busy) BY <1>1, CutShape
      <3> QED BY <3>1
    <2> QED BY <2>1, <2>2, <2>3, <2>4 DEF Spared, Alike, Still
  <1>5. CASE Flash /\ ~SetLock /\ Head(todo).do \notin PlainNames
    <2>1. Head(todo).do \in {"fetch", "save"} /\ (Fetch \/ Save)
      BY <1>5 DEF Flash, WaitDone, WaitReady, EraseArea, ProgramArea, EraseChip, Compare, Fetch, Save, Step,
                  PlainNames, StepNames, FlashWork, FuseWork, Writes
    <2>2. dev' = dev \/ dev' = Settle(dev) BY <2>1 DEF Fetch, Save
    <2>3. dev'.flash = dev.flash /\ dev'.locked = dev.locked /\ (dev'.busy = dev.busy \/ dev'.busy = {})
      BY <1>1, <2>2, SettleIs
    <2> QED BY <2>1, <2>3 DEF Still, Waits
  <1>6. Head(todo).do \in FlashWork \cup FuseWork \/ Head(todo).do \in PlainNames
    <2>1. todo \in Todos /\ todo # <<>> BY <1>1, TodoTyped, WorkMoves
    <2>2. Head(todo) \in StepsBut({}) BY <2>1 DEF Todos
    <2> QED BY <2>2 DEF StepsBut, PlainNames
  <1>7. Head(todo).do \in FlashWork => Flash BY FlashDoes
  <1>8. Head(todo).do \in FuseWork => FuseWrite BY FusesDo
  <1> QED BY <1>2, <1>3, <1>4, <1>5, <1>6, <1>7, <1>8

\* Steps that leave flash, lock and options alone, and those of a run's end.
Firm == StepsBut(Writes \cup {"setLock", "options"})
Aftermath == StepsBut(FlashWork \cup {"options"})

LEMMA AftermathFirm ==
  /\ Aftermath \subseteq Firm /\ Firm \subseteq StepsBut({}) /\ Aftermath \subseteq StepsBut({})
  /\ Do("next") \in Aftermath /\ Do("next") \in Firm
  /\ Do("next").do = "next" /\ "next" \notin Waits
  <1>1. "next" \in StepNames \ (FlashWork \cup {"options"})
        /\ "next" \in StepNames \ (Writes \cup {"setLock", "options"})
    BY DEF StepNames, FlashWork, Writes
  <1>2. Do("next") \in Aftermath /\ Do("next") \in Firm BY <1>1, AreaTyped DEF Aftermath, Firm
  <1>3. Do("next").do = "next" BY DEF Do, Area
  <1> QED BY <1>2, <1>3 DEF Aftermath, Firm, StepsBut, FlashWork, Writes, Waits

\* The operations that come behind program and verify.
LEMMA LateSteps ==
  ASSUME InPlan, plan # <<>>
  PROVE  LET o == plan[1][1]
             t == StepsOf(o) \o <<Do("next")>>
         IN  /\ o \in {"fuse", "deselect", "restart", "close"} => t \in Seq(Aftermath)
             /\ o \in {"fuse", "deselect", "restart", "close", "read", "verify"} => t \in Seq(Firm)
  <1> DEFINE o == plan[1][1]
             t == StepsOf(o) \o <<Do("next")>>
  <1>1. driver \in Drivers /\ opt \in Options BY DEF InPlan
  <1>2. CASE o = "fuse"
    <2>1. t = FuseSteps(Command) \o <<Do("next")>> BY <1>2 DEF StepsOf
    <2>2. t \in Seq(Fusing) BY <1>1, <2>1, FuseOrder
    <2>3. Fusing \subseteq Aftermath BY DEF Fusing, Aftermath
    <2> QED BY <1>2, <2>2, <2>3, AftermathFirm
  <1>3. CASE o \in {"deselect", "restart", "close"}
    <2>1. \A d \in {"release", "letGo", "restart", "led", "disconnect", "next"} : Do(d) \in Aftermath
      <3>1. {"release", "letGo", "restart", "led", "disconnect", "next"}
               \subseteq StepNames \ (FlashWork \cup {"options"})
        BY DEF StepNames, FlashWork
      <3> QED BY <3>1, AreaTyped DEF Aftermath
    <2>2. /\ <<Do("release")>> \in Seq(Aftermath) /\ <<Do("letGo"), Do("restart")>> \in Seq(Aftermath)
          /\ <<Do("restart")>> \in Seq(Aftermath) /\ <<Do("led"), Do("disconnect")>> \in Seq(Aftermath)
          /\ <<Do("next")>> \in Seq(Aftermath)
      BY <2>1
    <2>3. StepsOf(o) \in Seq(Aftermath)
      <3>1. CASE o = "deselect" BY <1>1, <2>2, <3>1, EndSteps
      <3>2. CASE o = "restart" BY <1>1, <2>2, <3>2, EndSteps
      <3>3. CASE o = "close" BY <1>1, <2>2, <3>3, EndSteps
      <3> QED BY <1>3, <3>1, <3>2, <3>3
    <2>4. t \in Seq(Aftermath) BY <2>2, <2>3
    <2> QED BY <1>3, <2>4, AftermathFirm
  <1>4. CASE o \in {"read", "verify"}
    <2> DEFINE X == Writes \cup {"setLock", "options"}
    <2>1. "compare" \in StepNames \ X /\ "fetch" \in StepNames \ X /\ "save" \in StepNames \ X
      BY DEF StepNames, Writes
    <2>2. opt.size \in Nat /\ opt.file \in Nat /\ RowUnits \in Nat \ {0} /\ PageUnits \in Nat \ {0}
      BY <1>1, Pages, Geometry
    <2>3. /\ Compared(opt, RowUnits) \in Seq(Firm) /\ Compared(opt, PageUnits) \in Seq(Firm)
          /\ InBlocks("fetch", opt, opt.size, RowUnits) \in Seq(Firm)
          /\ InBlocks("fetch", opt, opt.size, PageUnits) \in Seq(Firm)
      BY <1>1, <2>1, <2>2, BlocksTyped DEF Compared, Firm
    <2>4. Do("save") \in Firm BY <2>1, AreaTyped DEF Firm
    <2>5. Fetched(opt, RowUnits) \in Seq(Firm) /\ Fetched(opt, PageUnits) \in Seq(Firm)
      BY <2>3, <2>4 DEF Fetched
    <2>6. Ops(driver, opt).read \in Seq(Firm) /\ Ops(driver, opt).verify \in Seq(Firm)
      BY <1>1, <2>3, <2>5, OpsOf DEF Drivers, G0Ops, G4Ops, WbOps, GdOps, M4Ops, PyOps, SdOps, SeOps, A3Ops, A4Ops,
          A7Ops, G0Read, G4Read, WbRead, GdRead, M4Read, PyRead, SdRead, SeRead, A3Read, A4Read, A7Read,
          G0Verify, G4Verify, WbVerify, GdVerify, M4Verify, PyVerify, SdVerify, SeVerify, A3Verify, A4Verify,
          A7Verify
    <2>7. StepsOf(o) \in Seq(Firm)
      <3>1. CASE o = "read" BY <2>6, <3>1 DEF StepsOf
      <3>2. CASE o = "verify" BY <2>6, <3>2 DEF StepsOf
      <3> QED BY <1>4, <3>1, <3>2
    <2> QED BY <1>4, <2>7, AftermathFirm
  <1> QED BY <1>2, <1>3, <1>4

LEMMA TailTyped ==
  ASSUME NEW T, NEW t \in Seq(T), t # <<>>
  PROVE  Head(t) \in T /\ Tail(t) \in Seq(T)
  OBVIOUS

\* How a run goes on: its next step, or the end.
LEMMA RunGoes ==
  ASSUME OrderInv, Next, exit' # "error"
  PROVE  /\ exit = "running" /\ UNCHANGED <<driver, cmd, world>>
         /\ \/ /\ Main /\ plan = <<>> /\ todo' = <<>> /\ dev' = dev /\ saved' = saved
               /\ exit' = "ok" => Listed
               /\ plan' # <<>> => plan'[1] = <<"open", 0>>
            \/ /\ Begin /\ plan # <<>> /\ plan' = plan /\ todo = <<>> /\ exit' = "running"
               /\ todo' = StepsOf(plan[1][1]) \o <<Do("next")>>
               /\ UNCHANGED <<dev, opt, got, saved, fdata, config>>
            \/ /\ NextOperation /\ plan # <<>> /\ todo = <<Do("next")>> /\ todo' = <<>> /\ plan' = Tail(plan)
               /\ UNCHANGED <<dev, opt, got, saved, fdata, config>>
               /\ Tail(plan) = <<>> => plan[1] = <<"close", 0>>
            \/ /\ Working /\ plan # <<>> /\ plan' = plan /\ todo # <<>> /\ todo' = Tail(todo) /\ exit' = "running"
  <1>1. /\ exit = "running" /\ UNCHANGED <<driver, cmd, world>>
        /\ Working \/ Main \/ Begin \/ NextOperation \/ Fail
    BY NextIs
  <1>2. CASE Main
    <2>1. plan' = Plan => plan' # <<>> /\ plan'[1] = <<"open", 0>>
      BY PlanScheduled DEF OrderInv
    <2>2. plan = <<>> /\ todo' = <<>> /\ dev' = dev /\ saved' = saved BY <1>2 DEF Main
    <2>3. exit' = "ok" => Listed BY <1>1, <1>2 DEF Main
    <2>4. plan' = <<>> \/ plan' = Plan BY <1>2 DEF Main
    <2>5. plan' = <<>> \/ (plan' # <<>> /\ plan'[1] = <<"open", 0>>) BY <2>1, <2>4
    <2> QED BY <1>1, <1>2, <2>2, <2>3, <2>5
  <1>3. CASE Begin BY <1>1, <1>3 DEF Begin
  <1>4. CASE NextOperation
    <2>1. plan # <<>> /\ plan' = Tail(plan) BY <1>4 DEF NextOperation
    <2>2. Tail(plan) = <<>> => plan[1] = <<"close", 0>>
      <3>1. plan \in Seq(Jobs) /\ (Len(plan) = 1 => plan[1] = <<"close", 0>>)
        BY <2>1, ScheduledTail DEF OrderInv
      <3>2. Len(plan) # 1 => Tail(plan) # <<>> BY <2>1, <3>1, MoreIsLeft
      <3> QED BY <3>1, <3>2
    <2> QED BY <1>1, <1>4, <2>1, <2>2 DEF NextOperation
  <1>5. CASE Working \/ Fail
    <2>1. ~Stop BY DEF Stop
    <2>2. Working /\ Continue /\ todo # <<>> BY <1>5, <2>1, WorkMoves DEF Fail
    <2>3. plan # <<>> BY <2>2 DEF OrderInv
    <2> QED BY <1>1, <2>2, <2>3 DEF Continue
  <1> QED BY <1>1, <1>2, <1>3, <1>4, <1>5

(* A device that was locked, and waited for, stays locked.                 *)
LockDrivers == {"gd32f4xx", "m480", "py32f0"}
Sealed == dev.locked /\ LockUnit \notin dev.busy
Locking(t) ==
  \/ \E w : t = <<Do("setLock"), w, Do("next")>> /\ w.do \in Waits
  \/ \E w : t = <<w, Do("next")>> /\ w.do \in Waits /\ dev.locked
  \/ t = <<Do("next")>> /\ Sealed
RunLocks ==
  "lock" \in cmd.acts /\ driver \in LockDrivers =>
    /\ exit = "ok" /\ ~Listed => dev.locked
    /\ plan # <<>> /\ Place(plan[1]) > 8 => Sealed /\ todo \in Seq(Firm)
    /\ plan # <<>> /\ plan[1] = <<"lock", 0>> /\ todo # <<>> => Locking(todo)

\* RunLocks speaks of the next state as of this one.
LEMMA LocksNext ==
  ASSUME UNCHANGED <<cmd, driver>>,
         "lock" \in cmd.acts /\ driver \in LockDrivers =>
           /\ exit' = "ok" /\ ~Listed => dev'.locked
           /\ plan' # <<>> /\ Place(plan'[1]) > 8
                 => dev'.locked /\ LockUnit \notin dev'.busy /\ todo' \in Seq(Firm)
           /\ plan' # <<>> /\ plan'[1] = <<"lock", 0>> /\ todo' # <<>> =>
                \/ \E w : todo' = <<Do("setLock"), w, Do("next")>> /\ w.do \in Waits
                \/ \E w : todo' = <<w, Do("next")>> /\ w.do \in Waits /\ dev'.locked
                \/ todo' = <<Do("next")>> /\ dev'.locked /\ LockUnit \notin dev'.busy
  PROVE  RunLocks'
  <1>1. Listed' = Listed /\ Place(plan[1])' = Place(plan'[1]) /\ Firm' = Firm BY DEF Listed, Place, Firm
  <1>2. Locking(todo)' = \/ \E w : todo' = <<Do("setLock"), w, Do("next")>> /\ w.do \in Waits
                         \/ \E w : todo' = <<w, Do("next")>> /\ w.do \in Waits /\ dev'.locked
                         \/ todo' = <<Do("next")>> /\ dev'.locked /\ LockUnit \notin dev'.busy
    BY DEF Locking, Sealed
  <1> QED BY <1>1, <1>2 DEF RunLocks, Sealed

\* target_lock of the drivers that wait for it.
LEMMA LockSteps ==
  ASSUME driver \in LockDrivers
  PROVE  \E w : StepsOf("lock") \o <<Do("next")>> = <<Do("setLock"), w, Do("next")>> /\ w.do \in Waits
  <1>1. Do("wait").do = "wait" /\ Do("settle").do = "settle" BY DEF Do, Area
  <1>2. StepsOf("lock") = Ops(driver, opt).lock BY DEF StepsOf
  <1>3. <<Do("setLock")>> \o <<Do("wait")>> = <<Do("setLock"), Do("wait")>> BY Joined
  <1>4. CASE driver = "gd32f4xx"
    <2>1. StepsOf("lock") = <<Do("setLock"), Do("wait")>>
      BY <1>2, <1>3, <1>4, OpsOf DEF GdOps, GdLock, GdWait
    <2> QED BY <1>1, <2>1, Joined DEF Waits
  <1>5. CASE driver = "m480"
    <2>1. StepsOf("lock") = <<Do("setLock"), Do("settle")>> BY <1>2, <1>5, OpsOf DEF M4Ops, M4Lock, M4Write
    <2> QED BY <1>1, <2>1, Joined DEF Waits
  <1>6. CASE driver = "py32f0"
    <2>1. StepsOf("lock") = <<Do("setLock"), Do("wait")>>
      BY <1>2, <1>3, <1>6, OpsOf DEF PyOps, PyLock, PyWait
    <2> QED BY <1>1, <2>1, Joined DEF Waits
  <1> QED BY <1>4, <1>5, <1>6 DEF LockDrivers

LEMMA LocksStep ==
  ASSUME AskInv, OrderInv, RunLocks, Next
  PROVE  RunLocks'
  <1>0. UNCHANGED <<cmd, driver>> BY NextIs
  <1>1. CASE exit' = "error"
    <2>1. plan' = <<>> BY OrderStep, <1>1 DEF OrderInv
    <2> QED BY <1>0, <1>1, <2>1, LocksNext
  <1>2. CASE exit' # "error" /\ "lock" \in cmd.acts /\ driver \in LockDrivers
    <2>0. InPlan /\ Scheduled(plan) BY DEF OrderInv
    <2>1. exit = "running" BY <1>2, RunGoes
    <2>2. plan # <<>> => plan[1] \in Jobs /\ Place(plan[1]) \in Nat BY <2>0, ScheduledTail
    <2>3. Place(<<"lock", 0>>) = 8 /\ <<"lock", 0>> \in Wanted BY <1>2, Places DEF Wanted
    <2>4. CASE Main
      <3>1. plan = <<>> /\ todo' = <<>> /\ (exit' = "ok" => Listed)
            /\ (plan' # <<>> => plan'[1] = <<"open", 0>>)
        <4>1. plan = <<>> /\ todo' = <<>> BY <2>4 DEF Main
        <4>2. exit' = "ok" => Listed BY <2>1, <2>4 DEF Main
        <4>3. plan' = <<>> \/ plan' = Plan BY <2>4 DEF Main
        <4>4. plan' # <<>> => plan'[1] = <<"open", 0>> BY <2>0, <4>3, PlanScheduled
        <4> QED BY <4>1, <4>2, <4>4
      <3>2. plan' # <<>> => Place(plan'[1]) = 1 BY <3>1, Places
      <3> QED BY <1>0, <3>1, <3>2, LocksNext
    <2>5. CASE Begin
      <3>1. plan # <<>> /\ plan' = plan /\ exit' = "running" /\ dev' = dev
            /\ todo' = StepsOf(plan[1][1]) \o <<Do("next")>>
        BY <2>1, <2>5 DEF Begin
      <3>2. CASE Place(plan[1]) > 8
        <4>1. plan[1][1] \in {"read", "fuse", "deselect", "restart", "close"} /\ plan[1] # <<"lock", 0>>
          <5>1. Place(plan[1]) > 7 BY <2>2, <3>1, <3>2
          <5>2. plan[1][1] \in {"lock", "read", "fuse", "deselect", "restart", "close"}
            BY <2>0, <2>2, <3>1, <5>1, PlaceNames
          <5>3. plan[1] # <<"lock", 0>> BY <2>3, <3>2
          <5>4. plan[1][1] = "lock" => plan[1] = <<"lock", 0>>
            BY <2>0, <2>2, <3>1, PlaceRange
          <5> QED BY <5>2, <5>3, <5>4
        <4>2. todo' \in Seq(Firm) BY <2>0, <3>1, <4>1, LateSteps
        <4> QED BY <1>0, <1>2, <3>1, <3>2, <4>1, <4>2, LocksNext DEF RunLocks, Sealed
      <3>3. CASE ~(Place(plan[1]) > 8)
        <4>1. plan[1] = <<"lock", 0>> => \E w : todo' = <<Do("setLock"), w, Do("next")>> /\ w.do \in Waits
          <5> SUFFICES ASSUME plan[1] = <<"lock", 0>>
                       PROVE  \E w : todo' = <<Do("setLock"), w, Do("next")>> /\ w.do \in Waits
            OBVIOUS
          <5>1. plan[1][1] = "lock" OBVIOUS
          <5> QED BY <1>2, <3>1, <5>1, LockSteps
        <4> QED BY <1>0, <3>1, <3>3, <4>1, LocksNext
      <3> QED BY <3>2, <3>3
    <2>6. CASE NextOperation
      <3>1. plan # <<>> /\ plan' = Tail(plan) /\ todo = <<Do("next")>> /\ todo' = <<>> /\ dev' = dev
        BY <2>6 DEF NextOperation
      <3>2. Tail(plan) = <<>> \/ Place(Tail(plan)[1]) > 8 => Sealed
        <4> SUFFICES ASSUME Tail(plan) = <<>> \/ Place(Tail(plan)[1]) > 8 PROVE Sealed OBVIOUS
        <4>1. CASE Place(plan[1]) > 8 BY <1>2, <3>1, <4>1 DEF RunLocks
        <4>2. CASE ~(Place(plan[1]) > 8)
          <5>1. Place(plan[1]) <= 8 BY <2>2, <3>1, <4>2
          <5>2. Tail(plan) # <<>> => 8 < Place(Tail(plan)[1])
            <6>1. Tail(plan) # <<>> => Tail(plan)[1] \in Jobs /\ Place(Tail(plan)[1]) \in Nat
              BY <2>0, <3>1, ScheduledTail
            <6> QED BY <6>1
          <5>3. plan[1] = <<"lock", 0>> BY <2>0, <2>3, <3>1, <5>1, <5>2, ScheduledTail
          <5>4. todo # <<>> BY <3>1
          <5>5. Locking(todo) BY <1>2, <3>1, <5>3, <5>4 DEF RunLocks
          <5>6. \A w : <<Do("next")>> # <<Do("setLock"), w, Do("next")>> /\ <<Do("next")>> # <<w, Do("next")>>
            <6>1. Len(<<Do("next")>>) = 1 OBVIOUS
            <6>2. \A w : Len(<<Do("setLock"), w, Do("next")>>) = 3 /\ Len(<<w, Do("next")>>) = 2 OBVIOUS
            <6> QED BY <6>1, <6>2
          <5> QED BY <3>1, <5>5, <5>6 DEF Locking
        <4> QED BY <4>1, <4>2
      <3>3. <<>> \in Seq(Firm) OBVIOUS
      <3>4. exit' = "ok" => Tail(plan) = <<>>
        <4>1. plan \in Seq(Jobs) BY <2>0, <3>1, ScheduledTail
        <4>2. exit' = "ok" => Len(plan) = 1 BY <2>1, <2>6 DEF NextOperation
        <4>3. Len(plan) = 1 => Len(Tail(plan)) = 0 BY <3>1, <4>1
        <4>4. Len(Tail(plan)) = 0 => Tail(plan) = <<>> BY <3>1, <4>1
        <4> QED BY <4>2, <4>3, <4>4
      <3> QED BY <1>0, <3>1, <3>2, <3>3, <3>4, LocksNext DEF Sealed
    <2>7. CASE Working
      <3>1. plan # <<>> /\ plan' = plan /\ todo # <<>> /\ todo' = Tail(todo) /\ exit' = "running"
        <4>1. ~Stop BY <1>2 DEF Stop
        <4>2. Continue /\ todo # <<>> BY <2>7, <4>1, WorkMoves
        <4> QED BY <2>1, <4>2 DEF Continue, OrderInv
      <3>2. CASE Place(plan[1]) > 8
        <4>1. Sealed /\ todo \in Seq(Firm) BY <1>2, <3>1, <3>2 DEF RunLocks
        <4>2. Head(todo) \in Firm /\ Tail(todo) \in Seq(Firm) BY <3>1, <4>1, TailTyped
        <4>3. Head(todo).do \notin Writes \cup {"setLock"} BY <4>2 DEF Firm, StepsBut
        <4>4. dev'.locked /\ LockUnit \notin dev'.busy BY <2>7, <4>1, <4>3, StepKeeps DEF Sealed
        <4>5. plan[1] # <<"lock", 0>> BY <2>3, <3>2
        <4> QED BY <1>0, <3>1, <3>2, <4>2, <4>4, <4>5, LocksNext
      <3>3. CASE plan[1] = <<"lock", 0>>
        <4>1. Locking(todo) BY <1>2, <3>1, <3>3 DEF RunLocks
        <4>2. ~(Place(plan[1]) > 8) BY <2>3, <3>3
        <4>3. Do("setLock").do = "setLock" /\ Do("next").do = "next" BY DEF Do, Area
        <4>4. CASE \E w : todo = <<Do("setLock"), w, Do("next")>> /\ w.do \in Waits
          <5>1. PICK w : todo = <<Do("setLock"), w, Do("next")>> /\ w.do \in Waits BY <4>4
          <5>2. Head(todo) = Do("setLock") /\ Tail(todo) = <<w, Do("next")>> BY <5>1
          <5>3. SetLock
            <6>1. Flash BY <2>7, <4>3, <5>2, FlashDoes DEF FlashWork
            <6> QED BY <4>3, <5>2, <6>1 DEF Flash, WaitDone, WaitReady, EraseArea, ProgramArea, EraseChip, Compare,
                                             Fetch, Save, Step
          <5>4. dev' = [Settle(dev) EXCEPT !.locked = TRUE, !.busy = {LockUnit}] BY <5>3 DEF SetLock
          <5>5. dev'.locked BY <2>0, <5>4, LockedIs DEF InPlan
          <5> QED BY <1>0, <3>1, <4>2, <5>1, <5>2, <5>5, LocksNext
        <4>5. CASE \E w : todo = <<w, Do("next")>> /\ w.do \in Waits /\ dev.locked
          <5>1. PICK w : todo = <<w, Do("next")>> /\ w.do \in Waits /\ dev.locked BY <4>5
          <5>2. Head(todo) = w /\ Tail(todo) = <<Do("next")>> BY <5>1
          <5>3. dev'.locked = dev.locked /\ dev'.busy = {}
            <6>1. Head(todo).do \notin Writes BY <5>1, <5>2 DEF Waits, Writes
            <6> QED BY <2>7, <5>1, <5>2, <6>1, StepKeeps
          <5> QED BY <1>0, <3>1, <4>2, <5>1, <5>2, <5>3, LocksNext
        <4>6. CASE todo = <<Do("next")>>
          <5>1. Head(todo).do = "next" BY <4>3, <4>6
          <5> QED BY <2>7, <5>1, WorkOf DEF Working, ProbeWork, TargetWork, CheckWork, FlashWork, FuseWork
        <4> QED BY <4>1, <4>4, <4>5, <4>6 DEF Locking
      <3>4. CASE ~(Place(plan[1]) > 8) /\ plan[1] # <<"lock", 0>>
        BY <1>0, <3>1, <3>4, LocksNext
      <3> QED BY <3>2, <3>3, <3>4
    <2> QED BY <1>2, <2>4, <2>5, <2>6, <2>7, RunGoes
  <1>3. CASE ~("lock" \in cmd.acts /\ driver \in LockDrivers) BY <1>0, <1>3, LocksNext
  <1> QED BY <1>1, <1>2, <1>3

(* A run that was to lock the device, and does not fail, leaves it locked, *)
(* on the drivers that wait for the option to be written.                  *)
LEMMA LocksInit == EdbgInit => RunLocks
  BY DEF EdbgInit, Init, RunLocks

LEMMA LocksHold == RunLocks => LockIsSet
  BY DEF RunLocks, LockIsSet, Served, LockDrivers

(* What is read is what is saved.  ReachesTo is about the file, not the flash.*)
ReachesTo(s, u) == s.from <= u /\ u < s.from + s.len
Lull == StepsBut(Writes \cup {"setLock", "options", "save"})

\* The blocks that a loop over the file goes through.
BlockSteps(do, n, t) ==
  /\ \A i \in 1 .. Len(t) : t[i] \in StepsBut({}) /\ t[i].do = do /\ t[i].at = opt.offset + t[i].from
  /\ \A u \in 0 .. n - 1 : \E i \in 1 .. Len(t) : ReachesTo(t[i], u)

LEMMA BlocksCover ==
  ASSUME NEW do \in StepNames, opt \in Options, NEW n \in Nat, NEW b \in Nat \ {0}
  PROVE  InBlocks(do, opt, n, b) \in Seq(StepsBut({})) /\ BlockSteps(do, n, InBlocks(do, opt, n, b))
  <1> DEFINE t == InBlocks(do, opt, n, b)
             c == CeilDiv(n, b)
  <1>1. c \in Nat /\ opt.offset \in Nat BY Counts, Pages
  <1>2. t \in Seq(StepsBut({})) BY BlocksTyped
  <1>3. Len(t) = c /\ \A i \in 1 .. c : t[i] = [do |-> do, at |-> opt.offset + (i - 1) * b, len |-> b,
                                                from |-> (i - 1) * b]
    BY <1>1 DEF InBlocks
  <1>4. b * c >= n
    <2>1. PICK m \in Nat : m = n + b - 1 OBVIOUS
    <2>2. b * (m \div b) + (m % b) = m /\ m % b \in 0 .. b - 1 BY Division
    <2>3. c = m \div b BY <2>1 DEF CeilDiv
    <2> HIDE DEF c
    <2>4. PICK q \in Nat : q = m % b BY <2>2
    <2>5. b * c + q = m /\ q <= b - 1 BY <2>2, <2>3, <2>4
    <2>6. b * c \in Nat BY <1>1
    <2>7. PICK k \in Nat : k = b * c BY <2>6
    <2> QED BY <2>1, <2>5, <2>7
  <1> HIDE DEF t, c
  <1>5. ASSUME NEW i \in 1 .. Len(t)
        PROVE  t[i] \in StepsBut({}) /\ t[i].do = do /\ t[i].at = opt.offset + t[i].from
    BY <1>2, <1>3
  <1>6. ASSUME NEW u \in 0 .. n - 1 PROVE \E i \in 1 .. Len(t) : ReachesTo(t[i], u)
    <2>0. u \in Nat OBVIOUS
    <2>1. /\ u \div b \in Nat /\ u % b \in 0 .. b - 1 /\ b * (u \div b) + (u % b) = u
      BY <2>0, Division
    <2>2. PICK q \in Nat : q = u \div b BY <2>1
    <2>3. PICK r \in 0 .. b - 1 : r = u % b BY <2>1
    <2>4. b * q + r = u BY <2>1, <2>2, <2>3
    <2>5. q < c
      <3>1. b * q < b * c
        <4>1. b * q \in Nat /\ b * c \in Nat BY <1>1
        <4> QED BY <1>4, <2>4, <4>1
      <3> QED BY <1>1, <3>1, Z3
    <2>6. q + 1 \in 1 .. Len(t) BY <1>1, <1>3, <2>5
    <2>7. t[q + 1].from = q * b /\ t[q + 1].len = b BY <1>3, <2>6
    <2>8. q * b = b * q /\ q * b \in Nat BY Z3
    <2>9. ReachesTo(t[q + 1], u) BY <2>4, <2>7, <2>8 DEF ReachesTo
    <2> QED BY <2>6, <2>9
  <1> QED BY <1>2, <1>5, <1>6 DEF BlockSteps, t

Reading(t) ==
  /\ plan # <<>> /\ plan[1] = <<"read", 0>>
  /\ t \in Todos /\ Len(t) >= 2 /\ t[Len(t) - 1] = Do("save") /\ t[Len(t)] = Do("next")
  /\ \A i \in 1 .. Len(t) - 2 : t[i].do = "fetch" /\ t[i].at = opt.offset + t[i].from
  /\ \A u \in 0 .. opt.size - 1 :
       \/ \E i \in 1 .. Len(t) - 2 : ReachesTo(t[i], u)
       \/ got[u] = dev.flash[opt.offset + u] /\ Still(dev)
RunReads ==
  /\ ReadIsTrue
  /\ exit = "running" =>
       \/ saved = <<>> /\ (Without(todo, {"save"}) \/ Reading(todo))
       \/ /\ Still(dev) /\ plan # <<>>
          /\ \/ plan[1] = <<"read", 0>> /\ todo = <<Do("next")>>
             \/ Place(plan[1]) > 9 /\ todo \in Seq(Lull)

LEMMA ReadsBegin ==
  ASSUME InPlan, plan # <<>>, plan[1] = <<"read", 0>>
  PROVE  Reading(StepsOf("read") \o <<Do("next")>>)
  <1>1. driver \in Drivers /\ opt \in Options /\ opt.size \in Nat BY Pages DEF InPlan
  <1>2. StepsOf("read") \in {Fetched(opt, RowUnits), Fetched(opt, PageUnits)}
    BY <1>1, OpsOf DEF StepsOf, Drivers, G0Ops, G4Ops, WbOps, GdOps, M4Ops, PyOps, SdOps, SeOps, A3Ops, A4Ops,
          A7Ops, G0Read, G4Read, WbRead, GdRead, M4Read, PyRead, SdRead, SeRead, A3Read, A4Read, A7Read
  <1>3. PICK b \in Nat \ {0} : StepsOf("read") = Fetched(opt, b) BY <1>2, Geometry
  <1>4. PICK f : f = InBlocks("fetch", opt, opt.size, b) OBVIOUS
  <1>5. f \in Seq(StepsBut({})) /\ BlockSteps("fetch", opt.size, f)
    <2>1. "fetch" \in StepNames BY DEF StepNames
    <2> QED BY <1>1, <1>4, <2>1, BlocksCover
  <1>6. Do("save") \in StepsBut({}) /\ Do("next") \in StepsBut({})
    <2>1. "save" \in StepNames \ {} /\ "next" \in StepNames \ {} BY DEF StepNames
    <2> QED BY <2>1, AreaTyped
  <1>7. PICK t : t = StepsOf("read") \o <<Do("next")>> OBVIOUS
  <1>8. t = (f \o <<Do("save")>>) \o <<Do("next")>> BY <1>3, <1>4, <1>7 DEF Fetched
  <1>9. PICK n \in Nat : n = Len(f) BY <1>5
  <1>10. PICK g : g = f \o <<Do("save")>> OBVIOUS
  <1>11. g \in Seq(StepsBut({})) /\ Len(g) = n + 1 /\ g[n + 1] = Do("save") /\ \A i \in 1 .. n : g[i] = f[i]
    BY <1>5, <1>6, <1>9, <1>10
  <1>12. t \in Seq(StepsBut({})) /\ Len(t) = n + 2 /\ t[n + 2] = Do("next") /\ t[n + 1] = g[n + 1]
         /\ \A i \in 1 .. n : t[i] = g[i]
    BY <1>6, <1>8, <1>10, <1>11
  <1>13. \A i \in 1 .. n : t[i].do = "fetch" /\ t[i].at = opt.offset + t[i].from
    BY <1>5, <1>9, <1>11, <1>12 DEF BlockSteps
  <1>14. ASSUME NEW u \in 0 .. opt.size - 1 PROVE \E i \in 1 .. n : ReachesTo(t[i], u)
    BY <1>5, <1>9, <1>11, <1>12 DEF BlockSteps
  <1>15. Len(t) - 2 = n /\ Len(t) - 1 = n + 1 /\ Len(t) >= 2 BY <1>12
  <1> QED BY <1>7, <1>11, <1>12, <1>13, <1>14, <1>15 DEF Reading, Todos

\* A block is read, or the read comes to its end.
LEMMA ReadsWork ==
  ASSUME AskInv, OrderInv, Working, Reading(todo), saved = <<>>
  PROVE  /\ \A i \in DOMAIN saved' : saved'[i] = dev'.flash[opt'.offset + i - 1]
         /\ exit' = "running" =>
              \/ saved' = <<>> /\ (Without(todo', {"save"}) \/ Reading(todo)')
              \/ Still(dev') /\ todo' = <<Do("next")>>
  <1>1. /\ plan # <<>> /\ plan[1] = <<"read", 0>> /\ todo \in Todos /\ Len(todo) \in Nat /\ Len(todo) >= 2
        /\ todo[Len(todo) - 1] = Do("save") /\ todo[Len(todo)] = Do("next") /\ todo # <<>>
        /\ Head(todo) = todo[1]
    BY WorkMoves DEF Reading, Todos
  <1>2. Do("save").do = "save" BY DEF Do, Area
  <1>3. InPlan /\ IsDevice(dev) /\ opt \in Options /\ opt.offset \in Nat /\ opt.size \in Nat /\ opt.size <= Total
    BY Pages DEF AskInv, InPlan
  <1>4. CASE Len(todo) = 2
    <2>1. Head(todo) = Do("save") BY <1>1, <1>4
    <2>2. Save
      <3>1. Flash BY <1>2, <2>1, FlashDoes DEF FlashWork
      <3> QED BY <1>2, <2>1, <3>1 DEF Flash, WaitDone, WaitReady, EraseArea, ProgramArea, EraseChip, SetLock,
                                      Compare, Fetch, Step
    <2>3. saved' = [i \in 1 .. opt.size |-> got[i - 1]] /\ dev' = dev /\ opt' = opt /\ todo' = Tail(todo)
      BY <2>2 DEF Save, Continue
    <2>4. \A u \in 0 .. opt.size - 1 : got[u] = dev.flash[opt.offset + u] /\ Still(dev)
      <3>1. 1 .. Len(todo) - 2 = {} BY <1>4
      <3> QED BY <3>1 DEF Reading
    <2>5. Tail(todo) = <<Do("next")>>
      <3>1. Tail(todo) \in Todos /\ Len(Tail(todo)) = 1 /\ Tail(todo)[1] = Do("next") BY <1>1, <1>4 DEF Todos
      <3>2. <<Do("next")>> \in Todos /\ Len(<<Do("next")>>) = 1 /\ <<Do("next")>>[1] = Do("next")
        <4>1. Do("next") \in StepsBut({}) BY AftermathFirm
        <4> QED BY <4>1 DEF Todos
      <3>3. 1 .. 1 = {1} OBVIOUS
      <3> QED BY <3>1, <3>2, <3>3, SeqEqual DEF Todos
    <2>6. \A i \in 1 .. opt.size : saved'[i] = dev'.flash[opt'.offset + i - 1]
      <3> SUFFICES ASSUME NEW i \in 1 .. opt.size PROVE saved'[i] = dev'.flash[opt'.offset + i - 1] OBVIOUS
      <3>1. i - 1 \in 0 .. opt.size - 1 /\ opt.offset + (i - 1) = opt.offset + i - 1 BY <1>3
      <3>2. got[i - 1] = dev.flash[opt.offset + (i - 1)] BY <2>4, <3>1
      <3> QED BY <2>3, <3>1, <3>2
    <2>7. DOMAIN saved' = 1 .. opt.size BY <2>3
    <2>8. CASE opt.size = 0
      <3>1. saved' = <<>> BY <2>3, <2>8
      <3>2. Do("next") \in StepsBut({"save"})
        <4>1. "next" \in StepNames \ {"save"} BY DEF StepNames
        <4> QED BY <4>1, AreaTyped
      <3>3. Without(<<Do("next")>>, {"save"})
        <4>1. <<Do("next")>> \in Seq(StepsBut({"save"})) BY <3>2
        <4> QED BY <4>1, StepsWithout
      <3> QED BY <2>3, <2>5, <2>6, <2>7, <3>1, <3>3
    <2>9. CASE opt.size # 0
      <3>1. 0 \in 0 .. opt.size - 1 BY <1>3, <2>9
      <3>2. Still(dev) BY <2>4, <3>1
      <3>3. Still(dev') BY <2>3, <3>2
      <3> QED BY <2>3, <2>5, <2>6, <2>7, <3>3
    <2> QED BY <2>8, <2>9
  <1>5. CASE Len(todo) > 2
    <2>1. 1 \in 1 .. Len(todo) - 2 BY <1>1, <1>5
    <2>2. Head(todo).do = "fetch" /\ Head(todo).at = opt.offset + Head(todo).from BY <1>1, <2>1 DEF Reading
    <2>3. Fetch
      <3>1. Flash BY <2>2, FlashDoes DEF FlashWork
      <3> QED BY <2>2, <3>1 DEF Flash, WaitDone, WaitReady, EraseArea, ProgramArea, EraseChip, SetLock,
                                      Compare, Save, Step
    <2>4. saved' = <<>> /\ opt' = opt /\ dev' = Settle(dev) BY <2>3 DEF Fetch
    <2>5. dev'.flash = dev.flash /\ Still(dev') BY <1>3, <2>4, SettleIs DEF Still
    <2>6. DOMAIN saved' = {} BY <2>4
    <2>7. ASSUME exit' = "running" PROVE Reading(todo)'
      <3> DEFINE s == Head(todo)
                 t == Tail(todo)
      <3>1. ~Unreadable(s) /\ todo' = t /\ plan' = plan
        <4>1. ~Stop BY <2>7 DEF Stop
        <4> QED BY <2>3, <4>1 DEF Fetch, Unless, Continue
      <3>2. got' = [u \in Units |-> IF u \in s.from .. s.from + s.len - 1
                                    THEN dev.flash[s.at + u - s.from] ELSE got[u]]
        BY <2>3, <3>1 DEF Fetch
      <3>3. s \in StepsBut({}) BY <1>1 DEF Todos
      <3>4. s.from \in Nat /\ s.len \in Nat /\ s.at \in Nat BY <3>3 DEF StepsBut
      <3>5. t \in Todos /\ Len(t) = Len(todo) - 1 /\ \A i \in 1 .. Len(t) : t[i] = todo[i + 1] BY <1>1 DEF Todos
      <3>6. t[Len(t)] = Do("next") /\ t[Len(t) - 1] = Do("save") /\ Len(t) >= 2
        <4>1. Len(t) \in 1 .. Len(t) /\ Len(t) - 1 \in 1 .. Len(t) /\ Len(t) >= 2 BY <1>1, <1>5, <3>5
        <4>2. t[Len(t)] = todo[Len(t) + 1] /\ t[Len(t) - 1] = todo[Len(t) - 1 + 1] BY <3>5, <4>1
        <4>3. Len(t) + 1 = Len(todo) /\ Len(t) - 1 + 1 = Len(todo) - 1 BY <1>1, <3>5
        <4> QED BY <1>1, <4>1, <4>2, <4>3
      <3>7. ASSUME NEW i \in 1 .. Len(t) - 2 PROVE t[i].do = "fetch" /\ t[i].at = opt.offset + t[i].from
        <4>1. i + 1 \in 1 .. Len(todo) - 2 /\ i \in 1 .. Len(t) BY <1>1, <1>5, <3>5
        <4> QED BY <3>5, <4>1 DEF Reading
      <3>8. ASSUME NEW u \in 0 .. opt.size - 1
            PROVE  \/ \E i \in 1 .. Len(t) - 2 : ReachesTo(t[i], u)
                   \/ got'[u] = dev'.flash[opt.offset + u] /\ Still(dev')
        <4>1. u \in Units /\ u \in Nat
          <5>1. Total \in Nat BY Geometry
          <5> QED BY <1>3, <5>1 DEF Units
        <4>2. CASE ReachesTo(s, u)
          <5>1. u \in s.from .. s.from + s.len - 1 BY <3>4, <4>1, <4>2 DEF ReachesTo
          <5>2. got'[u] = dev.flash[s.at + u - s.from] BY <3>2, <4>1, <5>1
          <5>3. s.at + u - s.from = opt.offset + u BY <1>3, <2>2, <3>4, <4>1
          <5> QED BY <2>5, <5>2, <5>3
        <4>3. CASE ~ReachesTo(s, u)
          <5>1. u \notin s.from .. s.from + s.len - 1 BY <3>4, <4>1, <4>3 DEF ReachesTo
          <5>2. got'[u] = got[u] BY <3>2, <4>1, <5>1
          <5>3. CASE got[u] = dev.flash[opt.offset + u] BY <2>5, <5>2, <5>3
          <5>4. CASE \E i \in 1 .. Len(todo) - 2 : ReachesTo(todo[i], u)
            <6>1. PICK i \in 1 .. Len(todo) - 2 : ReachesTo(todo[i], u) BY <5>4
            <6>2. i # 1 BY <1>1, <4>3, <6>1
            <6>3. i - 1 \in 1 .. Len(t) - 2 /\ i - 1 \in 1 .. Len(t) BY <1>1, <3>5, <6>1, <6>2
            <6>4. t[i - 1] = todo[i] BY <3>5, <6>1, <6>3
            <6> QED BY <6>1, <6>3, <6>4
          <5> QED BY <5>3, <5>4 DEF Reading
        <4> QED BY <4>2, <4>3
      <3>9. Todos' = Todos BY DEF Todos, StepsBut
      <3>10. \A x, y : ReachesTo(x, y)' = ReachesTo(x, y) BY DEF ReachesTo
      <3>11. Reading(todo)' =
              (/\ plan' # <<>> /\ plan'[1] = <<"read", 0>>
               /\ todo' \in Todos /\ Len(todo') >= 2 /\ todo'[Len(todo') - 1] = Do("save")
               /\ todo'[Len(todo')] = Do("next")
               /\ \A i \in 1 .. Len(todo') - 2 : todo'[i].do = "fetch" /\ todo'[i].at = opt'.offset + todo'[i].from
               /\ \A u \in 0 .. opt'.size - 1 :
                    \/ \E i \in 1 .. Len(todo') - 2 : ReachesTo(todo'[i], u)
                    \/ got'[u] = dev'.flash[opt'.offset + u] /\ Still(dev'))
        BY <3>9 DEF Reading, Still, ReachesTo
      <3> HIDE DEF s, t
      <3>12. todo' = t /\ plan' # <<>> /\ plan'[1] = <<"read", 0>> /\ opt' = opt BY <1>1, <2>4, <3>1
      <3> QED BY <3>5, <3>6, <3>7, <3>8, <3>11, <3>12
    <2> QED BY <2>4, <2>6, <2>7
  <1>6. Len(todo) = 2 \/ Len(todo) > 2
    <2>1. PICK n \in Nat : n = Len(todo) BY <1>1
    <2>2. n >= 2 BY <1>1, <2>1
    <2> QED BY <2>1, <2>2
  <1> QED BY <1>4, <1>5, <1>6

\* RunReads speaks of the next state as of this one.
LEMMA ReadsNext ==
  ASSUME UNCHANGED cmd,
         \A i \in DOMAIN saved' : saved'[i] = dev'.flash[opt'.offset + i - 1],
         exit' = "running" =>
           \/ saved' = <<>> /\ (Without(todo', {"save"}) \/ Reading(todo)')
           \/ /\ Still(dev') /\ plan' # <<>>
              /\ \/ plan'[1] = <<"read", 0>> /\ todo' = <<Do("next")>>
                 \/ Place(plan'[1]) > 9 /\ todo' \in Seq(Lull)
  PROVE  RunReads'
  <1>1. Place(plan[1])' = Place(plan'[1]) /\ Lull' = Lull BY DEF Place, Lull
  <1>2. Without(todo, {"save"})' = Without(todo', {"save"}) BY DEF Without
  <1>3. Still(dev)' = Still(dev') BY DEF Still
  <1>4. ReadIsTrue' BY DEF ReadIsTrue
  <1> QED BY <1>1, <1>2, <1>3, <1>4 DEF RunReads

LEMMA LullSteps ==
  /\ Lull \subseteq Firm /\ Aftermath \subseteq Lull
  /\ \A s \in Lull : s.do \notin Writes \cup {"setLock", "options", "save"}
  <1>1. ASSUME NEW X, NEW Y, Y \subseteq X
        PROVE  StepsBut(X) \subseteq StepsBut(Y)
    BY <1>1 DEF StepsBut
  <1>2. Writes \cup {"setLock", "options"} \subseteq Writes \cup {"setLock", "options", "save"} OBVIOUS
  <1>3. Writes \cup {"setLock", "options", "save"} \subseteq FlashWork \cup {"options"} BY DEF Writes, FlashWork
  <1>4. \A s \in Lull : s.do \notin Writes \cup {"setLock", "options", "save"} BY DEF Lull, StepsBut
  <1> QED BY <1>1, <1>2, <1>3, <1>4 DEF Lull, Firm, Aftermath

LEMMA ReadsStep ==
  ASSUME AskInv, OrderInv, RunReads, Next
  PROVE  RunReads'
  <1>0. UNCHANGED cmd /\ exit = "running" /\ (Working \/ Main \/ Begin \/ NextOperation \/ Fail) BY NextIs
  <1>1. InPlan /\ Scheduled(plan) BY DEF OrderInv
  <1>2. CASE Main \/ Begin \/ NextOperation \/ Fail
    <2>1. UNCHANGED <<dev, opt, saved>> BY <1>2, MainLeaves
    <2>2. \A i \in DOMAIN saved' : saved'[i] = dev'.flash[opt'.offset + i - 1]
      BY <2>1 DEF RunReads, ReadIsTrue
    <2>3. Without(<<>>, {"save"})
      <3>1. <<>> \in Seq(StepsBut({"save"})) OBVIOUS
      <3> QED BY <3>1, StepsWithout
    <2>4. CASE exit' = "error" BY <1>0, <2>2, <2>4, ReadsNext
    <2>5. CASE exit' # "error"
      <3>1. CASE Main
        <4>1. plan = <<>> /\ todo' = <<>> BY <3>1 DEF Main
        <4>2. saved = <<>> BY <1>0, <4>1 DEF OrderInv, Unspent
        <4> QED BY <1>0, <2>1, <2>2, <2>3, <4>1, <4>2, ReadsNext
      <3>2. CASE Begin
        <4>1. plan # <<>> /\ todo = <<>> /\ plan' = plan /\ todo' = StepsOf(plan[1][1]) \o <<Do("next")>>
          BY <3>2 DEF Begin
        <4>2. plan[1] \in Jobs BY <1>1, <4>1, ScheduledTail
        <4>3. CASE saved = <<>> /\ (Without(todo, {"save"}) \/ Reading(todo))
          <5>1. CASE plan[1][1] = "read"
            <6>1. plan[1] = <<"read", 0>> BY <1>1, <4>2, <5>1, PlaceRange
            <6>2. Reading(todo)'
              <7>1. Reading(StepsOf("read") \o <<Do("next")>>) BY <1>1, <4>1, <6>1, ReadsBegin
              <7>2. Reading(todo') BY <4>1, <5>1, <7>1
              <7>3. UNCHANGED <<got, opt, dev>> BY <3>2 DEF Begin
              <7>4. Todos' = Todos BY DEF Todos, StepsBut
              <7> QED BY <4>1, <7>2, <7>3, <7>4 DEF Reading, Still, ReachesTo
            <6> QED BY <1>0, <2>1, <2>2, <4>3, <6>2, ReadsNext
          <5>2. CASE plan[1][1] # "read"
            <6>1. Without(StepsOf(plan[1][1]), {"save"}) BY <1>1, <4>1, <5>2, OpSteps
            <6>2. Without(<<Do("next")>>, {"save"})
              <7>1. "next" \in StepNames \ {"save"} BY DEF StepNames
              <7>2. Do("next") \in StepsBut({"save"}) BY <7>1, AreaTyped
              <7>3. <<Do("next")>> \in Seq(StepsBut({"save"})) BY <7>2
              <7> QED BY <7>3, StepsWithout
            <6>3. Without(todo', {"save"}) BY <4>1, <6>1, <6>2, WithoutConcat
            <6> QED BY <1>0, <2>1, <2>2, <4>3, <6>3, ReadsNext
          <5> QED BY <5>1, <5>2
        <4>4. CASE Still(dev) /\ Place(plan[1]) > 9
          <5>1. plan[1][1] \in {"fuse", "deselect", "restart", "close"} BY <1>1, <4>2, <4>4, PlaceNames
          <5>2. todo' \in Seq(Aftermath) BY <1>1, <4>1, <5>1, LateSteps
          <5>3. todo' \in Seq(Lull) BY <5>2, LullSteps
          <5> QED BY <1>0, <2>1, <2>2, <4>1, <4>4, <5>3, ReadsNext
        <4>5. todo # <<Do("next")>> BY <4>1
        <4> QED BY <1>0, <4>3, <4>4, <4>5 DEF RunReads
      <3>3. CASE NextOperation
        <4>1. plan # <<>> /\ plan' = Tail(plan) /\ todo' = <<>> BY <3>3 DEF NextOperation
        <4>2. CASE saved = <<>> BY <1>0, <2>1, <2>2, <2>3, <4>1, <4>2, ReadsNext
        <4>3. CASE saved # <<>>
          <5>1. Still(dev) /\ (plan[1] = <<"read", 0>> \/ Place(plan[1]) > 9) BY <1>0, <4>3 DEF RunReads
          <5>2. Place(plan[1]) \in Nat /\ Place(plan[1]) >= 9
            <6>1. Place(<<"read", 0>>) = 9 BY Places
            <6>2. Place(plan[1]) \in Nat BY <1>1, <4>1, ScheduledTail
            <6> QED BY <5>1, <6>1, <6>2
          <5>3. exit' = "running" => Tail(plan) # <<>>
            <6>1. plan \in Seq(Jobs) BY <1>1, <4>1, ScheduledTail
            <6>2. exit' = "running" => Len(plan) # 1 BY <3>3 DEF NextOperation
            <6> QED BY <4>1, <6>1, <6>2, MoreIsLeft
          <5>4. Tail(plan) # <<>> => Place(Tail(plan)[1]) > 9
            <6>1. Tail(plan) # <<>> => Tail(plan)[1] \in Jobs /\ Place(Tail(plan)[1]) \in Nat
              BY <1>1, <4>1, ScheduledTail
            <6>2. Tail(plan) # <<>> => Place(plan[1]) < Place(Tail(plan)[1]) BY <1>1, <4>1, ScheduledTail
            <6> QED BY <5>2, <6>1, <6>2
          <5>5. <<>> \in Seq(Lull) OBVIOUS
          <5>6. Still(dev') BY <2>1, <5>1
          <5> QED BY <1>0, <2>2, <4>1, <5>3, <5>4, <5>5, <5>6, ReadsNext
        <4> QED BY <4>2, <4>3
      <3>4. Fail => exit' = "error" BY DEF Fail, Stop
      <3> QED BY <1>2, <2>5, <3>1, <3>2, <3>3, <3>4
    <2> QED BY <2>4, <2>5
  <1>3. CASE Working
    <2>1. /\ plan # <<>> /\ todo # <<>> /\ (exit' = "running" => todo' = Tail(todo) /\ plan' = plan)
      <3>1. todo # <<>> BY <1>3, WorkMoves
      <3> QED BY <1>3, <3>1, WorkLeaves DEF OrderInv
    <2>2. CASE saved = <<>> /\ Without(todo, {"save"})
      <3>1. Head(todo).do # "save" /\ Without(Tail(todo), {"save"}) BY <2>1, <2>2, WithoutTail
      <3>2. saved' = <<>> BY <1>3, <2>2, <3>1, SavesOnly
      <3>3. DOMAIN saved' = {} BY <3>2
      <3> QED BY <1>0, <2>1, <3>1, <3>2, <3>3, ReadsNext
    <2>3. CASE saved = <<>> /\ Reading(todo)
      <3>1. /\ \A i \in DOMAIN saved' : saved'[i] = dev'.flash[opt'.offset + i - 1]
            /\ exit' = "running" =>
                 \/ saved' = <<>> /\ (Without(todo', {"save"}) \/ Reading(todo)')
                 \/ Still(dev') /\ todo' = <<Do("next")>>
        BY <1>3, <2>3, ReadsWork
      <3>2. exit' = "running" => plan' # <<>> /\ plan'[1] = <<"read", 0>> BY <2>1, <2>3 DEF Reading
      <3> QED BY <1>0, <3>1, <3>2, ReadsNext
    <2>4. CASE todo = <<Do("next")>>
      <3>1. Head(todo).do = "next" BY <2>4 DEF Do, Area
      <3> QED BY <1>3, <3>1, WorkOf DEF Working, ProbeWork, TargetWork, CheckWork, FlashWork, FuseWork
    <2>5. CASE Still(dev) /\ Place(plan[1]) > 9 /\ todo \in Seq(Lull)
      <3>1. Head(todo) \in Lull /\ Tail(todo) \in Seq(Lull) BY <2>1, <2>5, TailTyped
      <3>2. Head(todo).do \notin Writes /\ Head(todo).do # "options" /\ Head(todo).do # "save"
        BY <3>1, LullSteps
      <3>3. dev'.flash = dev.flash /\ Still(dev') BY <1>3, <2>5, <3>2, StepKeeps
      <3>4. saved' = saved /\ opt' = opt BY <1>3, <3>2, SavesOnly, OptionsLater
      <3>5. \A i \in DOMAIN saved' : saved'[i] = dev'.flash[opt'.offset + i - 1]
        BY <3>3, <3>4 DEF RunReads, ReadIsTrue
      <3> QED BY <1>0, <2>1, <2>5, <3>1, <3>3, <3>5, ReadsNext
    <2> QED BY <1>0, <2>2, <2>3, <2>4, <2>5 DEF RunReads
  <1> QED BY <1>0, <1>2, <1>3

LEMMA ReadsInit == EdbgInit => RunReads
  <1> SUFFICES ASSUME EdbgInit PROVE RunReads OBVIOUS
  <1>1. saved = <<>> /\ todo = <<>> BY DEF EdbgInit, Init
  <1>2. <<>> \in Seq(StepsBut({"save"})) OBVIOUS
  <1>3. Without(todo, {"save"}) BY <1>1, <1>2, StepsWithout
  <1>4. DOMAIN saved = {} BY <1>1
  <1> QED BY <1>1, <1>3, <1>4 DEF RunReads, ReadIsTrue

(* Q holds once the operation e is through, R while it is under way.       *)
Through(e, p, t, x, Q, R) ==
  IF p = <<>> THEN x = "ok" /\ ~Listed => Q
  ELSE (Place(e) < Place(p[1]) => Q) /\ (p[1] = e /\ t # <<>> => R)

LEMMA ThroughStep ==
  ASSUME OrderInv, Next, NEW e \in Wanted, Place(e) > 1, e # <<"close", 0>>,
         NEW Q, NEW R, NEW S, NEW T, Through(e, plan, todo, exit, Q, R),
         (Begin \/ NextOperation) /\ plan # <<>> /\ Place(e) < Place(plan[1]) /\ Q => S,
         Working /\ exit' # "error" /\ Place(e) < Place(plan[1]) /\ Q => S,
         plan # <<>> /\ plan[1] = e /\ todo = <<Do("next")>> /\ R => S,
         Begin /\ plan[1] = e => T,
         Working /\ exit' # "error" /\ plan[1] = e /\ R => T
  PROVE  Through(e, plan', todo', exit', S, T)
  <1>1. InPlan /\ Scheduled(plan) BY DEF OrderInv
  <1>2. CASE exit' = "error"
    <2>1. plan' = <<>> BY OrderStep, <1>2 DEF OrderInv
    <2> QED BY <1>2, <2>1 DEF Through
  <1>3. CASE exit' # "error"
    <2>1. plan # <<>> => plan[1] \in Jobs /\ Place(plan[1]) \in Nat BY <1>1, ScheduledTail
    <2>2. Place(e) \in Nat
      <3>1. e \in Jobs BY DEF Jobs
      <3> QED BY <1>1, <3>1, PlaceRange
    <2>3. CASE Main /\ plan = <<>> /\ todo' = <<>> /\ (exit' = "ok" => Listed)
               /\ (plan' # <<>> => plan'[1] = <<"open", 0>>)
      <3>1. Place(<<"open", 0>>) = 1 BY Places
      <3>2. plan' # <<>> => ~(Place(e) < Place(plan'[1])) BY <2>2, <2>3, <3>1
      <3> QED BY <2>3, <3>2 DEF Through
    <2>4. CASE Begin /\ plan # <<>> /\ plan' = plan
      BY <2>4 DEF Through
    <2>5. CASE NextOperation /\ plan # <<>> /\ todo = <<Do("next")>> /\ todo' = <<>> /\ plan' = Tail(plan)
               /\ (Tail(plan) = <<>> => plan[1] = <<"close", 0>>)
      <3>1. Tail(plan) = <<>> \/ Place(e) < Place(Tail(plan)[1]) => S
        <4> SUFFICES ASSUME Tail(plan) = <<>> \/ Place(e) < Place(Tail(plan)[1]) PROVE S OBVIOUS
        <4>1. CASE Place(e) < Place(plan[1]) BY <2>5, <4>1 DEF Through
        <4>2. CASE ~(Place(e) < Place(plan[1]))
          <5>1. Place(plan[1]) <= Place(e) BY <2>1, <2>2, <2>5, <4>2
          <5>2. Tail(plan) # <<>> => Place(e) < Place(Tail(plan)[1]) OBVIOUS
          <5>3. plan[1] = e BY <1>1, <2>5, <5>1, <5>2, ScheduledTail
          <5> QED BY <2>5, <5>3 DEF Through
        <4> QED BY <4>1, <4>2
      <3> QED BY <2>5, <3>1 DEF Through
    <2>6. CASE Working /\ plan # <<>> /\ plan' = plan /\ todo # <<>>
      BY <1>3, <2>6 DEF Through
    <2> QED BY <1>3, <2>3, <2>4, <2>5, <2>6, RunGoes
  <1> QED BY <1>2, <1>3

\* What an operation of K has left to do stays in T.
LEMMA TodoStep ==
  ASSUME OrderInv, Next, NEW K, NEW T,
         plan # <<>> /\ plan[1] \in K => todo \in Seq(T),
         Begin /\ plan[1] \in K => todo' \in Seq(T)
  PROVE  plan' # <<>> /\ plan'[1] \in K => todo' \in Seq(T)
  <1>0. <<>> \in Seq(T) OBVIOUS
  <1>1. CASE exit' = "error"
    <2>1. plan' = <<>> BY OrderStep, <1>1 DEF OrderInv
    <2> QED BY <2>1
  <1>2. CASE exit' # "error"
    <2>1. CASE todo' = <<>> BY <1>0, <2>1
    <2>2. CASE Begin /\ plan # <<>> /\ plan' = plan BY <2>2
    <2>3. CASE plan # <<>> /\ plan' = plan /\ todo # <<>> /\ todo' = Tail(todo)
      <3> SUFFICES ASSUME plan[1] \in K PROVE todo' \in Seq(T) BY <2>3
      <3>1. todo \in Seq(T) BY <2>3
      <3> QED BY <2>3, <3>1, TailTyped
    <2> QED BY <1>2, <2>1, <2>2, <2>3, RunGoes
  <1> QED BY <1>1, <1>2

(* Behind program nothing changes the flash.                               *)
Keeping == StepsBut(Writes \cup {"options"})
Behindhand == {e \in Jobs : Place(e) > 6}
RunKeeps == plan # <<>> /\ plan[1] \in Behindhand => todo \in Seq(Keeping)

LEMMA LockKeeps == driver \in Drivers => Ops(driver, opt).lock \in Seq(Keeping)
  <1> SUFFICES ASSUME driver \in Drivers PROVE Ops(driver, opt).lock \in Seq(Keeping) OBVIOUS
  <1>1. {"setLock", "wait", "settle", "unimplemented"} \subseteq StepNames \ (Writes \cup {"options"})
    BY DEF StepNames, Writes
  <1>2. Do("setLock") \in Keeping /\ Do("wait") \in Keeping /\ Do("settle") \in Keeping
        /\ Do("unimplemented") \in Keeping
    BY <1>1, AreaTyped DEF Keeping
  <1>3. /\ <<Do("setLock")>> \in Seq(Keeping) /\ <<Do("wait")>> \in Seq(Keeping)
        /\ <<Do("unimplemented")>> \in Seq(Keeping) /\ <<Do("setLock"), Do("settle")>> \in Seq(Keeping)
    BY <1>2
  <1>4. <<Do("setLock")>> \o <<Do("wait")>> \in Seq(Keeping) BY <1>3
  <1>5. Ops(driver, opt).lock \in {Unimplemented, GdLock, PyLock, M4Lock, SdLock, SeLock, A3Lock, A4Lock, A7Lock}
    BY OpsOf DEF Drivers, G0Ops, G4Ops, WbOps, GdOps, M4Ops, PyOps, SdOps, SeOps, A3Ops, A4Ops, A7Ops
  <1>6. /\ Unimplemented = <<Do("unimplemented")>> /\ M4Lock = <<Do("setLock"), Do("settle")>>
        /\ GdLock = <<Do("setLock")>> \o <<Do("wait")>> /\ PyLock = <<Do("setLock")>> \o <<Do("wait")>>
        /\ SdLock = <<Do("setLock")>> /\ SeLock = SdLock /\ A3Lock = SdLock /\ A4Lock = SdLock /\ A7Lock = SdLock
    BY DEF Unimplemented, GdLock, GdWait, M4Lock, M4Write, PyLock, PyWait, SdLock, SeLock, A3Lock, A4Lock, A7Lock
  <1> QED BY <1>3, <1>4, <1>5, <1>6

LEMMA KeepsBegin ==
  ASSUME InPlan, plan # <<>>, plan[1] \in Behindhand
  PROVE  StepsOf(plan[1][1]) \o <<Do("next")>> \in Seq(Keeping)
  <1>1. driver \in Drivers BY DEF InPlan
  <1>2. Firm \subseteq Keeping BY DEF Firm, Keeping, StepsBut
  <1>3. plan[1][1] \in {"lock", "read", "fuse", "deselect", "restart", "close"} \/ plan[1][1] = "verify"
    <2>1. plan[1] \in Jobs /\ Place(plan[1]) > 6 BY DEF Behindhand
    <2>2. Place(plan[1]) \in Nat BY <2>1, PlaceRange
    <2>3. Place(plan[1]) > 7 \/ Place(plan[1]) = 7 BY <2>1, <2>2
    <2> QED BY <2>1, <2>3, PlaceNames
  <1>4. CASE plan[1][1] = "lock"
    <2>1. StepsOf("lock") \in Seq(Keeping) BY <1>1, LockKeeps DEF StepsOf
    <2>2. Do("next") \in Keeping BY <1>2, AftermathFirm
    <2>3. <<Do("next")>> \in Seq(Keeping) BY <2>2
    <2> QED BY <1>4, <2>1, <2>3
  <1>5. CASE plan[1][1] # "lock"
    <2>1. StepsOf(plan[1][1]) \o <<Do("next")>> \in Seq(Firm) BY <1>3, <1>5, LateSteps
    <2> QED BY <1>2, <2>1
  <1> QED BY <1>4, <1>5

LEMMA KeepsStep ==
  ASSUME OrderInv, RunKeeps, Next
  PROVE  RunKeeps'
  <1>1. UNCHANGED cmd BY NextIs
  <1>2. Begin /\ plan[1] \in Behindhand => todo' \in Seq(Keeping)
    <2> SUFFICES ASSUME Begin, plan[1] \in Behindhand PROVE todo' \in Seq(Keeping) OBVIOUS
    <2>1. InPlan BY DEF OrderInv
    <2>2. plan # <<>> /\ todo' = StepsOf(plan[1][1]) \o <<Do("next")>> BY DEF Begin
    <2> QED BY <2>1, <2>2, KeepsBegin
  <1>3. plan' # <<>> /\ plan'[1] \in Behindhand => todo' \in Seq(Keeping) BY <1>2, TodoStep DEF RunKeeps
  <1>4. Behindhand' = Behindhand
    <2>1. Jobs' = Jobs BY <1>1 DEF Jobs, Wanted, Active
    <2>2. \A e : Place(e)' = Place(e) BY <1>1 DEF Place
    <2> QED BY <2>1, <2>2 DEF Behindhand
  <1>5. Keeping' = Keeping BY DEF Keeping, Writes, StepsBut
  <1> QED BY <1>3, <1>4, <1>5 DEF RunKeeps

LEMMA KeepsInit == EdbgInit => RunKeeps
  BY DEF EdbgInit, Init, RunKeeps

(* What is compared is what is stored.                                     *)
AtRest(d) == opt.file = 0 \/ Still(d)
Comparing(t) ==
  /\ t \in Todos /\ Len(t) >= 1 /\ t[Len(t)] = Do("next")
  /\ \A i \in 1 .. Len(t) - 1 : t[i].do = "compare" /\ t[i].at = opt.offset + t[i].from
  /\ \A u \in 0 .. opt.file - 1 :
       \/ \E i \in 1 .. Len(t) - 1 : ReachesTo(t[i], u)
       \/ dev.flash[opt.offset + u] = FileByte(u) /\ Still(dev)
RunVerifies ==
  "verify" \in cmd.acts =>
    Through(<<"verify", 0>>, plan, todo, exit, Stored /\ AtRest(dev), Comparing(todo))

LEMMA VerifyBegins ==
  ASSUME InPlan
  PROVE  Comparing(StepsOf("verify") \o <<Do("next")>>)
  <1>1. driver \in Drivers /\ opt \in Options /\ opt.file \in Nat BY Pages DEF InPlan
  <1>2. StepsOf("verify") \in {Compared(opt, RowUnits), Compared(opt, PageUnits)}
    BY <1>1, OpsOf DEF StepsOf, Drivers, G0Ops, G4Ops, WbOps, GdOps, M4Ops, PyOps, SdOps, SeOps, A3Ops, A4Ops,
          A7Ops, G0Verify, G4Verify, WbVerify, GdVerify, M4Verify, PyVerify, SdVerify, SeVerify, A3Verify,
          A4Verify, A7Verify
  <1>3. PICK b \in Nat \ {0} : StepsOf("verify") = Compared(opt, b) BY <1>2, Geometry
  <1>4. PICK f : f = InBlocks("compare", opt, opt.file, b) OBVIOUS
  <1>5. f \in Seq(StepsBut({})) /\ BlockSteps("compare", opt.file, f)
    <2>1. "compare" \in StepNames BY DEF StepNames
    <2> QED BY <1>1, <1>4, <2>1, BlocksCover
  <1>6. Do("next") \in StepsBut({}) BY AftermathFirm
  <1>7. PICK t : t = StepsOf("verify") \o <<Do("next")>> OBVIOUS
  <1>8. t = f \o <<Do("next")>> BY <1>3, <1>4, <1>7 DEF Compared
  <1>9. PICK n \in Nat : n = Len(f) BY <1>5
  <1>10. t \in Seq(StepsBut({})) /\ Len(t) = n + 1 /\ t[n + 1] = Do("next") /\ \A i \in 1 .. n : t[i] = f[i]
    BY <1>5, <1>6, <1>8, <1>9
  <1>11. \A i \in 1 .. n : t[i].do = "compare" /\ t[i].at = opt.offset + t[i].from
    BY <1>5, <1>9, <1>10 DEF BlockSteps
  <1>12. ASSUME NEW u \in 0 .. opt.file - 1 PROVE \E i \in 1 .. n : ReachesTo(t[i], u)
    BY <1>5, <1>9, <1>10 DEF BlockSteps
  <1>13. Len(t) - 1 = n /\ Len(t) >= 1 BY <1>10
  <1> QED BY <1>7, <1>10, <1>11, <1>12, <1>13 DEF Comparing, Todos

\* A block is compared, or the process ends.
LEMMA VerifyWorks ==
  ASSUME AskInv, OrderInv, Working, exit' # "error", Comparing(todo)
  PROVE  Comparing(todo)'
  <1>0. todo # <<>> /\ exit = "running" BY WorkMoves
  <1>1. /\ todo \in Todos /\ Len(todo) \in Nat /\ Len(todo) >= 1
        /\ todo[Len(todo)] = Do("next") /\ Head(todo) = todo[1]
    BY <1>0 DEF Comparing, Todos
  <1>2. InPlan /\ IsDevice(dev) /\ opt \in Options /\ opt.offset \in Nat /\ opt.file \in Nat
    BY Pages DEF AskInv, InPlan
  <1>3. Len(todo) > 1
    <2>1. Head(todo).do # "next"
      BY WorkOf DEF Working, ProbeWork, TargetWork, CheckWork, FlashWork, FuseWork
    <2>2. Do("next").do = "next" BY DEF Do, Area
    <2>3. Len(todo) # 1 BY <1>1, <2>1, <2>2
    <2>4. PICK n \in Nat : n = Len(todo) BY <1>1
    <2> QED BY <1>1, <2>3, <2>4
  <1>4. 1 \in 1 .. Len(todo) - 1 BY <1>1, <1>3
  <1>5. Head(todo).do = "compare" /\ Head(todo).at = opt.offset + Head(todo).from
    BY <1>1, <1>4 DEF Comparing
  <1>6. Compare
    <2>1. Flash BY <1>5, WorkOf DEF Step, Working, ProbeWork, TargetWork, CheckWork, FlashWork, FuseWork
    <2> QED BY <1>5, <2>1 DEF Flash, WaitDone, WaitReady, EraseArea, ProgramArea, EraseChip, SetLock,
                              Fetch, Save, Step
  <1>7. opt' = opt /\ dev' = Settle(dev) BY <1>6 DEF Compare, OnlyDevice
  <1>8. dev'.flash = dev.flash /\ Still(dev') BY <1>2, <1>7, SettleIs DEF Still
  <1> DEFINE s == Head(todo)
             t == Tail(todo)
  <1>9. todo' = t
        /\ \A i \in 0 .. s.len - 1 : s.from + i < opt.file => dev.flash[s.at + i] = Buffer(s.from + i)
    BY <1>6 DEF Compare, Unless, Stop, Continue
  <1>10. s.from \in Nat /\ s.len \in Nat /\ s.at \in Nat
    <2>1. s \in StepsBut({}) BY <1>1 DEF Todos
    <2> QED BY <2>1 DEF StepsBut
  <1>11. t \in Todos /\ Len(t) = Len(todo) - 1 /\ \A i \in 1 .. Len(t) : t[i] = todo[i + 1]
    BY <1>0, <1>1 DEF Todos
  <1>12. t[Len(t)] = Do("next") /\ Len(t) >= 1
    <2>1. Len(t) \in 1 .. Len(t) /\ Len(t) >= 1 BY <1>1, <1>3, <1>11
    <2>2. t[Len(t)] = todo[Len(t) + 1] BY <1>11, <2>1
    <2>3. Len(t) + 1 = Len(todo) BY <1>1, <1>11
    <2> QED BY <1>1, <2>1, <2>2, <2>3
  <1>13. ASSUME NEW i \in 1 .. Len(t) - 1 PROVE t[i].do = "compare" /\ t[i].at = opt.offset + t[i].from
    <2>1. i + 1 \in 1 .. Len(todo) - 1 /\ i \in 1 .. Len(t) BY <1>1, <1>3, <1>11
    <2> QED BY <1>11, <2>1 DEF Comparing
  <1>14. ASSUME NEW u \in 0 .. opt.file - 1
         PROVE  \/ \E i \in 1 .. Len(t) - 1 : ReachesTo(t[i], u)
                \/ dev'.flash[opt.offset + u] = FileByte(u) /\ Still(dev')
    <2>1. u \in Nat /\ u < opt.file BY <1>2
    <2>2. CASE ReachesTo(s, u)
      <3>1. PICK i \in Int : i = u - s.from BY <1>10, <2>1
      <3>2. i \in 0 .. s.len - 1 /\ s.from + i = u /\ s.at + i = opt.offset + u
        BY <1>2, <1>5, <1>10, <2>1, <2>2, <3>1 DEF ReachesTo
      <3>3. dev.flash[opt.offset + u] = Buffer(u) BY <1>9, <2>1, <3>2
      <3>4. Buffer(u) = FileByte(u) BY <2>1 DEF Buffer
      <3> QED BY <1>8, <3>3, <3>4
    <2>3. CASE ~ReachesTo(s, u)
      <3>1. CASE dev.flash[opt.offset + u] = FileByte(u) BY <1>8, <3>1
      <3>2. CASE \E i \in 1 .. Len(todo) - 1 : ReachesTo(todo[i], u)
        <4>1. PICK i \in 1 .. Len(todo) - 1 : ReachesTo(todo[i], u) BY <3>2
        <4>2. i # 1 BY <1>1, <2>3, <4>1
        <4>3. i - 1 \in 1 .. Len(t) - 1 /\ i - 1 \in 1 .. Len(t) BY <1>1, <1>11, <4>1, <4>2
        <4>4. t[i - 1] = todo[i] BY <1>11, <4>1, <4>3
        <4> QED BY <4>1, <4>3, <4>4
      <3> QED BY <3>1, <3>2 DEF Comparing
    <2> QED BY <2>2, <2>3
  <1>15. Todos' = Todos BY DEF Todos, StepsBut
  <1>16. Comparing(todo)' =
           (/\ todo' \in Todos /\ Len(todo') >= 1 /\ todo'[Len(todo')] = Do("next")
            /\ \A i \in 1 .. Len(todo') - 1 : todo'[i].do = "compare" /\ todo'[i].at = opt'.offset + todo'[i].from
            /\ \A u \in 0 .. opt'.file - 1 :
                 \/ \E i \in 1 .. Len(todo') - 1 : ReachesTo(todo'[i], u)
                 \/ dev'.flash[opt'.offset + u] = FileByte(u) /\ Still(dev'))
    BY <1>15 DEF Comparing, Still, ReachesTo, FileByte
  <1> HIDE DEF s, t
  <1> QED BY <1>7, <1>9, <1>11, <1>12, <1>13, <1>14, <1>16

\* The end of the comparison.
LEMMA VerifyEnds ==
  ASSUME InPlan, todo = <<Do("next")>>, Comparing(todo)
  PROVE  Stored /\ AtRest(dev)
  <1>1. opt.file \in Nat BY Pages DEF InPlan
  <1>2. Len(todo) = 1 OBVIOUS
  <1>3. \A u \in 0 .. opt.file - 1 : dev.flash[opt.offset + u] = FileByte(u) /\ Still(dev)
    BY <1>2 DEF Comparing
  <1>4. opt.file # 0 => Still(dev)
    <2>1. opt.file # 0 => 0 \in 0 .. opt.file - 1 BY <1>1
    <2> QED BY <1>3, <2>1
  <1> QED BY <1>3, <1>4 DEF Stored, AtRest

\* What is stored stays.
LEMMA StoredKept ==
  ASSUME AskInv, OrderInv, RunKeeps, Working, plan # <<>>, Place(plan[1]) > 6, Stored, AtRest(dev)
  PROVE  Stored' /\ AtRest(dev)'
  <1>1. InPlan /\ Scheduled(plan) /\ todo # <<>> BY WorkMoves DEF OrderInv
  <1>2. plan[1] \in Jobs BY <1>1, ScheduledTail
  <1>3. todo \in Seq(Keeping) BY <1>2 DEF RunKeeps, Behindhand
  <1>4. Head(todo) \in Keeping BY <1>1, <1>3
  <1>5. Head(todo).do \notin Writes /\ Head(todo).do # "options" BY <1>4 DEF Keeping, StepsBut
  <1>6. opt' = opt BY <1>5, OptionsLater
  <1>7. Still(dev) => dev'.flash = dev.flash /\ Still(dev') BY <1>5, StepKeeps
  <1>8. CASE opt.file = 0
    <2>1. 0 .. opt'.file - 1 = {} BY <1>6, <1>8
    <2> QED BY <1>6, <1>8, <2>1 DEF Stored, AtRest
  <1>9. CASE Still(dev)
    <2>1. Still(dev)' BY <1>7, <1>9 DEF Still
    <2> QED BY <1>6, <1>7, <1>9, <2>1 DEF Stored, AtRest, FileByte
  <1> QED BY <1>8, <1>9 DEF AtRest

LEMMA VerifiesStep ==
  ASSUME AskInv, OrderInv, RunKeeps, RunVerifies, Next
  PROVE  RunVerifies'
  <1>0. UNCHANGED cmd /\ exit = "running" /\ (Working \/ Main \/ Begin \/ NextOperation \/ Fail) BY NextIs
  <1>1. InPlan /\ Scheduled(plan) BY DEF OrderInv
  <1> SUFFICES ASSUME "verify" \in cmd.acts PROVE RunVerifies' BY <1>0 DEF RunVerifies
  <1> DEFINE e == <<"verify", 0>>
  <1>2. Place(e) = 7 BY Places
  <1>3. e \in Wanted /\ e # <<"close", 0>> BY DEF Wanted
  <1>4. Through(e, plan, todo, exit, Stored /\ AtRest(dev), Comparing(todo)) BY DEF RunVerifies
  <1>5. ASSUME ~Working, Stored /\ AtRest(dev) PROVE (Stored /\ AtRest(dev))'
    <2>1. UNCHANGED <<dev, opt>> BY <1>0, <1>5, MainLeaves
    <2> QED BY <1>5, <2>1 DEF Stored, AtRest, Still, FileByte
  <1>6. ASSUME Working, Place(e) < Place(plan[1]), Stored /\ AtRest(dev) PROVE (Stored /\ AtRest(dev))'
    <2>1. plan # <<>>
      <3>1. todo # <<>> BY <1>6, WorkMoves
      <3> QED BY <3>1 DEF OrderInv
    <2>2. Place(plan[1]) \in Nat BY <1>1, <2>1, ScheduledTail
    <2>3. Place(plan[1]) > 6 BY <1>2, <1>6, <2>2
    <2> QED BY <1>6, <2>1, <2>3, StoredKept
  <1>7. ASSUME todo = <<Do("next")>>, Comparing(todo), Next PROVE (Stored /\ AtRest(dev))'
    <2>1. Stored /\ AtRest(dev) BY <1>1, <1>7, VerifyEnds
    <2>2. ~Working
      <3>1. Working => Head(todo).do # "next"
        BY WorkOf DEF Working, ProbeWork, TargetWork, CheckWork, FlashWork, FuseWork
      <3>2. Head(todo).do = "next" BY <1>7 DEF Do, Area
      <3> QED BY <3>1, <3>2
    <2> QED BY <1>5, <2>1, <2>2
  <1>8. ASSUME Begin, plan[1] = e PROVE Comparing(todo)'
    <2>1. todo' = StepsOf("verify") \o <<Do("next")>> /\ UNCHANGED <<opt, dev>> BY <1>8 DEF Begin
    <2>2. Comparing(todo') BY <1>1, <2>1, VerifyBegins
    <2>3. Todos' = Todos BY DEF Todos, StepsBut
    <2> QED BY <2>1, <2>2, <2>3 DEF Comparing, Still, ReachesTo, FileByte
  <1>9. ASSUME Working, exit' # "error", Comparing(todo) PROVE Comparing(todo)' BY <1>9, VerifyWorks
  <1>10. Through(e, plan', todo', exit', (Stored /\ AtRest(dev))', Comparing(todo)')
    <2> DEFINE Q == Stored /\ AtRest(dev)
               R == Comparing(todo)
               S == (Stored /\ AtRest(dev))'
               T == Comparing(todo)'
    <2>1. (Begin \/ NextOperation) /\ plan # <<>> /\ Place(e) < Place(plan[1]) /\ Q => S
      <3>1. (Begin \/ NextOperation) => ~Working
        <4>1. Working => Head(todo).do # "next" /\ todo # <<>>
          BY WorkOf, WorkMoves DEF Working, ProbeWork, TargetWork, CheckWork, FlashWork, FuseWork
        <4>2. NextOperation => Head(todo).do = "next" BY DEF NextOperation, Do, Area
        <4>3. Begin => todo = <<>> BY DEF Begin
        <4> QED BY <4>1, <4>2, <4>3
      <3> QED BY <1>5, <3>1
    <2>2. Working /\ exit' # "error" /\ Place(e) < Place(plan[1]) /\ Q => S BY <1>6
    <2>3. plan # <<>> /\ plan[1] = e /\ todo = <<Do("next")>> /\ R => S BY <1>7
    <2>4. Begin /\ plan[1] = e => T BY <1>8
    <2>5. Working /\ exit' # "error" /\ plan[1] = e /\ R => T BY <1>9
    <2>6. Through(e, plan, todo, exit, Q, R) BY <1>4
    <2>7. Place(e) > 1 BY <1>2
    <2> HIDE DEF e, Q, R, S, T
    <2>8. Through(e, plan', todo', exit', S, T) BY <1>3, <2>1, <2>2, <2>3, <2>4, <2>5, <2>6, <2>7, ThroughStep
    <2> QED BY <2>8 DEF Q, R, S, T
  <1>11. Place(e)' = Place(e) /\ Listed' = Listed /\ Place(plan[1])' = Place(plan'[1]) BY <1>0 DEF Place, Listed
  <1> QED BY <1>10, <1>11 DEF RunVerifies, Through

LEMMA VerifiesInit == EdbgInit => RunVerifies
  BY DEF EdbgInit, Init, RunVerifies, Through

LEMMA VerifiesHold ==
  ASSUME RunVerifies, "verify" \in cmd.acts, exit = "ok", OrderInv
  PROVE  Stored
  <1>1. CASE Listed
    <2>1. opt = NoOptions BY <1>1 DEF OrderInv, Unspent
    <2>2. 0 .. opt.file - 1 = {} BY <2>1 DEF NoOptions
    <2> QED BY <2>2 DEF Stored
  <1>2. CASE ~Listed
    <2>1. plan = <<>> BY DEF OrderInv
    <2> QED BY <1>2, <2>1 DEF RunVerifies, Through
  <1> QED BY <1>1, <1>2
-----------------------------------------------------------------------------
(* A run, from its first step to its last *)

OutcomeInv == ReleaseInv /\ RunLocks /\ RunReads /\ RunKeeps /\ RunVerifies

LEMMA OutcomeInit == EdbgInit => OutcomeInv
  BY ReleaseInit, LocksInit, ReadsInit, KeepsInit, VerifiesInit DEF OutcomeInv

LEMMA OutcomeStill ==
  ASSUME OutcomeInv, UNCHANGED vars
  PROVE  RunLocks' /\ RunReads' /\ RunKeeps' /\ RunVerifies'
  <1>1. UNCHANGED <<driver, cmd, world, dev, opt, plan, todo, got, saved, exit>> BY DEF vars
  <1>2. RunLocks /\ RunReads /\ RunKeeps /\ RunVerifies BY DEF OutcomeInv
  <1>3. Place(plan[1])' = Place(plan[1]) /\ \A e : Place(e)' = Place(e) BY <1>1 DEF Place
  <1>4. Listed' = Listed BY <1>1 DEF Listed
  <1>5. RunLocks' BY <1>1, <1>2, <1>3, <1>4 DEF RunLocks, Locking, Sealed, Firm
  <1>6. RunReads'
    <2>1. Reading(todo)' = Reading(todo) /\ Without(todo, {"save"})' = Without(todo, {"save"})
      BY <1>1 DEF Reading, Without, Still, Todos
    <2>2. ReadIsTrue' BY <1>1, <1>2 DEF RunReads, ReadIsTrue
    <2> QED BY <1>1, <1>2, <1>3, <2>1, <2>2 DEF RunReads, Lull, Still
  <1>7. RunKeeps'
    <2>1. Jobs' = Jobs BY <1>1 DEF Jobs, Wanted, Active
    <2> QED BY <1>1, <1>2, <1>3, <2>1 DEF RunKeeps, Behindhand, Keeping
  <1>8. RunVerifies'
    <2>1. (Stored /\ AtRest(dev))' = (Stored /\ AtRest(dev)) BY <1>1 DEF Stored, AtRest, Still, FileByte
    <2>2. Comparing(todo)' = Comparing(todo) BY <1>1 DEF Comparing, Still, Todos
    <2> QED BY <1>1, <1>2, <1>3, <1>4, <2>1, <2>2 DEF RunVerifies, Through
  <1> QED BY <1>5, <1>6, <1>7, <1>8

\* A step of the whole program is one of main's or leaves main alone.
LEMMA MainSteps == ASSUME [EdbgNext]_edbgVars PROVE UNCHANGED vars \/ Next
  BY DEF EdbgNext, SessionStep, QueueStep, JtagStep, edbgVars

LEMMA OutcomeStep == ASSUME OutcomeInv, [EdbgNext]_edbgVars PROVE OutcomeInv'
  <1>1. ReleaseInv' BY ReleaseStep DEF OutcomeInv
  <1>2. AskInv /\ OrderInv /\ RunLocks /\ RunReads /\ RunKeeps /\ RunVerifies
    BY DEF OutcomeInv, ReleaseInv
  <1>3. CASE UNCHANGED vars BY <1>1, <1>2, <1>3, OutcomeStill DEF OutcomeInv
  <1>4. CASE Next
    <2>1. RunLocks' BY <1>2, <1>4, LocksStep
    <2>2. RunReads' BY <1>2, <1>4, ReadsStep
    <2>3. RunKeeps' BY <1>2, <1>4, KeepsStep
    <2>4. RunVerifies' BY <1>2, <1>4, VerifiesStep
    <2> QED BY <1>1, <2>1, <2>2, <2>3, <2>4 DEF OutcomeInv
  <1> QED BY <1>3, <1>4, MainSteps

\* What inductiveness gives of every state.
LEMMA OutcomeHolds == EdbgSpec => []OutcomeInv
  <1>1. EdbgInit => OutcomeInv BY OutcomeInit
  <1>2. OutcomeInv /\ [EdbgNext]_edbgVars => OutcomeInv' BY OutcomeStep
  <1> QED BY <1>1, <1>2, PTL DEF EdbgSpec

(* A run of edbg that was to lock the device and ends without an error has *)
(* locked it, where the driver waits for the bit before the reset.         *)
THEOREM LocksAreSet == EdbgSpec => []LockIsSet
  <1>1. OutcomeInv => LockIsSet BY LocksHold DEF OutcomeInv
  <1> QED BY <1>1, OutcomeHolds, PTL

(* The file that read saves is what the flash holds, at the time and for   *)
(* the rest of the run, however it ends.                                   *)
THEOREM ReadsAreTrue == EdbgSpec => []ReadIsTrue
  <1>1. OutcomeInv => ReadIsTrue BY DEF OutcomeInv, RunReads
  <1> QED BY <1>1, OutcomeHolds, PTL
=============================================================================
