------------------------------- MODULE IoProofs --------------------------------
(***************************************************************************)
(* The three parts at the edge of the programs: the scanner of the keypad, *)
(* main.py, that of the metadata of an image, FirmwareImage.cpp, and the   *)
(* pins and the reset gate, HardwareAbstraction.cpp.                       *)
(*                                                                         *)
(* The keypad, for every matrix, every DEBOUNCE_MS and every period of the *)
(* tick counter that is more than four times as long: a scan that no       *)
(* switch disturbs returns what is pressed, and keys are reported only     *)
(* after scans that agreed for DEBOUNCE_MS, also when the counter wraps in *)
(* between.  The invariant has a part for each.  InStep relates the        *)
(* counter to the agreement it measures: up to DEBOUNCE_MS, it has         *)
(* advanced since candidate_since by exactly the ticks for which every     *)
(* scan has returned the candidate.  SeenSoFar says what a scan has found  *)
(* when it has come to a row.                                              *)
(*                                                                         *)
(* The metadata, for every image, every buffer it is read into, every list *)
(* of names and every capacity of the run: the board is the one that the   *)
(* first naming piece of the image names.  Scanned says what the scanner   *)
(* knows after n bytes: the run it collects is the piece, from its start,  *)
(* that byte n is in, and the board is the one named by the pieces before. *)
(* That every byte of a buffer keeps it is an induction over the buffer,   *)
(* by the least byte that would not.                                       *)
(*                                                                         *)
(* The pins, for every number of faults and both kinds of supply reading:  *)
(* PinsInv of SwdPins is inductive and implies its properties.             *)
(***************************************************************************)
EXTENDS KeypadScan, MetadataScanner, SwdPins, SequenceTheorems, WellFoundedInduction, TLAPS

InStep == quiet < Debounce => now = (since + quiet) % Wrap

SeenSoFar == ~moved /\ ~SharesColumn => pressed = {k \in closed : k[1] < row}

KeypadInv == KeypadTypeOK /\ InStep

-----------------------------------------------------------------------------
(* The keypad: ticks *)

\* The remainder of a number less than two periods.
LEMMA Remainder ==
  ASSUME NEW n \in Nat, n < 2 * Wrap
  PROVE  n % Wrap = IF n < Wrap THEN n ELSE n - Wrap
  BY KeypadAssumption, Z3 DEF KeypadAssumption

\* ticks_diff does not exceed what has been added, and agrees with it up to half
\* a period.
LEMMA TicksSince ==
  ASSUME NEW a \in 0 .. Wrap - 1, NEW n \in Nat, n < Wrap
  PROVE  /\ TicksDiff((a + n) % Wrap, a) <= n
         /\ n < Wrap \div 2 => TicksDiff((a + n) % Wrap, a) = n
  <1>1. Wrap \in Nat BY KeypadAssumption DEF KeypadAssumption
  <1>2. (a + n) % Wrap = IF a + n < Wrap THEN a + n ELSE a + n - Wrap
    BY <1>1, Remainder
  <1> DEFINE t == (a + n) % Wrap
  <1>3. t \in 0 .. Wrap - 1 BY <1>1, <1>2
  <1>4. t - a + Wrap \in Nat /\ t - a + Wrap < 2 * Wrap BY <1>1, <1>3
  <1>5. (t - a + Wrap) % Wrap = n
    <2>1. CASE a + n < Wrap
      <3>1. t - a + Wrap = n + Wrap BY <1>1, <1>2, <2>1
      <3> QED BY <1>1, <1>4, <3>1, Remainder
    <2>2. CASE ~(a + n < Wrap)
      <3>1. t - a + Wrap = n BY <1>1, <1>2, <2>2
      <3> QED BY <1>1, <1>4, <3>1, Remainder
    <2> QED BY <2>1, <2>2
  <1> HIDE DEF t
  <1>6. TicksDiff(t, a) = IF n < Wrap \div 2 THEN n ELSE n - Wrap BY <1>5 DEF TicksDiff
  <1> QED BY <1>1, <1>6 DEF t

\* A tick more, modulo the period.
LEMMA TicksAdd ==
  ASSUME NEW a \in 0 .. Wrap - 1, NEW n \in Nat, NEW k \in Nat, n + k < Wrap
  PROVE  (((a + n) % Wrap) + k) % Wrap = (a + (n + k)) % Wrap
  <1>1. Wrap \in Nat \ {0} BY KeypadAssumption DEF KeypadAssumption
  <1>2. (a + n) % Wrap = IF a + n < Wrap THEN a + n ELSE a + n - Wrap
    BY <1>1, Remainder
  <1>3. (a + (n + k)) % Wrap = IF a + n + k < Wrap THEN a + n + k ELSE a + n + k - Wrap
    BY <1>1, Remainder
  <1> DEFINE t == (a + n) % Wrap
  <1>4. t \in 0 .. Wrap - 1 /\ t + k \in Nat /\ t + k < 2 * Wrap BY <1>1, <1>2
  <1> HIDE DEF t
  <1>5. (t + k) % Wrap = IF t + k < Wrap THEN t + k ELSE t + k - Wrap BY <1>1, <1>4, Remainder
  <1> QED BY <1>1, <1>2, <1>3, <1>4, <1>5 DEF t

-----------------------------------------------------------------------------
(* The keypad: its steps *)

\* What a read of a row finds are columns of it.
LEMMA ReadColumns ==
  ASSUME NEW r \in 1 .. Rows, NEW columns \in Readings(r)
  PROVE  columns \subseteq 1 .. Columns
  BY DEF Readings

\* A pass of the loop of run keeps the counter in step.
LEMMA DebouncingInv ==
  ASSUME KeypadInv, NEW ticks \in 1 .. 2, Debouncing(ticks)
  PROVE  KeypadInv'
  <1>1. /\ Wrap \in Nat /\ Wrap > 4 * Debounce /\ Debounce \in Nat \ {0}
        /\ Rows \in Nat \ {0}
    BY KeypadAssumption DEF KeypadAssumption
  <1>2. KeypadTypeOK /\ InStep BY DEF KeypadInv
  <1> DEFINE t == (now + ticks) % Wrap
  <1>3. t \in 0 .. Wrap - 1 BY <1>1, <1>2, Z3 DEF KeypadTypeOK
  <1>4. now' = t /\ row' = 1 /\ pressed' = {} /\ moved' = FALSE /\ UNCHANGED <<closed, moves>>
    BY DEF Debouncing
  <1>5. CASE pressed # candidate
    <2>1. candidate' = pressed /\ since' = t /\ quiet' = 0 /\ UNCHANGED stable
      BY <1>5 DEF Debouncing, RestartTimer
    <2> HIDE DEF t
    <2>2. KeypadTypeOK'
      <3>1. row' \in 1 .. Rows + 1 BY <1>1, <1>4
      <3>2. quiet' \in 0 .. Debounce + 1 BY <1>1, <2>1
      <3>3. since' \in 0 .. Wrap - 1 /\ now' \in 0 .. Wrap - 1 BY <1>3, <1>4, <2>1
      <3> QED BY <1>2, <1>4, <2>1, <3>1, <3>2, <3>3 DEF KeypadTypeOK
    <2>3. (t + 0) % Wrap = t BY <1>1, <1>3, Remainder
    <2>4. InStep' BY <1>4, <2>1, <2>3 DEF InStep
    <2> QED BY <2>2, <2>4 DEF KeypadInv
  <1>6. CASE pressed = candidate
    <2>1. /\ quiet' = IF quiet < Debounce THEN quiet + ticks ELSE quiet
          /\ UNCHANGED <<candidate, since>>
          /\ stable' = stable \/ stable' = candidate
      BY <1>6 DEF Debouncing
    <2> HIDE DEF t
    <2>2. KeypadTypeOK'
      <3>1. row' \in 1 .. Rows + 1 BY <1>1, <1>4
      <3>2. quiet' \in 0 .. Debounce + 1 BY <1>1, <1>2, <2>1 DEF KeypadTypeOK
      <3>3. since' \in 0 .. Wrap - 1 /\ now' \in 0 .. Wrap - 1
        BY <1>2, <1>3, <1>4, <2>1 DEF KeypadTypeOK
      <3> QED BY <1>2, <1>4, <2>1, <3>1, <3>2, <3>3 DEF KeypadTypeOK
    <2>3. InStep'
      <3>1. SUFFICES ASSUME quiet < Debounce, quiet + ticks < Debounce
                     PROVE  t = (since + (quiet + ticks)) % Wrap
        BY <1>1, <1>2, <1>4, <2>1 DEF InStep, KeypadTypeOK
      <3>2. now = (since + quiet) % Wrap BY <1>2, <3>1 DEF InStep
      <3>3. /\ since \in 0 .. Wrap - 1 /\ quiet \in Nat /\ ticks \in Nat
            /\ quiet + ticks < Wrap
        BY <1>1, <1>2, <3>1 DEF KeypadTypeOK
      <3>4. (((since + quiet) % Wrap) + ticks) % Wrap = (since + (quiet + ticks)) % Wrap
        BY <3>3, TicksAdd
      <3> QED BY <3>2, <3>4 DEF t
    <2> QED BY <2>2, <2>3 DEF KeypadInv
  <1> QED BY <1>5, <1>6

\* A report is made only after DEBOUNCE_MS of agreement.
LEMMA ReportedThen ==
  ASSUME KeypadInv, NEW ticks \in 1 .. 2, Debouncing(ticks), stable' # stable
  PROVE  quiet' >= Debounce
  <1>1. Wrap \in Nat /\ Wrap > 4 * Debounce /\ Debounce \in Nat \ {0}
    BY KeypadAssumption DEF KeypadAssumption
  <1>2. KeypadTypeOK /\ InStep BY DEF KeypadInv
  <1>3. /\ quiet' = IF quiet < Debounce THEN quiet + ticks ELSE quiet
        /\ Settled((now + ticks) % Wrap)
    BY DEF Debouncing
  <1>4. CASE quiet < Debounce
    <2>1. now = (since + quiet) % Wrap BY <1>2, <1>4 DEF InStep
    <2>2. /\ since \in 0 .. Wrap - 1 /\ quiet \in Nat /\ quiet + ticks \in Nat
          /\ quiet + ticks < Wrap /\ ticks \in Nat
      BY <1>1, <1>2, <1>4 DEF KeypadTypeOK
    <2>3. (now + ticks) % Wrap = (since + (quiet + ticks)) % Wrap BY <2>1, <2>2, TicksAdd
    <2>4. TicksDiff((now + ticks) % Wrap, since) <= quiet + ticks BY <2>2, <2>3, TicksSince
    <2>5. TicksDiff((now + ticks) % Wrap, since) >= Debounce BY <1>3 DEF Settled
    <2>6. TicksDiff((now + ticks) % Wrap, since) \in Int
      <3>1. now + ticks \in Nat BY <1>1, <1>2 DEF KeypadTypeOK
      <3>2. (now + ticks) % Wrap \in Int BY <1>1, <3>1, Z3
      <3>3. (((now + ticks) % Wrap) - since + Wrap) % Wrap \in Int BY <1>1, <2>2, <3>2, Z3
      <3> QED BY <1>1, <3>3 DEF TicksDiff
    <2> QED BY <1>1, <1>3, <1>4, <2>2, <2>4, <2>5, <2>6
  <1>5. CASE ~(quiet < Debounce) BY <1>1, <1>2, <1>3, <1>5 DEF KeypadTypeOK
  <1> QED BY <1>4, <1>5

\* Rows of which no two share a column are not tied to each other.
LEMMA NoTies ==
  ASSUME ~SharesColumn, NEW r \in 1 .. Rows, NEW q \in 1 .. Rows, Tied(r, q)
  PROVE  r = q
  <1>1. PICK c \in 1 .. Columns : <<r, c>> \in closed /\ <<q, c>> \in closed BY DEF Tied
  <1>2. <<r, c>>[2] = <<q, c>>[2] /\ <<r, c>>[1] = r /\ <<q, c>>[1] = q OBVIOUS
  <1>3. <<r, c>> = <<q, c>> BY <1>1, <1>2 DEF SharesColumn
  <1> QED BY <1>3

\* Such a row is read as it is.
LEMMA ExactRow ==
  ASSUME ~SharesColumn, NEW r \in 1 .. Rows
  PROVE  Readings(r) = {{c \in 1 .. Columns : <<r, c>> \in closed}}
  <1>1. LinkedRows(r) = {r}
    <2>1. ASSUME NEW q \in LinkedRows(r) PROVE q = r
      <3>1. \A p \in {r}, s \in 1 .. Rows : Tied(p, s) => s \in {r} BY NoTies
      <3>2. {r} \in SUBSET (1 .. Rows) /\ r \in {r} OBVIOUS
      <3> QED BY <2>1, <3>1, <3>2 DEF LinkedRows
    <2>2. r \in LinkedRows(r) BY DEF LinkedRows
    <2> QED BY <2>1, <2>2
  <1>2. \A c : Low(r, c) <=> <<r, c>> \in closed BY <1>1 DEF Low
  <1> QED BY <1>1, <1>2 DEF Readings

\* A scan finds the keys of a row that are pressed, and no others.
LEMMA NextSeen ==
  ASSUME KeypadTypeOK, SeenSoFar, [Next]_vars
  PROVE  SeenSoFar'
  <1>1. CASE \E key \in Keys : Move(key) BY <1>1 DEF Move, SeenSoFar
  <1>2. CASE ScanRow
    <2>1. /\ row \in 1 .. Rows /\ row' = row + 1
          /\ UNCHANGED <<closed, moved>>
      BY <1>2, KeypadAssumption DEF ScanRow, KeypadTypeOK, KeypadAssumption
    <2>2. SUFFICES ASSUME ~moved, ~SharesColumn
                   PROVE  pressed' = {k \in closed : k[1] < row + 1}
      BY <2>1 DEF SeenSoFar, SharesColumn
    <2>3. pressed = {k \in closed : k[1] < row} BY <2>2 DEF SeenSoFar
    <2>4. pressed' = pressed \cup {<<row, c>> : c \in {c \in 1 .. Columns : <<row, c>> \in closed}}
      BY <1>2, <2>1, <2>2, ExactRow DEF ScanRow
    <2>5. ASSUME NEW k PROVE k \in pressed' <=> k \in closed /\ k[1] < row + 1
      <3>1. CASE k \in Keys
        <4>1. PICK r \in 1 .. Rows, c \in 1 .. Columns : k = <<r, c>> BY <3>1 DEF Keys
        <4>2. r < row + 1 <=> r < row \/ r = row
          BY <2>1, <4>1, KeypadAssumption DEF KeypadAssumption
        <4> QED BY <2>3, <2>4, <4>1, <4>2
      <3>2. CASE k \notin Keys
        <4>1. k \notin closed BY <3>2 DEF KeypadTypeOK
        <4>2. k \notin pressed' BY <2>1, <2>3, <2>4, <4>1, <3>2 DEF Keys
        <4> QED BY <4>1, <4>2
      <3> QED BY <3>1, <3>2
    <2>6. pressed' = {k \in closed : k[1] < row + 1} BY <2>5
    <2> QED BY <2>6
  <1>3. CASE \E ticks \in 1 .. 2 : Debouncing(ticks)
    <2>1. row' = 1 /\ pressed' = {} /\ closed' = closed BY <1>3 DEF Debouncing
    <2>2. \A k \in closed : ~(k[1] < 1)
      <3>1. \A k \in Keys : k[1] \in 1 .. Rows BY DEF Keys
      <3> QED BY <3>1, KeypadAssumption DEF KeypadTypeOK, KeypadAssumption
    <2> QED BY <2>1, <2>2 DEF SeenSoFar
  <1>4. CASE UNCHANGED vars BY <1>4 DEF vars, SeenSoFar, SharesColumn
  <1> QED BY <1>1, <1>2, <1>3, <1>4 DEF Next, Run

-----------------------------------------------------------------------------
(* The keypad: its theorems *)

\* main.py starts in step.
THEOREM InitKeypad == Init => KeypadInv
  <1> SUFFICES ASSUME Init PROVE KeypadInv OBVIOUS
  <1>1. /\ Wrap \in Nat /\ Wrap > 4 * Debounce /\ Debounce \in Nat \ {0}
        /\ Rows \in Nat \ {0} /\ MaxMoves \in Nat
    BY KeypadAssumption DEF KeypadAssumption
  <1>2. now \in 0 .. Wrap - 1 /\ since = now /\ quiet = 0 BY <1>1 DEF Init
  <1>3. (since + 0) % Wrap = since BY <1>1, <1>2, Remainder
  <1>4. KeypadTypeOK
    <2>1. /\ row \in 1 .. Rows + 1 /\ moves \in 0 .. MaxMoves
          /\ quiet \in 0 .. Debounce + 1
      BY <1>1 DEF Init
    <2> QED BY <1>2, <2>1 DEF Init, KeypadTypeOK
  <1>5. InStep BY <1>2, <1>3 DEF InStep
  <1> QED BY <1>4, <1>5 DEF KeypadInv

\* The switches, the scan and the debouncing keep it so.
THEOREM NextKeypad == KeypadInv /\ [Next]_vars => KeypadInv'
  <1> SUFFICES ASSUME KeypadInv, [Next]_vars PROVE KeypadInv' OBVIOUS
  <1>0. KeypadTypeOK /\ InStep BY DEF KeypadInv
  <1>1. CASE \E key \in Keys : Move(key)
    <2>1. PICK key \in Keys : Move(key) BY <1>1
    <2>2. KeypadTypeOK' BY <1>0, <2>1, KeypadAssumption DEF Move, KeypadTypeOK, KeypadAssumption
    <2>3. InStep' BY <1>0, <2>1 DEF Move, InStep
    <2> QED BY <2>2, <2>3 DEF KeypadInv
  <1>2. CASE ScanRow
    <2>1. row \in 1 .. Rows
      BY <1>0, <1>2, KeypadAssumption DEF ScanRow, KeypadTypeOK, KeypadAssumption
    <2>2. PICK columns \in Readings(row) : pressed' = pressed \cup {<<row, c>> : c \in columns}
      BY <1>2 DEF ScanRow
    <2>3. pressed' \subseteq Keys BY <1>0, <2>1, <2>2, ReadColumns DEF KeypadTypeOK, Keys
    <2>4. row' \in 1 .. Rows + 1
      BY <1>2, <2>1, KeypadAssumption DEF ScanRow, KeypadAssumption
    <2>5. UNCHANGED <<closed, candidate, since, stable, now, moves, quiet, moved>>
      BY <1>2 DEF ScanRow
    <2>6. KeypadTypeOK' BY <1>0, <2>3, <2>4, <2>5 DEF KeypadTypeOK
    <2>7. InStep' BY <1>0, <2>5 DEF InStep
    <2> QED BY <2>6, <2>7 DEF KeypadInv
  <1>3. CASE \E ticks \in 1 .. 2 : Debouncing(ticks) BY <1>3, DebouncingInv
  <1>4. CASE UNCHANGED vars
    <2>1. KeypadTypeOK' BY <1>0, <1>4 DEF vars, KeypadTypeOK
    <2>2. InStep' BY <1>0, <1>4 DEF vars, InStep
    <2> QED BY <2>1, <2>2 DEF KeypadInv
  <1> QED BY <1>1, <1>2, <1>3, <1>4 DEF Next, Run

\* Keys are reported only when all scans of the last DEBOUNCE_MS agreed on them,
\* whatever the period of the tick counter and wherever it wraps.
THEOREM ReportedSettled == Spec => ReportedIsSettled
  <1>1. KeypadInv /\ [Next]_vars => [stable' # stable => quiet' >= Debounce]_vars
    <2> SUFFICES ASSUME KeypadInv, Next, stable' # stable PROVE quiet' >= Debounce
      OBVIOUS
    <2>1. ~ScanRow BY DEF ScanRow
    <2>2. ~\E key \in Keys : Move(key) BY DEF Move
    <2>3. PICK ticks \in 1 .. 2 : Debouncing(ticks) BY <2>1, <2>2 DEF Next, Run
    <2> QED BY <2>3, ReportedThen
  <1> QED BY <1>1, InitKeypad, NextKeypad, PTL DEF Spec, ReportedIsSettled

\* A scan during which no switch moves returns what is pressed, unless two
\* switches of one column tie their rows together, whatever the matrix.
THEOREM ScanExact == Spec => []ScanIsExact
  <1>1. Init => SeenSoFar BY DEF Init, SeenSoFar
  <1>2. KeypadInv /\ SeenSoFar /\ [Next]_vars => SeenSoFar' BY NextSeen DEF KeypadInv
  <1>3. KeypadInv /\ SeenSoFar => ScanIsExact
    <2> SUFFICES ASSUME KeypadInv, SeenSoFar, row = Rows + 1, ~moved, ~SharesColumn
                 PROVE  pressed = closed
      BY DEF ScanIsExact
    <2>1. pressed = {k \in closed : k[1] < Rows + 1} BY DEF SeenSoFar
    <2>2. \A k \in closed : k[1] < Rows + 1
      <3>1. \A k \in Keys : k[1] \in 1 .. Rows BY DEF Keys
      <3> QED BY <3>1, KeypadAssumption DEF KeypadInv, KeypadTypeOK, KeypadAssumption
    <2> QED BY <2>1, <2>2
  <1> QED BY <1>1, <1>2, <1>3, InitKeypad, NextKeypad, PTL DEF Spec

-----------------------------------------------------------------------------
(* The metadata: arithmetic *)

LEMMA LeastNat ==
  ASSUME NEW T, T \subseteq Nat, T # {}
  PROVE  \E n \in T : \A m \in T : n <= m
  <1> DEFINE R == OpToRel(<, Nat)
  <1>1. IsWellFoundedOn(R, Nat) BY NatLessThanWellFounded
  <1>2. \A m, n \in Nat : <<m, n>> \in R <=> m < n BY DEF OpToRel
  <1> HIDE DEF R
  <1>3. PICK n \in T : \A m \in T : ~(<<m, n>> \in R) BY <1>1, WFMin
  <1>4. ASSUME NEW m \in T PROVE n <= m
    <2>1. m \in Nat /\ n \in Nat OBVIOUS
    <2>2. ~(m < n) BY <1>2, <1>3, <2>1
    <2> QED BY <2>1, <2>2
  <1> QED BY <1>4

\* Multiples of c that differ do so by c at least.
LEMMA Multiples ==
  ASSUME NEW c \in Nat \ {0}, NEW a \in Nat, NEW b \in Nat, a % c = 0, b % c = 0, a > b
  PROVE  a >= b + c
  <1>1. \A n \in Nat : n \div c \in Nat /\ n = c * (n \div c) + (n % c) BY Z3
  <1>2. PICK x \in Nat : a = c * x
    <2>1. a \div c \in Nat /\ a = c * (a \div c) + 0 BY <1>1
    <2>2. c * (a \div c) \in Int BY <2>1
    <2>3. a = c * (a \div c) BY <2>1, <2>2
    <2> QED BY <2>1, <2>3
  <1>3. PICK y \in Nat : b = c * y
    <2>1. b \div c \in Nat /\ b = c * (b \div c) + 0 BY <1>1
    <2>2. c * (b \div c) \in Int BY <2>1
    <2>3. b = c * (b \div c) BY <2>1, <2>2
    <2> QED BY <2>1, <2>3
  <1>4. y >= x => c * y >= c * x BY <1>2, <1>3, Z3
  <1>5. x >= y + 1 BY <1>2, <1>3, <1>4
  <1>6. c * x >= c * y + c BY <1>5, Z3
  <1> QED BY <1>2, <1>3, <1>6

LEMMA Periodic ==
  ASSUME NEW c \in Nat \ {0}, NEW d \in Nat, d % c = 0
  PROVE  (d + c) % c = 0
  <1>1. \A n \in Nat : n \div c \in Nat /\ n % c \in 0 .. c - 1 /\ n = c * (n \div c) + (n % c)
    BY Z3
  <1>2. PICK q \in Nat, r \in 0 .. c - 1 : r = (d + c) % c /\ d + c = c * q + r
    <2>1. d + c \in Nat OBVIOUS
    <2> QED BY <1>1, <2>1
  <1>3. PICK x \in Nat : d = c * x
    <2>1. d \div c \in Nat /\ d = c * (d \div c) + 0 BY <1>1
    <2>2. c * (d \div c) \in Int BY <2>1
    <2>3. d = c * (d \div c) BY <2>1, <2>2
    <2> QED BY <2>1, <2>3
  <1>4. q >= (x + 1) + 1 => c * q >= c * (x + 1) + c BY Z3
  <1>5. x + 1 >= q + 1 => c * (x + 1) >= c * q + c BY Z3
  <1>6. c * (x + 1) = c * x + c /\ c * (x + 1) \in Int /\ c * q \in Int BY <1>3
  <1>7. q = x + 1 BY <1>2, <1>3, <1>4, <1>5, <1>6
  <1> QED BY <1>2, <1>3, <1>6, <1>7

-----------------------------------------------------------------------------
(* The metadata: pieces *)

PieceStart(s) == \E i \in 1 .. s : RunStart(i) /\ Printables(i, s) /\ (s - i) % Capacity = 0

\* A piece that ends inside the run being collected is that run.
LEMMA OnePiece ==
  ASSUME image \in Seq(Char), NEW n \in 1 .. Len(image), NEW s \in 1 .. n,
         n - s < Capacity, PieceStart(s), Printables(s, n),
         NEW q \in Pieces, q[2] \in s .. n
  PROVE  q = <<s, n>>
  <1>1. Len(image) \in Nat /\ Capacity \in Nat \ {0} /\ s \in Nat /\ n \in Nat
    BY ScannerAssumption
  <1>2. PICK i \in 1 .. s : RunStart(i) /\ Printables(i, s) /\ (s - i) % Capacity = 0
    BY DEF PieceStart
  <1>3. /\ q \in (1 .. Len(image)) \X (1 .. Len(image)) /\ q[1] <= q[2]
        /\ Printables(q[1], q[2]) /\ q[2] - q[1] < Capacity
        /\ \/ q[2] = Len(image)
           \/ q[2] - q[1] = Capacity - 1
           \/ image[q[2] + 1] \notin Printable
    BY DEF Pieces
  <1>4. PICK j \in 1 .. q[1] : RunStart(j) /\ Printables(j, q[1]) /\ (q[1] - j) % Capacity = 0
    BY DEF Pieces
  <1> DEFINE a == q[1]
             b == q[2]
  <1>5. a \in Nat /\ b \in Nat /\ i \in Nat /\ j \in Nat /\ q = <<a, b>>
        /\ 1 <= i /\ i <= s /\ s <= b /\ b <= n /\ 1 <= j /\ j <= a /\ a <= b
    BY <1>1, <1>3
  <1> HIDE DEF a, b
  <1>6. \A k \in i .. n : image[k] \in Printable
    BY <1>1, <1>2, <1>5 DEF Printables
  <1>7. \A k \in j .. b : image[k] \in Printable
    BY <1>3, <1>4, <1>5 DEF Printables, a, b
  <1>8. i = j
    <2>1. i < j => j - 1 \in i .. n /\ j # 1 BY <1>1, <1>5
    <2>2. j < i => i - 1 \in j .. b /\ i # 1 BY <1>1, <1>5
    <2>3. ~(i < j) BY <1>4, <1>6, <2>1 DEF RunStart
    <2>4. ~(j < i) BY <1>2, <1>7, <2>2 DEF RunStart
    <2> QED BY <1>5, <2>3, <2>4
  <1>9. /\ s - i \in Nat /\ a - i \in Nat
        /\ (s - i) % Capacity = 0 /\ (a - i) % Capacity = 0
    BY <1>2, <1>4, <1>5, <1>8 DEF a
  <1>10. a = s
    <2>1. a > s => a - i >= (s - i) + Capacity
      <3>1. a > s => a - i > s - i BY <1>1, <1>5
      <3> QED BY <1>1, <1>9, <3>1, Multiples
    <2>2. s > a => s - i >= (a - i) + Capacity
      <3>1. s > a => s - i > a - i BY <1>1, <1>5
      <3> QED BY <1>1, <1>9, <3>1, Multiples
    <2>3. b - a < Capacity BY <1>3 DEF a, b
    <2> QED BY <1>1, <1>5, <2>1, <2>2, <2>3
  <1>11. b = n
    <2>1. b < n => b + 1 \in i .. n /\ b # Len(image) BY <1>1, <1>5
    <2>2. b < n => image[b + 1] \in Printable BY <1>6, <2>1
    <2>3. b = Len(image) \/ b - a = Capacity - 1 \/ image[b + 1] \notin Printable
      BY <1>3 DEF a, b
    <2> QED BY <1>1, <1>5, <1>10, <2>1, <2>2, <2>3
  <1> QED BY <1>5, <1>10, <1>11

\* The run being collected is a piece where it is examined.
LEMMA APiece ==
  ASSUME image \in Seq(Char), NEW n \in 1 .. Len(image), NEW s \in 1 .. n,
         n - s < Capacity, PieceStart(s), Printables(s, n),
         n = Len(image) \/ n - s = Capacity - 1 \/ image[n + 1] \notin Printable
  PROVE  <<s, n>> \in Pieces
  <1> DEFINE p == <<s, n>>
  <1>1. p \in (1 .. Len(image)) \X (1 .. Len(image)) /\ p[1] = s /\ p[2] = n /\ s <= n
    OBVIOUS
  <1> HIDE DEF p
  <1>2. \E i \in 1 .. p[1] : RunStart(i) /\ Printables(i, p[1]) /\ (p[1] - i) % Capacity = 0
    BY <1>1 DEF PieceStart
  <1>3. p \in Pieces BY <1>1, <1>2 DEF Pieces
  <1> QED BY <1>3 DEF p

-----------------------------------------------------------------------------
(* The metadata: a byte *)

\* The naming pieces that end by byte n, and the board that pieces name.
Over(n) == {p \in Named : p[2] <= n}
Decided(board, ps) ==
  IF ps = {} THEN board = 0
  ELSE \E p \in ps : /\ \A q \in ps : p[1] <= q[1]
                     /\ board = BoardIn(SubSeq(image, p[1], p[2]))

Collected(s, n) ==
  /\ s.run \in Seq(Printable) /\ Len(s.run) <= Capacity /\ Len(s.run) <= n
  /\ \A k \in 1 .. Len(s.run) : s.run[k] = image[n - Len(s.run) + k]
  /\ Len(s.run) > 0 => PieceStart(n - Len(s.run) + 1)
  /\ Len(s.run) = 0 => n = 0 \/ image[n] \notin Printable

Scanned(s, n) ==
  /\ s = [run |-> s.run, board |-> s.board]
  /\ Collected(s, n)
  /\ Decided(s.board, Over(n - Len(s.run)))

\* A run that is examined where a piece ends leaves the board of the pieces so far.
LEMMA Consumed ==
  ASSUME image \in Seq(Char), NEW n \in 0 .. Len(image), NEW s, Scanned(s, n),
         \/ n = Len(image)
         \/ Len(s.run) = Capacity
         \/ image[n + 1] \notin Printable
  PROVE  Decided(ConsumeRun(s).board, Over(n))
  <1> DEFINE new == ConsumeRun(s).board
  <1>0. PICK l \in Nat : l = Len(s.run) BY DEF Scanned, Collected
  <1>1. /\ l \in Nat /\ n \in Nat /\ Len(image) \in Nat /\ l <= Capacity /\ l <= n
        /\ Capacity \in Nat \ {0} /\ MinRun \in Nat \ {0}
    BY <1>0, ScannerAssumption DEF Scanned, Collected
  <1>2. new = IF l >= MinRun /\ s.board = 0 THEN BoardIn(s.run) ELSE s.board
    BY <1>0 DEF ConsumeRun
  <1>3. Decided(s.board, Over(n - l)) BY <1>0 DEF Scanned
  <1>4. CASE l = 0
    <2>1. n - l = n BY <1>1, <1>4
    <2>2. new = s.board BY <1>1, <1>2, <1>4
    <2> HIDE DEF new
    <2> QED BY <1>3, <2>1, <2>2 DEF new
  <1>5. CASE l > 0
    <2>0. PICK t \in Nat : t = n - l + 1 BY <1>1
    <2>1. /\ t \in 1 .. n /\ n \in 1 .. Len(image) /\ n - t = l - 1 /\ n - t < Capacity
          /\ n - l = t - 1
      BY <1>1, <1>5, <2>0
    <2>2. PieceStart(t) BY <1>0, <1>5, <2>0 DEF Scanned, Collected
    <2>3. \A k \in 1 .. l : s.run[k] = image[n - l + k] /\ s.run[k] \in Printable
      BY <1>0 DEF Scanned, Collected
    <2>4. ASSUME NEW k \in t .. n PROVE image[k] \in Printable
      <3>1. k - t + 1 \in 1 .. l /\ n - l + (k - t + 1) = k BY <1>1, <2>1
      <3> QED BY <2>3, <3>1
    <2>5. Printables(t, n) BY <2>4 DEF Printables
    <2>6. n = Len(image) \/ n - t = Capacity - 1 \/ image[n + 1] \notin Printable
      BY <1>0, <1>1, <2>1
    <2> DEFINE p == <<t, n>>
    <2>7. p \in Pieces BY <2>1, <2>2, <2>5, <2>6, APiece
    <2>8. \A q \in Pieces : q[2] \in t .. n => q = p BY <2>1, <2>2, <2>5, OnePiece
    <2>9. SubSeq(image, t, n) = s.run
      <3>1. /\ SubSeq(image, t, n) \in Seq(Printable)
            /\ Len(SubSeq(image, t, n)) = IF t <= n THEN n - t + 1 ELSE 0
            /\ \A k \in 1 .. n - t + 1 : SubSeq(image, t, n)[k] = image[t + k - 1]
        <4>1. t \in Int /\ n \in Int BY <1>1, <2>1
        <4> QED BY <2>4, <4>1, SubSeqProperties
      <3>4. Len(SubSeq(image, t, n)) = l BY <1>1, <2>1, <3>1
      <3>2. \A k \in 1 .. l : SubSeq(image, t, n)[k] = s.run[k]
        <4>1. SUFFICES ASSUME NEW k \in 1 .. l PROVE SubSeq(image, t, n)[k] = s.run[k]
          OBVIOUS
        <4>2. n - t + 1 = l /\ t + k - 1 = n - l + k BY <1>1, <2>1
        <4> QED BY <2>3, <3>1, <4>2
      <3>3. s.run \in Seq(Printable) BY DEF Scanned, Collected
      <3> QED BY <1>0, <3>1, <3>2, <3>3, <3>4, SeqEqual
    <2>10. p[1] = t /\ p[2] = n /\ p[2] - p[1] + 1 = l BY <1>1, <2>1
    <2>11. p \in Named <=> l >= MinRun /\ BoardIn(s.run) # 0
      BY <2>7, <2>9, <2>10 DEF Named
    <2>12. \A q \in Named : q \in Pieces /\ q[1] \in Nat /\ q[2] \in Nat /\ q[1] <= q[2]
                            /\ BoardIn(SubSeq(image, q[1], q[2])) # 0
      BY <1>1 DEF Named, Pieces
    <2>13. \A q \in Over(n) : q \in Over(n - l) \/ q = p
      <3>1. SUFFICES ASSUME NEW q \in Named, q[2] <= n PROVE q[2] <= n - l \/ q = p
        BY DEF Over
      <3>2. PICK e \in Nat : e = q[2] BY <2>12
      <3>3. e > n - l => e \in t .. n BY <1>1, <2>1, <3>1, <3>2
      <3>4. e <= n - l \/ e > n - l BY <1>1, <3>2
      <3> QED BY <2>8, <2>12, <3>1, <3>2, <3>3, <3>4
    <2>14. \A q \in Over(n - l) : q \in Over(n) /\ q \in Named /\ q[1] <= t /\ q[1] <= q[2]
      <3>1. SUFFICES ASSUME NEW q \in Named, q[2] <= n - l
                     PROVE  q[2] <= n /\ q[1] <= t /\ q[1] <= q[2]
        BY DEF Over
      <3>2. PICK a \in Nat, e \in Nat : a = q[1] /\ e = q[2] /\ a <= e BY <2>12
      <3>3. e <= n - l BY <3>1, <3>2
      <3>4. e <= n /\ a <= t BY <1>1, <2>1, <3>2, <3>3
      <3> QED BY <3>2, <3>4
    <2>15. p \in Over(n) <=> p \in Named BY <1>1, <2>10 DEF Over
    <2> HIDE DEF new, p
    <2>16. CASE Over(n - l) = {}
      <3>1. s.board = 0 BY <1>3, <2>16 DEF Decided
      <3>2. CASE p \in Named
        <4>1. Over(n) = {p} BY <2>13, <2>15, <2>16, <3>2
        <4>2. new = BoardIn(SubSeq(image, p[1], p[2])) BY <1>2, <2>9, <2>10, <2>11, <3>1, <3>2
        <4>3. p[1] <= p[1] BY <2>1, <2>10
        <4> QED BY <4>1, <4>2, <4>3 DEF Decided, new
      <3>3. CASE p \notin Named
        <4>1. Over(n) = {} BY <2>13, <2>15, <2>16, <3>3
        <4>2. new = 0 BY <1>2, <2>11, <3>1, <3>3
        <4> QED BY <4>1, <4>2 DEF Decided, new
      <3> QED BY <3>2, <3>3
    <2>17. CASE Over(n - l) # {}
      <3>1. PICK q \in Over(n - l) : /\ \A r \in Over(n - l) : q[1] <= r[1]
                                     /\ s.board = BoardIn(SubSeq(image, q[1], q[2]))
        BY <1>3, <2>17 DEF Decided
      <3>2. s.board # 0 /\ q \in Over(n) /\ q[1] <= t BY <2>12, <2>14, <3>1
      <3>3. new = s.board BY <1>2, <3>2
      <3>4. \A r \in Over(n) : q[1] <= r[1] BY <2>10, <2>13, <3>1, <3>2
      <3>5. Over(n) # {} BY <3>2
      <3> QED BY <3>1, <3>2, <3>3, <3>4, <3>5 DEF Decided, new
    <2> QED BY <2>16, <2>17
  <1> QED BY <1>1, <1>4, <1>5

\* One byte.
LEMMA OneByte ==
  ASSUME image \in Seq(Char), NEW n \in 0 .. Len(image) - 1, NEW s, Scanned(s, n)
  PROVE  Scanned(FeedChar(s, image[n + 1]), n + 1)
  <1> DEFINE c == image[n + 1]
             new == FeedChar(s, c)
  <1>0. PICK l \in Nat : l = Len(s.run) BY DEF Scanned, Collected
  <1>1. /\ l \in Nat /\ n \in Nat /\ Len(image) \in Nat /\ l <= Capacity /\ l <= n
        /\ Capacity \in Nat \ {0} /\ s.run \in Seq(Printable) /\ n \in 0 .. Len(image)
    BY <1>0, ScannerAssumption DEF Scanned, Collected
  <1>2. CASE c \notin Printable
    <2>1. new = [run |-> <<>>, board |-> ConsumeRun(s).board] BY <1>2 DEF FeedChar, ConsumeRun
    <2>2. Decided(ConsumeRun(s).board, Over(n)) BY <1>1, <1>2, Consumed
    <2>3. Over(n + 1) = Over(n)
      <3>1. SUFFICES ASSUME NEW q \in Named PROVE q[2] # n + 1 /\ q[2] \in Nat
        BY <1>1 DEF Over
      <3>2. q[1] \in Nat /\ q[2] \in Nat /\ q[1] <= q[2] /\ Printables(q[1], q[2])
        BY <1>1 DEF Named, Pieces
      <3> QED BY <1>2, <3>2 DEF Printables
    <2>4. /\ new.run = <<>> /\ Len(new.run) = 0 /\ new.board = ConsumeRun(s).board
          /\ <<>> \in Seq(Printable) /\ (n + 1) - 0 = n + 1
      BY <1>1, <2>1
    <2>5. Collected(new, n + 1) BY <1>1, <1>2, <2>4 DEF Collected
    <2> HIDE DEF new
    <2>6. Scanned(new, n + 1) BY <2>1, <2>2, <2>3, <2>4, <2>5 DEF Scanned
    <2> QED BY <2>6 DEF new
  <1>3. CASE c \in Printable /\ l = Capacity
    <2>1. new = [run |-> <<c>>, board |-> ConsumeRun(s).board]
      BY <1>0, <1>3 DEF FeedChar, ConsumeRun
    <2>2. Decided(ConsumeRun(s).board, Over(n)) BY <1>0, <1>1, <1>3, Consumed
    <2>3. /\ new.run = <<c>> /\ Len(new.run) = 1 /\ new.board = ConsumeRun(s).board
          /\ <<c>> \in Seq(Printable) /\ (n + 1) - 1 = n /\ (n + 1) - 1 + 1 = n + 1
          /\ new.run[1] = c
      BY <1>1, <1>3, <2>1
    <2>4. PieceStart(n + 1)
      <3>1. PieceStart(n - l + 1) BY <1>0, <1>1, <1>3 DEF Scanned, Collected
      <3>2. PICK i \in 1 .. n - l + 1 :
              RunStart(i) /\ Printables(i, n - l + 1) /\ ((n - l + 1) - i) % Capacity = 0
        BY <3>1 DEF PieceStart
      <3>3. i \in 1 .. n + 1 /\ i \in Nat BY <1>1, <3>2
      <3>4. Printables(i, n + 1)
        <4>1. SUFFICES ASSUME NEW k \in i .. n + 1 PROVE image[k] \in Printable
          BY DEF Printables
        <4>2. k <= n - l + 1 => image[k] \in Printable BY <1>1, <3>2, <3>3 DEF Printables
        <4>3. k > n - l /\ k <= n => image[k] \in Printable
          <5>1. \A m \in 1 .. l : s.run[m] = image[n - l + m] /\ s.run[m] \in Printable
            BY <1>0, <1>1 DEF Scanned, Collected
          <5>2. k > n - l /\ k <= n => k - (n - l) \in 1 .. l /\ n - l + (k - (n - l)) = k
            BY <1>1, <3>3
          <5> QED BY <5>1, <5>2
        <4>4. k = n + 1 => image[k] \in Printable BY <1>3
        <4> QED BY <1>1, <3>3, <4>2, <4>3, <4>4
      <3>5. ((n + 1) - i) % Capacity = 0
        <4>0. i \in Nat /\ i <= n - l + 1 BY <1>1, <3>2, <3>3
        <4>1. PICK d \in Nat : d = (n - l + 1) - i BY <1>1, <4>0
        <4>2. d % Capacity = 0 BY <3>2, <4>1
        <4>3. (d + Capacity) % Capacity = 0 BY <1>1, <4>2, Periodic
        <4>4. (n + 1) - i = d + Capacity BY <1>1, <1>3, <3>3, <4>1
        <4> QED BY <4>3, <4>4
      <3> QED BY <3>2, <3>3, <3>4, <3>5 DEF PieceStart
    <2>5. Collected(new, n + 1)
      <3>1. Len(new.run) <= n + 1 /\ Len(new.run) <= Capacity BY <1>1, <2>3
      <3>2. \A k \in 1 .. Len(new.run) : new.run[k] = image[(n + 1) - Len(new.run) + k]
        BY <1>1, <2>3
      <3>3. (n + 1) - Len(new.run) + 1 = n + 1 BY <1>1, <2>3
      <3> HIDE DEF new, c
      <3> QED BY <2>3, <2>4, <3>1, <3>2, <3>3 DEF Collected
    <2> HIDE DEF new
    <2>6. Scanned(new, n + 1) BY <2>1, <2>2, <2>3, <2>5 DEF Scanned
    <2> QED BY <2>6 DEF new
  <1>4. CASE c \in Printable /\ l # Capacity
    <2>1. /\ new = [run |-> Append(s.run, c), board |-> s.board]
      BY <1>0, <1>4 DEF FeedChar, Scanned
    <2>2. /\ new.run = Append(s.run, c) /\ new.run \in Seq(Printable) /\ Len(new.run) = l + 1
          /\ \A k \in 1 .. l : new.run[k] = s.run[k]
          /\ new.run[l + 1] = c /\ new.board = s.board
          /\ (n + 1) - (l + 1) = n - l /\ (n + 1) - (l + 1) + 1 = n - l + 1
      BY <1>0, <1>1, <1>4, <2>1, AppendProperties
    <2>3. PieceStart(n - l + 1)
      <3>1. CASE l > 0 BY <1>0, <3>1 DEF Scanned, Collected
      <3>2. CASE l = 0
        <4>1. n = 0 \/ image[n] \notin Printable BY <1>0, <3>2 DEF Scanned, Collected
        <4>2. RunStart(n + 1) BY <1>1, <4>1 DEF RunStart
        <4>3. Printables(n + 1, n + 1)
          <5>1. (n + 1) .. (n + 1) = {n + 1} BY <1>1
          <5> QED BY <1>4, <5>1 DEF Printables
        <4>4. ((n + 1) - (n + 1)) % Capacity = 0
          <5>1. (n + 1) - (n + 1) = 0 /\ 0 % Capacity = 0 BY <1>1, Z3
          <5> QED BY <5>1
        <4>5. n + 1 \in 1 .. n + 1 /\ n - l + 1 = n + 1 BY <1>1, <3>2
        <4> QED BY <4>2, <4>3, <4>4, <4>5 DEF PieceStart
      <3> QED BY <1>1, <3>1, <3>2
    <2>4. Collected(new, n + 1)
      <3>1. Len(new.run) <= n + 1 /\ Len(new.run) <= Capacity /\ Len(new.run) > 0
        BY <1>1, <1>4, <2>2
      <3>2. ASSUME NEW k \in 1 .. l + 1
            PROVE  new.run[k] = image[(n + 1) - Len(new.run) + k]
        <4>1. (n + 1) - Len(new.run) + k = n - l + k BY <1>1, <2>2
        <4>2. CASE k \in 1 .. l
          <5>1. s.run[k] = image[n - l + k] BY <1>0, <4>2 DEF Scanned, Collected
          <5> QED BY <2>2, <4>1, <4>2, <5>1
        <4>3. CASE k = l + 1
          <5>1. n - l + k = n + 1 BY <1>1, <4>3
          <5> QED BY <2>2, <4>1, <4>3, <5>1
        <4>4. l \in Nat BY <1>1
        <4>5. k \in 1 .. l \/ k = l + 1 BY <4>4
        <4> QED BY <4>2, <4>3, <4>5
      <3>3. (n + 1) - Len(new.run) + 1 = n - l + 1 BY <1>1, <2>2
      <3> HIDE DEF new, c
      <3> QED BY <2>2, <2>3, <3>1, <3>2, <3>3 DEF Collected
    <2>5. Decided(s.board, Over(n - l)) BY <1>0 DEF Scanned
    <2>6. (n + 1) - Len(new.run) = n - l BY <2>2
    <2> HIDE DEF new
    <2>7. Scanned(new, n + 1) BY <2>1, <2>2, <2>4, <2>5, <2>6 DEF Scanned
    <2> QED BY <2>7 DEF new
  <1> QED BY <1>2, <1>3, <1>4

-----------------------------------------------------------------------------
(* The metadata: a buffer *)

\* What feed has after k bytes.
Fed(s, n, count) ==
  LET after[k \in 0 .. count] == IF k = 0 THEN s ELSE FeedChar(after[k - 1], image[n + k])
  IN  after

Loop(f, s, n, count) ==
  f = [k \in 0 .. count |-> IF k = 0 THEN s ELSE FeedChar(f[k - 1], image[n + k])]

\* The loop over the bytes is well defined.
LEMMA LoopExists ==
  ASSUME NEW s, NEW n \in Nat, NEW count \in Nat
  PROVE  \E f : Loop(f, s, n, count)
  <1> DEFINE Open == {c \in Nat : ~\E f : Loop(f, s, n, c)}
  <1>1. SUFFICES ASSUME Open # {} PROVE FALSE OBVIOUS
  <1>2. PICK c \in Open : \A m \in Open : c <= m BY <1>1, LeastNat
  <1>3. c # 0
    <2> DEFINE f == [k \in 0 .. 0 |-> s]
    <2>1. f = [k \in 0 .. 0 |-> IF k = 0 THEN s ELSE FeedChar(f[k - 1], image[n + k])]
      OBVIOUS
    <2>2. Loop(f, s, n, 0) BY <2>1 DEF Loop
    <2> QED BY <1>2, <2>2
  <1>4. c - 1 \in Nat /\ c \in Nat /\ c - 1 \notin Open BY <1>2, <1>3
  <1>5. PICK f : Loop(f, s, n, c - 1) BY <1>4
  <1> DEFINE e == FeedChar(f[c - 1], image[n + c])
             g == [k \in 0 .. c |-> IF k = c THEN e ELSE f[k]]
  <1> HIDE DEF e
  <1>6. ASSUME NEW k \in 0 .. c
        PROVE  g[k] = IF k = 0 THEN s ELSE FeedChar(g[k - 1], image[n + k])
    <2>1. CASE k = c
      <3>1. k # 0 /\ k - 1 \in 0 .. c - 1 /\ k - 1 \in 0 .. c /\ k - 1 # c
        BY <1>3, <1>4, <2>1
      <3>2. g[k - 1] = f[c - 1] BY <2>1, <3>1
      <3> QED BY <2>1, <3>1, <3>2 DEF e
    <2>2. CASE k # c
      <3>1. k \in 0 .. c - 1 BY <1>4, <2>2
      <3>2. f[k] = IF k = 0 THEN s ELSE FeedChar(f[k - 1], image[n + k])
        BY <1>5, <3>1 DEF Loop
      <3>3. k # 0 => k - 1 \in 0 .. c /\ k - 1 # c BY <1>4, <3>1
      <3>4. k # 0 => g[k - 1] = f[k - 1] BY <3>3
      <3> QED BY <2>2, <3>2, <3>4
    <2> QED BY <2>1, <2>2
  <1>7. g = [k \in 0 .. c |-> IF k = 0 THEN s ELSE FeedChar(g[k - 1], image[n + k])]
    BY <1>6
  <1>8. Loop(g, s, n, c) BY <1>7 DEF Loop
  <1> QED BY <1>2, <1>8

LEMMA FedStep ==
  ASSUME NEW s, NEW n \in Nat, NEW count \in Nat
  PROVE  /\ Fed(s, n, count)[0] = s
         /\ \A k \in 1 .. count :
              Fed(s, n, count)[k] = FeedChar(Fed(s, n, count)[k - 1], image[n + k])
  <1>1. Fed(s, n, count) = CHOOSE f : Loop(f, s, n, count) BY DEF Fed, Loop
  <1>2. Loop(Fed(s, n, count), s, n, count) BY <1>1, LoopExists
  <1> QED BY <1>2 DEF Loop

\* A buffer is scanned byte by byte.
LEMMA BufferFed ==
  ASSUME image \in Seq(Char), NEW n \in Nat, NEW count \in Nat, n + count <= Len(image),
         NEW s, Scanned(s, n)
  PROVE  Scanned(Fed(s, n, count)[count], n + count)
  <1> DEFINE f == Fed(s, n, count)
             Bad == {k \in 0 .. count : ~Scanned(f[k], n + k)}
  <1>1. f[0] = s /\ \A k \in 1 .. count : f[k] = FeedChar(f[k - 1], image[n + k])
    BY FedStep
  <1> HIDE DEF f
  <1>2. SUFFICES ASSUME Bad # {} PROVE FALSE BY DEF f
  <1>3. PICK k \in Bad : \A m \in Bad : k <= m
    <2>1. Bad \subseteq Nat OBVIOUS
    <2> HIDE DEF Bad
    <2> QED BY <1>2, <2>1, LeastNat
  <1>4. k # 0
    <2>1. n + 0 = n OBVIOUS
    <2> QED BY <1>1, <1>3, <2>1
  <1>5. k \in 1 .. count /\ k - 1 \in 0 .. count /\ k - 1 \notin Bad BY <1>3, <1>4
  <1>6. Scanned(f[k - 1], n + (k - 1)) BY <1>5
  <1>7. /\ n + (k - 1) \in 0 .. Len(image) - 1 /\ (n + (k - 1)) + 1 = n + k
    <2>1. Len(image) \in Nat OBVIOUS
    <2> QED BY <1>5, <2>1
  <1>8. Scanned(FeedChar(f[k - 1], image[n + k]), n + k) BY <1>6, <1>7, OneByte
  <1>9. f[k] = FeedChar(f[k - 1], image[n + k]) BY <1>1, <1>5
  <1> QED BY <1>3, <1>8, <1>9

-----------------------------------------------------------------------------
(* The metadata: the invariant *)

ScanInv ==
  /\ image \in Seq(Char) /\ read \in 0 .. Len(image) /\ done \in BOOLEAN
  /\ ~done => Scanned(scanner, read)
  /\ done => read = Len(image) /\ Decided(scanner.board, Named)

LEMMA ScanStarts ==
  ASSUME ScanInit
  PROVE  ScanInv
  <1>1. PICK n \in 0 .. MaxLen : image \in [1 .. n -> Char] BY DEF ScanInit
  <1>2. n \in Nat BY ScannerAssumption
  <1>3. image \in Seq(Char) /\ Len(image) = n BY <1>1, <1>2
  <1>4. read = 0 /\ scanner = [run |-> <<>>, board |-> 0] /\ done = FALSE BY DEF ScanInit
  <1>5. /\ scanner.run = <<>> /\ Len(scanner.run) = 0 /\ scanner.board = 0
        /\ <<>> \in Seq(Printable) /\ 0 <= Capacity /\ 0 - 0 = 0
    BY <1>4, ScannerAssumption
  <1>6. Collected(scanner, read) BY <1>4, <1>5 DEF Collected
  <1>7. Over(0) = {}
    <2>1. \A q \in Named : q[2] \in Nat \ {0} BY <1>2, <1>3 DEF Named, Pieces
    <2> QED BY <2>1 DEF Over
  <1>8. Decided(scanner.board, Over(read - Len(scanner.run)))
    BY <1>4, <1>5, <1>7 DEF Decided
  <1>9. Scanned(scanner, read) BY <1>4, <1>5, <1>6, <1>8 DEF Scanned
  <1>10. read \in 0 .. Len(image) BY <1>2, <1>3, <1>4
  <1> QED BY <1>3, <1>4, <1>9, <1>10 DEF ScanInv

\* What is scanned is the image, which nothing changes.
LEMMA SameImage ==
  ASSUME image' = image, NEW s, NEW n
  PROVE  /\ Named' = Named
         /\ Scanned(s, n)' = Scanned(s, n)
         /\ Decided(s, Named)' = Decided(s, Named)
  <1>1. \A i : RunStart(i)' = RunStart(i) BY DEF RunStart
  <1>2. \A i, j : Printables(i, j)' = Printables(i, j) BY DEF Printables
  <1>3. Pieces' = Pieces BY <1>1, <1>2 DEF Pieces
  <1>4. Named' = Named BY <1>3 DEF Named
  <1>5. \A m : PieceStart(m)' = PieceStart(m) BY <1>1, <1>2 DEF PieceStart
  <1>6. \A b, ps : Decided(b, ps)' = Decided(b, ps) BY DEF Decided
  <1>7. Decided(s, Named)' = Decided(s, Named) BY <1>4 DEF Decided
  <1>8. Over(n - Len(s.run))' = Over(n - Len(s.run)) BY <1>4 DEF Over
  <1>9. Decided(s.board, Over(n - Len(s.run)))' = Decided(s.board, Over(n - Len(s.run)))
    BY <1>8 DEF Decided
  <1>10. Collected(s, n)' = Collected(s, n) BY <1>5 DEF Collected
  <1> QED BY <1>4, <1>7, <1>9, <1>10 DEF Scanned

LEMMA NextScan ==
  ASSUME ScanInv, [ScanNext]_scanVars
  PROVE  ScanInv'
  <1>1. CASE UNCHANGED scanVars
    <2>1. image' = image /\ read' = read /\ scanner' = scanner /\ done' = done
      BY <1>1 DEF scanVars
    <2>2. PICK s, n, b : s = scanner /\ n = read /\ b = scanner.board OBVIOUS
    <2>3. Scanned(s, n)' = Scanned(s, n) /\ Decided(b, Named)' = Decided(b, Named)
      BY <2>1, SameImage
    <2> QED BY <2>1, <2>2, <2>3 DEF ScanInv
  <1>2. ASSUME NEW count \in 1 .. Block, Feed(count) PROVE ScanInv'
    <2>1. /\ read + count <= Len(image) /\ image' = image /\ done' = done /\ read' = read + count
          /\ scanner' = Fed(scanner, read, count)[count]
      BY <1>2 DEF Feed, Fed
    <2>2. read \in Nat /\ count \in Nat \ {0} /\ Len(image) \in Nat /\ image \in Seq(Char)
      BY ScannerAssumption DEF ScanInv
    <2>3. ~done /\ Scanned(scanner, read) BY <2>1, <2>2 DEF ScanInv
    <2>4. PICK s, n : s = scanner' /\ n = read' OBVIOUS
    <2>5. Scanned(s, n) BY <2>1, <2>2, <2>3, <2>4, BufferFed
    <2>6. Scanned(s, n)' = Scanned(s, n) BY <2>1, SameImage
    <2>7. Scanned(scanner, read)' BY <2>4, <2>5, <2>6
    <2>8. read' \in 0 .. Len(image') BY <2>1, <2>2
    <2> QED BY <2>1, <2>2, <2>3, <2>7, <2>8 DEF ScanInv
  <1>3. CASE Finish
    <2>1. /\ ~done /\ read = Len(image) /\ scanner' = ConsumeRun(scanner) /\ done' = TRUE
          /\ image' = image /\ read' = read
      BY <1>3 DEF Finish
    <2>2. read \in Nat /\ Len(image) \in Nat /\ image \in Seq(Char) BY DEF ScanInv
    <2>3. Decided(ConsumeRun(scanner).board, Over(read))
      <3>1. read \in 0 .. Len(image) BY <2>1, <2>2
      <3> QED BY <2>1, <2>2, <3>1, Consumed DEF ScanInv
    <2>4. Over(read) = Named
      <3>1. \A q \in Named : q[2] <= read BY <2>1, <2>2 DEF Named, Pieces
      <3> QED BY <3>1 DEF Over
    <2>5. PICK b : b = ConsumeRun(scanner).board OBVIOUS
    <2>6. Decided(b, Named)' BY <2>1, <2>3, <2>4, <2>5, SameImage
    <2>7. Decided(scanner.board, Named)' BY <2>1, <2>5, <2>6
    <2> QED BY <2>1, <2>2, <2>7 DEF ScanInv
  <1> QED BY <1>1, <1>2, <1>3 DEF ScanNext

\* The board is the one named by the first piece that names any, wherever the
\* blocks were cut in which the file or the flash was read.
THEOREM FirstPieceFound ==
  ScanSpec => []FirstPieceDecides
  <1>1. ScanInit => ScanInv BY ScanStarts
  <1>2. ScanInv /\ [ScanNext]_scanVars => ScanInv' BY NextScan
  <1>3. ScanInv => FirstPieceDecides
    BY DEF ScanInv, FirstPieceDecides, Decided
  <1> QED BY <1>1, <1>2, <1>3, PTL DEF ScanSpec

-----------------------------------------------------------------------------
(* The pins: the core and the accesses to it *)

\* What powering up leaves, with and without NRST held low.
LEMMA PowerUpOp ==
  /\ PowerUp \in Target
  /\ ~PowerUp.debug /\ ~PowerUp.catch
  /\ resetGate => PowerUp.core = "reset"
  /\ ~resetGate => PowerUp.core = "running"
  <1>1. CASE resetGate
    BY <1>1 DEF PowerUp, LeaveReset, Unpowered, Target
  <1>2. CASE ~resetGate
    BY <1>2 DEF PowerUp, LeaveReset, Unpowered, Target
  <1> QED
    BY <1>1, <1>2

\* The core and its debug registers after each operation on them.
LEMMA HaltedOp ==
  ASSUME NEW t \in Target
  PROVE  /\ Halted(t) \in Target
         /\ Halted(t).debug
         /\ (Halted(t).catch <=> t.catch) /\ (Halted(t).ran <=> t.ran)
         /\ Halted(t).core = IF t.core = "running" THEN "halted" ELSE t.core
  BY DEF Target, Halted

\* VC_CORERESET set or cleared.
LEMMA CatchingOp ==
  ASSUME NEW t \in Target, NEW on \in BOOLEAN
  PROVE  /\ Catching(t, on) \in Target
         /\ Catching(t, on).catch <=> on
         /\ (Catching(t, on).debug <=> t.debug) /\ (Catching(t, on).ran <=> t.ran)
         /\ Catching(t, on).core = t.core
  BY DEF Target, Catching

\* NRST pulled low.
LEMMA PullResetOp ==
  ASSUME NEW t \in Target
  PROVE  /\ PullReset(t) \in Target
         /\ (PullReset(t).debug <=> t.debug) /\ (PullReset(t).catch <=> t.catch)
         /\ PullReset(t).core = IF t.core = "off" THEN "off" ELSE "reset"
         /\ t.core = "off" => PullReset(t) = t
  BY DEF Target, PullReset

\* The end of a reset: halted when caught, running otherwise.
LEMMA LeaveResetOp ==
  ASSUME NEW t \in Target
  PROVE  /\ LeaveReset(t) \in Target
         /\ (LeaveReset(t).debug <=> t.debug) /\ (LeaveReset(t).catch <=> t.catch)
         /\ t.debug /\ t.catch => LeaveReset(t).core = "halted" /\ ~LeaveReset(t).ran
         /\ ~(t.debug /\ t.catch) => LeaveReset(t).core = "running"
  BY DEF Target, LeaveReset

\* What an access that works leaves.
LEMMA WorksOutcome ==
  ASSUME NEW w, AccessWorks(w)
  PROVE  link /\ target' = w /\ faults' = faults /\ swdio' = "out"
  BY DEF AccessWorks, Direction

\* What an access that fails leaves: without the link, everything as it was.
LEMMA FailsOutcome ==
  ASSUME NEW w, AccessFails(w), faults \in 0 .. MaxFaults
  PROVE  /\ swdio' = "out" /\ faults' \in 0 .. MaxFaults
         /\ \/ ~link /\ target' = target /\ faults' = faults
            \/ link /\ target' \in {target, w} /\ faults' \in 1 .. MaxFaults
  <1>1. swdio' = "out"
    BY DEF AccessFails, Direction
  <1>2. \/ ~link /\ target' = target /\ faults' = faults
        \/ link /\ target' \in {target, w} /\ faults < MaxFaults /\ faults' = faults + 1
    BY Zenon DEF AccessFails
  <1>3. faults < MaxFaults /\ faults' = faults + 1 => faults' \in 1 .. MaxFaults
    BY FaultAssumption
  <1> QED
    BY <1>1, <1>2, <1>3

\* The program starts in a state of the invariant.
LEMMA PinsInitial == PinsInit => PinsInv
  <1> SUFFICES ASSUME PinsInit PROVE PinsInv
    OBVIOUS
  <1>1. PowerUp \in Target /\ ~PowerUp.catch /\ PowerUp.core = "running"
    BY PowerUpOp DEF PinsInit, Gate
  <1>2. PinsTypeOK
    <2>1. /\ pc \in Points /\ verdict \in {"success", "failed"}
          /\ outcome \in {"none", "success", "failed"}
          /\ swclk \in {"in", "out"} /\ swdio \in {"in", "out"}
          /\ resetGate \in BOOLEAN /\ link \in BOOLEAN
          /\ rail \in Rails /\ sensed \in Rails \cup {"none"}
      BY DEF PinsInit, Points, Rails, Direction, Gate
    <2>2. faults \in 0 .. MaxFaults
      BY FaultAssumption DEF PinsInit
    <2>3. target \in Target
      BY <1>1 DEF PinsInit, Target, Unpowered
    <2> QED
      BY <2>1, <2>2, <2>3 DEF PinsTypeOK
  <1>3. Wired /\ Driven /\ Prepared /\ Undone
    BY <1>1 DEF PinsInit, Wired, Driven, Prepared, Undone, Rails, Unpowered, Direction, Gate
  <1> QED
    BY <1>2, <1>3 DEF PinsInv

\* Nothing moves but the job.
LEMMA PinsStart == PinsInv /\ Start => PinsInv'
  <1> SUFFICES ASSUME PinsInv, Start PROVE PinsInv'
    OBVIOUS
  <1> USE DEF PinsInv
  <1>2. PinsTypeOK'
    BY DEF Start, PinsTypeOK, Points, Rails, pins
  <1>3. Wired'
    BY DEF Start, PinsTypeOK, Wired, Driven, pins
  <1>4. Driven'
    BY DEF Start, PinsTypeOK, Driven, InRange, Reading, pins
  <1>5. Prepared'
    BY DEF Start, PinsTypeOK, Prepared, Driven, Wired, pins
  <1>6. Undone'
    BY DEF Start, PinsTypeOK, Undone, Driven, Wired, pins
  <1> QED
    BY <1>2, <1>3, <1>4, <1>5, <1>6

\* Reset is pulled in a job that found the supply in range.
LEMMA PinsSense == PinsInv /\ Sense => PinsInv'
  <1> SUFFICES ASSUME PinsInv, Sense PROVE PinsInv'
    OBVIOUS
  <1> USE DEF PinsInv
  <1> DEFINE pulled == PullReset(target)
  <1>op. /\ pulled \in Target
         /\ (pulled.debug <=> target.debug) /\ (pulled.catch <=> target.catch)
         /\ pulled.core = IF target.core = "off" THEN "off" ELSE "reset"
         /\ target.core = "off" => pulled = target
    BY PullResetOp DEF PinsTypeOK
  <1>2. PinsTypeOK'
    BY <1>op DEF Sense, PinsTypeOK, Points, Rails, pins, Gate
  <1>3. Wired'
    BY <1>op DEF Sense, PinsTypeOK, Wired, Driven, pins, Gate
  <1>4. Driven'
    BY <1>op DEF Sense, PinsTypeOK, Driven, InRange, Reading, pins, Gate
  <1>5. Prepared'
    BY <1>op DEF Sense, PinsTypeOK, Prepared, Driven, Wired, pins, Gate
  <1>6. Undone'
    BY <1>op DEF Sense, PinsTypeOK, Undone, Driven, Wired, pins, Gate
  <1> QED
    BY <1>2, <1>3, <1>4, <1>5, <1>6

\* A refused supply leads straight to the failure tail.
LEMMA PinsSenseFails == PinsInv /\ SenseFails => PinsInv'
  <1> SUFFICES ASSUME PinsInv, SenseFails PROVE PinsInv'
    OBVIOUS
  <1> USE DEF PinsInv
  <1>2. PinsTypeOK'
    BY DEF SenseFails, PinsTypeOK, Points, Rails, pins
  <1>3. Wired'
    BY DEF SenseFails, PinsTypeOK, Wired, Driven, pins
  <1>4. Driven'
    BY DEF SenseFails, PinsTypeOK, Driven, InRange, Reading, pins
  <1>5. Prepared'
    BY DEF SenseFails, PinsTypeOK, Prepared, Driven, Wired, pins
  <1>6. Undone'
    BY DEF SenseFails, PinsTypeOK, Undone, Driven, Wired, pins
  <1> QED
    BY <1>2, <1>3, <1>4, <1>5, <1>6

\* The pins are driven; the link is there, or the tail follows.
LEMMA PinsConnect == PinsInv /\ Connect => PinsInv'
  <1> SUFFICES ASSUME PinsInv, Connect PROVE PinsInv'
    OBVIOUS
  <1> USE DEF PinsInv
  <1>2. PinsTypeOK'
    <2>1. faults' \in 0 .. MaxFaults
      BY FaultAssumption DEF Connect, PinsTypeOK
    <2>2. link' \in BOOLEAN /\ pc' \in Points
      BY DEF Connect, PinsTypeOK, Points
    <2> QED
      BY <2>1, <2>2 DEF Connect, PinsTypeOK, Points, Direction
  <1>3. Wired'
    BY DEF Connect, PinsTypeOK, Wired, Driven, Direction
  <1>4. Driven'
    BY DEF Connect, PinsTypeOK, Driven, InRange, Reading, Direction
  <1>5. Prepared'
    BY DEF Connect, PinsTypeOK, Prepared, Driven, Wired, Direction
  <1>6. Undone'
    BY DEF Connect, PinsTypeOK, Undone, Driven, Wired, Direction
  <1> QED
    BY <1>2, <1>3, <1>4, <1>5, <1>6

\* Halting is enabled under reset.
LEMMA PinsHalt == PinsInv /\ Halt => PinsInv'
  <1> SUFFICES ASSUME PinsInv, Halt PROVE PinsInv'
    OBVIOUS
  <1> USE DEF PinsInv
  <1>op. /\ Halted(target) \in Target /\ Halted(target).debug
         /\ (Halted(target).catch <=> target.catch) /\ (Halted(target).ran <=> target.ran)
         /\ Halted(target).core = IF target.core = "running" THEN "halted" ELSE target.core
    BY HaltedOp DEF PinsTypeOK
  <1>1. /\ pc = "halt" /\ swdio' = "out" /\ faults' \in 0 .. MaxFaults
        /\ UNCHANGED <<outcome, swclk, resetGate, link, rail, sensed, verdict>>
        /\ \/ link /\ target' = Halted(target) /\ faults' = faults
              /\ pc' = "catch"
           \/ ~link /\ target' = target /\ faults' = faults
              /\ pc' = "clearCatch"
           \/ link /\ target' \in {target, Halted(target)}
              /\ faults' \in 1 .. MaxFaults /\ pc' = "clearCatch"
    BY WorksOutcome, FailsOutcome DEF PinsTypeOK, Halt, AttachWrite
  <1>2. PinsTypeOK'
    <2>1. target' \in Target
      BY <1>1, <1>op DEF PinsTypeOK
    <2> QED
      BY <1>1, <2>1 DEF PinsTypeOK, Points
  <1>3. Wired'
    BY <1>1, <1>op DEF PinsTypeOK, Wired, Driven
  <1>4. Driven'
    BY <1>1, <1>op DEF PinsTypeOK, Driven, InRange, Reading
  <1>5. Prepared'
    BY <1>1, <1>op DEF PinsTypeOK, Prepared, Driven, Wired
  <1>6. Undone'
    BY <1>1, <1>op DEF PinsTypeOK, Undone, Driven, Wired
  <1> QED
    BY <1>2, <1>3, <1>4, <1>5, <1>6

\* The catch is set before the core is let go, so that it stops at its first instruction.
LEMMA PinsCatchReset == PinsInv /\ CatchReset => PinsInv'
  <1> SUFFICES ASSUME PinsInv, CatchReset PROVE PinsInv'
    OBVIOUS
  <1> USE DEF PinsInv
  <1> DEFINE caught == Catching(target, TRUE)
             freed == ReleaseReset(caught)
  <1>op. /\ caught \in Target /\ caught.catch
         /\ (caught.debug <=> target.debug) /\ (caught.ran <=> target.ran)
         /\ caught.core = target.core
    BY CatchingOp DEF PinsTypeOK
  <1>rel. /\ freed \in Target
          /\ freed.catch
          /\ freed.debug <=> target.debug
          /\ target.core = "reset" => freed.core \in {"running", "halted"}
          /\ target.core = "reset" /\ target.debug => freed.core = "halted" /\ ~freed.ran
    BY <1>op, LeaveResetOp DEF ReleaseReset
  <1>1. /\ pc = "catch" /\ swdio' = "out" /\ faults' \in 0 .. MaxFaults
        /\ UNCHANGED <<outcome, swclk, link, rail, sensed, verdict>>
        /\ \/ link /\ target' = freed /\ faults' = faults
              /\ pc' = "haltAgain" /\ resetGate' = FALSE
           \/ ~link /\ target' = target /\ faults' = faults
              /\ pc' = "clearCatch" /\ resetGate' = resetGate
           \/ link /\ target' \in {target, caught}
              /\ faults' \in 1 .. MaxFaults /\ pc' = "clearCatch" /\ resetGate' = resetGate
    BY WorksOutcome, FailsOutcome DEF PinsTypeOK, CatchReset, Gate
  <1>2. PinsTypeOK'
    <2>1. target' \in Target
      BY <1>1, <1>op, <1>rel DEF PinsTypeOK
    <2> QED
      BY <1>1, <2>1 DEF PinsTypeOK, Points
  <1>3. Wired'
    <2>1. CASE /\ link /\ target' = freed /\ faults' = faults
               /\ pc' = "haltAgain" /\ resetGate' = FALSE
      BY <1>1, <2>1, <1>op, <1>rel DEF PinsTypeOK, Wired, Driven
    <2>2. CASE /\ ~link /\ target' = target /\ faults' = faults
               /\ pc' = "clearCatch" /\ resetGate' = resetGate
      BY <1>1, <2>2 DEF PinsTypeOK, Wired, Driven
    <2>3. CASE /\ link /\ target' \in {target, caught} /\ faults' \in 1 .. MaxFaults
               /\ pc' = "clearCatch" /\ resetGate' = resetGate
      BY <1>1, <2>3, <1>op, <1>rel DEF PinsTypeOK, Wired, Driven
    <2> QED
      BY <1>1, <2>1, <2>2, <2>3
  <1>4. Driven'
    BY <1>1, <1>op, <1>rel DEF PinsTypeOK, Driven, InRange, Reading
  <1>5. Prepared'
    BY <1>1, <1>op, <1>rel DEF PinsTypeOK, Prepared, Driven, Wired
  <1>6. Undone'
    BY <1>1, <1>op, <1>rel DEF PinsTypeOK, Undone, Driven, Wired
  <1> QED
    BY <1>2, <1>3, <1>4, <1>5, <1>6

\* The core is halted already.
LEMMA PinsHaltAgain == PinsInv /\ HaltAgain => PinsInv'
  <1> SUFFICES ASSUME PinsInv, HaltAgain PROVE PinsInv'
    OBVIOUS
  <1> USE DEF PinsInv
  <1>op. /\ Halted(target) \in Target /\ Halted(target).debug
         /\ (Halted(target).catch <=> target.catch) /\ (Halted(target).ran <=> target.ran)
         /\ Halted(target).core = IF target.core = "running" THEN "halted" ELSE target.core
    BY HaltedOp DEF PinsTypeOK
  <1>1. /\ pc = "haltAgain" /\ swdio' = "out" /\ faults' \in 0 .. MaxFaults
        /\ UNCHANGED <<outcome, swclk, resetGate, link, rail, sensed, verdict>>
        /\ \/ link /\ target' = Halted(target) /\ faults' = faults
              /\ pc' = "identify"
           \/ ~link /\ target' = target /\ faults' = faults
              /\ pc' = "clearCatch"
           \/ link /\ target' \in {target, Halted(target)}
              /\ faults' \in 1 .. MaxFaults /\ pc' = "clearCatch"
    BY WorksOutcome, FailsOutcome DEF PinsTypeOK, HaltAgain, AttachWrite
  <1>2. PinsTypeOK'
    <2>1. target' \in Target
      BY <1>1, <1>op DEF PinsTypeOK
    <2> QED
      BY <1>1, <2>1 DEF PinsTypeOK, Points
  <1>3. Wired'
    BY <1>1, <1>op DEF PinsTypeOK, Wired, Driven
  <1>4. Driven'
    BY <1>1, <1>op DEF PinsTypeOK, Driven, InRange, Reading
  <1>5. Prepared'
    BY <1>1, <1>op DEF PinsTypeOK, Prepared, Driven, Wired
  <1>6. Undone'
    BY <1>1, <1>op DEF PinsTypeOK, Undone, Driven, Wired
  <1> QED
    BY <1>2, <1>3, <1>4, <1>5, <1>6

\* Reads change nothing.
LEMMA PinsIdentify == PinsInv /\ Identify => PinsInv'
  <1> SUFFICES ASSUME PinsInv, Identify PROVE PinsInv'
    OBVIOUS
  <1> USE DEF PinsInv
  <1>1. /\ pc = "identify" /\ swdio' = "out" /\ faults' \in 0 .. MaxFaults
        /\ UNCHANGED <<outcome, swclk, resetGate, link, rail, sensed, verdict>>
        /\ \/ link /\ target' = target /\ faults' = faults
              /\ pc' \in {"work", "clearCatch"}
           \/ ~link /\ target' = target /\ faults' = faults
              /\ pc' = "clearCatch"
           \/ link /\ target' \in {target, target}
              /\ faults' \in 1 .. MaxFaults /\ pc' = "clearCatch"
    BY WorksOutcome, FailsOutcome DEF PinsTypeOK, Identify
  <1>2. PinsTypeOK'
    <2>1. target' \in Target
      BY <1>1 DEF PinsTypeOK
    <2> QED
      BY <1>1, <2>1 DEF PinsTypeOK, Points
  <1>3. Wired'
    BY <1>1 DEF PinsTypeOK, Wired, Driven
  <1>4. Driven'
    BY <1>1 DEF PinsTypeOK, Driven, InRange, Reading
  <1>5. Prepared'
    BY <1>1 DEF PinsTypeOK, Prepared, Driven, Wired
  <1>6. Undone'
    BY <1>1 DEF PinsTypeOK, Undone, Driven, Wired
  <1> QED
    BY <1>2, <1>3, <1>4, <1>5, <1>6

\* The job's accesses change nothing.
LEMMA PinsWork == PinsInv /\ Work => PinsInv'
  <1> SUFFICES ASSUME PinsInv, Work PROVE PinsInv'
    OBVIOUS
  <1> USE DEF PinsInv
  <1>1. /\ pc = "work" /\ swdio' = "out" /\ faults' \in 0 .. MaxFaults
        /\ UNCHANGED <<outcome, swclk, resetGate, link, rail, sensed>>
        /\ \/ link /\ target' = target /\ faults' = faults
              /\ pc' = "clearCatch"
           \/ ~link /\ target' = target /\ faults' = faults
              /\ pc' = "clearCatch"
           \/ link /\ target' \in {target, target}
              /\ faults' \in 1 .. MaxFaults /\ pc' = "clearCatch"
    BY WorksOutcome, FailsOutcome DEF PinsTypeOK, Work
  <1>2. PinsTypeOK'
    <2>1. verdict' \in {"success", "failed"}
      BY DEF Work, PinsTypeOK
    <2> QED
      BY <1>1, <2>1 DEF PinsTypeOK, Points
  <1>3. Wired'
    BY <1>1 DEF PinsTypeOK, Wired, Driven
  <1>4. Driven'
    BY <1>1 DEF PinsTypeOK, Driven, InRange, Reading
  <1>5. Prepared'
    BY <1>1 DEF PinsTypeOK, Prepared, Driven, Wired
  <1>6. Undone'
    BY <1>1 DEF PinsTypeOK, Undone, Driven, Wired
  <1> QED
    BY <1>2, <1>3, <1>4, <1>5, <1>6

\* The catch is cleared, or an access failed.
LEMMA PinsClearCatch == PinsInv /\ ClearCatch => PinsInv'
  <1> SUFFICES ASSUME PinsInv, ClearCatch PROVE PinsInv'
    OBVIOUS
  <1> USE DEF PinsInv
  <1> DEFINE uncaught == Catching(target, FALSE)
  <1>op. /\ uncaught \in Target /\ ~uncaught.catch
         /\ (uncaught.debug <=> target.debug) /\ (uncaught.ran <=> target.ran)
         /\ uncaught.core = target.core
    BY CatchingOp DEF PinsTypeOK
  <1>1. /\ pc = "clearCatch" /\ swdio' = "out" /\ faults' \in 0 .. MaxFaults
        /\ UNCHANGED <<outcome, swclk, resetGate, link, rail, sensed, verdict>>
        /\ \/ link /\ target' = uncaught /\ faults' = faults
              /\ pc' = "reset"
           \/ ~link /\ target' = target /\ faults' = faults
              /\ pc' = "reset"
           \/ link /\ target' \in {target, uncaught}
              /\ faults' \in 1 .. MaxFaults /\ pc' = "reset"
    BY WorksOutcome, FailsOutcome DEF PinsTypeOK, ClearCatch, DetachWrite
  <1>2. PinsTypeOK'
    <2>1. target' \in Target
      BY <1>1, <1>op DEF PinsTypeOK
    <2> QED
      BY <1>1, <2>1 DEF PinsTypeOK, Points
  <1>3. Wired'
    BY <1>1, <1>op DEF PinsTypeOK, Wired, Driven
  <1>4. Driven'
    BY <1>1, <1>op DEF PinsTypeOK, Driven, InRange, Reading
  <1>5. Prepared'
    BY <1>1, <1>op DEF PinsTypeOK, Prepared, Driven, Wired
  <1>6. Undone'
    <2>1. CASE link /\ target' = uncaught /\ faults' = faults /\ pc' = "reset"
      BY <1>1, <2>1, <1>op DEF PinsTypeOK, Undone, Driven, Wired
    <2>2. CASE ~link /\ target' = target /\ faults' = faults /\ pc' = "reset"
      BY <1>1, <2>2 DEF PinsTypeOK, Undone, Driven, Wired
    <2>3. CASE /\ link /\ target' \in {target, uncaught} /\ faults' \in 1 .. MaxFaults
               /\ pc' = "reset"
      BY <1>1, <2>3, <1>op DEF PinsTypeOK, Undone, Driven, Wired
    <2> QED
      BY <1>1, <2>1, <2>2, <2>3
  <1> QED
    BY <1>2, <1>3, <1>4, <1>5, <1>6

\* A core without a catch runs after its reset.
LEMMA PinsResetTarget == PinsInv /\ ResetTarget => PinsInv'
  <1> SUFFICES ASSUME PinsInv, ResetTarget PROVE PinsInv'
    OBVIOUS
  <1> USE DEF PinsInv
  <1>op. /\ SystemReset(target) \in Target /\ (SystemReset(target).catch <=> target.catch)
         /\ target.core = "reset" => SystemReset(target) = target
         /\ target.core # "reset" => SystemReset(target).core \in {"running", "halted"}
         /\ target.core # "reset" /\ ~target.catch => SystemReset(target).core = "running"
    BY LeaveResetOp DEF PinsTypeOK, SystemReset
  <1>1. /\ pc = "reset" /\ swdio' = "out" /\ faults' \in 0 .. MaxFaults
        /\ UNCHANGED <<outcome, swclk, resetGate, link, rail, sensed, verdict>>
        /\ \/ link /\ target' = SystemReset(target) /\ faults' = faults
              /\ pc' = "disconnect"
           \/ ~link /\ target' = target /\ faults' = faults
              /\ pc' = "disconnect"
           \/ link /\ target' \in {target, SystemReset(target)}
              /\ faults' \in 1 .. MaxFaults /\ pc' = "disconnect"
    BY WorksOutcome, FailsOutcome DEF PinsTypeOK, ResetTarget, DetachWrite
  <1>2. PinsTypeOK'
    <2>1. target' \in Target
      BY <1>1, <1>op DEF PinsTypeOK
    <2> QED
      BY <1>1, <2>1 DEF PinsTypeOK, Points
  <1>3. Wired'
    BY <1>1, <1>op DEF PinsTypeOK, Wired, Driven
  <1>4. Driven'
    BY <1>1, <1>op DEF PinsTypeOK, Driven, InRange, Reading
  <1>5. Prepared'
    BY <1>1, <1>op DEF PinsTypeOK, Prepared, Driven, Wired
  <1>6. Undone'
    BY <1>1, <1>op DEF PinsTypeOK, Undone, Driven, Wired
  <1> QED
    BY <1>2, <1>3, <1>4, <1>5, <1>6

\* Pins and reset are released.
LEMMA PinsDisconnect == PinsInv /\ Disconnect => PinsInv'
  <1> SUFFICES ASSUME PinsInv, Disconnect PROVE PinsInv'
    OBVIOUS
  <1> USE DEF PinsInv
  <1> DEFINE left == LeaveReset(target)
  <1>op. /\ left \in Target
         /\ (left.debug <=> target.debug) /\ (left.catch <=> target.catch)
         /\ target.debug /\ target.catch => left.core = "halted" /\ ~left.ran
         /\ ~(target.debug /\ target.catch) => left.core = "running"
    BY LeaveResetOp DEF PinsTypeOK
  <1>2. PinsTypeOK'
    BY <1>op DEF Disconnect, PinsTypeOK, Points, Rails, ReleaseReset, Direction,
       Gate
  <1>3. Wired'
    BY <1>op DEF Disconnect, PinsTypeOK, Wired, Driven, ReleaseReset, Direction,
       Gate
  <1>4. Driven'
    BY <1>op DEF Disconnect, PinsTypeOK, Driven, InRange, Reading, ReleaseReset,
       Direction, Gate
  <1>5. Prepared'
    BY <1>op DEF Disconnect, PinsTypeOK, Prepared, Driven, Wired, ReleaseReset,
       Direction, Gate
  <1>6. Undone'
    BY <1>op DEF Disconnect, PinsTypeOK, Undone, Driven, Wired, ReleaseReset,
       Direction, Gate
  <1> QED
    BY <1>2, <1>3, <1>4, <1>5, <1>6

\* A restart releases pins and reset, and is a fault.
LEMMA PinsReboot == PinsInv /\ Reboot => PinsInv'
  <1> SUFFICES ASSUME PinsInv, Reboot PROVE PinsInv'
    OBVIOUS
  <1> USE DEF PinsInv
  <1> DEFINE left == LeaveReset(target)
  <1>op. /\ left \in Target
         /\ (left.debug <=> target.debug) /\ (left.catch <=> target.catch)
         /\ target.debug /\ target.catch => left.core = "halted" /\ ~left.ran
         /\ ~(target.debug /\ target.catch) => left.core = "running"
    BY LeaveResetOp DEF PinsTypeOK
  <1>2. PinsTypeOK'
    <2>1. faults' \in 0 .. MaxFaults
      BY FaultAssumption DEF Reboot, PinsTypeOK
    <2>2. target' \in Target
      BY <1>op DEF ReleaseReset, Reboot, PinsTypeOK
    <2> QED
      BY <2>1, <2>2 DEF Reboot, PinsTypeOK, Points, Direction, Gate
  <1>3. Wired'
    BY <1>op DEF Reboot, PinsTypeOK, Wired, Driven, ReleaseReset, Direction, Gate
  <1>4. Driven'
    BY <1>op DEF Reboot, PinsTypeOK, Driven, InRange, Reading, ReleaseReset,
       Direction, Gate
  <1>5. Prepared'
    BY <1>op DEF Reboot, PinsTypeOK, Prepared, Driven, Wired, ReleaseReset,
       Direction, Gate
  <1>6. Undone'
    BY <1>op DEF Reboot, PinsTypeOK, Undone, Driven, Wired, ReleaseReset,
       Direction, Gate
  <1> QED
    BY <1>2, <1>3, <1>4, <1>5, <1>6

\* A controller that loses power loses its debug registers and the link.
LEMMA PinsSupply == PinsInv /\ Supply => PinsInv'
  <1> SUFFICES ASSUME PinsInv, Supply PROVE PinsInv'
    OBVIOUS
  <1> USE DEF PinsInv
  <1>2. PinsTypeOK'
    <2>1. link' \in BOOLEAN
      BY Zenon DEF Supply, PinsTypeOK
    <2>2. target' \in Target
      <3>1. Unpowered \in Target
        BY DEF Unpowered, Target
      <3> QED
        BY <3>1, PowerUpOp DEF Supply, PinsTypeOK
    <2> QED
      BY <2>1, <2>2 DEF Supply, PinsTypeOK, Rails, pins
  <1>3. Wired'
    BY PowerUpOp DEF Supply, PinsTypeOK, Wired, Driven, Unpowered, Rails, pins
  <1>4. Driven'
    BY PowerUpOp DEF Supply, PinsTypeOK, Driven, InRange, Reading, Unpowered,
       Rails, pins
  <1>5. Prepared'
    BY PowerUpOp DEF Supply, PinsTypeOK, Prepared, Driven, Wired, Unpowered,
       Rails, pins
  <1>6. Undone'
    BY PowerUpOp DEF Supply, PinsTypeOK, Undone, Driven, Wired, Unpowered, Rails,
       pins
  <1> QED
    BY <1>2, <1>3, <1>4, <1>5, <1>6

\* A caught core halts again before its first instruction.
LEMMA PinsResetButton == PinsInv /\ ResetButton => PinsInv'
  <1> SUFFICES ASSUME PinsInv, ResetButton PROVE PinsInv'
    OBVIOUS
  <1> USE DEF PinsInv
  <1> DEFINE left == LeaveReset(target)
  <1>op. /\ left \in Target
         /\ (left.debug <=> target.debug) /\ (left.catch <=> target.catch)
         /\ target.debug /\ target.catch => left.core = "halted" /\ ~left.ran
         /\ ~(target.debug /\ target.catch) => left.core = "running"
    BY LeaveResetOp DEF PinsTypeOK
  <1>2. PinsTypeOK'
    <2>1. target' \in Target
      BY <1>op DEF ResetButton, PinsTypeOK
    <2> QED
      BY <2>1 DEF ResetButton, PinsTypeOK, pins
  <1>3. Wired'
    BY <1>op DEF ResetButton, PinsTypeOK, Wired, Driven, pins
  <1>4. Driven'
    BY <1>op DEF ResetButton, PinsTypeOK, Driven, InRange, Reading, pins
  <1>5. Prepared'
    BY <1>op DEF ResetButton, PinsTypeOK, Prepared, Driven, Wired, pins
  <1>6. Undone'
    BY <1>op DEF ResetButton, PinsTypeOK, Undone, Driven, Wired, pins
  <1> QED
    BY <1>2, <1>3, <1>4, <1>5, <1>6

\* The inductive invariant holds in every state of every behaviour.
THEOREM PinsInvariance == PinsSpec => []PinsInv
  <1>1. PinsInv /\ [PinsNext]_pinsVars => PinsInv'
    <2> SUFFICES ASSUME PinsInv, [PinsNext]_pinsVars PROVE PinsInv'
      OBVIOUS
    <2>1. CASE Start \/ Work \/ Reboot \/ Supply \/ ResetButton
      BY <2>1, PinsStart, PinsWork, PinsReboot, PinsSupply, PinsResetButton
    <2>2. CASE Attaching
      BY <2>2, PinsSense, PinsSenseFails, PinsConnect, PinsHalt, PinsCatchReset,
         PinsHaltAgain, PinsIdentify DEF Attaching
    <2>3. CASE Detaching
      BY <2>3, PinsClearCatch, PinsResetTarget, PinsDisconnect DEF Detaching
    <2>4. CASE UNCHANGED pinsVars
      BY <2>4 DEF pinsVars, PinsInv, PinsTypeOK, Wired, Driven, Prepared, Undone, InRange, Reading
    <2> QED
      BY <2>1, <2>2, <2>3, <2>4 DEF PinsNext
  <1> QED
    BY PinsInitial, <1>1, PTL DEF PinsSpec

(* Memory is used only on a core that has been halted since its reset:       *)
(* no program of the printer runs between the reset of attach and the last   *)
(* access of the job.                                                        *)
THEOREM CoreHaltedInUse == PinsSpec => []UsedOnlyHalted
  <1>1. PinsInv => UsedOnlyHalted
    BY DEF PinsInv, Prepared, UsedOnlyHalted
  <1> QED
    BY PinsInvariance, <1>1, PTL

(* Every path through a job releases pins and reset, and one without a       *)
(* failed access leaves the printer running.                                 *)
THEOREM JobsLetGo == PinsSpec => []PrinterLeftAlone
  <1>1. PinsInv => PrinterLeftAlone
    BY DEF PinsInv, PinsTypeOK, Wired, Driven, Undone, PrinterLeftAlone
  <1> QED
    BY PinsInvariance, <1>1, PTL

(* Where the reading tells every supply apart (ESP32), clock and reset are   *)
(* driven only by a job that found the supply in range.                      *)
THEOREM InRangeOnly ==
  ASSUME Saturates = FALSE
  PROVE  PinsSpec => []NoConnectOutOfRange
  <1>1. PinsInv => NoConnectOutOfRange
    BY DEF PinsInv, Driven, InRange, Reading, NoConnectOutOfRange
  <1> QED
    BY PinsInvariance, <1>1, PTL
=============================================================================
