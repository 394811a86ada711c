------------------------------ MODULE KeypadScan ------------------------------
(***************************************************************************)
(* main.py, the keyboard-matrix scanner: rows are driven low one after the *)
(* other while the columns are read, a scan must stay the same for         *)
(* DEBOUNCE_MS before its keys are reported.  The switches move at any     *)
(* time, also between two rows of a scan.                                  *)
(***************************************************************************)
EXTENDS Integers

CONSTANTS
  Rows, Columns, \* of the matrix: 1 .. Rows, 1 .. Columns
  Debounce,      \* ticks a scan must stay the same (DEBOUNCE_MS)
  Wrap,          \* ticks_ms counts modulo this
  MaxMoves       \* bound: movements of a switch

ASSUME KeypadAssumption ==
  /\ Rows \in Nat \ {0} /\ Columns \in Nat \ {0} /\ MaxMoves \in Nat
  /\ Debounce \in Nat \ {0} /\ Wrap \in Nat /\ Wrap > 4 * Debounce

Keys == (1 .. Rows) \X (1 .. Columns)

VARIABLES
  closed,    \* the switches that are closed
  row,       \* the row of the scan under way; Rows + 1 when it is complete
  pressed,   \* what the scan has seen (pressed)
  candidate, \* candidate_keys
  since,     \* candidate_since
  stable,    \* stable_keys: what has been reported
  now,       \* ticks_ms
  moves,     \* movements of a switch so far
  quiet,     \* history: ticks for which every scan has returned candidate
  moved      \* history: a switch has moved since the scan began

vars == <<closed, row, pressed, candidate, since, stable, now, moves, quiet, moved>>

-----------------------------------------------------------------------------
(* The wires.  Rows that are not scanned are driven high; a column that is *)
(* tied to the scanned row and to another one may read either way.         *)
Tied(r, q) == \E c \in 1 .. Columns : <<r, c>> \in closed /\ <<q, c>> \in closed

\* Mutant: a row that was scanned stays low.
LinkedRowsStayLow(r) == 1 .. r
LinkedRows(r) ==
  {q \in 1 .. Rows :
     \A linked \in SUBSET (1 .. Rows) :
       r \in linked /\ (\A p \in linked, s \in 1 .. Rows : Tied(p, s) => s \in linked)
         => q \in linked}

Low(r, c) == \E q \in LinkedRows(r) : <<q, c>> \in closed

\* The columns a read of row r may find low.
Readings(r) ==
  LET low == {c \in 1 .. Columns : Low(r, c)}
  IN  IF LinkedRows(r) = {r} THEN {low} ELSE SUBSET low

\* Mutant: a plain difference.
PlainDiff(a, b) == a - b

TicksDiff(a, b) ==
  LET d == (a - b + Wrap) % Wrap IN IF d < Wrap \div 2 THEN d ELSE d - Wrap

-----------------------------------------------------------------------------
Init ==
  /\ closed = {} /\ row = 1 /\ pressed = {}
  /\ candidate = {} /\ stable = {}
  /\ now \in {0, Wrap - 1} /\ since = now
  /\ moves = 0 /\ quiet = 0 /\ moved = FALSE

\* A switch opens, closes or bounces.
Move(key) ==
  /\ moves < MaxMoves
  /\ moves' = moves + 1 /\ moved' = TRUE
  /\ closed' = IF key \in closed THEN closed \ {key} ELSE closed \cup {key}
  /\ UNCHANGED <<row, pressed, candidate, since, stable, now, quiet>>

\* One pass of the loop of scan_matrix.
ScanRow ==
  /\ row <= Rows
  /\ \E columns \in Readings(row) :
       pressed' = pressed \cup {<<row, c>> : c \in columns}
  /\ row' = row + 1
  /\ UNCHANGED <<closed, candidate, since, stable, now, moves, quiet, moved>>

\* Mutant: a new candidate does not restart the timer.
KeepTimer(t) == since
RestartTimer(t) == t

Settled(t) == TicksDiff(t, since) >= Debounce

\* The body of the loop of run, after the scan; ticks have passed since the
\* last time.
Debouncing(ticks) ==
  LET t == (now + ticks) % Wrap
  IN  /\ row = Rows + 1
      /\ now' = t
      /\ IF pressed # candidate
         THEN /\ candidate' = pressed
              /\ since' = RestartTimer(t)
              /\ quiet' = 0
              /\ UNCHANGED stable
         ELSE /\ stable' = IF candidate # stable /\ Settled(t) THEN candidate ELSE stable
              /\ quiet' = IF quiet < Debounce THEN quiet + ticks ELSE quiet
              /\ UNCHANGED <<candidate, since>>
      /\ row' = 1 /\ pressed' = {} /\ moved' = FALSE
      /\ UNCHANGED <<closed, moves>>

Run == ScanRow \/ \E ticks \in 1 .. 2 : Debouncing(ticks)

Next == Run \/ \E key \in Keys : Move(key)

Spec == Init /\ [][Next]_vars

\* The scanner runs for ever.
FairSpec == Spec /\ WF_vars(Run)

-----------------------------------------------------------------------------
KeypadTypeOK ==
  /\ closed \subseteq Keys /\ pressed \subseteq Keys
  /\ candidate \subseteq Keys /\ stable \subseteq Keys
  /\ row \in 1 .. Rows + 1
  /\ since \in 0 .. Wrap - 1 /\ now \in 0 .. Wrap - 1
  /\ moves \in 0 .. MaxMoves /\ quiet \in 0 .. Debounce + 1
  /\ moved \in BOOLEAN

(* Keys are reported only when all scans of the last DEBOUNCE_MS agreed on *)
(* them, across the wrap of the tick counter (the two branches in run).    *)
ReportedIsSettled == [][stable' # stable => quiet' >= Debounce]_vars

(* Once the switches stand still, what has been reported becomes what is   *)
(* pressed and stays so: no press or release is lost for good (run).  Only *)
(* two switches of one column that stay closed together are excepted.      *)
SharesColumn == \E k, l \in closed : k # l /\ k[2] = l[2]
ReportsCatchUp == <>[](stable = closed \/ SharesColumn)

(* "Return a set containing every currently pressed (row, column) pair":   *)
(* a scan during which no switch moves returns what is pressed, unless two *)
(* switches of one column tie their rows together (scan_matrix).           *)
ScanIsExact == row = Rows + 1 /\ ~moved => pressed = closed \/ SharesColumn
=============================================================================
