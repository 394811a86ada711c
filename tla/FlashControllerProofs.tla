----------------------- MODULE FlashControllerProofs -----------------------
(***************************************************************************)
(* Proofs about FlashController, for every size of flash and page and every *)
(* set of files.  ControllerInv says what each point of the register        *)
(* sequence knows of the controller and of the pages done so far; every     *)
(* effect of an access keeps DeviceSafe, whether or not the access is seen  *)
(* to have succeeded.                                                       *)
(***************************************************************************)
EXTENDS FlashController, TLAPS

Protected == {c \in Cells : c < Offset * PageCells
                \/ \A f \in Files : c >= (Offset * PageCells) + Len(f) + PageCells - 1}

Touched(d) == IF d.doing.op = "erase" THEN CellsOf(d.doing.at) ELSE {d.doing.at}

\* What holds of the controller at any time.
DeviceSafe(d) ==
  /\ d \in Device
  /\ \A c \in Protected : d.cells[c] = Old[c]
  /\ Busy(d) => Touched(d) \cap Protected = {}
  /\ d.used => ~d.locked
  /\ d.jammed => d.locked

PageBlank == \A c \in CellsOf(page) : dev.cells[c] = Blank
PageDone(p) == \A c \in CellsOf(p) : dev.cells[c] = Wanted(c)
DoneBefore == \A p \in Offset .. page - 1 : PageDone(p)

Here == page * PageCells + cell

\* The page is written up to the current doubleword and blank behind it.
HalfWay == \A c \in CellsOf(page) : /\ c < Here => dev.cells[c] = Wanted(c)
                                    /\ c > Here => dev.cells[c] = Blank

BeforePages == {"read CR", "key 1", "key 2", "confirm", "clear SR", "reset CR", "clear again"}
ErasePoints == {"configure", "start", "wait erase", "finish erase", "enable"}
WritePoints == {"write", "wait write", "clear EOP"}
PagePoints == ErasePoints \cup WritePoints \cup {"disable"}

\* The lock, the busy flag, the error flags and FLASH_CR.
Registers ==
  /\ pc \in {"key 1", "key 2"} => dev.locked
  /\ pc \in PagePoints \cup {"clear SR", "reset CR", "clear again"} => ~dev.locked
  /\ pc \in (PagePoints \ {"wait erase", "wait write"}) \cup {"clear again", "verify"} => ~Busy(dev)
  /\ pc \in PagePoints \ {"wait erase", "wait write"} => ~dev.err
  /\ pc \in {"start", "wait erase"} => dev.cr = "PER"
  /\ pc \in WritePoints => dev.cr = "PG"

Counters ==
  /\ pc \in BeforePages => page = Offset
  /\ pc \in BeforePages \cup ErasePoints \cup {"disable"} => cell = 0

\* What a wait that sees no error may conclude.
Waits ==
  /\ pc = "wait erase" =>
       /\ Busy(dev) => dev.doing = [op |-> "erase", at |-> page, value |-> Blank] /\ ~dev.err
       /\ ~Busy(dev) /\ ~dev.err => PageBlank
  /\ pc = "wait write" =>
       /\ Busy(dev) => dev.doing = [op |-> "program", at |-> Here, value |-> Wanted(Here)] /\ ~dev.err
       /\ ~Busy(dev) /\ ~dev.err => dev.cells[Here] = Wanted(Here)

Progress ==
  /\ pc \in PagePoints => DoneBefore
  /\ pc \in {"finish erase", "enable"} => PageBlank
  /\ pc \in WritePoints => HalfWay
  /\ pc = "write" => dev.cells[Here] = Blank
  /\ pc = "clear EOP" => dev.cells[Here] = Wanted(Here)
  /\ pc = "disable" => PageDone(page)

ControllerInv ==
  /\ ControllerTypeOK
  /\ DeviceSafe(dev)
  /\ Registers
  /\ Counters
  /\ Waits
  /\ Progress
  /\ ProgramIsWhole

-----------------------------------------------------------------------------
(* Geometry *)

\* A product grows by its factor.
LEMMA ProductGrows ==
  ASSUME NEW p \in Nat \ {0}, NEW x \in Int, NEW y \in Int, x >= y + 1
  PROVE  x * p >= y * p + p
  BY Z3

\* A page is PageCells doublewords from its first.
LEMMA PageIsRange ==
  ASSUME SizeAssumption, NEW p \in Nat
  PROVE  /\ p * PageCells \in Nat
         /\ CellsOf(p) = p * PageCells .. p * PageCells + PageCells - 1
  <1>1. PageCells \in Nat BY DEF SizeAssumption
  <1>2. p * PageCells \in Nat BY <1>1, Z3
  <1>3. (p + 1) * PageCells = p * PageCells + PageCells BY <1>1, Z3
  <1> QED BY <1>1, <1>2, <1>3 DEF CellsOf

\* Two pages have no doubleword in common.
LEMMA PagesApart ==
  ASSUME SizeAssumption, NEW p \in Nat, NEW q \in Nat, p < q
  PROVE  \A c \in CellsOf(p) : c \notin CellsOf(q)
  <1>1. PageCells \in Nat \ {0} BY DEF SizeAssumption
  <1>2. q * PageCells >= p * PageCells + PageCells BY <1>1, ProductGrows
  <1>3. /\ p * PageCells \in Nat /\ q * PageCells \in Nat
        /\ CellsOf(p) = p * PageCells .. p * PageCells + PageCells - 1
        /\ CellsOf(q) = q * PageCells .. q * PageCells + PageCells - 1
    BY PageIsRange
  <1> HIDE DEF CellsOf
  <1> DEFINE a == p * PageCells
             b == q * PageCells
  <1> HIDE DEF a, b
  <1>4. /\ a \in Nat /\ b \in Nat /\ b >= a + PageCells
        /\ CellsOf(p) = a .. a + PageCells - 1 /\ CellsOf(q) = b .. b + PageCells - 1
    BY <1>2, <1>3 DEF a, b
  <1> QED BY <1>1, <1>4

\* The pages of a file lie in the flash, and outside what is protected.
LEMMA AreaIsOpen ==
  ASSUME SizeAssumption, file \in Files, NEW p \in Offset .. LastPage
  PROVE  /\ p \in Nat
         /\ CellsOf(p) \subseteq Cells
         /\ CellsOf(p) \cap Protected = {}
         /\ \A c \in CellsOf(p) : c >= Offset * PageCells
  <1> DEFINE P == PageCells
             q == (Len(file) - 1) \div P
             m == q * P
  <1>1. P \in Nat \ {0} /\ Offset \in Nat /\ Pages \in Nat BY DEF SizeAssumption
  <1>2. Len(file) \in Nat \ {0} /\ Len(file) <= (Pages - Offset) * P BY DEF SizeAssumption
  <1>3. q \in Nat /\ m \in Nat /\ m <= Len(file) - 1
    <2> DEFINE L == Len(file) - 1
    <2>1. L \in Nat BY <1>2
    <2> HIDE DEF L
    <2>2. L \div P \in Nat /\ P * (L \div P) <= L BY <1>1, <2>1, Z3
    <2>3. (L \div P) * P = P * (L \div P) /\ (L \div P) * P \in Nat BY <1>1, <2>2, Z3
    <2> QED BY <2>1, <2>2, <2>3 DEF L
  <1>4. LastPage = Offset + q BY DEF LastPage
  <1> HIDE DEF q
  <1>5. p \in Nat /\ p >= Offset /\ p <= Offset + q BY <1>1, <1>3, <1>4
  <1> DEFINE a == p * P
             o == Offset * P
             t == (Offset + q) * P
             e == Pages * P
  <1>6. a \in Nat /\ CellsOf(p) = a .. a + P - 1 BY <1>5, PageIsRange
  <1>7. o \in Nat /\ t \in Nat /\ e \in Nat BY <1>1, <1>3, Z3
  <1>8. t = o + m BY <1>1, <1>3, Z3
  <1>9. a >= o
    <2>1. p > Offset => a >= o + P BY <1>1, <1>5, ProductGrows
    <2> QED BY <1>1, <1>5, <1>6, <1>7, <2>1
  <1>10. a <= t
    <2>1. p < Offset + q => t >= a + P BY <1>1, <1>3, <1>5, ProductGrows
    <2> QED BY <1>1, <1>3, <1>5, <1>6, <1>7, <2>1
  <1>11. t + P <= e
    <2>1. (Pages - Offset) * P = e - o BY <1>1, Z3
    <2>2. Offset + q >= Pages + 0 => t >= e
      <3>1. Offset + q > Pages => t >= e + P BY <1>1, <1>3, ProductGrows
      <3> QED BY <1>1, <1>3, <1>7, <3>1
    <2>3. Offset + q < Pages => e >= t + P BY <1>1, <1>3, ProductGrows
    <2> HIDE DEF m, o, t, e
    <2>4. t < e BY <1>2, <1>3, <1>7, <1>8, <2>1
    <2> QED BY <1>1, <1>3, <1>7, <2>2, <2>3, <2>4
  <1>12. Cells = 0 .. e - 1 BY DEF Cells
  <1>13. \A c \in Protected : c \in Cells /\ (c < o \/ c >= o + Len(file) + P - 1)
    BY DEF Protected
  <1> HIDE DEF a, o, t, e, m
  <1>14. \A c \in CellsOf(p) : c \in Int /\ c >= o /\ c <= a + P - 1
    BY <1>1, <1>6, <1>7, <1>9
  <1>15. CellsOf(p) \subseteq Cells
    BY <1>1, <1>6, <1>7, <1>10, <1>11, <1>12, <1>14
  <1>16. \A c \in CellsOf(p) : c \notin Protected
    BY <1>1, <1>2, <1>3, <1>6, <1>7, <1>8, <1>10, <1>13, <1>14
  <1>17. CellsOf(p) \cap Protected = {} BY <1>16
  <1> QED BY <1>5, <1>14, <1>15, <1>17 DEF o

\* The current doubleword is one of the page's.
LEMMA HereInPage ==
  ASSUME SizeAssumption, ControllerTypeOK
  PROVE  /\ page \in Nat /\ Here \in CellsOf(page)
         /\ Here \in Cells /\ Here \notin Protected /\ Here >= Offset * PageCells
  <1>1. file \in Files /\ page \in Offset .. LastPage /\ cell \in 0 .. PageCells - 1
    BY DEF ControllerTypeOK
  <1>2. /\ page \in Nat /\ CellsOf(page) \subseteq Cells /\ CellsOf(page) \cap Protected = {}
        /\ \A c \in CellsOf(page) : c >= Offset * PageCells
    BY <1>1, AreaIsOpen
  <1> DEFINE a == page * PageCells
  <1>3. a \in Nat /\ CellsOf(page) = a .. a + PageCells - 1 BY <1>2, PageIsRange
  <1>4. Here = a + cell BY DEF Here
  <1> HIDE DEF a
  <1>5. PageCells \in Nat BY DEF SizeAssumption
  <1>6. Here \in CellsOf(page) BY <1>1, <1>3, <1>4, <1>5
  <1> QED BY <1>2, <1>6

\* What belongs in the application area is a doubleword.
LEMMA WantedIsContent ==
  ASSUME SizeAssumption, file \in Files, NEW c \in Int, c >= Offset * PageCells
  PROVE  Wanted(c) \in Content
  <1>1. Offset * PageCells \in Nat BY Z3 DEF SizeAssumption
  <1>2. file \in Seq(Content) /\ Blank \in Content BY DEF SizeAssumption
  <1> DEFINE i == c - Offset * PageCells + 1
  <1>3. i \in Nat /\ i >= 1 BY <1>1
  <1>4. Wanted(c) = IF i <= Len(file) THEN file[i] ELSE Blank BY DEF Wanted
  <1> HIDE DEF i
  <1> QED BY <1>2, <1>3, <1>4

-----------------------------------------------------------------------------
(* The effects of an access *)

\* Filling doublewords that are not protected keeps the others.
LEMMA FillSafe ==
  ASSUME NEW d, DeviceSafe(d), NEW cells, cells \cap Protected = {}, NEW v \in Content
  PROVE  /\ Fill(d, cells, v) \in [Cells -> Content]
         /\ \A c \in Protected : Fill(d, cells, v)[c] = Old[c]
  <1>1. d.cells \in [Cells -> Content] BY DEF DeviceSafe, Device
  <1>2. \A c \in Protected : c \in Cells /\ d.cells[c] = Old[c] BY DEF DeviceSafe, Protected
  <1> QED BY <1>1, <1>2 DEF Fill

\* What an operation leaves when it ends.
LEMMA EndedSafe ==
  ASSUME SizeAssumption, NEW d, DeviceSafe(d), Busy(d), NEW n \in Ended(d)
  PROVE  /\ DeviceSafe(n) /\ ~Busy(n)
         /\ n.locked = d.locked /\ n.cr = d.cr
         /\ ~n.err => ~d.err /\ n.cells = Fill(d, Touched(d), d.doing.value)
  <1>1. d \in Device /\ d.doing \in Operations BY DEF DeviceSafe, Device
  <1>2. d.doing.value \in Content /\ Torn \in Content /\ Blank \in Content
    BY <1>1 DEF Operations, SizeAssumption
  <1>3. Touched(d) \cap Protected = {} BY DEF DeviceSafe
  <1> DEFINE good == Fill(d, Touched(d), d.doing.value)
             torn == Fill(d, Touched(d), Torn)
  <1>4. /\ good \in [Cells -> Content] /\ \A c \in Protected : good[c] = Old[c]
        /\ torn \in [Cells -> Content] /\ \A c \in Protected : torn[c] = Old[c]
    <2> HIDE DEF good, torn
    <2>1. good \in [Cells -> Content] /\ \A c \in Protected : good[c] = Old[c]
      BY <1>2, <1>3, FillSafe DEF good
    <2>2. torn \in [Cells -> Content] /\ \A c \in Protected : torn[c] = Old[c]
      BY <1>2, <1>3, FillSafe DEF torn
    <2> QED BY <2>1, <2>2
  <1>5. \/ n = [d EXCEPT !.doing = Idle, !.cells = good]
        \/ n = [d EXCEPT !.doing = Idle, !.cells = torn, !.err = TRUE]
    BY DEF Ended, Touched
  <1>6. Idle \in Operations /\ Idle.op = "none" BY <1>2 DEF Idle, Operations
  <1>7. (d.used => ~d.locked) /\ (d.jammed => d.locked) BY DEF DeviceSafe
  <1> HIDE DEF good, torn
  <1>8. CASE n = [d EXCEPT !.doing = Idle, !.cells = good]
    <2>1. /\ n \in Device /\ n.cells = good /\ n.doing = Idle /\ n.err = d.err
          /\ n.locked = d.locked /\ n.cr = d.cr /\ n.used = d.used /\ n.jammed = d.jammed
      BY <1>1, <1>4, <1>6, <1>8 DEF Device
    <2>2. ~Busy(n) BY <2>1, <1>6 DEF Busy
    <2> QED BY <1>1, <1>4, <1>7, <2>1, <2>2 DEF DeviceSafe, good
  <1>9. CASE n = [d EXCEPT !.doing = Idle, !.cells = torn, !.err = TRUE]
    <2>1. /\ n \in Device /\ n.cells = torn /\ n.doing = Idle /\ n.err
          /\ n.locked = d.locked /\ n.cr = d.cr /\ n.used = d.used /\ n.jammed = d.jammed
      BY <1>1, <1>4, <1>6, <1>9 DEF Device
    <2>2. ~Busy(n) BY <2>1, <1>6 DEF Busy
    <2> QED BY <1>1, <1>4, <1>7, <2>1, <2>2 DEF DeviceSafe
  <1> QED BY <1>5, <1>8, <1>9

\* A controller that has been waited for is idle, and as it was if it was.
LEMMA SettledSafe ==
  ASSUME SizeAssumption, NEW d, DeviceSafe(d), NEW s \in Settled(d)
  PROVE  /\ DeviceSafe(s) /\ ~Busy(s)
         /\ s.locked = d.locked
         /\ ~Busy(d) => s = d
  <1>1. CASE Busy(d)
    <2>1. s \in Ended(d) BY <1>1 DEF Settled
    <2> QED BY <1>1, <2>1, EndedSafe
  <1>2. CASE ~Busy(d) BY <1>2 DEF Settled
  <1> QED BY <1>1, <1>2

\* A record that differs in registers only is as safe.
LEMMA RegistersOnly ==
  ASSUME NEW d, DeviceSafe(d), NEW n \in Device, n.cells = d.cells, n.doing = d.doing,
         n.used => ~n.locked, n.jammed => n.locked
  PROVE  DeviceSafe(n) /\ Busy(n) = Busy(d)
  <1>1. Touched(n) = Touched(d) BY DEF Touched
  <1>2. Busy(n) = Busy(d) BY DEF Busy
  <1> QED BY <1>1, <1>2 DEF DeviceSafe

\* A write to FLASH_CR.
LEMMA WriteCrSafe ==
  ASSUME SizeAssumption, NEW d, DeviceSafe(d), NEW bits \in {"0", "PG", "PER"},
         NEW n \in WriteCr(d, bits)
  PROVE  /\ DeviceSafe(n) /\ ~Busy(n) /\ n.locked = d.locked
         /\ ~d.locked => n.cr = bits
         /\ ~Busy(d) => n.cells = d.cells /\ n.err = d.err
  <1>1. PICK s \in Settled(d) : n = IF s.locked THEN s ELSE [s EXCEPT !.cr = bits]
    BY DEF WriteCr
  <1>2. /\ DeviceSafe(s) /\ ~Busy(s) /\ s.locked = d.locked
        /\ ~Busy(d) => s = d
    BY SettledSafe
  <1>3. CASE s.locked BY <1>1, <1>2, <1>3
  <1>4. CASE ~s.locked
    <2>1. s \in Device /\ (s.used => ~s.locked) /\ (s.jammed => s.locked)
      BY <1>2 DEF DeviceSafe
    <2>2. /\ n \in Device /\ n.cr = bits /\ n.cells = s.cells /\ n.doing = s.doing
          /\ n.err = s.err /\ n.locked = s.locked /\ n.used = s.used /\ n.jammed = s.jammed
      BY <1>1, <1>4, <2>1 DEF Device
    <2>3. DeviceSafe(n) /\ Busy(n) = Busy(s) BY <1>2, <2>1, <2>2, RegistersOnly
    <2> QED BY <1>2, <2>2, <2>3
  <1> QED BY <1>3, <1>4

\* The start of an erase in the application area.
LEMMA StartEraseSafe ==
  ASSUME SizeAssumption, NEW d, DeviceSafe(d), NEW p \in Nat, CellsOf(p) \cap Protected = {},
         NEW n \in StartErase(d, p)
  PROVE  /\ DeviceSafe(n) /\ n.locked = d.locked
         /\ ~Busy(d) /\ ~d.err /\ ~d.locked /\ d.cr = "PER" =>
              /\ n.doing = [op |-> "erase", at |-> p, value |-> Blank]
              /\ ~n.err /\ n.cr = "PER" /\ n.cells = d.cells
  <1> DEFINE o == [op |-> "erase", at |-> p, value |-> Blank]
  <1>1. PICK s \in Settled(d) :
          n = IF s.locked \/ s.err \/ s.cr # "PER" THEN [s EXCEPT !.err = TRUE]
              ELSE [s EXCEPT !.used = TRUE, !.doing = o]
    BY DEF StartErase
  <1>2. /\ DeviceSafe(s) /\ ~Busy(s) /\ s.locked = d.locked
        /\ ~Busy(d) => s = d
    BY SettledSafe
  <1>3. s \in Device /\ (s.used => ~s.locked) /\ (s.jammed => s.locked)
    BY <1>2 DEF DeviceSafe
  <1>4. o \in Operations /\ o.op = "erase" /\ o.at = p
    BY DEF Operations, SizeAssumption
  <1> HIDE DEF o
  <1>5. CASE s.locked \/ s.err \/ s.cr # "PER"
    <2>1. n = [s EXCEPT !.err = TRUE] BY <1>1, <1>5
    <2>2. /\ n \in Device /\ n.cells = s.cells /\ n.doing = s.doing
          /\ n.locked = s.locked /\ n.used = s.used /\ n.jammed = s.jammed
      BY <1>3, <2>1 DEF Device
    <2>3. DeviceSafe(n) BY <1>2, <1>3, <2>2, RegistersOnly
    <2> QED BY <1>2, <1>5, <2>2, <2>3
  <1>6. CASE ~(s.locked \/ s.err \/ s.cr # "PER")
    <2>1. n = [s EXCEPT !.used = TRUE, !.doing = o] BY <1>1, <1>6
    <2>2. /\ n \in Device /\ n.cells = s.cells /\ n.doing = o /\ n.cr = s.cr /\ n.err = s.err
          /\ n.locked = s.locked /\ n.used /\ n.jammed = s.jammed
      BY <1>3, <1>4, <2>1 DEF Device
    <2>3. Touched(n) = CellsOf(p) BY <1>4, <2>2 DEF Touched
    <2>4. DeviceSafe(n) BY <1>2, <1>3, <1>6, <2>2, <2>3 DEF DeviceSafe
    <2> QED BY <1>2, <1>6, <2>2, <2>4 DEF o
  <1> QED BY <1>5, <1>6

\* A doubleword written in the application area.
LEMMA WriteCellSafe ==
  ASSUME SizeAssumption, NEW d, DeviceSafe(d), NEW c \in Cells \ Protected, NEW v \in Content,
         NEW n \in WriteCell(d, c, v)
  PROVE  /\ DeviceSafe(n) /\ n.locked = d.locked
         /\ ~Busy(d) /\ ~d.err /\ d.cr = "PG" /\ d.cells[c] = Blank =>
              /\ n.doing = [op |-> "program", at |-> c, value |-> v]
              /\ ~n.err /\ n.cr = "PG" /\ n.cells = d.cells
  <1> DEFINE o == [op |-> "program", at |-> c, value |-> v]
  <1>1. PICK s \in Settled(d) :
          n = IF s.err \/ s.cr # "PG" \/ s.cells[c] # Blank THEN [s EXCEPT !.err = TRUE]
              ELSE [s EXCEPT !.doing = o]
    BY DEF WriteCell
  <1>2. /\ DeviceSafe(s) /\ ~Busy(s) /\ s.locked = d.locked
        /\ ~Busy(d) => s = d
    BY SettledSafe
  <1>3. s \in Device /\ (s.used => ~s.locked) /\ (s.jammed => s.locked)
    BY <1>2 DEF DeviceSafe
  <1>4. c \in Nat
    <2>1. c \in 0 .. Pages * PageCells - 1 BY DEF Cells
    <2>2. Pages * PageCells \in Nat BY Z3 DEF SizeAssumption
    <2> QED BY <2>1, <2>2
  <1>5. o \in Operations /\ o.op = "program" /\ o.at = c
    BY <1>4 DEF Operations
  <1> HIDE DEF o
  <1>6. CASE s.err \/ s.cr # "PG" \/ s.cells[c] # Blank
    <2>1. n = [s EXCEPT !.err = TRUE] BY <1>1, <1>6
    <2>2. /\ n \in Device /\ n.cells = s.cells /\ n.doing = s.doing
          /\ n.locked = s.locked /\ n.used = s.used /\ n.jammed = s.jammed
      BY <1>3, <2>1 DEF Device
    <2>3. DeviceSafe(n) BY <1>2, <1>3, <2>2, RegistersOnly
    <2> QED BY <1>2, <1>6, <2>2, <2>3
  <1>7. CASE ~(s.err \/ s.cr # "PG" \/ s.cells[c] # Blank)
    <2>1. n = [s EXCEPT !.doing = o] BY <1>1, <1>7
    <2>2. /\ n \in Device /\ n.cells = s.cells /\ n.doing = o /\ n.cr = s.cr /\ n.err = s.err
          /\ n.locked = s.locked /\ n.used = s.used /\ n.jammed = s.jammed
      BY <1>3, <1>5, <2>1 DEF Device
    <2>3. Touched(n) = {c} BY <1>5, <2>2 DEF Touched
    <2>4. Touched(n) \cap Protected = {} BY <2>3
    <2>5. DeviceSafe(n) BY <1>2, <1>3, <2>2, <2>4 DEF DeviceSafe
    <2> QED BY <1>2, <1>7, <2>2, <2>5 DEF o
  <1> QED BY <1>6, <1>7

\* Half a doubleword.
LEMMA HalfCellSafe ==
  ASSUME SizeAssumption, NEW d, DeviceSafe(d), NEW n \in HalfCell(d)
  PROVE  DeviceSafe(n)
  <1>1. PICK s \in Settled(d) : n = [s EXCEPT !.err = TRUE] BY DEF HalfCell
  <1>2. DeviceSafe(s) BY SettledSafe
  <1>3. s \in Device /\ (s.used => ~s.locked) /\ (s.jammed => s.locked)
    BY <1>2 DEF DeviceSafe
  <1>4. /\ n \in Device /\ n.cells = s.cells /\ n.doing = s.doing
        /\ n.locked = s.locked /\ n.used = s.used /\ n.jammed = s.jammed
    BY <1>1, <1>3 DEF Device
  <1> QED BY <1>2, <1>3, <1>4, RegistersOnly

\* The error flags cleared.
LEMMA ClearSrSafe ==
  ASSUME SizeAssumption, NEW d, DeviceSafe(d), NEW n \in ClearSr(d)
  PROVE  /\ DeviceSafe(n) /\ Busy(n) = Busy(d) /\ n.locked = d.locked
         /\ ~n.err /\ n.cells = d.cells
  <1>1. n = [d EXCEPT !.err = FALSE] BY DEF ClearSr
  <1>2. d \in Device /\ (d.used => ~d.locked) /\ (d.jammed => d.locked)
    BY DEF DeviceSafe
  <1>3. /\ n \in Device /\ n.cells = d.cells /\ n.doing = d.doing /\ ~n.err
        /\ n.locked = d.locked /\ n.used = d.used /\ n.jammed = d.jammed
    BY <1>1, <1>2 DEF Device
  <1> QED BY <1>2, <1>3, RegistersOnly

\* The count of keys starts again.
LEMMA KeysReset ==
  ASSUME NEW d \in Device
  PROVE  [d EXCEPT !.keys = 0] \in Device
  <1> DEFINE keys == 0 .. 1
             D == [cells: [Cells -> Content], cr: {"0", "PG", "PER"}, doing: Operations,
                   err: BOOLEAN, used: BOOLEAN, locked: BOOLEAN, keys: keys, jammed: BOOLEAN]
  <1>1. 0 \in keys OBVIOUS
  <1>2. d \in D BY DEF Device
  <1> HIDE DEF keys
  <1>3. [d EXCEPT !.keys = 0] \in D BY <1>1, <1>2
  <1> QED BY <1>3 DEF Device, keys

\* A key written to a controller that is locked.
LEMMA WriteKeySafe ==
  ASSUME SizeAssumption, NEW d, DeviceSafe(d), d.locked, NEW second \in BOOLEAN,
         NEW n \in WriteKey(d, second)
  PROVE  DeviceSafe(n) /\ (~second => n.locked)
  <1>1. d \in Device /\ (d.used => ~d.locked) /\ (d.jammed => d.locked)
    BY DEF DeviceSafe
  <1>2. \/ n = [d EXCEPT !.jammed = TRUE, !.locked = TRUE]
        \/ ~d.jammed /\ second /\ n = [d EXCEPT !.locked = FALSE, !.keys = 0]
        \/ ~second /\ n = [d EXCEPT !.keys = 1]
    BY DEF WriteKey
  <1>3. /\ n \in Device /\ n.cells = d.cells /\ n.doing = d.doing /\ n.used = d.used
        /\ n.jammed => n.locked
        /\ ~second => n.locked
    <2>1. CASE n = [d EXCEPT !.jammed = TRUE, !.locked = TRUE] BY <1>1, <2>1 DEF Device
    <2>2. CASE ~d.jammed /\ second /\ n = [d EXCEPT !.locked = FALSE, !.keys = 0]
      <3>1. n = [[d EXCEPT !.locked = FALSE] EXCEPT !.keys = 0] BY <2>2
      <3>2. [d EXCEPT !.locked = FALSE] \in Device BY <1>1 DEF Device
      <3>3. n \in Device BY <3>1, <3>2, KeysReset
      <3>4. /\ n.cells = d.cells /\ n.doing = d.doing /\ n.used = d.used
            /\ n.jammed = d.jammed
        BY <1>1, <2>2 DEF Device
      <3> QED BY <2>2, <3>3, <3>4
    <2>3. CASE ~second /\ n = [d EXCEPT !.keys = 1] BY <1>1, <2>3, SMTT(30) DEF Device
    <2> QED BY <1>2, <2>1, <2>2, <2>3
  <1> QED BY <1>1, <1>3, RegistersOnly

\* A reset.
LEMMA AfterResetSafe ==
  ASSUME SizeAssumption, NEW d, DeviceSafe(d), NEW n \in AfterReset(d)
  PROVE  DeviceSafe(n)
  <1>1. PICK s \in Settled(d) :
          n = [s EXCEPT !.cr = "0", !.err = FALSE, !.used = FALSE, !.locked = TRUE,
                        !.keys = 0, !.jammed = FALSE]
    BY DEF AfterReset
  <1>2. DeviceSafe(s) BY SettledSafe
  <1>3. s \in Device BY <1>2 DEF DeviceSafe
  <1>4. /\ n \in Device /\ n.cells = s.cells /\ n.doing = s.doing
        /\ n.locked /\ ~n.used /\ ~n.jammed
    <2> DEFINE a == [s EXCEPT !.cr = "0", !.err = FALSE]
               b == [a EXCEPT !.used = FALSE, !.locked = TRUE]
    <2>1. a \in Device /\ a.cells = s.cells /\ a.doing = s.doing BY <1>3 DEF Device
    <2>2. b \in Device /\ b.cells = s.cells /\ b.doing = s.doing /\ b.locked /\ ~b.used
      BY <2>1 DEF Device
    <2> DEFINE e == [b EXCEPT !.jammed = FALSE]
    <2>3. e \in Device /\ e.cells = s.cells /\ e.doing = s.doing /\ e.locked /\ ~e.used /\ ~e.jammed
      BY <2>2 DEF Device
    <2>4. n = [e EXCEPT !.keys = 0] BY <1>1
    <2> HIDE DEF a, b, e
    <2>5. n \in Device BY <2>3, <2>4, KeysReset
    <2> QED BY <2>3, <2>4, <2>5 DEF Device
  <1> QED BY <1>2, <1>4, RegistersOnly

-----------------------------------------------------------------------------
(* The steps *)

\* A file has a first and a last page.
LEMMA FileHasPages ==
  ASSUME SizeAssumption, NEW f \in Files
  PROVE  /\ Offset + (Len(f) - 1) \div PageCells \in Int
         /\ Offset + (Len(f) - 1) \div PageCells >= Offset
         /\ Offset \in Offset .. Offset + (Len(f) - 1) \div PageCells
         /\ 0 \in 0 .. PageCells - 1
  <1> DEFINE L == Len(f) - 1
             q == L \div PageCells
  <1>1. PageCells \in Nat \ {0} /\ Offset \in Nat BY DEF SizeAssumption
  <1>2. Len(f) \in 1 .. (Pages - Offset) * PageCells BY DEF SizeAssumption
  <1>3. L \in Nat
    <2>1. (Pages - Offset) * PageCells \in Int BY Z3 DEF SizeAssumption
    <2> QED BY <1>2, <2>1
  <1> HIDE DEF L
  <1>4. q \in Nat BY <1>1, <1>3, Z3
  <1> HIDE DEF q
  <1>5. Offset + q \in Int /\ Offset + q >= Offset BY <1>1, <1>4
  <1>6. Offset \in Offset .. Offset + q /\ 0 \in 0 .. PageCells - 1 BY <1>1, <1>5
  <1> QED BY <1>5, <1>6 DEF q, L

\* The end of an operation changes what it touches and nothing else.
LEMMA EndedElsewhere ==
  ASSUME NEW d \in Device, NEW n \in Ended(d)
  PROVE  \A c \in Cells \ Touched(d) : n.cells[c] = d.cells[c]
  <1>1. \/ n = [d EXCEPT !.doing = Idle, !.cells = Fill(d, Touched(d), d.doing.value)]
        \/ n = [d EXCEPT !.doing = Idle, !.cells = Fill(d, Touched(d), Torn), !.err = TRUE]
    BY DEF Ended, Touched
  <1>2. \/ n.cells = Fill(d, Touched(d), d.doing.value)
        \/ n.cells = Fill(d, Touched(d), Torn)
    BY <1>1 DEF Device
  <1> QED BY <1>2 DEF Fill

\* The constants a step leaves alone.
LEMMA RunKept ==
  ASSUME ControllerInv, UNCHANGED run, DeviceSafe(dev'), pc' \in Points
  PROVE  /\ ControllerTypeOK'
         /\ Here' = Here /\ LastPage' = LastPage
         /\ page' = page /\ cell' = cell /\ file' = file /\ given' = given
         /\ \A c : Wanted(c)' = Wanted(c)
  <1>1. file' = file /\ restore' = restore /\ page' = page /\ cell' = cell /\ given' = given
    BY DEF run
  <1>2. LastPage' = LastPage BY <1>1 DEF LastPage
  <1>3. dev' \in Device BY DEF DeviceSafe
  <1>4. ControllerTypeOK' BY <1>1, <1>2, <1>3 DEF ControllerInv, ControllerTypeOK
  <1>5. Here' = Here BY <1>1 DEF Here
  <1>6. \A c : Wanted(c)' = Wanted(c) BY <1>1 DEF Wanted
  <1> QED BY <1>1, <1>2, <1>4, <1>5, <1>6

\* What has been done stays done while the doublewords do.
LEMMA CellsKept ==
  ASSUME ControllerInv, UNCHANGED run, DeviceSafe(dev'), pc' \in Points, dev'.cells = dev.cells
  PROVE  /\ PageBlank => PageBlank'
         /\ DoneBefore => DoneBefore'
         /\ HalfWay => HalfWay'
         /\ PageDone(page) => PageDone(page)'
  <1>1. /\ Here' = Here /\ page' = page
        /\ \A c : Wanted(c)' = Wanted(c)
    BY RunKept
  <1>2. PageBlank => PageBlank' BY <1>1 DEF PageBlank
  <1>3. DoneBefore => DoneBefore' BY <1>1 DEF DoneBefore, PageDone
  <1>4. HalfWay => HalfWay' BY <1>1 DEF HalfWay
  <1>5. PageDone(page) => PageDone(page)' BY <1>1 DEF PageDone
  <1> QED BY <1>2, <1>3, <1>4, <1>5

\* So do the pages before the current one while only that one changes.
LEMMA OthersKept ==
  ASSUME SizeAssumption, ControllerInv, UNCHANGED run, DeviceSafe(dev'), pc' \in Points,
         \A c \in Cells \ CellsOf(page) : dev'.cells[c] = dev.cells[c], DoneBefore
  PROVE  DoneBefore'
  <1>1. page' = page /\ \A c : Wanted(c)' = Wanted(c) BY RunKept
  <1>2. file \in Files /\ page \in Offset .. LastPage
    BY DEF ControllerInv, ControllerTypeOK
  <1>3. page \in Nat BY <1>2, AreaIsOpen
  <1>4. SUFFICES ASSUME NEW p \in Offset .. page - 1, NEW c \in CellsOf(p)
                 PROVE  dev'.cells[c] = Wanted(c)
    BY <1>1, <1>4 DEF DoneBefore, PageDone
  <1>5. dev.cells[c] = Wanted(c) BY DEF DoneBefore, PageDone
  <1>6. Offset \in Nat BY DEF SizeAssumption
  <1>7. p \in Nat /\ p < page BY <1>3, <1>6
  <1>8. LastPage \in Int
    <2>1. LastPage >= page BY <1>2
    <2> QED BY <1>2, <1>3
  <1>9. p \in Offset .. LastPage BY <1>2, <1>3, <1>6, <1>7, <1>8
  <1>10. c \in Cells BY <1>2, <1>9, AreaIsOpen
  <1>11. c \notin CellsOf(page) BY <1>3, <1>7, PagesApart
  <1> QED BY <1>5, <1>10, <1>11

\* An error return, whatever the failed access has done.
LEMMA FailKeeps ==
  ASSUME SizeAssumption, ControllerInv, DeviceSafe(dev'), Fails
  PROVE  ControllerInv'
  <1>1. pc' = "failed" /\ UNCHANGED run BY DEF Fails
  <1>2. pc' \in Points BY <1>1 DEF Points
  <1>3. ControllerTypeOK' BY <1>1, <1>2, RunKept
  <1>4. Registers' BY <1>1 DEF Registers, PagePoints, ErasePoints, WritePoints
  <1>5. Counters' BY <1>1 DEF Counters, ErasePoints, BeforePages
  <1>6. Waits' BY <1>1 DEF Waits
  <1>7. Progress' BY <1>1 DEF Progress, PagePoints, ErasePoints, WritePoints
  <1>8. ProgramIsWhole' BY <1>1 DEF ProgramIsWhole
  <1> QED BY <1>3, <1>4, <1>5, <1>6, <1>7, <1>8 DEF ControllerInv

\* A step to a point that asks for no page facts.
LEMMA Preparing ==
  ASSUME SizeAssumption, ControllerInv, DeviceSafe(dev'), UNCHANGED run,
         pc' \in BeforePages, page = Offset, cell = 0, Registers'
  PROVE  ControllerInv'
  <1>1. pc' \in Points BY DEF BeforePages, Points
  <1>2. ControllerTypeOK' /\ page' = page /\ cell' = cell BY <1>1, RunKept
  <1>3. Counters' BY <1>2 DEF Counters
  <1>4. Waits' BY DEF Waits, BeforePages
  <1>5. Progress' BY DEF Progress, PagePoints, ErasePoints, WritePoints, BeforePages
  <1>6. ProgramIsWhole' BY DEF ProgramIsWhole, BeforePages
  <1> QED BY <1>2, <1>3, <1>4, <1>5, <1>6 DEF ControllerInv

\* The LOCK bit read.
LEMMA KeepReadCr ==
  ASSUME SizeAssumption, ControllerInv, ReadCr
  PROVE  ControllerInv'
  <1>1. DeviceSafe(dev) /\ Registers /\ Counters BY DEF ControllerInv
  <1>2. pc = "read CR" BY DEF ReadCr, Access, At
  <1>3. page = Offset /\ cell = 0 BY <1>1, <1>2 DEF Counters, Registers, PagePoints, ErasePoints, WritePoints, BeforePages
  <1>4. \A n \in {dev} : DeviceSafe(n) BY <1>1
  <1>5. CASE Broken({dev})
    <2>1. DeviceSafe(dev') /\ Fails BY <1>1, <1>4, <1>5 DEF Broken
    <2> QED BY <2>1, FailKeeps
  <1>6. CASE Done({dev}, (IF NeedsKeys THEN "key 1" ELSE "clear SR")) /\ UNCHANGED run
    <2>1. dev' \in {dev} /\ pc' = (IF NeedsKeys THEN "key 1" ELSE "clear SR") BY <1>6 DEF Done, Goto
    <2>2. DeviceSafe(dev') BY <1>4, <2>1
    <2>3. Registers' BY <1>1, <1>2, <1>3, <1>4, <2>1 DEF Registers, PagePoints, ErasePoints, WritePoints, BeforePages, NeedsKeys
    <2>4. pc' \in BeforePages BY <2>1 DEF BeforePages
    <2> QED BY <1>3, <1>6, <2>2, <2>3, <2>4, Preparing
  <1> QED BY <1>5, <1>6 DEF ReadCr, Access

\* The first key.
LEMMA KeepKey1 ==
  ASSUME SizeAssumption, ControllerInv, Key1
  PROVE  ControllerInv'
  <1>1. DeviceSafe(dev) /\ Registers /\ Counters BY DEF ControllerInv
  <1>2. pc = "key 1" BY DEF Key1, Access, At
  <1>3. page = Offset /\ cell = 0 /\ dev.locked BY <1>1, <1>2 DEF Counters, Registers, PagePoints, ErasePoints, WritePoints, BeforePages
  <1>4. \A n \in WriteKey(dev, FALSE) : DeviceSafe(n) /\ n.locked BY <1>1, <1>3, WriteKeySafe
  <1>5. CASE Broken(WriteKey(dev, FALSE))
    <2>1. DeviceSafe(dev') /\ Fails BY <1>1, <1>4, <1>5 DEF Broken
    <2> QED BY <2>1, FailKeeps
  <1>6. CASE Done(WriteKey(dev, FALSE), "key 2") /\ UNCHANGED run
    <2>1. dev' \in WriteKey(dev, FALSE) /\ pc' = "key 2" BY <1>6 DEF Done, Goto
    <2>2. DeviceSafe(dev') BY <1>4, <2>1
    <2>3. Registers' BY <1>1, <1>2, <1>3, <1>4, <2>1 DEF Registers, PagePoints, ErasePoints, WritePoints, BeforePages
    <2>4. pc' \in BeforePages BY <2>1 DEF BeforePages
    <2> QED BY <1>3, <1>6, <2>2, <2>3, <2>4, Preparing
  <1> QED BY <1>5, <1>6 DEF Key1, Access

\* The second key.
LEMMA KeepKey2 ==
  ASSUME SizeAssumption, ControllerInv, Key2
  PROVE  ControllerInv'
  <1>1. DeviceSafe(dev) /\ Registers /\ Counters BY DEF ControllerInv
  <1>2. pc = "key 2" BY DEF Key2, Access, At
  <1>3. page = Offset /\ cell = 0 /\ dev.locked BY <1>1, <1>2 DEF Counters, Registers, PagePoints, ErasePoints, WritePoints, BeforePages
  <1>4. \A n \in WriteKey(dev, TRUE) : DeviceSafe(n) BY <1>1, <1>3, WriteKeySafe
  <1>5. CASE Broken(WriteKey(dev, TRUE))
    <2>1. DeviceSafe(dev') /\ Fails BY <1>1, <1>4, <1>5 DEF Broken
    <2> QED BY <2>1, FailKeeps
  <1>6. CASE Done(WriteKey(dev, TRUE), "confirm") /\ UNCHANGED run
    <2>1. dev' \in WriteKey(dev, TRUE) /\ pc' = "confirm" BY <1>6 DEF Done, Goto
    <2>2. DeviceSafe(dev') BY <1>4, <2>1
    <2>3. Registers' BY <1>1, <1>2, <1>3, <1>4, <2>1 DEF Registers, PagePoints, ErasePoints, WritePoints, BeforePages
    <2>4. pc' \in BeforePages BY <2>1 DEF BeforePages
    <2> QED BY <1>3, <1>6, <2>2, <2>3, <2>4, Preparing
  <1> QED BY <1>5, <1>6 DEF Key2, Access

\* The error flags of whatever ran before.
LEMMA KeepClearStatus ==
  ASSUME SizeAssumption, ControllerInv, ClearStatus
  PROVE  ControllerInv'
  <1>1. DeviceSafe(dev) /\ Registers /\ Counters BY DEF ControllerInv
  <1>2. pc = "clear SR" BY DEF ClearStatus, Access, At
  <1>3. page = Offset /\ cell = 0 /\ ~dev.locked BY <1>1, <1>2 DEF Counters, Registers, PagePoints, ErasePoints, WritePoints, BeforePages
  <1>4. \A n \in ClearSr(dev) : DeviceSafe(n) /\ n.locked = dev.locked BY <1>1, ClearSrSafe
  <1>5. CASE Broken(ClearSr(dev))
    <2>1. DeviceSafe(dev') /\ Fails BY <1>1, <1>4, <1>5 DEF Broken
    <2> QED BY <2>1, FailKeeps
  <1>6. CASE Done(ClearSr(dev), "reset CR") /\ UNCHANGED run
    <2>1. dev' \in ClearSr(dev) /\ pc' = "reset CR" BY <1>6 DEF Done, Goto
    <2>2. DeviceSafe(dev') BY <1>4, <2>1
    <2>3. Registers' BY <1>1, <1>2, <1>3, <1>4, <2>1 DEF Registers, PagePoints, ErasePoints, WritePoints, BeforePages
    <2>4. pc' \in BeforePages BY <2>1 DEF BeforePages
    <2> QED BY <1>3, <1>6, <2>2, <2>3, <2>4, Preparing
  <1> QED BY <1>5, <1>6 DEF ClearStatus, Access

\* FLASH_CR back to nothing, once the controller is idle.
LEMMA KeepResetControl ==
  ASSUME SizeAssumption, ControllerInv, ResetControl
  PROVE  ControllerInv'
  <1>1. DeviceSafe(dev) /\ Registers /\ Counters BY DEF ControllerInv
  <1>2. pc = "reset CR" BY DEF ResetControl, Access, At
  <1>3. page = Offset /\ cell = 0 /\ ~dev.locked BY <1>1, <1>2 DEF Counters, Registers, PagePoints, ErasePoints, WritePoints, BeforePages
  <1>4. \A n \in ControlReset(dev) : DeviceSafe(n) /\ n.locked = dev.locked /\ ~Busy(n)
    BY <1>1, WriteCrSafe DEF ControlReset
  <1>5. CASE Broken(ControlReset(dev))
    <2>1. DeviceSafe(dev') /\ Fails BY <1>1, <1>4, <1>5 DEF Broken
    <2> QED BY <2>1, FailKeeps
  <1>6. CASE Done(ControlReset(dev), "clear again") /\ UNCHANGED run
    <2>1. dev' \in ControlReset(dev) /\ pc' = "clear again" BY <1>6 DEF Done, Goto
    <2>2. DeviceSafe(dev') BY <1>4, <2>1
    <2>3. Registers' BY <1>1, <1>2, <1>3, <1>4, <2>1 DEF Registers, PagePoints, ErasePoints, WritePoints, BeforePages
    <2>4. pc' \in BeforePages BY <2>1 DEF BeforePages
    <2> QED BY <1>3, <1>6, <2>2, <2>3, <2>4, Preparing
  <1> QED BY <1>5, <1>6 DEF ResetControl, Access

\* The LOCK bit read again.
LEMMA KeepConfirm ==
  ASSUME SizeAssumption, ControllerInv, Confirm
  PROVE  ControllerInv'
  <1>1. DeviceSafe(dev) /\ Registers /\ Counters BY DEF ControllerInv
  <1>2. pc = "confirm" BY DEF Confirm, Access, At
  <1>3. page = Offset /\ cell = 0 BY <1>1, <1>2 DEF Counters, BeforePages
  <1>4. CASE dev' = dev /\ Fails BY <1>1, <1>4, FailKeeps
  <1>5. CASE ~dev.locked /\ dev' = dev /\ pc' = "clear SR" /\ UNCHANGED run
    <2>1. Registers' BY <1>5 DEF Registers, PagePoints, ErasePoints, WritePoints
    <2>2. pc' \in BeforePages BY <1>5 DEF BeforePages
    <2> QED BY <1>1, <1>3, <1>5, <2>1, <2>2, Preparing
  <1>6. \/ dev' = dev /\ Fails
        \/ ~dev.locked /\ dev' = dev /\ pc' = "clear SR" /\ UNCHANGED run
    BY DEF Confirm, Access, Done, Goto, Broken
  <1> QED BY <1>4, <1>5, <1>6

\* The first page is configured; nothing is done yet.
LEMMA KeepClearAgain ==
  ASSUME SizeAssumption, ControllerInv, ClearAgain
  PROVE  ControllerInv'
  <1>1. /\ ControllerTypeOK /\ DeviceSafe(dev) /\ Registers /\ Counters
    BY DEF ControllerInv
  <1>2. pc = "clear again" BY DEF ClearAgain, Access, At
  <1>3. page = Offset /\ cell = 0 /\ ~dev.locked /\ ~Busy(dev)
    BY <1>1, <1>2 DEF Counters, Registers, PagePoints, ErasePoints, WritePoints, BeforePages
  <1>4. \A n \in ClearSr(dev) : /\ DeviceSafe(n) /\ Busy(n) = Busy(dev)
                        /\ n.locked = dev.locked /\ ~n.err
    BY <1>1, ClearSrSafe
  <1>5. CASE Broken(ClearSr(dev))
    <2>1. DeviceSafe(dev') /\ Fails BY <1>1, <1>4, <1>5 DEF Broken
    <2> QED BY <2>1, FailKeeps
  <1>6. CASE Done(ClearSr(dev), "configure") /\ UNCHANGED run
    <2>1. dev' \in ClearSr(dev) /\ pc' = "configure" BY <1>6 DEF Done, Goto
    <2>2. DeviceSafe(dev') /\ pc' \in Points BY <1>4, <2>1 DEF Points
    <2>3. ControllerTypeOK' /\ page' = page /\ cell' = cell BY <1>6, <2>2, RunKept
    <2>4. Offset \in Nat BY DEF SizeAssumption
    <2>5. DoneBefore' BY <1>3, <2>3, <2>4 DEF DoneBefore
    <2>6. Registers' BY <1>3, <1>4, <2>1 DEF Registers, PagePoints, ErasePoints, WritePoints, BeforePages
    <2>7. Counters' BY <1>3, <2>1, <2>3 DEF Counters, PagePoints, ErasePoints, WritePoints, BeforePages
    <2>8. Waits' BY <2>1 DEF Waits
    <2>9. Progress' BY <2>1, <2>5 DEF Progress, PagePoints, ErasePoints, WritePoints, BeforePages
    <2>10. ProgramIsWhole' BY <2>1 DEF ProgramIsWhole
    <2> QED BY <2>2, <2>3, <2>6, <2>7, <2>8, <2>9, <2>10 DEF ControllerInv
  <1> QED BY <1>5, <1>6 DEF ClearAgain, Access

\* FLASH_CR set to erase.
LEMMA KeepConfigure ==
  ASSUME SizeAssumption, ControllerInv, Configure
  PROVE  ControllerInv'
  <1>1. /\ ControllerTypeOK /\ DeviceSafe(dev)
        /\ Registers /\ Counters /\ Waits /\ Progress
    BY DEF ControllerInv
  <1>2. pc = "configure" BY DEF Configure, Access, At
  <1>3. cell = 0 /\ ~dev.locked /\ ~Busy(dev) /\ ~dev.err /\ DoneBefore
    BY <1>1, <1>2 DEF Registers, Counters, Progress, Waits, PagePoints, ErasePoints, WritePoints, BeforePages
  <1>4. \A n \in WriteCr(dev, "PER") :
          /\ DeviceSafe(n) /\ ~Busy(n) /\ n.locked = dev.locked
          /\ ~dev.locked => n.cr = "PER"
          /\ ~Busy(dev) => n.cells = dev.cells /\ n.err = dev.err
    BY <1>1, WriteCrSafe
  <1>5. CASE Broken(WriteCr(dev, "PER"))
    <2>1. DeviceSafe(dev') /\ Fails BY <1>1, <1>4, <1>5 DEF Broken
    <2> QED BY <2>1, FailKeeps
  <1>6. CASE Done(WriteCr(dev, "PER"), "start") /\ UNCHANGED run
    <2>1. dev' \in WriteCr(dev, "PER") /\ pc' = "start" BY <1>6 DEF Done, Goto
    <2>2. DeviceSafe(dev') /\ pc' \in Points BY <1>4, <2>1 DEF Points
    <2>3. /\ ControllerTypeOK' /\ Here' = Here /\ page' = page /\ cell' = cell
          /\ \A c : Wanted(c)' = Wanted(c)
      BY <1>6, <2>2, RunKept
    <2>4. dev'.cells = dev.cells BY <1>3, <1>4, <2>1
    <2>5. /\ PageBlank => PageBlank'
          /\ DoneBefore => DoneBefore'
          /\ HalfWay => HalfWay'
      BY <1>6, <2>2, <2>4, CellsKept
    <2>6. Registers' BY <1>3, <1>4, <2>1 DEF Registers, PagePoints, ErasePoints, WritePoints, BeforePages
    <2>7. Counters' BY <1>3, <2>1, <2>3 DEF Counters, PagePoints, ErasePoints, WritePoints, BeforePages
    <2>8. Waits' BY <2>1 DEF Waits
    <2>9. Progress' BY <1>3, <2>1, <2>5 DEF Progress, PagePoints, ErasePoints, WritePoints, BeforePages
    <2>10. ProgramIsWhole' BY <2>1 DEF ProgramIsWhole
    <2> QED BY <2>2, <2>3, <2>6, <2>7, <2>8, <2>9, <2>10 DEF ControllerInv
  <1> QED BY <1>5, <1>6 DEF Configure, Access

\* FLASH_CR back after the erase.
LEMMA KeepFinishErase ==
  ASSUME SizeAssumption, ControllerInv, FinishErase
  PROVE  ControllerInv'
  <1>1. /\ ControllerTypeOK /\ DeviceSafe(dev)
        /\ Registers /\ Counters /\ Waits /\ Progress
    BY DEF ControllerInv
  <1>2. pc = "finish erase" BY DEF FinishErase, Access, At
  <1>3. cell = 0 /\ ~dev.locked /\ ~Busy(dev) /\ ~dev.err /\ DoneBefore /\ PageBlank
    BY <1>1, <1>2 DEF Registers, Counters, Progress, Waits, PagePoints, ErasePoints, WritePoints, BeforePages
  <1>4. \A n \in WriteCr(dev, "0") :
          /\ DeviceSafe(n) /\ ~Busy(n) /\ n.locked = dev.locked
          /\ ~dev.locked => n.cr = "0"
          /\ ~Busy(dev) => n.cells = dev.cells /\ n.err = dev.err
    BY <1>1, WriteCrSafe
  <1>5. CASE Broken(WriteCr(dev, "0"))
    <2>1. DeviceSafe(dev') /\ Fails BY <1>1, <1>4, <1>5 DEF Broken
    <2> QED BY <2>1, FailKeeps
  <1>6. CASE Done(WriteCr(dev, "0"), "enable") /\ UNCHANGED run
    <2>1. dev' \in WriteCr(dev, "0") /\ pc' = "enable" BY <1>6 DEF Done, Goto
    <2>2. DeviceSafe(dev') /\ pc' \in Points BY <1>4, <2>1 DEF Points
    <2>3. /\ ControllerTypeOK' /\ Here' = Here /\ page' = page /\ cell' = cell
          /\ \A c : Wanted(c)' = Wanted(c)
      BY <1>6, <2>2, RunKept
    <2>4. dev'.cells = dev.cells BY <1>3, <1>4, <2>1
    <2>5. /\ PageBlank => PageBlank'
          /\ DoneBefore => DoneBefore'
          /\ HalfWay => HalfWay'
      BY <1>6, <2>2, <2>4, CellsKept
    <2>6. Registers' BY <1>3, <1>4, <2>1 DEF Registers, PagePoints, ErasePoints, WritePoints, BeforePages
    <2>7. Counters' BY <1>3, <2>1, <2>3 DEF Counters, PagePoints, ErasePoints, WritePoints, BeforePages
    <2>8. Waits' BY <2>1 DEF Waits
    <2>9. Progress' BY <1>3, <2>1, <2>5 DEF Progress, PagePoints, ErasePoints, WritePoints, BeforePages
    <2>10. ProgramIsWhole' BY <2>1 DEF ProgramIsWhole
    <2> QED BY <2>2, <2>3, <2>6, <2>7, <2>8, <2>9, <2>10 DEF ControllerInv
  <1> QED BY <1>5, <1>6 DEF FinishErase, Access

\* The erase starts.
LEMMA KeepStartPage ==
  ASSUME SizeAssumption, ControllerInv, StartPage
  PROVE  ControllerInv'
  <1>1. /\ ControllerTypeOK /\ DeviceSafe(dev)
        /\ Registers /\ Counters /\ Waits /\ Progress
    BY DEF ControllerInv
  <1>2. pc = "start" BY DEF StartPage, Access, At
  <1>3. cell = 0 /\ ~dev.locked /\ ~Busy(dev) /\ ~dev.err /\ dev.cr = "PER" /\ DoneBefore
    BY <1>1, <1>2 DEF Registers, Counters, Progress, Waits, PagePoints, ErasePoints, WritePoints, BeforePages
  <1>4. \A n \in StartErase(dev, page) :
          /\ DeviceSafe(n) /\ n.locked = dev.locked
          /\ ~Busy(dev) /\ ~dev.err /\ ~dev.locked /\ dev.cr = "PER" =>
               /\ n.doing = [op |-> "erase", at |-> page, value |-> Blank]
               /\ ~n.err /\ n.cr = "PER" /\ n.cells = dev.cells
    <2>1. file \in Files /\ page \in Offset .. LastPage BY <1>1 DEF ControllerTypeOK
    <2>2. page \in Nat /\ CellsOf(page) \cap Protected = {} BY <2>1, AreaIsOpen
    <2> QED BY <1>1, <2>2, StartEraseSafe
  <1>5. CASE Broken(StartErase(dev, page))
    <2>1. DeviceSafe(dev') /\ Fails BY <1>1, <1>4, <1>5 DEF Broken
    <2> QED BY <2>1, FailKeeps
  <1>6. CASE Done(StartErase(dev, page), "wait erase") /\ UNCHANGED run
    <2>1. dev' \in StartErase(dev, page) /\ pc' = "wait erase" BY <1>6 DEF Done, Goto
    <2>2. DeviceSafe(dev') /\ pc' \in Points BY <1>4, <2>1 DEF Points
    <2>3. /\ ControllerTypeOK' /\ Here' = Here /\ page' = page /\ cell' = cell
          /\ \A c : Wanted(c)' = Wanted(c)
      BY <1>6, <2>2, RunKept
    <2>4. dev'.cells = dev.cells BY <1>3, <1>4, <2>1
    <2>5. /\ PageBlank => PageBlank'
          /\ DoneBefore => DoneBefore'
          /\ HalfWay => HalfWay'
      BY <1>6, <2>2, <2>4, CellsKept
    <2>6. Registers' BY <1>3, <1>4, <2>1 DEF Registers, PagePoints, ErasePoints, WritePoints, BeforePages
    <2>7. Counters' BY <1>3, <2>1, <2>3 DEF Counters, PagePoints, ErasePoints, WritePoints, BeforePages
    <2>8. Waits'
      <3>1. dev'.doing = [op |-> "erase", at |-> page, value |-> Blank] /\ ~dev'.err
        BY <1>3, <1>4, <2>1
      <3>2. Busy(dev)' BY <3>1 DEF Busy
      <3> QED BY <2>1, <2>3, <3>1, <3>2 DEF Waits
    <2>9. Progress' BY <1>3, <2>1, <2>5 DEF Progress, PagePoints, ErasePoints, WritePoints, BeforePages
    <2>10. ProgramIsWhole' BY <2>1 DEF ProgramIsWhole
    <2> QED BY <2>2, <2>3, <2>6, <2>7, <2>8, <2>9, <2>10 DEF ControllerInv
  <1> QED BY <1>5, <1>6 DEF StartPage, Access, PageNumber

\* FLASH_CR set to program: the page is blank and none of it is written.
LEMMA KeepEnable ==
  ASSUME SizeAssumption, ControllerInv, Enable
  PROVE  ControllerInv'
  <1>1. /\ ControllerTypeOK /\ DeviceSafe(dev) /\ Registers /\ Counters /\ Progress
    BY DEF ControllerInv
  <1>2. pc = "enable" BY DEF Enable, Access, At
  <1>3. cell = 0 /\ ~dev.locked /\ ~Busy(dev) /\ ~dev.err /\ DoneBefore /\ PageBlank
    BY <1>1, <1>2 DEF Registers, Counters, Progress, Waits, PagePoints, ErasePoints, WritePoints, BeforePages
  <1>4. \A n \in WriteCr(dev, "PG") :
          /\ DeviceSafe(n) /\ ~Busy(n) /\ n.locked = dev.locked
          /\ ~dev.locked => n.cr = "PG"
          /\ ~Busy(dev) => n.cells = dev.cells /\ n.err = dev.err
    BY <1>1, WriteCrSafe
  <1>5. CASE Broken(WriteCr(dev, "PG"))
    <2>1. DeviceSafe(dev') /\ Fails BY <1>1, <1>4, <1>5 DEF Broken
    <2> QED BY <2>1, FailKeeps
  <1>6. CASE Done(WriteCr(dev, "PG"), "write") /\ UNCHANGED run
    <2>1. dev' \in WriteCr(dev, "PG") /\ pc' = "write" BY <1>6 DEF Done, Goto
    <2>2. DeviceSafe(dev') /\ pc' \in Points BY <1>4, <2>1 DEF Points
    <2>3. /\ ControllerTypeOK' /\ Here' = Here /\ page' = page /\ cell' = cell
      BY <1>6, <2>2, RunKept
    <2>4. dev'.cells = dev.cells BY <1>3, <1>4, <2>1
    <2>5. DoneBefore' /\ PageBlank'
      BY <1>3, <1>6, <2>2, <2>4, CellsKept
    <2>6. dev'.cells[Here] = Blank
      <3>1. Here \in CellsOf(page) BY <1>1, HereInPage
      <3> QED BY <1>3, <2>4, <3>1 DEF PageBlank
    <2>7. HalfWay'
      <3>1. page \in Nat BY <1>1, HereInPage
      <3> DEFINE a == page * PageCells
      <3>2. PageCells \in Nat BY DEF SizeAssumption
      <3>3. a \in Nat /\ CellsOf(page) = a .. a + PageCells - 1 BY <3>1, PageIsRange
      <3>4. Here = a + cell BY DEF Here
      <3> HIDE DEF a
      <3>5. \A c \in CellsOf(page) : c \in Int /\ ~(c < Here) BY <1>3, <3>2, <3>3, <3>4
      <3> QED BY <2>3, <2>5, <3>5 DEF HalfWay, PageBlank
    <2>8. Registers' BY <1>3, <1>4, <2>1 DEF Registers, PagePoints, ErasePoints, WritePoints, BeforePages
    <2>9. Counters' BY <2>1 DEF Counters, PagePoints, ErasePoints, WritePoints, BeforePages
    <2>10. Waits' BY <2>1 DEF Waits
    <2>11. Progress' BY <2>1, <2>3, <2>5, <2>6, <2>7 DEF Progress, PagePoints, ErasePoints, WritePoints, BeforePages
    <2>12. ProgramIsWhole' BY <2>1 DEF ProgramIsWhole
    <2> QED BY <2>2, <2>3, <2>8, <2>9, <2>10, <2>11, <2>12 DEF ControllerInv
  <1> QED BY <1>5, <1>6 DEF Enable, Access

\* A doubleword sent, in full or in half, or not at all.
LEMMA KeepWriteDoubleword ==
  ASSUME SizeAssumption, ControllerInv, WriteDoubleword
  PROVE  ControllerInv'
  <1> DEFINE w == Wanted(Here)
             effects == WriteCell(dev, Here, w)
  <1>1. /\ ControllerTypeOK /\ DeviceSafe(dev) /\ Registers /\ Counters /\ Progress
    BY DEF ControllerInv
  <1>2. pc = "write" BY DEF WriteDoubleword, Access, At
  <1>3. /\ ~dev.locked /\ ~Busy(dev) /\ ~dev.err /\ dev.cr = "PG" /\ dev.cells[Here] = Blank
        /\ DoneBefore /\ HalfWay
    BY <1>1, <1>2 DEF Registers, Counters, Progress, Waits, PagePoints, ErasePoints, WritePoints, BeforePages
  <1>4. Here \in Cells \ Protected /\ w \in Content
    <2>1. Here \in Cells /\ Here \notin Protected /\ Here >= Offset * PageCells
      BY <1>1, HereInPage
    <2>2. file \in Files BY <1>1 DEF ControllerTypeOK
    <2>3. Here \in Int BY <2>1 DEF Cells
    <2> QED BY <2>1, <2>2, <2>3, WantedIsContent
  <1> HIDE DEF w
  <1>5. \A n \in effects :
          /\ DeviceSafe(n) /\ n.locked = dev.locked
          /\ n.doing = [op |-> "program", at |-> Here, value |-> w]
          /\ ~n.err /\ n.cr = "PG" /\ n.cells = dev.cells
    BY <1>1, <1>3, <1>4, WriteCellSafe
  <1> HIDE DEF effects
  <1>6. CASE Broken(effects)
    <2>1. DeviceSafe(dev') /\ Fails BY <1>1, <1>5, <1>6 DEF Broken
    <2> QED BY <2>1, FailKeeps
  <1>7. CASE dev' \in HalfCell(dev) /\ Fails
    <2>1. DeviceSafe(dev') BY <1>1, <1>7, HalfCellSafe
    <2> QED BY <1>7, <2>1, FailKeeps
  <1>8. CASE Fails /\ UNCHANGED dev BY <1>1, <1>8, FailKeeps
  <1>9. CASE Done(effects, "wait write") /\ UNCHANGED run
    <2>1. dev' \in effects /\ pc' = "wait write" BY <1>9 DEF Done, Goto
    <2>2. DeviceSafe(dev') /\ pc' \in Points BY <1>5, <2>1 DEF Points
    <2>3. /\ ControllerTypeOK' /\ Here' = Here
          /\ \A c : Wanted(c)' = Wanted(c)
      BY <1>9, <2>2, RunKept
    <2>4. dev'.cells = dev.cells BY <1>5, <2>1
    <2>5. DoneBefore' /\ HalfWay' BY <1>3, <1>9, <2>2, <2>4, CellsKept
    <2>6. Registers' BY <1>3, <1>5, <2>1 DEF Registers, PagePoints, ErasePoints, WritePoints, BeforePages
    <2>7. Counters' BY <2>1 DEF Counters, PagePoints, ErasePoints, WritePoints, BeforePages
    <2>8. Waits'
      <3>1. dev'.doing = [op |-> "program", at |-> Here, value |-> w] /\ ~dev'.err
        BY <1>5, <2>1
      <3>2. Busy(dev)' BY <3>1 DEF Busy
      <3>3. Wanted(Here)' = w BY <2>3 DEF w, Wanted
      <3> QED BY <2>1, <2>3, <3>1, <3>2, <3>3 DEF Waits
    <2>9. Progress' BY <2>1, <2>5 DEF Progress, PagePoints, ErasePoints, WritePoints, BeforePages
    <2>10. ProgramIsWhole' BY <2>1 DEF ProgramIsWhole
    <2> QED BY <2>2, <2>3, <2>6, <2>7, <2>8, <2>9, <2>10 DEF ControllerInv
  <1>10. \/ Access("write", effects, "wait write")
         \/ dev' \in HalfCell(dev) /\ Fails
         \/ Fails /\ UNCHANGED dev
    BY DEF WriteDoubleword, effects, w, Here
  <1> QED BY <1>6, <1>7, <1>8, <1>9, <1>10 DEF Access

\* The wait of an erase: idle and without an error the page is blank.
LEMMA KeepWaitErase ==
  ASSUME SizeAssumption, ControllerInv, WaitErase
  PROVE  ControllerInv'
  <1>1. /\ ControllerTypeOK /\ DeviceSafe(dev) /\ Registers /\ Counters /\ Waits /\ Progress
    BY DEF ControllerInv
  <1>2. pc = "wait erase" /\ dev' = dev BY DEF WaitErase, WaitIsOver, At
  <1>3. cell = 0 /\ ~dev.locked /\ DoneBefore
    BY <1>1, <1>2 DEF Registers, Counters, Progress, Waits, PagePoints, ErasePoints, WritePoints, BeforePages
  <1>4. CASE Fails BY <1>1, <1>2, <1>4, FailKeeps
  <1>5. CASE ~Busy(dev) /\ ~dev.err /\ pc' = "finish erase" /\ UNCHANGED run
    <2>1. PageBlank BY <1>1, <1>2, <1>5 DEF Waits
    <2>2. DeviceSafe(dev') /\ pc' \in Points BY <1>1, <1>2, <1>5 DEF Points
    <2>3. ControllerTypeOK' /\ page' = page /\ cell' = cell BY <1>5, <2>2, RunKept
    <2>4. PageBlank' /\ DoneBefore' BY <1>2, <1>3, <1>5, <2>1, <2>2, CellsKept
    <2>5. Registers' BY <1>2, <1>3, <1>5 DEF Registers, PagePoints, ErasePoints, WritePoints, BeforePages
    <2>6. Counters' BY <1>3, <1>5, <2>3 DEF Counters, PagePoints, ErasePoints, WritePoints, BeforePages
    <2>7. Waits' BY <1>5 DEF Waits
    <2>8. Progress' BY <1>5, <2>4 DEF Progress, PagePoints, ErasePoints, WritePoints, BeforePages
    <2>9. ProgramIsWhole' BY <1>5 DEF ProgramIsWhole
    <2> QED BY <2>2, <2>3, <2>5, <2>6, <2>7, <2>8, <2>9 DEF ControllerInv
  <1>6. Fails \/ (~Busy(dev) /\ ~dev.err /\ pc' = "finish erase" /\ UNCHANGED run)
    BY DEF WaitErase, WaitIsOver, NoErrorFlags, GivesUp, Goto
  <1> QED BY <1>4, <1>5, <1>6

\* The wait of a doubleword: idle and without an error it is written.
LEMMA KeepWaitCell ==
  ASSUME SizeAssumption, ControllerInv, WaitCell
  PROVE  ControllerInv'
  <1>1. /\ ControllerTypeOK /\ DeviceSafe(dev) /\ Registers /\ Counters /\ Waits /\ Progress
    BY DEF ControllerInv
  <1>2. pc = "wait write" /\ dev' = dev BY DEF WaitCell, WaitIsOver, At
  <1>3. ~dev.locked /\ dev.cr = "PG" /\ DoneBefore /\ HalfWay
    BY <1>1, <1>2 DEF Registers, Counters, Progress, Waits, PagePoints, ErasePoints, WritePoints, BeforePages
  <1>4. CASE Fails BY <1>1, <1>2, <1>4, FailKeeps
  <1>5. CASE ~Busy(dev) /\ ~dev.err /\ pc' = "clear EOP" /\ UNCHANGED run
    <2>1. dev.cells[Here] = Wanted(Here) BY <1>1, <1>2, <1>5 DEF Waits
    <2>2. DeviceSafe(dev') /\ pc' \in Points BY <1>1, <1>2, <1>5 DEF Points
    <2>3. /\ ControllerTypeOK' /\ Here' = Here /\ file' = file
      BY <1>5, <2>2, RunKept
    <2>4. HalfWay' /\ DoneBefore' BY <1>2, <1>3, <1>5, <2>1, <2>2, CellsKept
    <2>5. Wanted(Here)' = Wanted(Here) BY <2>3 DEF Wanted
    <2>6. dev'.cells[Here'] = Wanted(Here)' BY <1>2, <2>1, <2>3, <2>5
    <2>7. Registers' BY <1>2, <1>3, <1>5 DEF Registers, PagePoints, ErasePoints, WritePoints, BeforePages
    <2>8. Counters' BY <1>5 DEF Counters, PagePoints, ErasePoints, WritePoints, BeforePages
    <2>9. Waits' BY <1>5 DEF Waits
    <2>10. Progress' BY <1>5, <2>4, <2>6 DEF Progress, PagePoints, ErasePoints, WritePoints, BeforePages
    <2>11. ProgramIsWhole' BY <1>5 DEF ProgramIsWhole
    <2> QED BY <2>2, <2>3, <2>7, <2>8, <2>9, <2>10, <2>11 DEF ControllerInv
  <1>6. Fails \/ (~Busy(dev) /\ ~dev.err /\ pc' = "clear EOP" /\ UNCHANGED run)
    BY DEF WaitCell, WaitIsOver, NoErrorFlags, GivesUp, Goto
  <1> QED BY <1>4, <1>5, <1>6

\* The next doubleword, or the end of the page.
LEMMA KeepClearEop ==
  ASSUME SizeAssumption, ControllerInv, ClearEop
  PROVE  ControllerInv'
  <1>1. /\ ControllerTypeOK /\ DeviceSafe(dev) /\ Registers /\ Counters /\ Progress
    BY DEF ControllerInv
  <1>2. pc = "clear EOP" BY DEF ClearEop, At
  <1>3. /\ ~dev.locked /\ ~Busy(dev) /\ ~dev.err /\ dev.cr = "PG"
        /\ dev.cells[Here] = Wanted(Here) /\ DoneBefore /\ HalfWay
    BY <1>1, <1>2 DEF Registers, Counters, Progress, Waits, PagePoints, ErasePoints, WritePoints, BeforePages
  <1>4. CASE Broken({dev})
    <2>1. DeviceSafe(dev') /\ Fails BY <1>1, <1>4 DEF Broken
    <2> QED BY <2>1, FailKeeps
  <1> DEFINE a == page * PageCells
  <1>5. page \in Nat /\ Here \in CellsOf(page) BY <1>1, HereInPage
  <1>6. a \in Nat /\ CellsOf(page) = a .. a + PageCells - 1 BY <1>5, PageIsRange
  <1>7. Here = a + cell BY DEF Here
  <1>8. PageCells \in Nat \ {0} /\ cell \in 0 .. PageCells - 1
    BY <1>1 DEF ControllerTypeOK, SizeAssumption
  <1>9. CASE /\ MoreCells /\ dev' = dev /\ cell' = cell + 1 /\ pc' = "write"
             /\ file' = file /\ restore' = restore /\ page' = page /\ given' = given
    <2>1. LastPage' = LastPage /\ \A c : Wanted(c)' = Wanted(c) BY <1>9 DEF LastPage, Wanted
    <2>2. cell + 1 < PageCells BY <1>9 DEF MoreCells
    <2>3. cell' \in 0 .. PageCells - 1 BY <1>8, <1>9, <2>2
    <2>4. page' \in Offset .. LastPage' BY <1>1, <1>9, <2>1 DEF ControllerTypeOK
    <2>5. ControllerTypeOK' BY <1>1, <1>9, <2>3, <2>4 DEF ControllerTypeOK, Points
    <2>6. Here' = a + (cell + 1) BY <1>9 DEF Here
    <2> HIDE DEF a
    <2>7. /\ Here' \in CellsOf(page) /\ Here' > Here
          /\ \A c \in CellsOf(page) : /\ c < Here' => c < Here \/ c = Here
                                      /\ c > Here' => c > Here
      BY <1>6, <1>7, <1>8, <2>2, <2>6
    <2>8. dev'.cells[Here'] = Blank BY <1>3, <1>9, <2>7 DEF HalfWay
    <2>9. \A c \in CellsOf(page) : /\ c < Here' => dev'.cells[c] = Wanted(c)
                                   /\ c > Here' => dev'.cells[c] = Blank
      BY <1>3, <1>9, <2>7 DEF HalfWay
    <2>10. HalfWay' BY <1>9, <2>1, <2>9 DEF HalfWay
    <2>11. DoneBefore' BY <1>3, <1>9, <2>1 DEF DoneBefore, PageDone
    <2>12. Registers' BY <1>3, <1>9 DEF Registers, PagePoints, ErasePoints, WritePoints, BeforePages
    <2>13. Counters' BY <1>9 DEF Counters, PagePoints, ErasePoints, WritePoints, BeforePages
    <2>14. Waits' BY <1>9 DEF Waits
    <2>15. Progress' BY <1>9, <2>8, <2>10, <2>11 DEF Progress, PagePoints, ErasePoints, WritePoints, BeforePages
    <2>16. ProgramIsWhole' BY <1>9 DEF ProgramIsWhole
    <2> QED BY <1>1, <1>9, <2>5, <2>12, <2>13, <2>14, <2>15, <2>16 DEF ControllerInv
  <1>10. CASE /\ ~MoreCells /\ dev' = dev /\ cell' = 0 /\ pc' = "disable"
              /\ file' = file /\ restore' = restore /\ page' = page /\ given' = given
    <2>1. LastPage' = LastPage /\ \A c : Wanted(c)' = Wanted(c) BY <1>10 DEF LastPage, Wanted
    <2>2. ~(cell + 1 < PageCells) BY <1>10 DEF MoreCells
    <2>3. cell' \in 0 .. PageCells - 1 BY <1>8, <1>10
    <2>4. page' \in Offset .. LastPage' BY <1>1, <1>10, <2>1 DEF ControllerTypeOK
    <2>5. ControllerTypeOK' BY <1>1, <1>10, <2>3, <2>4 DEF ControllerTypeOK, Points
    <2> HIDE DEF a
    <2>6. \A c \in CellsOf(page) : c < Here \/ c = Here BY <1>6, <1>7, <1>8, <2>2
    <2>7. PageDone(page) BY <1>3, <2>6 DEF PageDone, HalfWay
    <2>8. PageDone(page)' BY <1>10, <2>1, <2>7 DEF PageDone
    <2>9. DoneBefore' BY <1>3, <1>10, <2>1 DEF DoneBefore, PageDone
    <2>10. Registers' BY <1>3, <1>10 DEF Registers, PagePoints, ErasePoints, WritePoints, BeforePages
    <2>11. Counters' BY <1>10 DEF Counters, PagePoints, ErasePoints, WritePoints, BeforePages
    <2>12. Waits' BY <1>10 DEF Waits
    <2>13. Progress' BY <1>10, <2>8, <2>9 DEF Progress, PagePoints, ErasePoints, WritePoints, BeforePages
    <2>14. ProgramIsWhole' BY <1>10 DEF ProgramIsWhole
    <2> QED BY <1>1, <1>10, <2>5, <2>10, <2>11, <2>12, <2>13, <2>14 DEF ControllerInv
  <1> QED BY <1>4, <1>9, <1>10 DEF ClearEop, Goto

\* The next page, or the verify of all of them.
LEMMA KeepDisable ==
  ASSUME SizeAssumption, ControllerInv, Disable
  PROVE  ControllerInv'
  <1>1. /\ ControllerTypeOK /\ DeviceSafe(dev) /\ Registers /\ Counters /\ Progress
    BY DEF ControllerInv
  <1>2. pc = "disable" BY DEF Disable, At
  <1>3. /\ ~dev.locked /\ ~Busy(dev) /\ ~dev.err /\ cell = 0
        /\ PageDone(page) /\ DoneBefore
    BY <1>1, <1>2 DEF Registers, Counters, Progress, Waits, PagePoints, ErasePoints, WritePoints, BeforePages
  <1>4. \A n \in WriteCr(dev, "0") :
          /\ DeviceSafe(n) /\ ~Busy(n) /\ n.locked = dev.locked
          /\ n.cells = dev.cells /\ n.err = dev.err
    BY <1>1, <1>3, WriteCrSafe
  <1>5. CASE Broken(WriteCr(dev, "0"))
    <2>1. DeviceSafe(dev') /\ Fails BY <1>1, <1>4, <1>5 DEF Broken
    <2> QED BY <2>1, FailKeeps
  <1>6. page \in Offset .. LastPage /\ page \in Nat /\ Offset \in Nat
    <2>1. page \in Offset .. LastPage /\ Offset \in Nat BY <1>1 DEF ControllerTypeOK, SizeAssumption
    <2> QED BY <1>1, <2>1, HereInPage
  <1>7. LastPage \in Int BY FileHasPages, <1>1 DEF ControllerTypeOK, LastPage
  <1>8. CASE /\ dev' \in WriteCr(dev, "0") /\ page < LastPage /\ page' = page + 1
             /\ pc' = "configure"
             /\ file' = file /\ restore' = restore /\ cell' = cell /\ given' = given
    <2>1. LastPage' = LastPage /\ \A c : Wanted(c)' = Wanted(c) BY <1>8 DEF LastPage, Wanted
    <2>2. DeviceSafe(dev') /\ dev' \in Device BY <1>4, <1>8 DEF DeviceSafe
    <2>3. page + 1 \in Offset .. LastPage BY <1>6, <1>7, <1>8
    <2>4. ControllerTypeOK' BY <1>1, <1>8, <2>1, <2>2, <2>3 DEF ControllerTypeOK, Points
    <2>5. \A p \in Offset .. page : p \in Offset .. page - 1 \/ p = page BY <1>6
    <2>6. \A p \in Offset .. page : PageDone(p) BY <1>3, <2>5 DEF DoneBefore
    <2>7. page' - 1 = page BY <1>6, <1>8
    <2>8. DoneBefore' BY <1>4, <1>8, <2>1, <2>6, <2>7 DEF DoneBefore, PageDone
    <2>9. Registers' BY <1>3, <1>4, <1>8 DEF Registers, PagePoints, ErasePoints, WritePoints, BeforePages
    <2>10. Counters' BY <1>3, <1>8 DEF Counters, PagePoints, ErasePoints, WritePoints, BeforePages
    <2>11. Waits' BY <1>8 DEF Waits
    <2>12. Progress' BY <1>8, <2>8 DEF Progress, PagePoints, ErasePoints, WritePoints, BeforePages
    <2>13. ProgramIsWhole' BY <1>8 DEF ProgramIsWhole
    <2> QED BY <2>2, <2>4, <2>9, <2>10, <2>11, <2>12, <2>13 DEF ControllerInv
  <1>9. CASE /\ dev' \in WriteCr(dev, "0") /\ ~(page < LastPage) /\ page' = page
             /\ pc' = "verify"
             /\ file' = file /\ restore' = restore /\ cell' = cell /\ given' = given
    <2>1. UNCHANGED run BY <1>9 DEF run
    <2>2. DeviceSafe(dev') /\ pc' \in Points BY <1>4, <1>9 DEF Points
    <2>3. ControllerTypeOK' /\ LastPage' = LastPage /\ \A c : Wanted(c)' = Wanted(c)
      BY <2>1, <2>2, RunKept
    <2>4. \A p \in Offset .. LastPage : p \in Offset .. page - 1 \/ p = page
      BY <1>6, <1>7, <1>9
    <2>5. \A p \in Offset .. LastPage : PageDone(p) BY <1>3, <2>4 DEF DoneBefore
    <2>6. ProgramIsWhole' BY <1>4, <1>9, <2>3, <2>5 DEF ProgramIsWhole, PageDone
    <2>7. Registers' BY <1>4, <1>9 DEF Registers, PagePoints, ErasePoints, WritePoints, BeforePages
    <2>8. Counters' BY <1>9 DEF Counters, PagePoints, ErasePoints, WritePoints, BeforePages
    <2>9. Waits' BY <1>9 DEF Waits
    <2>10. Progress' BY <1>9 DEF Progress, PagePoints, ErasePoints, WritePoints, BeforePages
    <2> QED BY <2>2, <2>3, <2>6, <2>7, <2>8, <2>9, <2>10 DEF ControllerInv
  <1> QED BY <1>5, <1>8, <1>9 DEF Disable, Goto

\* The end of a run.
LEMMA FinishKeeps ==
  ASSUME SizeAssumption, ControllerInv, NEW result \in {"programmed", "restored", "failed"},
         Finish(result), result # "failed" => pc = "verify"
  PROVE  ControllerInv'
  <1>1. /\ pc' = "idle" /\ given' = result /\ dev' = dev /\ file' = file
        /\ restore' = restore /\ page' = page /\ cell' = cell
    BY DEF Finish, Goto
  <1>2. ControllerTypeOK /\ DeviceSafe(dev) /\ ProgramIsWhole BY DEF ControllerInv
  <1>3. LastPage' = LastPage /\ \A c : Wanted(c)' = Wanted(c) BY <1>1 DEF LastPage, Wanted
  <1>4. ControllerTypeOK' BY <1>1, <1>2, <1>3 DEF ControllerTypeOK, Points
  <1>5. ProgramIsWhole'
    <2>1. CASE result = "failed" BY <1>1, <2>1 DEF ProgramIsWhole
    <2>2. CASE result # "failed"
      <3>1. pc = "verify" BY <2>2
      <3> QED BY <1>1, <1>2, <1>3, <3>1 DEF ProgramIsWhole
    <2> QED BY <2>1, <2>2
  <1>6. Registers' BY <1>1 DEF Registers, PagePoints, ErasePoints, WritePoints, BeforePages
  <1>7. Counters' BY <1>1 DEF Counters, PagePoints, ErasePoints, WritePoints, BeforePages
  <1>8. Waits' BY <1>1 DEF Waits
  <1>9. Progress' BY <1>1 DEF Progress, PagePoints, ErasePoints, WritePoints, BeforePages
  <1> QED BY <1>1, <1>2, <1>4, <1>5, <1>6, <1>7, <1>8, <1>9 DEF ControllerInv

\* The verify.
LEMMA KeepVerify ==
  ASSUME SizeAssumption, ControllerInv, Verify
  PROVE  ControllerInv'
  <1>1. pc = "verify" BY DEF Verify, At
  <1>2. DeviceSafe(dev) BY DEF ControllerInv
  <1>3. CASE Fails /\ UNCHANGED dev BY <1>2, <1>3, FailKeeps
  <1>4. CASE Finish(IF restore THEN "restored" ELSE "programmed")
    <2> DEFINE r == IF restore THEN "restored" ELSE "programmed"
    <2>1. r \in {"programmed", "restored", "failed"} /\ Finish(r) BY <1>4
    <2> HIDE DEF r
    <2> QED BY <1>1, <2>1, FinishKeeps
  <1> QED BY <1>3, <1>4 DEF Verify

\* A run begins with the first page of a file.
LEMMA BeginKeeps ==
  ASSUME SizeAssumption, ControllerInv, DeviceSafe(dev'), NEW f \in Files, file' = f,
         restore' \in BOOLEAN, page' = Offset, cell' = 0, pc' = "read CR",
         given' \in {"none", "programmed", "restored", "failed"}
  PROVE  ControllerInv'
  <1>1. Offset \in Offset .. LastPage' BY FileHasPages DEF LastPage
  <1>2. 0 \in 0 .. PageCells - 1 BY FileHasPages
  <1>3. dev' \in Device BY DEF DeviceSafe
  <1>4. page' \in Offset .. LastPage' BY <1>1
  <1>5. cell' \in 0 .. PageCells - 1 BY <1>2
  <1>6. ControllerTypeOK' BY <1>3, <1>4, <1>5 DEF ControllerTypeOK, Points
  <1>7. Registers' BY DEF Registers, PagePoints, ErasePoints, WritePoints, BeforePages
  <1>8. Counters' BY DEF Counters, PagePoints, ErasePoints, WritePoints, BeforePages
  <1>9. Waits' BY DEF Waits
  <1>10. Progress' BY DEF Progress, PagePoints, ErasePoints, WritePoints, BeforePages
  <1>11. ProgramIsWhole' BY DEF ProgramIsWhole
  <1> QED BY <1>6, <1>7, <1>8, <1>9, <1>10, <1>11 DEF ControllerInv

\* The controller ends an operation while the programmer waits, or long after.
LEMMA KeepComplete ==
  ASSUME SizeAssumption, ControllerInv, Complete
  PROVE  ControllerInv'
  <1>1. /\ ControllerTypeOK /\ DeviceSafe(dev) /\ Registers /\ Counters /\ Waits /\ Progress
        /\ ProgramIsWhole
    BY DEF ControllerInv
  <1>2. Busy(dev) /\ dev' \in Ended(dev) /\ pc' = pc /\ UNCHANGED run BY DEF Complete
  <1>3. /\ DeviceSafe(dev') /\ ~Busy(dev') /\ dev'.locked = dev.locked /\ dev'.cr = dev.cr
        /\ ~dev'.err => ~dev.err /\ dev'.cells = Fill(dev, Touched(dev), dev.doing.value)
    BY <1>1, <1>2, EndedSafe
  <1>4. pc' \in Points BY <1>1, <1>2 DEF ControllerTypeOK
  <1>5. /\ ControllerTypeOK' /\ Here' = Here /\ page' = page /\ cell' = cell
        /\ \A c : Wanted(c)' = Wanted(c)
    BY <1>2, <1>3, <1>4, RunKept
  <1>6. /\ page \in Nat /\ CellsOf(page) \subseteq Cells
        /\ Here \in CellsOf(page)
    <2>1. file \in Files /\ page \in Offset .. LastPage BY <1>1 DEF ControllerTypeOK
    <2> QED BY <1>1, <2>1, AreaIsOpen, HereInPage
  <1>7. ~Busy(dev)' BY <1>3
  <1>8. pc \notin (PagePoints \ {"wait erase", "wait write"}) \cup {"clear again", "verify"}
    BY <1>1, <1>2 DEF Registers
  <1>9. Registers' BY <1>1, <1>2, <1>3, <1>7, <1>8 DEF Registers
  <1>10. Counters' BY <1>1, <1>2, <1>5 DEF Counters
  <1>11. ProgramIsWhole' BY <1>1, <1>2, <1>3, <1>5, <1>7, <1>8 DEF ProgramIsWhole, run
  <1>12. CASE pc = "wait erase"
    <2>1. /\ dev.doing = [op |-> "erase", at |-> page, value |-> Blank]
          /\ DoneBefore
      BY <1>1, <1>2, <1>12 DEF Waits, Progress, PagePoints, ErasePoints, WritePoints, BeforePages
    <2>2. Touched(dev) = CellsOf(page) /\ dev.doing.value = Blank BY <2>1 DEF Touched
    <2>3. ~dev'.err => PageBlank'
      BY <1>3, <1>5, <1>6, <2>2 DEF PageBlank, Fill
    <2>4. DoneBefore'
      <3>1. \A c \in Cells \ CellsOf(page) : dev'.cells[c] = dev.cells[c]
        <4>1. dev \in Device BY <1>1 DEF ControllerTypeOK
        <4> QED BY <1>2, <2>2, <4>1, EndedElsewhere
      <3> QED BY <1>2, <1>3, <1>4, <2>1, <3>1, OthersKept
    <2>5. Waits' BY <1>2, <1>7, <1>12, <2>3 DEF Waits
    <2>6. Progress' BY <1>2, <1>12, <2>4 DEF Progress, PagePoints, ErasePoints, WritePoints, BeforePages
    <2> QED BY <1>3, <1>5, <1>9, <1>10, <1>11, <2>5, <2>6 DEF ControllerInv
  <1>13. CASE pc = "wait write"
    <2>1. /\ dev.doing = [op |-> "program", at |-> Here, value |-> Wanted(Here)]
          /\ DoneBefore /\ HalfWay
      BY <1>1, <1>2, <1>13 DEF Waits, Progress, PagePoints, ErasePoints, WritePoints, BeforePages
    <2>2. Touched(dev) = {Here} /\ dev.doing.value = Wanted(Here) BY <2>1 DEF Touched
    <2>3. Wanted(Here)' = Wanted(Here) BY <1>2 DEF run, Wanted, Here
    <2>4. ~dev'.err => dev'.cells[Here'] = Wanted(Here)'
      BY <1>3, <1>5, <1>6, <2>2, <2>3 DEF Fill
    <2>5. \A c \in Cells \ {Here} : dev'.cells[c] = dev.cells[c]
      <3>1. dev \in Device BY <1>1 DEF ControllerTypeOK
      <3> QED BY <1>2, <2>2, <3>1, EndedElsewhere
    <2>6. DoneBefore'
      <3>1. \A c \in Cells \ CellsOf(page) : dev'.cells[c] = dev.cells[c] BY <1>6, <2>5
      <3> QED BY <1>2, <1>3, <1>4, <2>1, <3>1, OthersKept
    <2>7. HalfWay'
      <3>1. \A c \in CellsOf(page) : c \in Int /\ c \in Cells BY <1>6 DEF Cells
      <3>2. Here \in Int BY <1>6, <3>1
      <3>3. \A c \in CellsOf(page) : c < Here \/ c > Here => dev'.cells[c] = dev.cells[c]
        BY <2>5, <3>1, <3>2
      <3> QED BY <1>5, <2>1, <3>3 DEF HalfWay
    <2>8. Waits' BY <1>2, <1>7, <1>13, <2>4 DEF Waits
    <2>9. Progress' BY <1>2, <1>13, <2>6, <2>7 DEF Progress, PagePoints, ErasePoints, WritePoints, BeforePages
    <2> QED BY <1>3, <1>5, <1>9, <1>10, <1>11, <2>8, <2>9 DEF ControllerInv
  <1>14. CASE pc \notin {"wait erase", "wait write"}
    <2>1. pc \notin PagePoints BY <1>8, <1>14
    <2>2. Waits' BY <1>2, <1>14 DEF Waits
    <2>3. Progress' BY <1>2, <2>1 DEF Progress, PagePoints, ErasePoints, WritePoints, BeforePages
    <2> QED BY <1>3, <1>5, <1>9, <1>10, <1>11, <2>2, <2>3 DEF ControllerInv
  <1> QED BY <1>12, <1>13, <1>14

-----------------------------------------------------------------------------
(* The theorems *)

\* At first the controller is locked and idle and holds the old contents.
LEMMA InitController ==
  ASSUME SizeAssumption, Init
  PROVE  ControllerInv
  <1> DEFINE d == [cells |-> Old, cr |-> "0", doing |-> Idle, err |-> FALSE,
                   used |-> FALSE, locked |-> TRUE, keys |-> 0, jammed |-> FALSE]
  <1>1. /\ dev = d /\ pc = "idle" /\ file \in Files /\ restore = FALSE
        /\ page = Offset /\ cell = 0 /\ given = "none"
    BY DEF Init
  <1>2. Idle \in Operations BY DEF Idle, Operations, SizeAssumption
  <1>3. Old \in [Cells -> Content] BY DEF Cells, SizeAssumption
  <1>4. d \in Device
    <2> DEFINE keys == 0 .. 1
    <2>1. 0 \in keys OBVIOUS
    <2> HIDE DEF keys
    <2>2. d \in [cells: [Cells -> Content], cr: {"0", "PG", "PER"}, doing: Operations,
                 err: BOOLEAN, used: BOOLEAN, locked: BOOLEAN, keys: keys, jammed: BOOLEAN]
      BY <1>2, <1>3, <2>1
    <2> QED BY <2>2 DEF Device, keys
  <1>5. /\ dev.cells = Old /\ ~dev.used /\ ~dev.jammed /\ dev.doing = Idle BY <1>1
  <1>6. ~Busy(dev) BY <1>5 DEF Busy, Idle
  <1>7. DeviceSafe(dev) BY <1>1, <1>4, <1>5, <1>6 DEF DeviceSafe
  <1> HIDE DEF d
  <1>8. LastPage \in Int /\ LastPage >= Offset BY <1>1, FileHasPages DEF LastPage
  <1>9. Offset \in Nat /\ 0 \in 0 .. PageCells - 1 BY DEF SizeAssumption
  <1>10. page \in Offset .. LastPage BY <1>1, <1>8, <1>9
  <1>11. ControllerTypeOK BY <1>1, <1>4, <1>9, <1>10 DEF ControllerTypeOK, Points
  <1>12. Registers BY <1>1 DEF Registers, PagePoints, ErasePoints, WritePoints, BeforePages
  <1>13. Counters BY <1>1 DEF Counters, PagePoints, ErasePoints, WritePoints, BeforePages
  <1>14. Waits BY <1>1 DEF Waits
  <1>15. Progress BY <1>1 DEF Progress, PagePoints, ErasePoints, WritePoints, BeforePages
  <1>16. ProgramIsWhole BY <1>1 DEF ProgramIsWhole
  <1> QED BY <1>7, <1>11, <1>12, <1>13, <1>14, <1>15, <1>16 DEF ControllerInv

\* Every step keeps the invariant.
LEMMA NextController ==
  ASSUME SizeAssumption, ControllerInv, [Next]_vars
  PROVE  ControllerInv'
  <1>1. CASE ReadCr BY <1>1, KeepReadCr
  <1>2. CASE Key1 BY <1>2, KeepKey1
  <1>3. CASE Key2 BY <1>3, KeepKey2
  <1>4. CASE Confirm BY <1>4, KeepConfirm
  <1>5. CASE ClearStatus BY <1>5, KeepClearStatus
  <1>6. CASE ResetControl BY <1>6, KeepResetControl
  <1>7. CASE ClearAgain BY <1>7, KeepClearAgain
  <1>8. CASE Configure BY <1>8, KeepConfigure
  <1>9. CASE StartPage BY <1>9, KeepStartPage
  <1>10. CASE WaitErase BY <1>10, KeepWaitErase
  <1>11. CASE FinishErase BY <1>11, KeepFinishErase
  <1>12. CASE Enable BY <1>12, KeepEnable
  <1>13. CASE WriteDoubleword BY <1>13, KeepWriteDoubleword
  <1>14. CASE WaitCell BY <1>14, KeepWaitCell
  <1>15. CASE ClearEop BY <1>15, KeepClearEop
  <1>16. CASE Disable BY <1>16, KeepDisable
  <1>17. CASE Verify BY <1>17, KeepVerify
  <1>18. CASE GiveUp BY <1>18, FinishKeeps DEF GiveUp
  <1>19. ASSUME NEW f \in Files, RestoreAfter(f) PROVE ControllerInv'
    <2>1. /\ dev' = dev /\ file' = f /\ restore' = TRUE /\ page' = Offset /\ cell' = 0
          /\ pc' = "read CR" /\ given' = given
      BY <1>19 DEF RestoreAfter, Goto
    <2>2. DeviceSafe(dev') /\ given' \in {"none", "programmed", "restored", "failed"}
      BY <2>1 DEF ControllerInv, ControllerTypeOK
    <2> QED BY <2>1, <2>2, BeginKeeps
  <1>20. CASE Complete BY <1>20, KeepComplete
  <1>21. ASSUME NEW f \in Files, NEW r \in BOOLEAN, Begin(f, r) PROVE ControllerInv'
    <2>1. /\ dev' \in AfterReset(dev) /\ file' = f /\ restore' = r /\ page' = Offset /\ cell' = 0
          /\ pc' = "read CR" /\ given' = "none"
      BY <1>21 DEF Begin, Goto
    <2>2. DeviceSafe(dev) BY DEF ControllerInv
    <2>3. DeviceSafe(dev') BY <2>1, <2>2, AfterResetSafe
    <2> QED BY <2>1, <2>3, BeginKeeps
  <1>22. CASE UNCHANGED vars
    <2>1. /\ dev' = dev /\ pc' = pc /\ file' = file /\ restore' = restore /\ page' = page
          /\ cell' = cell /\ given' = given
      BY <1>22 DEF vars, run
    <2>2. /\ ControllerTypeOK /\ DeviceSafe(dev) /\ Registers /\ Counters /\ Waits /\ Progress
          /\ ProgramIsWhole
      BY DEF ControllerInv
    <2>3. UNCHANGED run /\ DeviceSafe(dev') /\ pc' \in Points BY <2>1, <2>2 DEF run, ControllerTypeOK
    <2>4. /\ ControllerTypeOK' /\ Here' = Here /\ LastPage' = LastPage
          /\ \A c : Wanted(c)' = Wanted(c)
      BY <2>3, RunKept
    <2>5. /\ PageBlank => PageBlank'
          /\ DoneBefore => DoneBefore'
          /\ HalfWay => HalfWay'
          /\ PageDone(page) => PageDone(page)'
      BY <2>1, <2>3, CellsKept
    <2>6. Wanted(Here)' = Wanted(Here) BY <2>1 DEF Wanted, Here
    <2>7. Registers' BY <2>1, <2>2 DEF Registers
    <2>8. Counters' BY <2>1, <2>2 DEF Counters
    <2>9. Waits' BY <2>1, <2>2, <2>4, <2>5, <2>6 DEF Waits
    <2>10. Progress' BY <2>1, <2>2, <2>4, <2>5, <2>6 DEF Progress
    <2>11. ProgramIsWhole' BY <2>1, <2>2, <2>4 DEF ProgramIsWhole
    <2> QED BY <2>3, <2>4, <2>7, <2>8, <2>9, <2>10, <2>11 DEF ControllerInv
  <1> QED
    BY <1>1, <1>2, <1>3, <1>4, <1>5, <1>6, <1>7, <1>8, <1>9, <1>10, <1>11, <1>12, <1>13,
       <1>14, <1>15, <1>16, <1>17, <1>18, <1>19, <1>20, <1>21, <1>22 DEF Next, Step

(* The inductive invariant: at every point of the sequence the controller's *)
(* registers, and the doublewords written so far, are what the next access  *)
(* relies on.                                                               *)
THEOREM ControllerInvariance == ASSUME SizeAssumption PROVE Spec => []ControllerInv
  <1>1. Init => ControllerInv BY InitController
  <1>2. ControllerInv /\ [Next]_vars => ControllerInv' BY NextController
  <1> QED BY <1>1, <1>2, PTL DEF Spec

(* unlockFlash to programPage: no erase and no doubleword is ever sent to a *)
(* controller that is locked, busy, in error or set to something else.      *)
THEOREM CommandsMeetReady == ASSUME SizeAssumption PROVE Spec => []CommandMeetsReady
  <1>1. ControllerInv => CommandMeetsReady
    <2>1. SUFFICES ASSUME ControllerInv PROVE CommandMeetsReady OBVIOUS
    <2>2. Registers /\ Progress BY <2>1 DEF ControllerInv
    <2> QED BY <2>2 DEF CommandMeetsReady, Here, Progress, Registers, PagePoints, ErasePoints, WritePoints, BeforePages
  <1> QED BY <1>1, ControllerInvariance, PTL

(* program and verify: true means that the whole file is in the flash, and  *)
(* nothing is left under way that could change it.                          *)
THEOREM ProgramsWhole == ASSUME SizeAssumption PROVE Spec => []ProgramIsWhole
  <1>1. ControllerInv => ProgramIsWhole BY DEF ControllerInv
  <1> QED BY <1>1, ControllerInvariance, PTL

(* The bootloader, and the flash past the last page of every file, survive  *)
(* any sequence of updates, failures and restores.                          *)
THEOREM OthersUntouched == ASSUME SizeAssumption PROVE Spec => []OtherPagesKept
  <1>1. ControllerInv => OtherPagesKept
    BY DEF ControllerInv, DeviceSafe, Protected, OtherPagesKept
  <1> QED BY <1>1, ControllerInvariance, PTL

(* unlockFlash: a controller that has refused the keys has lost no page.    *)
THEOREM JammedUntouched == ASSUME SizeAssumption PROVE Spec => []JammedIsUntouched
  <1>1. ControllerInv => JammedIsUntouched
    BY DEF ControllerInv, DeviceSafe, JammedIsUntouched
  <1> QED BY <1>1, ControllerInvariance, PTL

=============================================================================
