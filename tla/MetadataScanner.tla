--------------------------- MODULE MetadataScanner ---------------------------
(***************************************************************************)
(* FirmwareMetadataScanner of src/FirmwareImage.cpp: the board name found  *)
(* in an image that is read block by block (inspectMarlinImage and         *)
(* inspectApplication).  The scanner collects runs of printable            *)
(* characters, of at most Capacity, and looks for names in each of them.   *)
(* The MCU name is found the same way.                                     *)
(***************************************************************************)
EXTENDS Integers, Sequences

CONSTANTS
  Char,      \* what a byte can be
  Printable, \* the bytes 0x20 .. 0x7e
  Capacity,  \* longest run that is examined at once (kRunCapacity)
  MinRun,    \* shortest run that is examined
  Names,     \* the texts looked for, in the order explicitBoardName tries them
  Native,    \* the positions in Names of the supported board
  MaxLen,    \* bound: bytes of an image
  Block      \* the buffer an image is read into (scanBuffer)

ASSUME ScannerAssumption ==
  /\ Printable \subseteq Char
  /\ Capacity \in Nat \ {0} /\ MinRun \in 1 .. Capacity /\ Block \in Nat \ {0}
  /\ Names \in Seq(Seq(Printable)) /\ Native \subseteq DOMAIN Names
  /\ MaxLen \in Nat

VARIABLES
  image,   \* the file
  read,    \* bytes read so far
  scanner, \* run, the characters collected; board, the position of the name found, or 0
  done     \* finish has been called

scanVars == <<image, read, scanner, done>>

-----------------------------------------------------------------------------
Occurs(text, name) ==
  \E i \in 0 .. Len(text) - Len(name) : SubSeq(text, i + 1, i + Len(name)) = name

\* explicitBoardName: the first of the names that occurs.
BoardIn(text) ==
  LET found == {n \in DOMAIN Names : Occurs(text, Names[n])}
  IN  IF found = {} THEN 0 ELSE CHOOSE n \in found : \A m \in found : n <= m

ConsumeRun(s) ==
  [run |-> <<>>,
   board |-> IF Len(s.run) >= MinRun /\ s.board = 0 THEN BoardIn(s.run) ELSE s.board]

\* Mutant: one character more than the buffer has room for.
FeedPastEnd(s, c) ==
  IF c \notin Printable THEN ConsumeRun(s)
  ELSE IF Len(s.run) > Capacity THEN [ConsumeRun(s) EXCEPT !.run = <<c>>]
  ELSE [s EXCEPT !.run = Append(@, c)]

FeedChar(s, c) ==
  IF c \notin Printable THEN ConsumeRun(s)
  ELSE IF Len(s.run) = Capacity THEN [ConsumeRun(s) EXCEPT !.run = <<c>>]
  ELSE [s EXCEPT !.run = Append(@, c)]

-----------------------------------------------------------------------------
ScanInit ==
  /\ image \in UNION {[1 .. n -> Char] : n \in 0 .. MaxLen}
  /\ read = 0
  /\ scanner = [run |-> <<>>, board |-> 0]
  /\ done = FALSE

\* file.read returns up to a buffer of bytes, which feed takes one by one.
Feed(count) ==
  /\ read + count <= Len(image)
  /\ LET after[k \in 0 .. count] ==
           IF k = 0 THEN scanner ELSE FeedChar(after[k - 1], image[read + k])
     IN  scanner' = after[count]
  /\ read' = read + count
  /\ UNCHANGED <<image, done>>

Finish ==
  /\ ~done
  /\ read = Len(image)
  /\ scanner' = ConsumeRun(scanner)
  /\ done' = TRUE
  /\ UNCHANGED <<image, read>>

ScanNext == Finish \/ \E count \in 1 .. Block : Feed(count)

ScanSpec == ScanInit /\ [][ScanNext]_scanVars

-----------------------------------------------------------------------------
(* The pieces that are examined: the maximal runs of printable bytes, each *)
(* cut after every Capacity of them.  A piece is a pair of positions.      *)
RunStart(i) == i = 1 \/ image[i - 1] \notin Printable
Printables(i, j) == \A k \in i .. j : image[k] \in Printable

Pieces ==
  {p \in (1 .. Len(image)) \X (1 .. Len(image)) :
     /\ p[1] <= p[2] /\ Printables(p[1], p[2])
     /\ \E i \in 1 .. p[1] : /\ RunStart(i) /\ Printables(i, p[1])
                             /\ (p[1] - i) % Capacity = 0
     /\ p[2] - p[1] < Capacity
     /\ \/ p[2] = Len(image)
        \/ p[2] - p[1] = Capacity - 1
        \/ image[p[2] + 1] \notin Printable}

Named == {p \in Pieces : /\ p[2] - p[1] + 1 >= MinRun
                         /\ BoardIn(SubSeq(image, p[1], p[2])) # 0}

(* The board is the one named by the first piece that names any, wherever  *)
(* the blocks were cut in which the file or the flash was read (feed).     *)
FirstPieceDecides ==
  done =>
    IF Named = {} THEN scanner.board = 0
    ELSE \E p \in Named : /\ \A q \in Named : p[1] <= q[1]
                          /\ scanner.board = BoardIn(SubSeq(image, p[1], p[2]))
=============================================================================
