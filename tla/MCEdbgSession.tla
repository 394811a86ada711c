---------------------------- MODULE MCEdbgSession -----------------------------
(* Four pages of two rows of two units; files that end inside a row, inside *)
(* a page, at the end of the flash and past it; two sections of two fuses.  *)
EXTENDS EdbgSession

MCSectors == <<4, 4, 8>>

Plain ==
  [acts |-> {}, reset |-> 0, target |-> "known", list |-> FALSE, serial |-> "any",
   version |-> "best", offset |-> -1, size |-> -1, length |-> -1, fuse |-> <<>>]

(* Command lines that main turns down, or ends before it selects a target. *)
Errands ==
  {[Plain EXCEPT !.target = t, !.list = l, !.reset = r] :
     t \in {"none", "list", "unknown", "known"}, l \in BOOLEAN, r \in 0 .. 1}
  \cup {[Plain EXCEPT !.acts = {"erase"}, !.serial = s, !.version = v, !.length = 5] :
          s \in {"any", "serial", "nosuch", "first", "second"}, v \in {"best", "offered", "lacking"}}
  \cup {[Plain EXCEPT !.acts = {"read", "program"}, !.length = 5],
        [Plain EXCEPT !.acts = {"lock"}, !.list = TRUE]}

(* What is done to the flash, and where.                                   *)
Ranges == {<<-1, -1>>, <<4, 8>>, <<8, -1>>, <<2, 8>>, <<12, 8>>, <<16, -1>>}
Works ==
  {[Plain EXCEPT !.acts = a, !.offset = r[1], !.size = r[2], !.length = n] :
     a \in {{"program"}, {"verify"}, {"program", "verify"}, {"erase", "program", "verify", "lock"},
            {"unlock", "program", "lock"}},
     r \in Ranges, n \in {0, 5, 17}}
  \cup {[Plain EXCEPT !.acts = a, !.offset = r[1], !.size = r[2]] :
          a \in {{"read"}, {"unlock", "read"}}, r \in Ranges}
  \cup {[Plain EXCEPT !.acts = a, !.length = 5] : a \in {{"erase"}, {"unlock"}, {"lock"}}}

(* Fuse commands, alone or two in a row.                                   *)
Bits(v0, v1) == [b \in FuseBits |-> IF b = 0 THEN v0 ELSE v1]
FuseCommands ==
  {[ops |-> o, section |-> s, what |-> "bits", hi |-> h, lo |-> l, value |-> Bits(1, v)] :
     o \in {{"r"}, {"w"}, {"w", "v"}}, s \in 0 .. 2, h \in 0 .. 1, l \in 0 .. 1, v \in 0 .. 1}
  \cup {[ops |-> o, section |-> 0, what |-> t, hi |-> 0, lo |-> 0, value |-> Bits(1, 1)] :
          o \in {{"r"}, {"w", "v"}, {"v"}, {"r", "w"}, {}}, t \in {"file", "short", "all"}}
  \cup {[ops |-> {"w"}, section |-> 0, what |-> "bits", hi |-> 0, lo |-> 0, value |-> <<>>]}
Second == [ops |-> {"w", "v"}, section |-> 0, what |-> "bits", hi |-> 1, lo |-> 1, value |-> Bits(1, 1)]
FuseRuns ==
  {[Plain EXCEPT !.fuse = <<c>>] : c \in FuseCommands}
  \cup {[Plain EXCEPT !.fuse = <<c, Second>>] : c \in FuseCommands}
  \cup {[Plain EXCEPT !.acts = a, !.fuse = <<Second>>] : a \in {{"unlock"}, {"unlock", "lock"}, {"lock"}}}

(* What the commands meet: debuggers and devices for the first; a device   *)
(* that is open, protects a page or is locked, or that holds the file, for *)
(* the second; one that protects its fuses or is locked for the third.      *)
Good == [probes |-> 1, swd |-> TRUE, listed |-> "first", locked |-> FALSE, bad |-> -1, holds |-> FALSE]
Desks ==
  {[Good EXCEPT !.probes = n, !.swd = s, !.listed = l] :
     n \in 0 .. 2, s \in BOOLEAN, l \in {"first", "later", "no"}}
Benches ==
  {Good, [Good EXCEPT !.bad = PageUnits], [Good EXCEPT !.locked = TRUE], [Good EXCEPT !.holds = TRUE]}
MCCases ==
  [cmd : Errands, world : Desks] \cup [cmd : Works, world : Benches]
  \cup [cmd : FuseRuns, world : {Good, [Good EXCEPT !.bad = FuseUnit(0)], [Good EXCEPT !.locked = TRUE]}]
=============================================================================
