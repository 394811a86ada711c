------------------------------ MODULE SwdHosts ------------------------------
(***************************************************************************)
(* The three hosts that drive a controller over SWD: the transport of the  *)
(* programmer (src/SwdTransport.cpp), the research engine it is adapted    *)
(* from, and the research programmers above that engine.  A behavior is    *)
(* about one of them, which is "host"; the other two stand still.          *)
(***************************************************************************)
EXTENDS SwdTransport

CONSTANTS
  Asked, \* bound: the words the engine is asked for, the others being 0 at first
  Pages, PageWords, RowPages, Bits, Files, Pattern, TestPage \* of EmbeddedTarget

VARIABLES
  host,
  remote, driven, order, phase, at, attempts, result, expired, calm, stuck,
  chip, up, run, stage, page, word, data, exit, before

Engine ==
  INSTANCE EmbeddedSwd WITH
    target <- remote, call <- order, pc <- phase, step <- at, tries <- attempts, quiet <- calm

Programmer == INSTANCE EmbeddedTarget WITH pc <- stage

ASSUME TransportSizes == PortAssumption /\ TransportAssumption
ASSUME EngineSizes == Engine!EngineAssumption /\ 0 \in Asked /\ Asked \subseteq Address
ASSUME ProgrammerSizes == Programmer!TargetAssumption

engineVars == <<remote, driven, order, phase, at, attempts, result, expired, calm, stuck>>
programmerVars == <<chip, up, run, stage, page, word, data, exit, before>>
hostsVars == <<host, vars, engineVars, programmerVars>>

\* The hosts that stand still do so from one state.
HostsInit ==
  /\ host \in {"transport", "engine", "programmer"}
  /\ host # "transport" => target = CHOOSE t \in Target : ~t.power
  /\ host # "engine" => remote = CHOOSE t \in Target : ~t.power
  /\ host # "programmer" =>
       chip = [flash |-> [i \in Programmer!Cells |-> Programmer!Blank],
               was |-> [i \in Programmer!Cells |-> Programmer!Blank],
               buffer |-> Programmer!BlankPage, manual |-> TRUE, done |-> FALSE, row |-> 0]
  /\ Init /\ Engine!Init /\ Programmer!Init
  /\ host = "engine" => remote.tar \in Asked /\ \A a \in Address \ Asked : remote.mem[a] = 0

TransportStep == host = "transport" /\ Next /\ UNCHANGED <<host, engineVars, programmerVars>>
EngineStep ==
  host = "engine" /\ Engine!Next /\ order'.at \in Asked /\ UNCHANGED <<host, vars, programmerVars>>
ProgrammerStep == host = "programmer" /\ Programmer!Next /\ UNCHANGED <<host, vars, engineVars>>

HostsNext == TransportStep \/ EngineStep \/ ProgrammerStep
HostsSpec == HostsInit /\ [][HostsNext]_hostsVars

(* Each host runs on whenever a call, or a run that is not killed, is in   *)
(* progress; the power-up poll of the transport ends after its 250 ms.     *)
HostsFairSpec ==
  /\ HostsSpec
  /\ WF_hostsVars((Request \/ Collect) /\ UNCHANGED <<host, engineVars, programmerVars>>)
  /\ SF_hostsVars(PollEnds /\ UNCHANGED <<host, engineVars, programmerVars>>)
  /\ WF_hostsVars((Engine!Request \/ Engine!Collect) /\ UNCHANGED <<host, vars, programmerVars>>)
  /\ WF_hostsVars(Programmer!Work /\ UNCHANGED <<host, vars, engineVars>>)

\* Type correctness.
HostsTypeOK == TransportTypeOK /\ Engine!EngineTypeOK /\ Programmer!EmbeddedTypeOK

(* The engine, silent as it is, writes no word but the one it was asked    *)
(* to, and returns the word of the target or 0.                            *)
EngineIsSafe == Engine!EngineIsSafe

(* Setting a session up clears what failed before it.                      *)
SessionRevives == Engine!SessionRevives

(* A run of a research programmer that exits without an error has done     *)
(* what it was asked to.                                                   *)
SuccessIsEarned == Programmer!SuccessIsEarned

(* Every call of the transport and of the engine returns whatever the      *)
(* target answers, for retries and polls are bounded; a run of a research  *)
(* programmer ends unless its session is lost: its polls have no deadline. *)
Busy == pc # "idle" \/ phase # "idle" \/ stage # "idle"
Lost == stage # "idle" /\ ~up
HostsReturn == Busy ~> (~Busy \/ Lost)
=============================================================================
