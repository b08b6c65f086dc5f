------------------------------- MODULE FlowExt -------------------------------
(***************************************************************************)
(* The extensions of the files in an outbound directory: which of them the *)
(* scheduler queues and how urgent it finds them, and which of them a      *)
(* session sends.                                                          *)
(***************************************************************************)
EXTENDS Naturals

\* isValidFlowExt.
ValidFlowExt == {".clo", ".dlo", ".hlo", ".lo", ".flo",
                 ".cut", ".dut", ".hut", ".out", ".fut"}

Flavor == {"Crash", "Direct", "Hold", "Normal"}

\* getStateFromExt.
StateFromExt(ext) ==
  CASE ext \in {".clo", ".cut"} -> "Crash"
    [] ext \in {".dlo", ".dut"} -> "Direct"
    [] ext \in {".hlo", ".hut"} -> "Hold"
    [] OTHER -> "Normal"

\* getPriorityFromExt: the least is the most urgent.
PriorityFromExt(ext) ==
  CASE ext \in {".clo", ".cut"} -> 0
    [] ext \in {".dlo", ".dut"} -> 1
    [] ext \in {".hlo", ".hut"} -> 2
    [] ext \in {".lo", ".out"} -> 3
    [] OTHER -> 4

\* Mutant of FlavorOf: the least urgent file decides.
FlavorOfLeastUrgent(exts) ==
  StateFromExt(CHOOSE e \in exts : \A x \in exts : PriorityFromExt(e) >= PriorityFromExt(x))

\* updateFlow in scanOutbound: a node has the flavour of its most urgent file.
FlavorOf(exts) ==
  StateFromExt(CHOOSE e \in exts : \A x \in exts : PriorityFromExt(e) <= PriorityFromExt(x))

\* The extensions processNetmail and FindFlowFiles look for.
SentExt == {".cut", ".dut", ".hut", ".out", ".clo", ".dlo", ".hlo", ".flo"}
=============================================================================
