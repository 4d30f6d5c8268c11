--------------------------- MODULE MCOrchestration ---------------------------
(***************************************************************************)
(* Instances of Orchestration for TLC.                                     *)
(***************************************************************************)
EXTENDS Orchestration, TLC

CONSTANT First    \* the task the others depend on

NoDeps == [t \in Tasks |-> {}]
FirstThenRest == [t \in Tasks |-> IF t = First THEN {} ELSE {First}]

TerminalSymmetry == Permutations(Terminals)
=============================================================================
