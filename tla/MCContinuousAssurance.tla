----------------------- MODULE MCContinuousAssurance -----------------------
(***************************************************************************)
(* A run is about one of two things, which share no state: packages that   *)
(* are put together part by part (turn = "package"), or the generated one, *)
(* its replay and its scoring (turn = "generation").                       *)
(*                                                                         *)
(* Package: one case of two events in three ticks, with a window and       *)
(* checkpoints.                                                            *)
(*                                                                         *)
(* Generation: the smoke tier, one cycle of the eight templates, from two  *)
(* seeds and in two orders of the templates.                               *)
(***************************************************************************)
EXTENDS ContinuousAssurance, AssuranceGeneration

VARIABLE turn

MCOrders == {<<1, 2, 3, 4, 5, 6, 7, 8>>, <<7, 3, 8, 1, 6, 4, 2, 5>>}

MCInit ==
  \/ /\ turn = "package" /\ Init
     /\ genSignals = None /\ genRemediations = None /\ genWindows = None /\ genCheckpoints = None
     /\ genStage = None /\ base = None /\ truth = None
     /\ tick = None /\ submitted = Unset /\ report = None
  \/ turn = "generation" /\ GenerationInit /\ Init

MCNext ==
  \/ turn = "package" /\ Next /\ UNCHANGED <<turn, generationVars>>
  \/ turn = "generation" /\ GenerationNext /\ UNCHANGED <<turn, vars>>

MCSpec == MCInit /\ [][MCNext]_<<turn, vars, generationVars>>
=============================================================================
