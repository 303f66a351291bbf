------------------------------ MODULE MCMAAstar -------------------------------
(***************************************************************************)
(* Instances of MAAstar: three stages of two BG policies each and a        *)
(* heuristic that is exact at the last stage.  A problem is a table of     *)
(* rewards, the errors of the heuristic and the weights of the stages.     *)
(***************************************************************************)
EXTENDS MAAstar

MCMinusMax == -1000

MC == INSTANCE MCProblems

(* Admissible errors of the heuristic, consistent or not. *)
Errors == [MC!Inner -> 0..1]

(* Undiscounted rewards of either sign. *)
MixedTables == {<<0, 3, 1, 2, 3, 0, 4, 2>>, <<-2, -1, -3, -1, 0, -4, -1, -2>>}
MixedProblems == MixedTables \X Errors \X {MC!Undiscounted}

(* Discounted rewards: of no stage negative, and all negative. *)
PositiveTables == {<<2, 5, 4, 4, 3, 6, 6, 2>>, <<9, 3, 2, 9, 4, 7, 9, 8>>}
PositiveProblems == PositiveTables \X Errors \X {MC!Halved}

NegativeTables == {<<-9, -8, -5, -6, -7, -4, -3, -8>>}
NegativeProblems == NegativeTables \X Errors \X {MC!Halved}

MixedOrPositiveProblems == MixedProblems \cup PositiveProblems

MCReward == [pb \in Problems |-> MC!RewardOf(pb[1])]
MCPayoff == [pb \in Problems |-> MC!PayoffOf(pb[1], pb[2], 0, pb[3])]
MCWeight == [pb \in Problems |-> pb[3]]

ASSUME MCProblemsAreAdmissible ==
  \A pb \in Problems : Admissible(pb, Slack) /\ ExactAtLastStage(pb)

(* The problems of run maastar are the ones the planner is right about,    *)
(* those of run maastar_negative are not.                                  *)
ASSUME MCSoundProblems ==
  \A pb \in Problems : SearchIsSound(pb) <=> pb \in MixedOrPositiveProblems
=============================================================================
