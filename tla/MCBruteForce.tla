----------------------------- MODULE MCBruteForce -----------------------------
(***************************************************************************)
(* Instances of BruteForceSolver: three agents with two, three and two     *)
(* actions, of which the last has two types: 24 joint policies and 2 joint *)
(* types.                                                                  *)
(***************************************************************************)
EXTENDS BruteForceSolver

MCNrActions == <<2, 3, 2>>
MCNrDomainElements == <<1, 1, 2>>
MCMinusMax == -1000
MCBounds == {MCMinusMax, 0, 4}

(* The game whose type t of agent 3 contributes f(t, ja). *)
LOCAL TypeOfAgent3(f(_, _)) == [jt \in JointTypes |-> [ja \in JointActions |-> f(jt[3], ja)]]

(* Many ties: the first and the last agent should take the same action for *)
(* type 1 and different ones for type 2.                                   *)
Coordination ==
  TypeOfAgent3(LAMBDA t, ja :
    (IF (ja[1] = ja[3]) = (t = 1) THEN 2 ELSE 0) + (IF ja[2] = ja[1] + ja[3] THEN 1 ELSE 0))

(* Negative contributions, and a type that never occurs. *)
Losses ==
  TypeOfAgent3(LAMBDA t, ja :
    IF t = 1 THEN 0 ELSE ja[2] - 2 * ja[1] - (IF ja[3] = 1 THEN 3 ELSE 1))

(* All payoffs but two are different. *)
Ranked ==
  TypeOfAgent3(LAMBDA t, ja :
    8 * ja[2] - 3 * ja[1] * ja[2] * t + t * ja[3] - 6 + (IF t = 1 /\ ja[1] = ja[3] THEN 5 ELSE 0))

GameOf(contribution, nrDesired, upperBound) ==
  [contribution |-> contribution, nrDesired |-> nrDesired, upperBound |-> upperBound]

(* One solution, with an upper bound that the best policy reaches or does  *)
(* not reach; a few solutions; all of them.                                *)
MCGames ==
  {GameOf(Coordination, 1, ub) : ub \in {5, 1000}} \cup {GameOf(Losses, 1, ub) : ub \in {1, 1000}}
    \cup {GameOf(bg, n, 1000) : bg \in {Coordination, Losses}, n \in {2, 5}}
    \cup {GameOf(Ranked, n, 1000) : n \in {1, 3, Infinite}}

(* The conditions of the proofs hold of these games. *)
ASSUME FitAssumption == IndicesFit /\ UpperBoundsAreSound
===============================================================================
