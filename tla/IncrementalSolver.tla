--------------------------- MODULE IncrementalSolver --------------------------
(***************************************************************************)
(* The contract of an incremental solver of Bayesian games                 *)
(* (BGIP_IncrementalSolverInterface) as GMAA_MAAstar relies on it.  Every  *)
(* call passes a lower bound that never goes down.  The solver returns the *)
(* remaining policies of the game by decreasing payoff; it may drop, for   *)
(* good, policies that are below the bound, and policies that are no       *)
(* better than as many others that it keeps as it can still be asked for.  *)
(***************************************************************************)
EXTENDS Integers, FiniteSets

CONSTANTS
  Games,        \* the games that may have to be solved
  GamePolicies, \* the joint policies of the games
  GamePayoff,   \* GamePayoff[game][policy]
  NrDesired,    \* NrDesired[game]: GetNrDesiredSolutions()
  Nothing       \* the answer when there is no next solution

VARIABLES
  game,         \* the game of the solver
  left,         \* the policies that may still be returned
  bound,        \* the lower bound of the last call
  calls,        \* _m_nrSolutionsReturned
  status,       \* "idle", or "asked" during a call
  answer        \* what the last call returned

solverVars == <<game, left, bound, calls, status, answer>>

Init ==
  /\ game \in Games
  /\ left = GamePolicies
  /\ bound \in Int
  /\ calls = 0
  /\ status = "idle"
  /\ answer = Nothing

(* Until AllSolutionsHaveBeenReturned(). *)
Ask ==
  /\ status = "idle"
  /\ calls < NrDesired[game]
  /\ status' = "asked"
  /\ calls' = calls + 1
  /\ bound' >= bound
  /\ UNCHANGED <<game, left, answer>>

(* The solutions that were desired and not returned in an earlier call. *)
NrToReturn == NrDesired[game] - calls + 1

MayDrop(p, kept) ==
  \/ GamePayoff[game][p] < bound
  \/ Cardinality({q \in kept : GamePayoff[game][p] <= GamePayoff[game][q]}) >= NrToReturn

Drop ==
  /\ status = "asked"
  /\ left' \subseteq left
  /\ \A p \in left \ left' : MayDrop(p, left')
  /\ UNCHANGED <<game, bound, calls, status, answer>>

(* The best policy that is left, and Nothing when there is none.  What may *)
(* be dropped may be dropped here as well.                                 *)
Return ==
  /\ status = "asked"
  /\ status' = "idle"
  /\ left' \subseteq left \ {answer'}
  /\ LET kept == left' \cup ({answer'} \cap left)
     IN /\ \A p \in left \ kept : MayDrop(p, kept)
        /\ IF kept = {} THEN answer' = Nothing ELSE answer' \in kept
        /\ \A p \in kept : GamePayoff[game][p] <= GamePayoff[game][answer']
  /\ UNCHANGED <<game, bound, calls>>

Next == Ask \/ Drop \/ Return

SafeSpec == Init /\ [][Next]_solverVars

(* Every call returns. *)
Spec == SafeSpec /\ (status = "asked" ~> status = "idle")
===============================================================================
