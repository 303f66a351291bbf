---------------------------- MODULE OptimalSearch -----------------------------
(***************************************************************************)
(* What an exact planner promises to the caller of Plan(): a search may be *)
(* cut off by its deadline, but when it answers, the answer is a candidate *)
(* of the greatest worth.  While it searches, the incumbent is the worth   *)
(* of a candidate it has really seen, and is only replaced by a better one.*)
(***************************************************************************)
EXTENDS Integers

CONSTANTS
  Candidates,   \* what may be found
  Worth,        \* the worth of every candidate, for every task
  Nothing       \* the worth of no candidate, below every worth

VARIABLES
  task,         \* the task the planner was made for
  phase,        \* "idle", "planning", "ended" or "deadline"
  incumbent,    \* the worth of the best candidate seen
  answer        \* the worth of the answer, Nothing as long as there is none

searchVars == <<task, phase, incumbent, answer>>

Init ==
  /\ task \in DOMAIN Worth
  /\ phase = "idle"
  /\ incumbent = Nothing
  /\ answer = Nothing

Begin ==
  /\ phase # "planning"
  /\ phase' = "planning"
  /\ incumbent' = Nothing
  /\ answer' = Nothing
  /\ UNCHANGED task

Improve ==
  /\ phase = "planning"
  /\ \E c \in Candidates : Worth[task][c] > incumbent /\ incumbent' = Worth[task][c]
  /\ UNCHANGED <<task, phase, answer>>

Answer ==
  /\ phase = "planning"
  /\ \E c \in Candidates : Worth[task][c] = incumbent
  /\ \A c \in Candidates : Worth[task][c] <= incumbent
  /\ phase' = "ended"
  /\ answer' = incumbent
  /\ UNCHANGED <<task, incumbent>>

GiveUp ==
  /\ phase = "planning"
  /\ phase' = "deadline"
  /\ UNCHANGED <<task, incumbent, answer>>

Next == Begin \/ Improve \/ Answer \/ GiveUp

SafeSpec == Init /\ [][Next]_searchVars

(* With the promise that an answer, or the deadline, comes. *)
Spec == SafeSpec /\ (phase = "planning" ~> phase # "planning")
=============================================================================
