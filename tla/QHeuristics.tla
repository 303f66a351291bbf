------------------------------ MODULE QHeuristics ------------------------------
(***************************************************************************)
(* The heuristics QMDP, QPOMDP, QBG and QHybrid with their files.  One     *)
(* program after the other computes the heuristic of a task, or reads what *)
(* an earlier one has saved; each of them may be killed at any time.  A    *)
(* task has                                                                *)
(*   problem    a problem of DecPOMDP, with its name,                      *)
(*   horizon,                                                              *)
(*   first      the kind of the first stages, "QPOMDP" or "QBG",           *)
(*   last       the number of the last stages, of kind QMDP: all of them   *)
(*              in a QMDP, none in a QPOMDP or a QBG,                      *)
(*   flat       whether the problem has a flat transition model,           *)
(*   cache      the options useQcache ("use") and requireQcache           *)
(*              ("require") of the planners, or "no"; "save" for           *)
(*              calculateQheuristic, which computes and saves in any case. *)
(***************************************************************************)
EXTENDS DecPOMDP

CONSTANTS
  Families, \* the sets of tasks of the programs that use the same files
  Absent,   \* no file
  Unset,    \* a row of a table that nothing was assigned to
  NoTask

Tasks == UNION Families

(* A hybrid has its last stages within its horizon: the constructor of     *)
(* QHybrid throws otherwise.                                               *)
ASSUME TasksAssumption ==
  /\ NoTask \notin Tasks
  /\ \A tk \in Tasks :
       /\ tk.horizon \in Nat \ {0}
       /\ tk.last \in 0..tk.horizon
       /\ tk.problem.nrS \in Nat \ {0}
       /\ tk.problem.disc \in Nat
       /\ tk.problem.unitD \in Nat \ {0}

NoQ == [tree |-> << >>, tables |-> << >>]

VARIABLES
  family, \* the tasks of the programs that run
  files,  \* the complete rows of every file: Load drops a last line without its end
  phase,  \* of the program that runs, "off" for none
  task,   \* its task
  q,      \* the tables of its heuristic
  saving  \* the file that is being written: [part, isOpen]

vars == <<family, files, phase, task, q, saving>>

-----------------------------------------------------------------------------
(* The tables of a task. *)

IsHybrid(tk) == tk.last \in 1..tk.horizon-1
TreeStages(tk) == tk.horizon - tk.last

TreeCounts(tk) == ComputedCounts("AO", JointNumbers(tk.problem), TreeStages(tk))

(* The number of the joint action-observation histories of the tree.       *)
NrTreeRows(tk) ==
  IF TreeStages(tk) = 0 THEN 0
  ELSE MapThenSumSet(LAMBDA t : TreeCounts(tk)[t], 1..TreeStages(tk))

Row(tk, values) == [i \in 1..JointNumbers(tk.problem).A |-> values[i - 1]]

(* Compute(): the tree of QHybrid is set to zero first, that of the others *)
(* is not; a history that is not possible gets no values.                  *)
ComputedTree(tk, tables) ==
  LET pr == tk.problem
      tree == CreatedTree("AO", JointNumbers(pr), TreeStages(tk))
  IN [i \in DOMAIN tree |->
        IF IsPossible(pr, Belief(pr, tree[i]))
        THEN Row(tk, TreeQ(tk.first, pr, tk.horizon, tk.last, tables, tree[i]))
        ELSE IF IsHybrid(tk) THEN Row(tk, [ja \in JointActions(pr) |-> 0]) ELSE Unset]

Compute(tk) ==
  LET pr == tk.problem
      tables == MDPTables(pr, tk.last, tk.flat)
      rows(table) == [s \in 1..pr.nrS |-> Row(tk, table[s - 1])]
  IN [tree |-> IF TreeStages(tk) = 0 THEN << >> ELSE ComputedTree(tk, tables),
      tables |-> FlattenSeq([t \in 1..tk.last |-> rows(tables[t - 1])])]

Computed == [tk \in Tasks |-> Compute(tk)]

(* GetQ(): the values of a possible history. *)
GetQ(tk, values, history) ==
  LET pr == tk.problem
      joint == JointNumbers(pr)
      t == Len(history) - TreeStages(tk)
      table == [s \in States(pr) |-> [ja \in JointActions(pr) |->
                  values.tables[t * pr.nrS + s + 1][ja + 1]]]
      row == values.tree[HistoryIndex("AO", joint, Firsts(TreeCounts(tk)), history) + 1]
  IN [ja \in JointActions(pr) |->
        IF t >= 0 THEN TableQ(pr, table, Belief(pr, history), ja) ELSE row[ja + 1]]

-----------------------------------------------------------------------------
(* Files. *)

(* Mutant of FileName: the discount is not part of it. *)
FileNameWithoutDiscount(tk, part) ==
  <<tk.problem.name, IF tk.last = tk.horizon THEN "QMDP" ELSE tk.first,
    tk.last, tk.horizon, part>>

(* GetCacheFilename(), with the names of the parts of a QHybrid.           *)
FileName(tk, part) ==
  <<tk.problem.name, IF tk.last = tk.horizon THEN "QMDP" ELSE tk.first,
    tk.last, tk.horizon,
    IF tk.problem.disc = tk.problem.unitD THEN << >> ELSE <<tk.problem.disc, tk.problem.unitD>>,
    part>>

(* What Save() writes, in this order; the part of a table that is not      *)
(* split over two files is "".                                             *)
Parts(tk) ==
  IF IsHybrid(tk) THEN <<"_firstTS", "_lastTS">> ELSE <<"">>

RowsOf(tk, values, part) ==
  IF part = "_lastTS" \/ TreeStages(tk) = 0 THEN values.tables ELSE values.tree

NrRows(tk, part) ==
  IF part = "_lastTS" \/ TreeStages(tk) = 0 THEN tk.last * tk.problem.nrS ELSE NrTreeRows(tk)

FilesOf(tk) == {FileName(tk, Parts(tk)[i]) : i \in DOMAIN Parts(tk)}

TypeOK ==
  /\ family \in Families
  /\ DOMAIN files = UNION {FilesOf(tk) : tk \in family}
  /\ phase \in {"off", "computing", "saving", "loading", "ready", "failed"}
  /\ task \in family \cup {NoTask}
  /\ task = NoTask <=> phase = "off"
  /\ saving \in [part : 0..2, isOpen : BOOLEAN]
  /\ \A f \in DOMAIN files : files[f] # Absent =>
       \A i \in DOMAIN files[f] : files[f][i] = Unset \/ files[f][i] \in Seq(Int)
  /\ IF phase \in {"saving", "ready"}
     THEN /\ Len(q.tree) = NrTreeRows(task)
          /\ Len(q.tables) = task.last * task.problem.nrS
     ELSE q = NoQ

Init ==
  /\ family \in Families
  /\ files = [f \in UNION {FilesOf(tk) : tk \in family} |-> Absent]
  /\ phase = "off"
  /\ task = NoTask
  /\ q = NoQ
  /\ saving = [part |-> 0, isOpen |-> FALSE]

-----------------------------------------------------------------------------
(* Actions. *)

(* ComputeWithCachedQValues(): only the first file is looked for.          *)
IsCached(tk) == files[FileName(tk, Parts(tk)[1])] # Absent

Start ==
  /\ phase = "off"
  /\ \E tk \in family :
       /\ task' = tk
       /\ phase' = IF tk.cache \in {"use", "require"} /\ IsCached(tk) THEN "loading"
                   ELSE IF tk.cache = "require" THEN "failed"
                   ELSE "computing"
  /\ UNCHANGED <<family, files, q, saving>>

ComputeQ ==
  /\ phase = "computing"
  /\ q' = Computed[task]
  /\ IF task.cache \in {"use", "save"}
     THEN /\ phase' = "saving"
          /\ saving' = [part |-> 1, isOpen |-> FALSE]
     ELSE /\ phase' = "ready"
          /\ UNCHANGED saving
  /\ UNCHANGED <<family, files, task>>

SavedFile == FileName(task, Parts(task)[saving.part])
SavedRows == RowsOf(task, q, Parts(task)[saving.part])

OpenFile ==
  /\ phase = "saving"
  /\ ~saving.isOpen
  /\ files' = [files EXCEPT ![SavedFile] = << >>]
  /\ saving' = [saving EXCEPT !.isOpen = TRUE]
  /\ UNCHANGED <<family, phase, task, q>>

(* QTable::Save: a row is flushed with its end of line. *)
WriteRow ==
  /\ phase = "saving"
  /\ saving.isOpen
  /\ Len(files[SavedFile]) < Len(SavedRows)
  /\ files' = [files EXCEPT ![SavedFile] = Append(@, SavedRows[Len(@) + 1])]
  /\ UNCHANGED <<family, phase, task, q, saving>>

CloseFile ==
  /\ phase = "saving"
  /\ saving.isOpen
  /\ Len(files[SavedFile]) = Len(SavedRows)
  /\ IF saving.part < Len(Parts(task))
     THEN /\ saving' = [part |-> saving.part + 1, isOpen |-> FALSE]
          /\ UNCHANGED phase
     ELSE /\ saving' = [part |-> 0, isOpen |-> FALSE]
          /\ phase' = "ready"
  /\ UNCHANGED <<family, files, task, q>>

(* Mutant of HasItsRows: the rows are not counted. *)
HasAnyRows(tk, part) == files[FileName(tk, part)] # Absent

(* QTable::Load throws when a row or a table is missing, which is also     *)
(* what it finds in a file that is not there.                              *)
HasItsRows(tk, part) ==
  /\ files[FileName(tk, part)] # Absent
  /\ Len(files[FileName(tk, part)]) = NrRows(tk, part)

CanBeLoaded(tk) == \A i \in DOMAIN Parts(tk) : HasItsRows(tk, Parts(tk)[i])

LoadedQ(tk) ==
  LET rows(part) == files[FileName(tk, part)]
  IN IF IsHybrid(tk) THEN [tree |-> rows("_firstTS"), tables |-> rows("_lastTS")]
     ELSE IF TreeStages(tk) = 0 THEN [tree |-> << >>, tables |-> rows("")]
     ELSE [tree |-> rows(""), tables |-> << >>]

Load ==
  /\ phase = "loading"
  /\ CanBeLoaded(task)
  /\ q' = LoadedQ(task)
  /\ phase' = "ready"
  /\ UNCHANGED <<family, files, task, saving>>

(* A row that nothing was assigned to may hold what is not read as a       *)
(* number: it then has the wrong number of columns.                        *)
LoadFails ==
  /\ phase = "loading"
  /\ \/ ~CanBeLoaded(task)
     \/ /\ CanBeLoaded(task)
        /\ \E f \in FilesOf(task) : \E i \in DOMAIN files[f] : files[f][i] = Unset
  /\ phase' = "failed"
  /\ UNCHANGED <<family, files, task, q, saving>>

(* The program ends, or is killed: the files are what is left. *)
End ==
  /\ phase # "off"
  /\ phase' = "off"
  /\ task' = NoTask
  /\ q' = NoQ
  /\ saving' = [part |-> 0, isOpen |-> FALSE]
  /\ UNCHANGED <<family, files>>

Next == Start \/ ComputeQ \/ OpenFile \/ WriteRow \/ CloseFile \/ Load \/ LoadFails \/ End

Spec == Init /\ [][Next]_vars

-----------------------------------------------------------------------------
(***************************************************************************)
(* Properties.                                                             *)
(***************************************************************************)

(* What is assumed of tasks: the programs that use the same files mean the *)
(* same problem by a name and a discount, as the files have no more of it. *)
ProblemsAreNamed ==
  \A tasks \in Families : \A tk1, tk2 \in tasks :
    (/\ tk1.problem.name = tk2.problem.name
     /\ tk1.problem.disc * tk2.problem.unitD = tk2.problem.disc * tk1.problem.unitD)
    => tk1.problem = tk2.problem

(* What is computed has the rows that Load() counts: the trees grow by as  *)
(* many histories as the powers of ComputedCounts say.                     *)
TablesHaveTheirRows ==
  \A tk \in Tasks :
    /\ Computed[tk].tree \in Seq(Seq(Int) \cup {Unset})
    /\ Computed[tk].tables \in Seq(Seq(Int))
    /\ Len(Computed[tk].tree) = NrTreeRows(tk)
    /\ Len(Computed[tk].tables) = tk.last * tk.problem.nrS

(* PlanSlow() leaves the discount out, and its file has the name of the    *)
(* file of Plan(): nothing is said of programs where that makes a          *)
(* difference.                                                             *)
DiscountIsIgnored ==
  \E tk \in family : tk.last > 0 /\ ~tk.flat /\ tk.problem.disc # tk.problem.unitD

(* A program that was not stopped by an error has the tables that its own  *)
(* task computes, whatever earlier programs had saved, with or without a   *)
(* flat model, and wherever they were killed.                              *)
LoadedIsComputed ==
  (phase = "ready" /\ ~DiscountIsIgnored) => q = Computed[task]

(* What a joint policy earns from stage t on, in the units of that stage.  *)
RewardToGo(tk, jpol, t) ==
  LET pr == tk.problem
      earned(u) ==
        MapThenSumSet(LAMBDA joi :
            ExpectedReward(pr, Belief(pr, TypeHistory(pr, jpol, joi)),
                           JointActionAfter(pr, jpol, joi, u)),
          JointTypes(pr, u))
  IN MapThenSumSet(LAMBDA u :
         pr.disc ^ (u - t) * Unit(pr) ^ (tk.horizon - 1 - u) * earned(u),
       t..tk.horizon-1)

PossibleHistories(tk, t) ==
  LET pr == tk.problem
  IN {history \in [1..t -> JointActions(pr) \X JointObservations(pr)] :
        IsPossible(pr, Belief(pr, history))}

Values(tk, values, t) == [history \in PossibleHistories(tk, t) |-> GetQ(tk, values, history)]

HasValue(tk, values, history) ==
  Len(history) < TreeStages(tk) =>
    values.tree[HistoryIndex("AO", JointNumbers(tk.problem), Firsts(TreeCounts(tk)), history) + 1]
      # Unset

(* What GMAA needs of its heuristic: a planner that has one reads only     *)
(* rows that were assigned, and in the game of every stage the payoff of   *)
(* any joint policy is at least what the policy earns from there on.       *)
HeuristicIsAdmissible ==
  (phase = "ready" /\ ~DiscountIsIgnored) =>
    \A t \in 0..task.horizon-1 :
      /\ \A history \in PossibleHistories(task, t) : HasValue(task, q, history)
      /\ \E getQ \in {Values(task, q, t)} :
           \A jpol \in PureJointPolicies(task.problem, task.horizon) :
             StagePayoff(task.problem, jpol, t, getQ) >= RewardToGo(task, jpol, t)

(* The heuristics are ordered as they are in the literature: what is       *)
(* observed by all agents (QPOMDP) is worth no less than what each         *)
(* observes (QBG), and the state (QMDP) no less than that.                 *)
Looser(tk) ==
  CASE tk.first = "QBG" /\ tk.last < tk.horizon -> [tk EXCEPT !.first = "QPOMDP"]
    [] tk.first = "QPOMDP" /\ tk.last < tk.horizon -> [tk EXCEPT !.last = tk.horizon]
    [] OTHER -> tk

HeuristicsAreOrdered ==
  (phase = "ready" /\ ~DiscountIsIgnored) =>
    \E looser \in {Compute(Looser(task))} :
      \A t \in 0..task.horizon-1 : \A history \in PossibleHistories(task, t) :
        \A ja \in JointActions(task.problem) :
          GetQ(task, q, history)[ja] <= GetQ(Looser(task), looser, history)[ja]
===============================================================================
