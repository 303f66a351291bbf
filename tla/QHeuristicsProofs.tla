--------------------------- MODULE QHeuristicsProofs ---------------------------
(***************************************************************************)
(* The files of the heuristics, for any tasks, any numbers of programs and *)
(* any points at which they are killed: what a program reads is what it    *)
(* would have computed.  The numbers themselves are not looked into, only  *)
(* what they depend on.                                                    *)
(***************************************************************************)
EXTENDS QHeuristics, TLAPS

-----------------------------------------------------------------------------
(***************************************************************************)
(* What Compute() depends on: of the task only the problem, the horizon,   *)
(* the number of last stages, the first kind if there is a first stage,    *)
(* and the discount of value iteration if there is a last one.             *)
(***************************************************************************)

(* MDPTables, with the discount that is used. *)
TablesOf(pr, h, discount) ==
  LET future(next, s, ja) ==
        pr.unitO * MapThenSumSet(LAMBDA s2 : pr.trans[s][ja][s2] * Best(next[s2]), States(pr))
      table[t \in 0..h-1] ==
        [s \in States(pr) |-> [ja \in JointActions(pr) |->
           Unit(pr) ^ (h - 1 - t) * pr.reward[s][ja]
           + (IF t = h - 1 THEN 0 ELSE discount * future(table[t + 1], s, ja))]]
  IN table

(* ComputedTree, without the task. *)
HybridTree(pr, h, first, last, tables) ==
  ComputedTree([problem |-> pr, horizon |-> h, first |-> first, last |-> last], tables)

RowsOfTables(pr, last, tables) ==
  LET row(values) == [i \in 1..JointNumbers(pr).A |-> values[i - 1]]
      rows(table) == [s \in 1..pr.nrS |-> row(table[s - 1])]
  IN FlattenSeq([t \in 1..last |-> rows(tables[t - 1])])

(* Value iteration depends on the form of its model by the discount only.  *)
LEMMA TablesByDiscount ==
  ASSUME NEW pr, NEW h, NEW flat
  PROVE  MDPTables(pr, h, flat) = TablesOf(pr, h, DiscountOfPlan(pr, flat))
BY DEF MDPTables, TablesOf

(* Compute(), with what it depends on.                                     *)
LEMMA ComputeByParts ==
  ASSUME NEW tk
  PROVE  Compute(tk) =
           [tree |-> IF TreeStages(tk) = 0 THEN << >>
                     ELSE HybridTree(tk.problem, tk.horizon, tk.first, tk.last,
                                     MDPTables(tk.problem, tk.last, tk.flat)),
            tables |-> RowsOfTables(tk.problem, tk.last,
                                    MDPTables(tk.problem, tk.last, tk.flat))]
<1> DEFINE tables == MDPTables(tk.problem, tk.last, tk.flat)
<1>1. ComputedTree(tk, tables) =
        HybridTree(tk.problem, tk.horizon, tk.first, tk.last, tables)
  BY DEF ComputedTree, HybridTree, TreeStages, IsHybrid, Row
<1>2. FlattenSeq([t \in 1..tk.last |-> [s \in 1..tk.problem.nrS |-> Row(tk, tables[t - 1][s - 1])]])
        = RowsOfTables(tk.problem, tk.last, tables)
  BY DEF RowsOfTables, Row
<1> QED
  BY <1>1, <1>2 DEF Compute

(* Without a last stage there is no table. *)
LEMMA NoTables ==
  ASSUME NEW pr, NEW d1, NEW d2
  PROVE  TablesOf(pr, 0, d1) = TablesOf(pr, 0, d2)
<1> DEFINE future(next, s, ja) ==
             pr.unitO * MapThenSumSet(LAMBDA s2 : pr.trans[s][ja][s2] * Best(next[s2]), States(pr))
           value(d, table, t) ==
             [s \in States(pr) |-> [ja \in JointActions(pr) |->
                Unit(pr) ^ (0 - 1 - t) * pr.reward[s][ja]
                + (IF t = 0 - 1 THEN 0 ELSE d * future(table[t + 1], s, ja))]]
           none == [t \in 0..0-1 |-> 0]
<1>1. ASSUME NEW d PROVE TablesOf(pr, 0, d) = none
  <2>1. TablesOf(pr, 0, d) = CHOOSE table : table = [t \in 0..0-1 |-> value(d, table, t)]
    BY DEF TablesOf
  <2> HIDE DEF value
  <2>2. 0..0-1 = {}
    OBVIOUS
  <2>3. none = [t \in 0..0-1 |-> value(d, none, t)]
    BY <2>2
  <2> HIDE DEF none
  <2>4. TablesOf(pr, 0, d) = [t \in 0..0-1 |-> value(d, TablesOf(pr, 0, d), t)]
    BY <2>1, <2>3
  <2> USE DEF none
  <2> QED
    BY <2>2, <2>4
<1> HIDE DEF none
<1> QED
  BY <1>1

(* The tasks of a family.                                                  *)
LEMMA TaskTypes ==
  ASSUME family \in Families, NEW tk \in family
  PROVE  /\ tk \in Tasks
         /\ tk # NoTask
         /\ tk.horizon \in Nat \ {0}
         /\ tk.last \in 0..tk.horizon
         /\ tk.problem.nrS \in Nat \ {0}
         /\ tk.problem.disc \in Nat
         /\ tk.problem.unitD \in Nat \ {0}
<1>1. tk \in Tasks
  BY DEF Tasks
<1> QED
  BY <1>1, TasksAssumption

(* A name says what is in the file. *)
LEMMA NameTells ==
  ASSUME ProblemsAreNamed, family \in Families,
         NEW tk1 \in family, NEW tk2 \in family, NEW part1, NEW part2,
         FileName(tk1, part1) = FileName(tk2, part2)
  PROVE  /\ part1 = part2
         /\ tk1.problem = tk2.problem
         /\ tk1.horizon = tk2.horizon
         /\ tk1.last = tk2.last
         /\ tk1.last # tk1.horizon => tk1.first = tk2.first
<1> DEFINE kind(tk) == IF tk.last = tk.horizon THEN "QMDP" ELSE tk.first
           discount(tk) == IF tk.problem.disc = tk.problem.unitD THEN << >>
                           ELSE <<tk.problem.disc, tk.problem.unitD>>
<1>1. /\ part1 = part2
      /\ tk1.problem.name = tk2.problem.name
      /\ kind(tk1) = kind(tk2)
      /\ tk1.last = tk2.last
      /\ tk1.horizon = tk2.horizon
      /\ discount(tk1) = discount(tk2)
  <2> HIDE DEF kind, discount
  <2>1. <<tk1.problem.name, kind(tk1), tk1.last, tk1.horizon, discount(tk1), part1>>
          = <<tk2.problem.name, kind(tk2), tk2.last, tk2.horizon, discount(tk2), part2>>
    BY DEF FileName, kind, discount
  <2> QED
    BY <2>1
<1>2. tk1.problem.disc * tk2.problem.unitD = tk2.problem.disc * tk1.problem.unitD
  <2>1. CASE tk1.problem.disc = tk1.problem.unitD /\ tk2.problem.disc = tk2.problem.unitD
    <3>1. /\ tk1.problem.disc \in Nat
          /\ tk2.problem.disc \in Nat
      BY TaskTypes
    <3>2. \A m, n \in Nat : m * n = n * m
      OBVIOUS
    <3> QED
      BY <2>1, <3>1, <3>2
  <2>2. CASE tk1.problem.disc # tk1.problem.unitD /\ tk2.problem.disc # tk2.problem.unitD
    <3>1. <<tk1.problem.disc, tk1.problem.unitD>> = <<tk2.problem.disc, tk2.problem.unitD>>
      BY <1>1, <2>2
    <3>2. tk1.problem.disc = tk2.problem.disc /\ tk1.problem.unitD = tk2.problem.unitD
      BY <3>1
    <3> QED
      BY <3>2
  <2> QED
    BY <1>1, <2>1, <2>2
<1>3. tk1.problem = tk2.problem
  BY <1>1, <1>2 DEF ProblemsAreNamed
<1> QED
  BY <1>1, <1>3

(* Two tasks that share a file compute the same, unless one of them leaves *)
(* the discount out.                                                       *)
LEMMA SameFileSameTables ==
  ASSUME ProblemsAreNamed, family \in Families, ~DiscountIsIgnored,
         NEW tk1 \in family, NEW tk2 \in family, NEW part1, NEW part2,
         FileName(tk1, part1) = FileName(tk2, part2)
  PROVE  Computed[tk1] = Computed[tk2]
<1> DEFINE tables(tk) == MDPTables(tk.problem, tk.last, tk.flat)
<1>1. /\ tk1.problem = tk2.problem
      /\ tk1.horizon = tk2.horizon
      /\ tk1.last = tk2.last
      /\ tk1.last # tk1.horizon => tk1.first = tk2.first
  BY NameTells
<1>2. tables(tk1) = tables(tk2)
  <2>1. CASE tk1.last = 0
    BY <1>1, <2>1, TablesByDiscount, NoTables
  <2>2. CASE tk1.last # 0
    <3>1. tk1.last > 0 /\ tk2.last > 0
      BY <1>1, <2>2, TaskTypes
    <3>2. DiscountOfPlan(tk1.problem, tk1.flat) = tk1.problem.disc
      BY <3>1 DEF DiscountIsIgnored, DiscountOfPlan
    <3>3. DiscountOfPlan(tk2.problem, tk2.flat) = tk2.problem.disc
      BY <3>1 DEF DiscountIsIgnored, DiscountOfPlan
    <3> QED
      BY <1>1, <3>2, <3>3, TablesByDiscount
  <2> QED
    BY <2>1, <2>2
<1> HIDE DEF tables
<1>3. ASSUME NEW tk \in family
      PROVE  Computed[tk] =
               [tree |-> IF tk.horizon - tk.last = 0 THEN << >>
                         ELSE HybridTree(tk.problem, tk.horizon, tk.first, tk.last, tables(tk)),
                tables |-> RowsOfTables(tk.problem, tk.last, tables(tk))]
  BY TaskTypes, ComputeByParts DEF Computed, TreeStages, tables
<1>4. tk1.last = tk1.horizon => tk1.horizon - tk1.last = 0
  BY TaskTypes
<1> QED
  BY <1>1, <1>2, <1>3, <1>4

-----------------------------------------------------------------------------
(***************************************************************************)
(* The invariant of the files: whatever the programs before have done, and *)
(* wherever they were killed, a file holds the first rows of what some     *)
(* task of its name computes.                                              *)
(***************************************************************************)

RowValues == Seq(Int) \cup {Unset}

Begins(rows, table) ==
  /\ rows \in Seq(RowValues)
  /\ Len(rows) <= Len(table)
  /\ \A i \in 1..Len(rows) : rows[i] = table[i]

(* File i of a task, and what belongs in it. *)
File(tk, i) == FileName(tk, Parts(tk)[i])
Table(tk, i) == RowsOf(tk, Computed[tk], Parts(tk)[i])

FilesBeginTables ==
  \A f \in DOMAIN files : files[f] # Absent =>
    \E tk \in family : \E i \in DOMAIN Parts(tk) :
      File(tk, i) = f /\ Begins(files[f], Table(tk, i))

SavingIsComputed ==
  IF phase = "saving"
  THEN /\ q = Computed[task]
       /\ saving.part \in DOMAIN Parts(task)
       /\ saving.isOpen => Begins(files[SavedFile], SavedRows)
  ELSE saving = [part |-> 0, isOpen |-> FALSE]

FilesInv == TypeOK /\ FilesBeginTables /\ SavingIsComputed

LEMMA SeqOfMore ==
  ASSUME NEW S, NEW T, S \subseteq T, NEW s \in Seq(S)
  PROVE  s \in Seq(T)
<1>1. s \in [1..Len(s) -> S] /\ Len(s) \in Nat
  OBVIOUS
<1>2. s \in [1..Len(s) -> T]
  BY <1>1
<1> QED
  BY <1>1, <1>2

(* A program that has not opened a file.                                   *)
LEMMA SavingTypes ==
  ASSUME NEW n \in 0..2
  PROVE  [part |-> n, isOpen |-> FALSE] \in [part : 0..2, isOpen : BOOLEAN]
OBVIOUS

(* A table is saved in one file or in two.                                 *)
LEMMA PartsAreFew ==
  ASSUME NEW tk
  PROVE  /\ DOMAIN Parts(tk) = 1..Len(Parts(tk))
         /\ Len(Parts(tk)) \in 1..2
         /\ 1 \in DOMAIN Parts(tk)
<1>1. CASE IsHybrid(tk)
  BY <1>1 DEF Parts
<1>2. CASE ~IsHybrid(tk)
  BY <1>2 DEF Parts
<1> QED
  BY <1>1, <1>2

(* Every file of a task has as many rows as Load() counts.                 *)
LEMMA TableTypes ==
  ASSUME TablesHaveTheirRows, family \in Families, NEW tk \in family,
         NEW i \in DOMAIN Parts(tk)
  PROVE  /\ Table(tk, i) \in Seq(RowValues)
         /\ Len(Table(tk, i)) = NrRows(tk, Parts(tk)[i])
<1>1. tk \in Tasks
  BY TaskTypes
<1>2. /\ Computed[tk].tree \in Seq(RowValues)
      /\ Computed[tk].tables \in Seq(Seq(Int))
      /\ Len(Computed[tk].tree) = NrTreeRows(tk)
      /\ Len(Computed[tk].tables) = tk.last * tk.problem.nrS
  BY <1>1 DEF TablesHaveTheirRows, RowValues
<1>3. Computed[tk].tables \in Seq(RowValues)
  <2>1. Seq(Int) \subseteq RowValues
    BY DEF RowValues
  <2> QED
    BY <1>2, <2>1, SeqOfMore
<1> QED
  BY <1>2, <1>3 DEF Table, RowsOf, NrRows

(* The invariant holds at the start, and every action keeps it.            *)
LEMMA FilesInit == ASSUME Init PROVE FilesInv
<1>1. FilesBeginTables
  BY DEF Init, FilesBeginTables
<1>2. SavingIsComputed
  BY DEF Init, SavingIsComputed
<1>3. TypeOK
  <2>1. NoTask \notin family
    BY TaskTypes DEF Init
  <2> QED
    BY <2>1 DEF Init, TypeOK
<1> QED
  BY <1>1, <1>2, <1>3 DEF FilesInv

LEMMA ComputedTypes ==
  ASSUME TablesHaveTheirRows, family \in Families, NEW tk \in family
  PROVE  /\ Len(Computed[tk].tree) = NrTreeRows(tk)
         /\ Len(Computed[tk].tables) = tk.last * tk.problem.nrS
BY TaskTypes DEF TablesHaveTheirRows

LEMMA FilesUnchanged ==
  ASSUME FilesInv, UNCHANGED <<family, files>>
  PROVE  FilesBeginTables'
BY DEF FilesInv, FilesBeginTables

LEMMA FilesStart ==
  ASSUME FilesInv, Start PROVE FilesInv'
<1>1. PICK tk \in family : task' = tk
  BY DEF Start
<1>2. phase' \in {"loading", "failed", "computing"}
  BY DEF Start
<1>3. phase = "off" /\ UNCHANGED <<family, files, q, saving>>
  BY DEF Start
<1>4. tk # NoTask
  BY TaskTypes DEF FilesInv, TypeOK
<1>5. TypeOK'
  BY <1>1, <1>2, <1>3, <1>4 DEF FilesInv, TypeOK
<1>6. SavingIsComputed'
  BY <1>2, <1>3 DEF FilesInv, SavingIsComputed
<1> QED
  BY <1>3, <1>5, <1>6, FilesUnchanged DEF FilesInv

LEMMA FilesComputeQ ==
  ASSUME TablesHaveTheirRows, FilesInv, ComputeQ PROVE FilesInv'
<1>1. /\ phase = "computing"
      /\ q' = Computed[task]
      /\ UNCHANGED <<family, files, task>>
  BY DEF ComputeQ
<1>2. \/ phase' = "saving" /\ saving' = [part |-> 1, isOpen |-> FALSE]
      \/ phase' = "ready" /\ saving' = saving
  BY DEF ComputeQ
<1>3. family \in Families /\ task \in family
  BY <1>1 DEF FilesInv, TypeOK
<1>4. /\ Len(q'.tree) = NrTreeRows(task)
      /\ Len(q'.tables) = task.last * task.problem.nrS
  BY <1>1, <1>3, ComputedTypes
<1>5. TypeOK'
  <2>1. phase' \in {"saving", "ready"}
    BY <1>2
  <2>2. saving' \in [part : 0..2, isOpen : BOOLEAN]
    <3>1. CASE saving' = [part |-> 1, isOpen |-> FALSE]
      BY <3>1, SavingTypes
    <3>2. CASE saving' = saving
      BY <3>2 DEF FilesInv, TypeOK
    <3> QED
      BY <1>2, <3>1, <3>2
  <2> QED
    BY <1>1, <1>4, <2>1, <2>2 DEF FilesInv, TypeOK
<1>6. SavingIsComputed'
  <2>1. 1 \in DOMAIN Parts(task)
    BY PartsAreFew
  <2> QED
    BY <1>1, <1>2, <2>1 DEF FilesInv, SavingIsComputed
<1> QED
  BY <1>1, <1>5, <1>6, FilesUnchanged DEF FilesInv

(* A file that is being written is one of the task's.                      *)
LEMMA SavedTypes ==
  ASSUME TablesHaveTheirRows, FilesInv, phase = "saving"
  PROVE  /\ family \in Families /\ task \in family
         /\ saving.part \in DOMAIN Parts(task)
         /\ SavedFile = File(task, saving.part)
         /\ SavedFile \in DOMAIN files
         /\ SavedRows = Table(task, saving.part)
         /\ SavedRows \in Seq(RowValues)
<1>1. family \in Families /\ task \in family
  BY DEF FilesInv, TypeOK
<1>2. q = Computed[task] /\ saving.part \in DOMAIN Parts(task)
  BY DEF FilesInv, SavingIsComputed
<1>3. SavedFile = File(task, saving.part) /\ SavedRows = Table(task, saving.part)
  BY <1>2 DEF SavedFile, File, SavedRows, Table
<1>4. SavedFile \in FilesOf(task)
  BY <1>2 DEF SavedFile, FilesOf
<1>5. SavedFile \in DOMAIN files
  BY <1>1, <1>4 DEF FilesInv, TypeOK
<1> QED
  BY <1>1, <1>2, <1>3, <1>5, TableTypes

(* A file that gets the first rows of its table: the other files stay.     *)
LEMMA FilesWritten ==
  ASSUME TablesHaveTheirRows, FilesInv, phase = "saving",
         UNCHANGED <<family, phase, task, q>>,
         saving' \in [part : {saving.part}, isOpen : BOOLEAN],
         NEW rows, Begins(rows, SavedRows),
         files' = [files EXCEPT ![SavedFile] = rows]
  PROVE  FilesInv'
<1>1. /\ family \in Families /\ task \in family
      /\ saving.part \in DOMAIN Parts(task)
      /\ SavedFile = File(task, saving.part)
      /\ SavedFile \in DOMAIN files
      /\ SavedRows = Table(task, saving.part)
  BY SavedTypes
<1>2. /\ DOMAIN files' = DOMAIN files
      /\ files'[SavedFile] = rows
      /\ \A f \in DOMAIN files : f # SavedFile => files'[f] = files[f]
  BY <1>1
<1>3. saving'.part = saving.part /\ saving' \in [part : 0..2, isOpen : BOOLEAN]
  BY DEF FilesInv, TypeOK
<1>4. FilesBeginTables'
  <2> SUFFICES ASSUME NEW f \in DOMAIN files, files'[f] # Absent
               PROVE  \E tk \in family : \E i \in DOMAIN Parts(tk) :
                        File(tk, i) = f /\ Begins(files'[f], Table(tk, i))
    BY <1>2 DEF FilesBeginTables
  <2>1. CASE f = SavedFile
    BY <1>1, <1>2, <2>1
  <2>2. CASE f # SavedFile
    BY <1>2, <2>2 DEF FilesInv, FilesBeginTables
  <2> QED
    BY <2>1, <2>2
<1>5. TypeOK'
  <2>1. \A f \in DOMAIN files' : files'[f] # Absent =>
          \A i \in DOMAIN files'[f] : files'[f][i] = Unset \/ files'[f][i] \in Seq(Int)
    <3>1. \A i \in DOMAIN rows : rows[i] = Unset \/ rows[i] \in Seq(Int)
      BY DEF Begins, RowValues
    <3> QED
      BY <1>2, <3>1 DEF FilesInv, TypeOK
  <2> QED
    BY <1>2, <1>3, <2>1 DEF FilesInv, TypeOK
<1>6. SavingIsComputed'
  <2>1. SavedFile' = SavedFile /\ SavedRows' = SavedRows
    BY <1>3 DEF SavedFile, SavedRows
  <2>2. Begins(files[SavedFile], SavedRows)'
    BY <1>2, <2>1
  <2> QED
    BY <1>1, <1>3, <2>2 DEF FilesInv, SavingIsComputed
<1> QED
  BY <1>4, <1>5, <1>6 DEF FilesInv

LEMMA FilesOpenFile ==
  ASSUME TablesHaveTheirRows, FilesInv, OpenFile PROVE FilesInv'
<1>1. Begins(<< >>, SavedRows)
  BY SavedTypes DEF OpenFile, Begins
<1>2. saving' \in [part : {saving.part}, isOpen : BOOLEAN]
  BY DEF OpenFile, FilesInv, TypeOK
<1> QED
  BY <1>1, <1>2, FilesWritten DEF OpenFile

LEMMA FilesWriteRow ==
  ASSUME TablesHaveTheirRows, FilesInv, WriteRow PROVE FilesInv'
<1> DEFINE rows == files[SavedFile]
           more == Append(rows, SavedRows[Len(rows) + 1])
<1>1. Begins(rows, SavedRows) /\ Len(rows) < Len(SavedRows)
  BY DEF WriteRow, FilesInv, SavingIsComputed
<1>2. SavedFile \in DOMAIN files /\ SavedRows \in Seq(RowValues)
  BY SavedTypes DEF WriteRow
<1>3. files' = [files EXCEPT ![SavedFile] = more]
  BY <1>2 DEF WriteRow
<1>4. Begins(more, SavedRows)
  <2> HIDE DEF rows
  <2>1. rows \in Seq(RowValues) /\ Len(rows) \in Nat /\ Len(SavedRows) \in Nat
    BY <1>1, <1>2 DEF Begins
  <2>2. SavedRows[Len(rows) + 1] \in RowValues
    BY <1>1, <1>2, <2>1
  <2>3. more \in Seq(RowValues) /\ Len(more) = Len(rows) + 1
    BY <2>1, <2>2
  <2>4. \A i \in 1..Len(more) : more[i] = SavedRows[i]
    BY <1>1, <2>1, <2>3 DEF Begins
  <2> QED
    BY <1>1, <2>1, <2>3, <2>4 DEF Begins
<1>5. saving' \in [part : {saving.part}, isOpen : BOOLEAN]
  BY DEF WriteRow, FilesInv, TypeOK
<1> HIDE DEF more
<1> QED
  BY <1>3, <1>4, <1>5, FilesWritten DEF WriteRow

LEMMA FilesCloseFile ==
  ASSUME TablesHaveTheirRows, FilesInv, CloseFile PROVE FilesInv'
<1>1. phase = "saving" /\ UNCHANGED <<family, files, task, q>>
  BY DEF CloseFile
<1>2. /\ saving.part \in DOMAIN Parts(task)
      /\ DOMAIN Parts(task) = 1..Len(Parts(task))
      /\ Len(Parts(task)) \in 1..2
  BY <1>1, SavedTypes, PartsAreFew
<1>3. \/ /\ phase' = "saving"
         /\ saving' = [part |-> saving.part + 1, isOpen |-> FALSE]
         /\ saving.part + 1 \in DOMAIN Parts(task)
         /\ saving.part + 1 \in 0..2
      \/ phase' = "ready" /\ saving' = [part |-> 0, isOpen |-> FALSE]
  <2>1. CASE saving.part < Len(Parts(task))
    <3>1. phase' = "saving" /\ saving' = [part |-> saving.part + 1, isOpen |-> FALSE]
      BY <1>1, <2>1 DEF CloseFile
    <3>2. saving.part + 1 \in DOMAIN Parts(task) /\ saving.part + 1 \in 0..2
      BY <1>2, <2>1
    <3> QED
      BY <3>1, <3>2
  <2>2. CASE ~(saving.part < Len(Parts(task)))
    BY <2>2 DEF CloseFile
  <2> QED
    BY <2>1, <2>2
<1>4. TypeOK'
  <2>1. phase' \in {"saving", "ready"}
    BY <1>3
  <2>2. saving' \in [part : 0..2, isOpen : BOOLEAN]
    <3>1. PICK n \in 0..2 : saving' = [part |-> n, isOpen |-> FALSE]
      BY <1>3
    <3> QED
      BY <3>1, SavingTypes
  <2> QED
    BY <1>1, <2>1, <2>2 DEF FilesInv, TypeOK
<1>5. SavingIsComputed'
  BY <1>1, <1>3 DEF FilesInv, SavingIsComputed
<1> QED
  BY <1>1, <1>4, <1>5, FilesUnchanged DEF FilesInv

(* What a load reads has the rows of the task. *)
LEMMA FileOfLoad ==
  ASSUME FilesInv, NEW tk \in family, CanBeLoaded(tk), NEW i \in DOMAIN Parts(tk)
  PROVE  /\ File(tk, i) \in DOMAIN files
         /\ files[File(tk, i)] # Absent
         /\ files[File(tk, i)] \in Seq(RowValues)
         /\ Len(files[File(tk, i)]) = NrRows(tk, Parts(tk)[i])
<1>1. File(tk, i) \in FilesOf(tk)
  BY DEF File, FilesOf
<1>2. File(tk, i) \in DOMAIN files
  BY <1>1 DEF FilesInv, TypeOK
<1>3. files[File(tk, i)] # Absent /\ Len(files[File(tk, i)]) = NrRows(tk, Parts(tk)[i])
  BY DEF CanBeLoaded, HasItsRows, File
<1> QED
  BY <1>2, <1>3 DEF FilesInv, FilesBeginTables, Begins

(* The tables that a load puts together, kind by kind of task.             *)
LEMMA LoadedByKind ==
  ASSUME family \in Families, NEW tk \in family
  PROVE  \/ /\ 2 \in DOMAIN Parts(tk) /\ Parts(tk)[1] = "_firstTS" /\ Parts(tk)[2] = "_lastTS"
            /\ TreeStages(tk) # 0
            /\ LoadedQ(tk) = [tree |-> files[File(tk, 1)], tables |-> files[File(tk, 2)]]
         \/ /\ Parts(tk)[1] = ""
            /\ TreeStages(tk) = 0
            /\ LoadedQ(tk) = [tree |-> << >>, tables |-> files[File(tk, 1)]]
         \/ /\ Parts(tk)[1] = ""
            /\ TreeStages(tk) # 0 /\ tk.last = 0
            /\ LoadedQ(tk) = [tree |-> files[File(tk, 1)], tables |-> << >>]
<1>1. tk.horizon \in Nat \ {0} /\ tk.last \in 0..tk.horizon
  BY TaskTypes
<1>2. CASE IsHybrid(tk)
  <2>1. TreeStages(tk) # 0
    BY <1>1, <1>2 DEF IsHybrid, TreeStages
  <2> QED
    BY <1>2, <2>1 DEF Parts, LoadedQ, File
<1>3. CASE ~IsHybrid(tk) /\ TreeStages(tk) = 0
  BY <1>3 DEF Parts, LoadedQ, File
<1>4. CASE ~IsHybrid(tk) /\ TreeStages(tk) # 0
  <2>1. tk.last = 0
    BY <1>1, <1>4 DEF IsHybrid, TreeStages
  <2> QED
    BY <1>4, <2>1 DEF Parts, LoadedQ, File
<1> QED
  BY <1>2, <1>3, <1>4

LEMMA FilesLoad ==
  ASSUME FilesInv, Load PROVE FilesInv'
<1>1. /\ phase = "loading" /\ CanBeLoaded(task)
      /\ q' = LoadedQ(task) /\ phase' = "ready"
      /\ UNCHANGED <<family, files, task, saving>>
  BY DEF Load
<1>2. family \in Families /\ task \in family
  BY <1>1 DEF FilesInv, TypeOK
<1>3. Len(q'.tree) = NrTreeRows(task) /\ Len(q'.tables) = task.last * task.problem.nrS
  <2>1. \A i \in DOMAIN Parts(task) :
          Len(files[File(task, i)]) = NrRows(task, Parts(task)[i])
    BY <1>1, <1>2, FileOfLoad
  <2>2. task.last \in Nat /\ task.problem.nrS \in Nat /\ task.horizon \in Nat
    BY <1>2, TaskTypes
  <2>3. CASE /\ 2 \in DOMAIN Parts(task) /\ Parts(task)[1] = "_firstTS" /\ Parts(task)[2] = "_lastTS"
             /\ TreeStages(task) # 0
             /\ q' = [tree |-> files[File(task, 1)], tables |-> files[File(task, 2)]]
    BY <2>1, <2>3, PartsAreFew DEF NrRows
  <2>4. CASE /\ Parts(task)[1] = ""
             /\ TreeStages(task) = 0
             /\ q' = [tree |-> << >>, tables |-> files[File(task, 1)]]
    BY <2>1, <2>4, PartsAreFew DEF NrRows, NrTreeRows
  <2>5. CASE /\ Parts(task)[1] = ""
             /\ TreeStages(task) # 0 /\ task.last = 0
             /\ q' = [tree |-> files[File(task, 1)], tables |-> << >>]
    <3>1. task.last * task.problem.nrS = 0
      <4>1. \A n \in Nat : 0 * n = 0
        OBVIOUS
      <4>2. task.problem.nrS \in Nat /\ task.last = 0
        BY <2>2, <2>5
      <4> QED
        BY <4>1, <4>2
    <3>2. Len(q'.tree) = NrTreeRows(task)
      BY <2>1, <2>5, PartsAreFew DEF NrRows
    <3>3. q'.tables = << >>
      BY <2>5
    <3> QED
      BY <3>1, <3>2, <3>3
  <2> QED
    BY <1>1, <1>2, <2>3, <2>4, <2>5, LoadedByKind
<1>4. TypeOK'
  BY <1>1, <1>3 DEF FilesInv, TypeOK
<1>5. SavingIsComputed'
  BY <1>1 DEF FilesInv, SavingIsComputed
<1> QED
  BY <1>1, <1>4, <1>5, FilesUnchanged DEF FilesInv

LEMMA FilesLoadFails ==
  ASSUME FilesInv, LoadFails PROVE FilesInv'
<1>1. phase = "loading" /\ phase' = "failed" /\ UNCHANGED <<family, files, task, q, saving>>
  BY DEF LoadFails
<1>2. TypeOK'
  BY <1>1 DEF FilesInv, TypeOK
<1>3. SavingIsComputed'
  BY <1>1 DEF FilesInv, SavingIsComputed
<1> QED
  BY <1>1, <1>2, <1>3, FilesUnchanged DEF FilesInv

LEMMA FilesEnd ==
  ASSUME FilesInv, End PROVE FilesInv'
<1>1. /\ phase' = "off" /\ task' = NoTask /\ q' = NoQ
      /\ saving' = [part |-> 0, isOpen |-> FALSE]
      /\ UNCHANGED <<family, files>>
  BY DEF End
<1>2. saving' \in [part : 0..2, isOpen : BOOLEAN]
  BY <1>1, SavingTypes
<1>3. TypeOK'
  BY <1>1, <1>2 DEF FilesInv, TypeOK
<1>4. SavingIsComputed'
  BY <1>1 DEF SavingIsComputed
<1> QED
  BY <1>1, <1>3, <1>4, FilesUnchanged DEF FilesInv

LEMMA FilesStep ==
  ASSUME TablesHaveTheirRows, FilesInv, [Next]_vars PROVE FilesInv'
<1>1. CASE Start
  BY <1>1, FilesStart
<1>2. CASE ComputeQ
  BY <1>2, FilesComputeQ
<1>3. CASE OpenFile
  BY <1>3, FilesOpenFile
<1>4. CASE WriteRow
  BY <1>4, FilesWriteRow
<1>5. CASE CloseFile
  BY <1>5, FilesCloseFile
<1>6. CASE Load
  BY <1>6, FilesLoad
<1>7. CASE LoadFails
  BY <1>7, FilesLoadFails
<1>8. CASE End
  BY <1>8, FilesEnd
<1>9. CASE UNCHANGED vars
  <2>1. UNCHANGED <<family, files, phase, task, q, saving>>
    BY <1>9 DEF vars
  <2>2. TypeOK'
    BY <2>1 DEF FilesInv, TypeOK
  <2>3. SavingIsComputed'
    BY <2>1 DEF FilesInv, SavingIsComputed, SavedFile, SavedRows
  <2> QED
    BY <2>1, <2>2, <2>3, FilesUnchanged DEF FilesInv
<1> QED
  BY <1>1, <1>2, <1>3, <1>4, <1>5, <1>6, <1>7, <1>8, <1>9 DEF Next

LEMMA FilesInvariance == TablesHaveTheirRows => (Spec => []FilesInv)
<1>1. Init => FilesInv
  BY FilesInit
<1> SUFFICES ASSUME TablesHaveTheirRows PROVE Spec => []FilesInv
  OBVIOUS
<1>2. FilesInv /\ [Next]_vars => FilesInv'
  BY FilesStep
<1> QED
  BY <1>1, <1>2, PTL DEF Spec

(* Every variable of the program and of the files keeps its type: in       *)
(* particular the tables that are used have all their rows, whether they   *)
(* were computed (ComputeQ) or read from a file of an earlier program that *)
(* may have been killed at any row (Load, which counts the rows).          *)
THEOREM TypeCorrect == TablesHaveTheirRows => (Spec => []TypeOK)
<1> SUFFICES ASSUME TablesHaveTheirRows PROVE Spec => []TypeOK
  OBVIOUS
<1>1. FilesInv => TypeOK
  BY DEF FilesInv
<1> QED
  BY <1>1, FilesInvariance, PTL

-----------------------------------------------------------------------------
(***************************************************************************)
(* What is used is what is computed.                                       *)
(***************************************************************************)

(* A file of a task with all its rows is the table of the task.            *)
LEMMA WholeFileIsTable ==
  ASSUME ProblemsAreNamed, TablesHaveTheirRows, FilesInv, ~DiscountIsIgnored,
         NEW tk \in family, CanBeLoaded(tk), NEW i \in DOMAIN Parts(tk)
  PROVE  files[File(tk, i)] = Table(tk, i)
<1> DEFINE f == File(tk, i)
<1>1. family \in Families
  BY DEF FilesInv, TypeOK
<1>2. /\ f \in DOMAIN files /\ files[f] # Absent
      /\ files[f] \in Seq(RowValues)
      /\ Len(files[f]) = NrRows(tk, Parts(tk)[i])
  BY FileOfLoad
<1>3. PICK by \in family : \E j \in DOMAIN Parts(by) :
        File(by, j) = f /\ Begins(files[f], Table(by, j))
  BY <1>2 DEF FilesInv, FilesBeginTables
<1>4. PICK j \in DOMAIN Parts(by) : File(by, j) = f /\ Begins(files[f], Table(by, j))
  BY <1>3
<1>5. Parts(by)[j] = Parts(tk)[i] /\ by.horizon = tk.horizon /\ by.last = tk.last
  BY <1>1, <1>4, NameTells DEF File
<1>6. Computed[by] = Computed[tk]
  BY <1>1, <1>4, SameFileSameTables DEF File
<1>7. Table(by, j) = Table(tk, i)
  BY <1>5, <1>6 DEF Table, RowsOf, TreeStages
<1>8. Table(tk, i) \in Seq(RowValues) /\ Len(Table(tk, i)) = NrRows(tk, Parts(tk)[i])
  BY <1>1, TableTypes
<1> HIDE DEF f
<1>9. \A n \in 1..Len(files[f]) : files[f][n] = Table(tk, i)[n]
  BY <1>4, <1>7 DEF Begins
<1>10. files[f] = Table(tk, i)
  BY <1>2, <1>8, <1>9
<1> QED
  BY <1>10 DEF f

(* The tables that are not saved are empty.                                *)
LEMMA NothingComputedForNoStage ==
  ASSUME TablesHaveTheirRows, family \in Families, NEW tk \in family
  PROVE  /\ TreeStages(tk) = 0 => Computed[tk].tree = << >>
         /\ tk.last = 0 => Computed[tk].tables = << >>
         /\ Computed[tk] = [tree |-> Computed[tk].tree, tables |-> Computed[tk].tables]
<1>1. tk \in Tasks /\ tk.problem.nrS \in Nat
  BY TaskTypes
<1>2. Computed[tk] = Compute(tk)
  BY <1>1 DEF Computed
<1>3. TreeStages(tk) = 0 => Computed[tk].tree = << >>
  BY <1>2, ComputeByParts
<1>4. tk.last = 0 => Computed[tk].tables = << >>
  <2>1. Computed[tk].tables \in Seq(Seq(Int)) /\ Len(Computed[tk].tables) = tk.last * tk.problem.nrS
    BY <1>1 DEF TablesHaveTheirRows
  <2> QED
    BY <1>1, <2>1
<1>5. Computed[tk] = [tree |-> Computed[tk].tree, tables |-> Computed[tk].tables]
  <2>1. \A a, b : LET r == [tree |-> a, tables |-> b]
                  IN r = [tree |-> r.tree, tables |-> r.tables]
    OBVIOUS
  <2> QED
    BY <1>2, <2>1, ComputeByParts
<1> QED
  BY <1>3, <1>4, <1>5

(* What is loaded, file by file, is what is computed.                      *)
LEMMA LoadedIsWhatIsComputed ==
  ASSUME ProblemsAreNamed, TablesHaveTheirRows, FilesInv, ~DiscountIsIgnored,
         NEW tk \in family, CanBeLoaded(tk)
  PROVE  LoadedQ(tk) = Computed[tk]
<1>1. family \in Families
  BY DEF FilesInv, TypeOK
<1>2. \A i \in DOMAIN Parts(tk) : files[File(tk, i)] = RowsOf(tk, Computed[tk], Parts(tk)[i])
  BY WholeFileIsTable DEF Table
<1>3. /\ TreeStages(tk) = 0 => Computed[tk].tree = << >>
      /\ tk.last = 0 => Computed[tk].tables = << >>
      /\ Computed[tk] = [tree |-> Computed[tk].tree, tables |-> Computed[tk].tables]
  BY <1>1, NothingComputedForNoStage
<1>4. CASE /\ 2 \in DOMAIN Parts(tk) /\ Parts(tk)[1] = "_firstTS" /\ Parts(tk)[2] = "_lastTS"
           /\ TreeStages(tk) # 0
           /\ LoadedQ(tk) = [tree |-> files[File(tk, 1)], tables |-> files[File(tk, 2)]]
  <2>1. files[File(tk, 1)] = Computed[tk].tree
    BY <1>2, <1>4, PartsAreFew DEF RowsOf
  <2>2. files[File(tk, 2)] = Computed[tk].tables
    BY <1>2, <1>4, PartsAreFew DEF RowsOf
  <2> QED
    BY <1>3, <1>4, <2>1, <2>2
<1>5. CASE /\ Parts(tk)[1] = ""
           /\ TreeStages(tk) = 0
           /\ LoadedQ(tk) = [tree |-> << >>, tables |-> files[File(tk, 1)]]
  <2>1. files[File(tk, 1)] = Computed[tk].tables
    BY <1>2, <1>5, PartsAreFew DEF RowsOf
  <2> QED
    BY <1>3, <1>5, <2>1
<1>6. CASE /\ Parts(tk)[1] = ""
           /\ TreeStages(tk) # 0 /\ tk.last = 0
           /\ LoadedQ(tk) = [tree |-> files[File(tk, 1)], tables |-> << >>]
  <2>1. files[File(tk, 1)] = Computed[tk].tree
    BY <1>2, <1>6, PartsAreFew DEF RowsOf
  <2> QED
    BY <1>3, <1>6, <2>1
<1> QED
  BY <1>1, <1>4, <1>5, <1>6, LoadedByKind

LEMMA LoadedInit == ASSUME Init PROVE LoadedIsComputed
BY DEF Init, LoadedIsComputed

LEMMA LoadedStep ==
  ASSUME ProblemsAreNamed, TablesHaveTheirRows, FilesInv, LoadedIsComputed, [Next]_vars
  PROVE  LoadedIsComputed'
<1> SUFFICES ASSUME phase' = "ready", ~DiscountIsIgnored'
             PROVE  q' = Computed[task']
  BY DEF LoadedIsComputed
<1>1. UNCHANGED family
  BY DEF Next, Start, ComputeQ, OpenFile, WriteRow, CloseFile, Load, LoadFails, End, vars
<1>2. ~DiscountIsIgnored
  BY <1>1 DEF DiscountIsIgnored
<1>3. CASE ComputeQ
  BY <1>3 DEF ComputeQ
<1>4. CASE CloseFile
  BY <1>4 DEF CloseFile, FilesInv, SavingIsComputed
<1>5. CASE Load
  <2>1. phase = "loading" /\ CanBeLoaded(task) /\ q' = LoadedQ(task) /\ task' = task
    BY <1>5 DEF Load
  <2>2. task \in family
    BY <2>1 DEF FilesInv, TypeOK
  <2> QED
    BY <1>2, <2>1, <2>2, LoadedIsWhatIsComputed
<1>6. CASE UNCHANGED vars
  BY <1>2, <1>6 DEF LoadedIsComputed, vars
<1>7. ~(Start \/ OpenFile \/ WriteRow \/ LoadFails \/ End)
  BY DEF Start, OpenFile, WriteRow, LoadFails, End
<1> QED
  BY <1>3, <1>4, <1>5, <1>6, <1>7 DEF Next

(* Whatever earlier programs had saved, with whatever options, and at      *)
(* whatever row they were killed: a program that is not stopped by an      *)
(* error uses the tables that its own task computes                        *)
(* (ComputeWithCachedQValues).                                             *)
THEOREM CachesAreTransparent ==
  (ProblemsAreNamed /\ TablesHaveTheirRows) => (Spec => []LoadedIsComputed)
<1> SUFFICES ASSUME ProblemsAreNamed, TablesHaveTheirRows PROVE Spec => []LoadedIsComputed
  OBVIOUS
<1>1. Init => LoadedIsComputed
  BY LoadedInit
<1>2. FilesInv /\ LoadedIsComputed /\ [Next]_vars => LoadedIsComputed'
  BY LoadedStep
<1> QED
  BY <1>1, <1>2, FilesInvariance, PTL DEF Spec
===============================================================================
