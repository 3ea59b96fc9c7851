--------------------------- MODULE RunStoreProofs ---------------------------
(***************************************************************************)
(* What TLAPS proves of RunStore for any set of runs, any number of steps, *)
(* of failing statements and of crashes: the rows' types, that a status    *)
(* only moves forward, that what is deleted stays gone, and what a         *)
(* terminal status and its readers may rely on.                            *)
(***************************************************************************)
EXTENDS RunStore, TLAPS

Readers == [at : {"idle", "row", "answered"}, told : BOOLEAN,
            status : InProgress \cup Terminal \cup {"none", "deleted"},
            steps : SUBSET AllSteps, run : Run \cup {"none"}]

TypeInv == TypeOK /\ reader \in Readers

(* Where the goroutine of a run is, and what its row can say meanwhile.    *)
LifecycleOf(r) ==
  /\ row[r] = "none" => pc[r] = "none"
  /\ pc[r] = "none" => row[r] \in {"none", "pending"}
  /\ pc[r] = "begin" => row[r] = "pending"
  /\ pc[r] \in Alive => row[r] \in InProgress
  /\ pc[r] \in {"save", "artifact"} => done[r] > 0
  /\ pc[r] = "finish" => verdict[r] \in Terminal
  /\ row[r] \in Terminal => pc[r] = "over" /\ row[r] = verdict[r]
  /\ row[r] = "deleted" => pc[r] = "over" /\ saved[r] = {} /\ artifacts[r] = {}
  /\ deleting[r] # "no" => row[r] \in Terminal

Lifecycle == \A r \in Run : LifecycleOf(r)

(* As long as nothing failed, the tables hold the steps executed so far,   *)
(* but for the one that is being saved.                                    *)
StoredOf(r) ==
  /\ pc[r] \in {"none", "begin"} =>
       done[r] = 0 /\ saved[r] = {} /\ artifacts[r] = {}
  /\ pc[r] = "run" => saved[r] = 1 .. done[r] /\ artifacts[r] = 1 .. done[r]
  /\ pc[r] = "save" =>
       /\ saved[r] = 1 .. done[r] - 1 /\ artifacts[r] = 1 .. done[r] - 1
  /\ pc[r] = "artifact" =>
       /\ saved[r] = 1 .. done[r] /\ artifacts[r] = 1 .. done[r] - 1
  /\ pc[r] = "finish" => saved[r] = AllSteps /\ artifacts[r] = AllSteps
  /\ row[r] \in Terminal /\ deleting[r] = "no" =>
       saved[r] = AllSteps /\ artifacts[r] = AllSteps

Stored == faults = 0 /\ crashes = 0 => \A r \in Run : StoredOf(r)

(* A reader that has seen a terminal row, before its second statement or   *)
(* after: the steps are there, or a deletion has begun.                    *)
ReaderIsRight ==
  /\ IF reader.at = "idle" THEN reader.status = "none" ELSE reader.run \in Run
  /\ faults = 0 /\ crashes = 0 /\ reader.status \in Terminal =>
       \/ row[reader.run] = "deleted" \/ deleting[reader.run] # "no"
       \/ /\ row[reader.run] \in Terminal
          /\ reader.at = "answered" => reader.steps = AllSteps

IInv ==
  TypeInv /\ Lifecycle /\ Stored /\ ReaderIsRight /\ InProgressIsTrue

-----------------------------------------------------------------------------

(* A step is one of these, of some run, or of all at once.                 *)
LEMMA Cases ==
  ASSUME [Next]_vars
  PROVE  \/ \E r \in Run :
              \/ Create(r) \/ MarkRunning(r) \/ ExecuteStep(r) \/ SaveStep(r)
              \/ SaveArtifact(r) \/ Announce(r) \/ Finish(r) \/ Cancel(r)
              \/ DeleteCheck(r) \/ DeleteSteps(r) \/ DeleteArtifacts(r)
              \/ DeleteRow(r) \/ DeleteFails(r) \/ ReadRow(r) \/ ReadSteps(r)
         \/ ReadAgain \/ Crash \/ UNCHANGED vars
  BY DEF Next, Work, Delete, GetRun

LEMMA InitIInv == Init => IInv
  <1> SUFFICES ASSUME Init PROVE IInv
    OBVIOUS
  <1>1. TypeInv
    BY StoreAssumption DEF Init, TypeInv, TypeOK, Readers, NoReader, Alive, InProgress, Terminal
  <1>2. Lifecycle
    BY DEF Init, Lifecycle, LifecycleOf, Alive, Terminal
  <1>3. Stored
    BY DEF Init, Stored, StoredOf, Terminal
  <1>4. ReaderIsRight /\ InProgressIsTrue
    BY DEF Init, ReaderIsRight, InProgressIsTrue, NoReader, InProgress, Terminal
  <1> QED
    BY <1>1, <1>2, <1>3, <1>4 DEF IInv

LEMMA TypeStep ==
  ASSUME TypeInv, Lifecycle, [Next]_vars
  PROVE  TypeInv'
  <1> USE StoreAssumption DEF TypeInv, TypeOK, Alive, InProgress, Terminal, AllSteps
  <1> USE DEF tables, worker, request, others, bounds, Goto, Fault, NoFault
  <1>1. ASSUME NEW r \in Run, Create(r) PROVE TypeInv'
    BY <1>1 DEF Create
  <1>2. ASSUME NEW r \in Run, MarkRunning(r) PROVE TypeInv'
    BY <1>2 DEF MarkRunning, Update
  <1>3. ASSUME NEW r \in Run, ExecuteStep(r) PROVE TypeInv'
    BY <1>3 DEF ExecuteStep
  <1>4. ASSUME NEW r \in Run, SaveStep(r) PROVE TypeInv'
    <2>1. done[r] \in AllSteps
      BY <1>4 DEF SaveStep, Lifecycle, LifecycleOf
    <2> QED
      BY <1>4, <2>1 DEF SaveStep
  <1>5. ASSUME NEW r \in Run, SaveArtifact(r) PROVE TypeInv'
    <2>1. done[r] \in AllSteps
      BY <1>5 DEF SaveArtifact, Lifecycle, LifecycleOf
    <2> QED
      BY <1>5, <2>1 DEF SaveArtifact
  <1>6. ASSUME NEW r \in Run, Announce(r) PROVE TypeInv'
    BY <1>6 DEF Announce
  <1>7. ASSUME NEW r \in Run, Finish(r) PROVE TypeInv'
    BY <1>7 DEF Finish, Update, Lifecycle, LifecycleOf
  <1>8. ASSUME NEW r \in Run, Cancel(r) PROVE TypeInv'
    BY <1>8 DEF Cancel
  <1>9. ASSUME NEW r \in Run, DeleteCheck(r) PROVE TypeInv'
    BY <1>9 DEF DeleteCheck
  <1>10. ASSUME NEW r \in Run, DeleteSteps(r) PROVE TypeInv'
    BY <1>10 DEF DeleteSteps, DeleteGoesOn
  <1>11. ASSUME NEW r \in Run, DeleteArtifacts(r) PROVE TypeInv'
    BY <1>11 DEF DeleteArtifacts, DeleteGoesOn
  <1>12. ASSUME NEW r \in Run, DeleteRow(r) PROVE TypeInv'
    BY <1>12 DEF DeleteRow, DeleteGoesOn
  <1>13. ASSUME NEW r \in Run, DeleteFails(r) PROVE TypeInv'
    BY <1>13 DEF DeleteFails
  <1>14. ASSUME NEW r \in Run, ReadRow(r) PROVE TypeInv'
    BY <1>14 DEF ReadRow, Readers
  <1>15. ASSUME NEW r \in Run, ReadSteps(r) PROVE TypeInv'
    BY <1>15 DEF ReadSteps, Readers
  <1>16. ASSUME ReadAgain PROVE TypeInv'
    BY <1>16 DEF ReadAgain, NoReader, Readers
  <1>17. ASSUME Crash PROVE TypeInv'
    BY <1>17 DEF Crash, NoReader, Readers
  <1>18. ASSUME UNCHANGED vars PROVE TypeInv'
    BY <1>18 DEF vars
  <1> QED
    BY Cases, <1>1, <1>2, <1>3, <1>4, <1>5, <1>6, <1>7, <1>8, <1>9, <1>10,
       <1>11, <1>12, <1>13, <1>14, <1>15, <1>16, <1>17, <1>18

LEMMA LifecycleStep ==
  ASSUME TypeInv, Lifecycle, [Next]_vars
  PROVE  Lifecycle'
  <1> SUFFICES ASSUME NEW q \in Run PROVE LifecycleOf(q)'
    BY DEF Lifecycle
  <1> USE DEF TypeInv, TypeOK, Lifecycle, LifecycleOf, Alive, InProgress, Terminal, Exists
  <1> USE DEF tables, worker, request, others, bounds, Goto
  <1>1. ASSUME NEW r \in Run, Create(r) PROVE LifecycleOf(q)'
    BY <1>1 DEF Create
  <1>2. ASSUME NEW r \in Run, MarkRunning(r) PROVE LifecycleOf(q)'
    BY <1>2 DEF MarkRunning, Update
  <1>3. ASSUME NEW r \in Run, ExecuteStep(r) PROVE LifecycleOf(q)'
    BY <1>3 DEF ExecuteStep
  <1>4. ASSUME NEW r \in Run, SaveStep(r) PROVE LifecycleOf(q)'
    BY <1>4 DEF SaveStep
  <1>5. ASSUME NEW r \in Run, SaveArtifact(r) PROVE LifecycleOf(q)'
    BY <1>5 DEF SaveArtifact
  <1>6. ASSUME NEW r \in Run, Announce(r) PROVE LifecycleOf(q)'
    BY <1>6 DEF Announce
  <1>7. ASSUME NEW r \in Run, Finish(r) PROVE LifecycleOf(q)'
    BY <1>7 DEF Finish, Update
  <1>8. ASSUME NEW r \in Run, Cancel(r) PROVE LifecycleOf(q)'
    BY <1>8 DEF Cancel
  <1>9. ASSUME NEW r \in Run, DeleteCheck(r) PROVE LifecycleOf(q)'
    BY <1>9 DEF DeleteCheck
  <1>10. ASSUME NEW r \in Run, DeleteSteps(r) PROVE LifecycleOf(q)'
    BY <1>10 DEF DeleteSteps, DeleteGoesOn
  <1>11. ASSUME NEW r \in Run, DeleteArtifacts(r) PROVE LifecycleOf(q)'
    BY <1>11 DEF DeleteArtifacts, DeleteGoesOn
  <1>12. ASSUME NEW r \in Run, DeleteRow(r) PROVE LifecycleOf(q)'
    BY <1>12 DEF DeleteRow, DeleteGoesOn
  <1>13. ASSUME NEW r \in Run, DeleteFails(r) PROVE LifecycleOf(q)'
    BY <1>13 DEF DeleteFails
  <1>14. ASSUME NEW r \in Run, ReadRow(r) \/ ReadSteps(r) PROVE LifecycleOf(q)'
    BY <1>14 DEF ReadRow, ReadSteps
  <1>15. ASSUME ReadAgain PROVE LifecycleOf(q)'
    BY <1>15 DEF ReadAgain
  <1>16. ASSUME Crash PROVE LifecycleOf(q)'
    BY <1>16 DEF Crash
  <1>17. ASSUME UNCHANGED vars PROVE LifecycleOf(q)'
    BY <1>17 DEF vars
  <1> QED
    BY Cases, <1>1, <1>2, <1>3, <1>4, <1>5, <1>6, <1>7, <1>8, <1>9, <1>10,
       <1>11, <1>12, <1>13, <1>14, <1>15, <1>16, <1>17

LEMMA Intervals ==
  /\ 1 .. 0 = {}
  /\ \A n \in Nat \ {0} : (1 .. n - 1) \cup {n} = 1 .. n
  OBVIOUS

LEMMA StoredStep ==
  ASSUME TypeInv, Lifecycle, Stored, [Next]_vars
  PROVE  Stored'
  <1> SUFFICES ASSUME NEW q \in Run, (faults = 0 /\ crashes = 0)'
               PROVE  StoredOf(q)'
    BY DEF Stored
  <1> USE StoreAssumption
  <1> USE DEF TypeInv, TypeOK, Lifecycle, LifecycleOf, Stored, StoredOf
  <1> USE DEF Alive, InProgress, Terminal, Exists, AllSteps
  <1> USE DEF tables, worker, request, others, bounds, Goto, Fault, NoFault
  <1>1. ASSUME NEW r \in Run, Create(r) PROVE StoredOf(q)'
    BY <1>1 DEF Create
  <1>2. ASSUME NEW r \in Run, MarkRunning(r) PROVE StoredOf(q)'
    <2>1. done[r] = 0 /\ saved[r] = {} /\ artifacts[r] = {} /\ pc[r] = "begin"
      BY <1>2 DEF MarkRunning, Update
    <2>2. UNCHANGED <<done, saved, artifacts, deleting>>
             /\ faults = 0 /\ crashes = 0
      BY <1>2 DEF MarkRunning, Update
    <2>3. pc' = [pc EXCEPT ![r] = "run"]
      BY <1>2 DEF MarkRunning
    <2>4. q # r => row'[q] = row[q]
      BY <1>2 DEF MarkRunning, Update
    <2>5. row'[r] \notin Terminal
      BY <1>2, <2>1 DEF MarkRunning, Update
    <2>6. CASE q = r
      <3>1. pc'[q] = "run" /\ done'[q] = 0 /\ saved'[q] = {} /\ artifacts'[q] = {}
        BY <2>1, <2>2, <2>3, <2>6
      <3> QED
        BY <2>5, <2>6, <3>1, Intervals
    <2>7. CASE q # r
      <3>1. pc'[q] = pc[q] /\ row'[q] = row[q]
        BY <2>3, <2>4, <2>7
      <3>2. StoredOf(q)
        BY <2>2
      <3> QED
        BY <2>2, <3>1, <3>2
    <2> QED
      BY <2>6, <2>7
  <1>3. ASSUME NEW r \in Run, ExecuteStep(r) PROVE StoredOf(q)'
    BY <1>3 DEF ExecuteStep
  <1>4. ASSUME NEW r \in Run, SaveStep(r) PROVE StoredOf(q)'
    <2>1. row[r] \in InProgress /\ done[r] \in Nat \ {0}
      BY <1>4 DEF SaveStep
    <2>2. faults = 0 /\ crashes = 0
      BY <1>4 DEF SaveStep
    <2>3. saved[r] = 1 .. done[r] - 1 /\ artifacts[r] = 1 .. done[r] - 1
      BY <1>4, <2>2 DEF SaveStep
    <2>4. /\ saved' = [saved EXCEPT ![r] = @ \cup {done[r]}]
          /\ pc' = [pc EXCEPT ![r] = "artifact"]
          /\ UNCHANGED <<row, artifacts, done, deleting>>
      BY <1>4, <2>1, <2>2 DEF SaveStep
    <2>5. saved'[r] = 1 .. done[r]
      BY <2>1, <2>3, <2>4, Intervals
    <2> QED
      BY <2>1, <2>2, <2>3, <2>4, <2>5
  <1>5. ASSUME NEW r \in Run, SaveArtifact(r) PROVE StoredOf(q)'
    <2>1. row[r] \in InProgress /\ done[r] \in Nat \ {0}
      BY <1>5 DEF SaveArtifact
    <2>2. faults = 0 /\ crashes = 0
      BY <1>5 DEF SaveArtifact
    <2>3. saved[r] = 1 .. done[r] /\ artifacts[r] = 1 .. done[r] - 1
      BY <1>5, <2>2 DEF SaveArtifact
    <2>4. /\ artifacts' = [artifacts EXCEPT ![r] = @ \cup {done[r]}]
          /\ pc' = [pc EXCEPT ![r] = "run"]
          /\ UNCHANGED <<row, saved, done, deleting>>
      BY <1>5, <2>1, <2>2, <2>3 DEF SaveArtifact
    <2>5. artifacts'[r] = 1 .. done[r]
      BY <2>1, <2>3, <2>4, Intervals
    <2> QED
      BY <2>1, <2>2, <2>3, <2>4, <2>5
  <1>6. ASSUME NEW r \in Run, Announce(r) PROVE StoredOf(q)'
    BY <1>6 DEF Announce
  <1>7. ASSUME NEW r \in Run, Finish(r) PROVE StoredOf(q)'
    BY <1>7 DEF Finish, Update
  <1>8. ASSUME NEW r \in Run, Cancel(r) PROVE StoredOf(q)'
    BY <1>8 DEF Cancel
  <1>9. ASSUME NEW r \in Run, DeleteCheck(r) PROVE StoredOf(q)'
    BY <1>9 DEF DeleteCheck
  <1>10. ASSUME NEW r \in Run, DeleteSteps(r) PROVE StoredOf(q)'
    BY <1>10 DEF DeleteSteps, DeleteGoesOn
  <1>11. ASSUME NEW r \in Run, DeleteArtifacts(r) PROVE StoredOf(q)'
    BY <1>11 DEF DeleteArtifacts, DeleteGoesOn
  <1>12. ASSUME NEW r \in Run, DeleteRow(r) PROVE StoredOf(q)'
    BY <1>12 DEF DeleteRow, DeleteGoesOn
  <1>13. ASSUME NEW r \in Run, DeleteFails(r) PROVE StoredOf(q)'
    BY <1>13 DEF DeleteFails
  <1>14. ASSUME NEW r \in Run, ReadRow(r) PROVE StoredOf(q)'
    BY <1>14 DEF ReadRow
  <1>15. ASSUME NEW r \in Run, ReadSteps(r) PROVE StoredOf(q)'
    BY <1>15 DEF ReadSteps
  <1>16. ASSUME ReadAgain PROVE StoredOf(q)'
    BY <1>16 DEF ReadAgain
  <1>17. ASSUME Crash PROVE StoredOf(q)'
    BY <1>17 DEF Crash
  <1>18. ASSUME UNCHANGED vars PROVE StoredOf(q)'
    BY <1>18 DEF vars
  <1> QED
    BY Cases, <1>1, <1>2, <1>3, <1>4, <1>5, <1>6, <1>7, <1>8, <1>9,
       <1>10, <1>11, <1>12, <1>13, <1>14, <1>15, <1>16, <1>17, <1>18

LEMMA ReaderStep ==
  ASSUME TypeInv, Lifecycle, Stored, ReaderIsRight, [Next]_vars
  PROVE  ReaderIsRight'
  <1> USE StoreAssumption
  <1> USE DEF TypeInv, TypeOK, Readers, Lifecycle, LifecycleOf, ReaderIsRight
  <1> USE DEF Alive, InProgress, Terminal, Exists, NoReader
  <1> USE DEF tables, worker, request, others, bounds, Goto, Fault, NoFault
  <1>1. ASSUME NEW r \in Run, Create(r) PROVE ReaderIsRight'
    BY <1>1 DEF Create
  <1>2. ASSUME NEW r \in Run, MarkRunning(r) PROVE ReaderIsRight'
    <2>1. row[r] \in InProgress
      BY <1>2 DEF MarkRunning
    <2>2. UNCHANGED <<deleting, reader>> /\ (faults' = 0 => faults = 0)
      BY <1>2 DEF MarkRunning, Update
    <2>3. \A x \in Run : row[x] \notin InProgress => row'[x] = row[x]
      BY <1>2, <2>1 DEF MarkRunning, Update
    <2>4. crashes' = crashes
      BY <1>2 DEF MarkRunning
    <2> QED
      BY <2>1, <2>2, <2>3, <2>4
  <1>3. ASSUME NEW r \in Run, ExecuteStep(r) PROVE ReaderIsRight'
    BY <1>3 DEF ExecuteStep
  <1>4. ASSUME NEW r \in Run, SaveStep(r) PROVE ReaderIsRight'
    BY <1>4 DEF SaveStep
  <1>5. ASSUME NEW r \in Run, SaveArtifact(r) PROVE ReaderIsRight'
    BY <1>5 DEF SaveArtifact
  <1>6. ASSUME NEW r \in Run, Announce(r) PROVE ReaderIsRight'
    BY <1>6 DEF Announce
  <1>7. ASSUME NEW r \in Run, Finish(r) PROVE ReaderIsRight'
    <2>1. row[r] \in InProgress
      BY <1>7 DEF Finish
    <2>2. UNCHANGED <<deleting, reader>> /\ (faults' = 0 => faults = 0)
      BY <1>7 DEF Finish, Update
    <2>3. \A x \in Run : row[x] \notin InProgress => row'[x] = row[x]
      BY <1>7, <2>1 DEF Finish, Update
    <2>4. crashes' = crashes
      BY <1>7 DEF Finish
    <2> QED
      BY <2>1, <2>2, <2>3, <2>4
  <1>8. ASSUME NEW r \in Run, Cancel(r) PROVE ReaderIsRight'
    BY <1>8 DEF Cancel
  <1>9. ASSUME NEW r \in Run, DeleteCheck(r) PROVE ReaderIsRight'
    BY <1>9 DEF DeleteCheck
  <1>10. ASSUME NEW r \in Run, DeleteSteps(r) PROVE ReaderIsRight'
    BY <1>10 DEF DeleteSteps, DeleteGoesOn
  <1>11. ASSUME NEW r \in Run, DeleteArtifacts(r) PROVE ReaderIsRight'
    BY <1>11 DEF DeleteArtifacts, DeleteGoesOn
  <1>12. ASSUME NEW r \in Run, DeleteRow(r) PROVE ReaderIsRight'
    BY <1>12 DEF DeleteRow, DeleteGoesOn
  <1>13. ASSUME NEW r \in Run, DeleteFails(r) PROVE ReaderIsRight'
    BY <1>13 DEF DeleteFails
  <1>14. ASSUME NEW r \in Run, ReadRow(r) PROVE ReaderIsRight'
    BY <1>14 DEF ReadRow, Stored, StoredOf
  <1>15. ASSUME NEW r \in Run, ReadSteps(r) PROVE ReaderIsRight'
    BY <1>15 DEF ReadSteps, Stored, StoredOf
  <1>16. ASSUME ReadAgain PROVE ReaderIsRight'
    BY <1>16 DEF ReadAgain
  <1>17. ASSUME Crash PROVE ReaderIsRight'
    BY <1>17 DEF Crash
  <1>18. ASSUME UNCHANGED vars PROVE ReaderIsRight'
    BY <1>18 DEF vars
  <1> QED
    BY Cases, <1>1, <1>2, <1>3, <1>4, <1>5, <1>6, <1>7, <1>8, <1>9,
       <1>10, <1>11, <1>12, <1>13, <1>14, <1>15, <1>16, <1>17, <1>18

LEMMA InProgressStep ==
  ASSUME TypeInv, Lifecycle, InProgressIsTrue, [Next]_vars
  PROVE  InProgressIsTrue'
  <1> USE StoreAssumption
  <1> USE DEF TypeInv, TypeOK, Lifecycle, LifecycleOf, InProgressIsTrue
  <1> USE DEF Alive, InProgress, Terminal, Exists
  <1> USE DEF tables, worker, request, others, bounds, Goto, Fault, NoFault
  <1>1. ASSUME NEW r \in Run, Create(r) PROVE InProgressIsTrue'
    BY <1>1 DEF Create
  <1>2. ASSUME NEW r \in Run, MarkRunning(r) PROVE InProgressIsTrue'
    BY <1>2 DEF MarkRunning, Update
  <1>3. ASSUME NEW r \in Run, ExecuteStep(r) PROVE InProgressIsTrue'
    BY <1>3 DEF ExecuteStep
  <1>4. ASSUME NEW r \in Run, SaveStep(r) PROVE InProgressIsTrue'
    BY <1>4 DEF SaveStep
  <1>5. ASSUME NEW r \in Run, SaveArtifact(r) PROVE InProgressIsTrue'
    BY <1>5 DEF SaveArtifact
  <1>6. ASSUME NEW r \in Run, Announce(r) PROVE InProgressIsTrue'
    BY <1>6 DEF Announce
  <1>7. ASSUME NEW r \in Run, Finish(r) PROVE InProgressIsTrue'
    BY <1>7 DEF Finish, Update
  <1>8. ASSUME NEW r \in Run, Cancel(r) PROVE InProgressIsTrue'
    BY <1>8 DEF Cancel
  <1>9. ASSUME NEW r \in Run, DeleteCheck(r) PROVE InProgressIsTrue'
    BY <1>9 DEF DeleteCheck
  <1>10. ASSUME NEW r \in Run, DeleteSteps(r) PROVE InProgressIsTrue'
    BY <1>10 DEF DeleteSteps, DeleteGoesOn
  <1>11. ASSUME NEW r \in Run, DeleteArtifacts(r) PROVE InProgressIsTrue'
    BY <1>11 DEF DeleteArtifacts, DeleteGoesOn
  <1>12. ASSUME NEW r \in Run, DeleteRow(r) PROVE InProgressIsTrue'
    BY <1>12 DEF DeleteRow, DeleteGoesOn
  <1>13. ASSUME NEW r \in Run, DeleteFails(r) PROVE InProgressIsTrue'
    BY <1>13 DEF DeleteFails
  <1>14. ASSUME NEW r \in Run, ReadRow(r) PROVE InProgressIsTrue'
    BY <1>14 DEF ReadRow
  <1>15. ASSUME NEW r \in Run, ReadSteps(r) PROVE InProgressIsTrue'
    BY <1>15 DEF ReadSteps
  <1>16. ASSUME ReadAgain PROVE InProgressIsTrue'
    BY <1>16 DEF ReadAgain
  <1>17. ASSUME Crash PROVE InProgressIsTrue'
    BY <1>17 DEF Crash
  <1>18. ASSUME UNCHANGED vars PROVE InProgressIsTrue'
    BY <1>18 DEF vars
  <1> QED
    BY Cases, <1>1, <1>2, <1>3, <1>4, <1>5, <1>6, <1>7, <1>8, <1>9,
       <1>10, <1>11, <1>12, <1>13, <1>14, <1>15, <1>16, <1>17, <1>18

LEMMA Invariance == Spec => []IInv
  <1>1. Init => IInv
    BY InitIInv
  <1>2. IInv /\ [Next]_vars => IInv'
    BY TypeStep, LifecycleStep, StoredStep, ReaderStep, InProgressStep DEF IInv
  <1> QED
    BY <1>1, <1>2, PTL DEF Spec

-----------------------------------------------------------------------------

(* Whatever order the handlers, the goroutines, the faults and the crashes *)
(* take, every row, table and reader keeps its type.                       *)
THEOREM TypeCorrect == Spec => []TypeOK
  <1>1. IInv => TypeOK
    BY DEF IInv, TypeInv
  <1> QED
    BY <1>1, Invariance, PTL

(* A status never moves back, whatever fails or crashes: what a goroutine  *)
(* can still write is bounded by where it is, which Lifecycle records.     *)
THEOREM StatusOnlyForward == Spec => StatusForward
  <1> DEFINE Forward(r) == row'[r] # row[r] =>
               \/ row[r] = "none" /\ row'[r] = "pending"
               \/ row[r] = "pending" /\ row'[r] = "running"
               \/ row[r] \in InProgress /\ row'[r] = verdict[r]
               \/ row[r] = verdict[r] /\ row'[r] = "deleted"
  <1>1. ASSUME IInv, [Next]_vars, NEW q \in Run PROVE Forward(q)
    <2> USE <1>1 DEF IInv, TypeInv, TypeOK, Lifecycle, LifecycleOf
    <2> USE DEF Alive, InProgress, Terminal, Exists, tables, others
    <2>1. ASSUME NEW r \in Run, Create(r) PROVE Forward(q)
      BY <2>1 DEF Create
    <2>2. ASSUME NEW r \in Run, MarkRunning(r) PROVE Forward(q)
      BY <2>2 DEF MarkRunning, Update
    <2>3. ASSUME NEW r \in Run, Finish(r) PROVE Forward(q)
      BY <2>3 DEF Finish, Update
    <2>4. ASSUME NEW r \in Run, DeleteRow(r) PROVE Forward(q)
      BY <2>4 DEF DeleteRow, DeleteGoesOn
    <2>5. ASSUME NEW r \in Run,
                 \/ ExecuteStep(r) \/ SaveStep(r) \/ SaveArtifact(r)
                 \/ Announce(r) \/ Cancel(r) \/ DeleteCheck(r)
          PROVE  UNCHANGED row
      BY <2>5 DEF ExecuteStep, SaveStep, SaveArtifact, Announce, Cancel,
                  DeleteCheck
    <2>6. ASSUME NEW r \in Run,
                 \/ DeleteSteps(r) \/ DeleteArtifacts(r) \/ DeleteFails(r)
                 \/ ReadRow(r) \/ ReadSteps(r)
          PROVE  UNCHANGED row
      BY <2>6 DEF DeleteSteps, DeleteArtifacts, DeleteFails, ReadRow, ReadSteps
    <2>7. ASSUME ReadAgain \/ Crash \/ UNCHANGED vars PROVE UNCHANGED row
      BY <2>7 DEF ReadAgain, Crash, vars
    <2> QED
      BY <1>1, Cases, <2>1, <2>2, <2>3, <2>4, <2>5, <2>6, <2>7
  <1>2. IInv /\ [Next]_vars => [\A r \in Run : Forward(r)]_vars
    BY <1>1
  <1> QED
    BY <1>2, Invariance, PTL DEF Spec, StatusForward

(* Nothing of a deleted run comes back: a deletion starts at a terminal    *)
(* row only, and by then the goroutine that wrote it is gone.              *)
THEOREM DeletedGoneForGood == Spec => []DeletedStaysGone
  <1>1. IInv => DeletedStaysGone
    BY DEF IInv, Lifecycle, LifecycleOf, DeletedStaysGone, Alive
  <1> QED
    BY <1>1, Invariance, PTL

(* As long as no statement failed and nothing crashed, a terminal row has  *)
(* every step and artifact beside it, though each is a statement of its    *)
(* own and readers come between any two.                                   *)
THEOREM TerminalComplete == Spec => []TerminalIsComplete
  <1>1. IInv => TerminalIsComplete
    BY DEF IInv, Stored, StoredOf, TerminalIsComplete
  <1> QED
    BY <1>1, Invariance, PTL

(* The order of GetRun's statements, row before steps, is what makes its   *)
(* answer complete, for any number of steps and of concurrent runs.        *)
THEOREM ReadsComplete == Spec => []ReadsAreComplete
  <1>1. IInv => ReadsAreComplete
    BY DEF IInv, ReaderIsRight, ReadsAreComplete
  <1> QED
    BY <1>1, Invariance, PTL

(* Without a fault, a crash or a cancelled gate no row is left pending or  *)
(* running by a goroutine that has ended.                                  *)
THEOREM InProgressTrue == Spec => []InProgressIsTrue
  <1>1. IInv => InProgressIsTrue
    BY DEF IInv
  <1> QED
    BY <1>1, Invariance, PTL
=============================================================================
