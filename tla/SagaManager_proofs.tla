------------------------- MODULE SagaManager_proofs -------------------------
(***************************************************************************)
(* Proofs about SagaManager, for every saga definition and every number of *)
(* sagas, nodes, partitions, crashes and redeliveries: the state is well   *)
(* typed, no step is skipped, and no compensation runs without a reason.   *)
(***************************************************************************)
EXTENDS SagaManager, TLAPS

\* Something has failed in saga s.
Failed(s) == \E x \in answered[s] : x.outcome = "FAILURE"

\* What makes it sound to look for the next step of s from st.
SoundState(s, st) ==
  IF st.compensating
  THEN Failed(s) /\ Reached(s, st.currentlyExecuting - 1)
  ELSE Reached(s, st.currentlyExecuting)

\* The step of a chosen action has been started when it is local, and is next
\* in line when its command is still to be sent.
SoundActions(s, a) ==
  /\ a.kind # "end" => a.step \in Step
  /\ a.kind = "end" =>
       a.step = NoStep /\ (~a.compensating => Reached(s, NumSteps - 1))
  /\ a.kind = "local" \/ a.compensating => Reached(s, a.step)
  /\ a.kind \in {"remote", "exception"} => Reached(s, a.step - 1)
  /\ a.kind = "exception" \/ a.compensating => Failed(s)

\* The states that can be read back, and what they say.
SoundRow(s, row) ==
  /\ row.stage = "running" =>
       row.currentlyExecuting \in Step /\ Reached(s, row.currentlyExecuting)
  /\ row.stage = "ended" =>
       /\ row.currentlyExecuting = NoStep
       /\ ~row.compensating => Reached(s, NumSteps - 1)
  /\ row.compensating => Failed(s)

\* A node that is handling a reply has the head of a partition to itself.
ReadingOK ==
  \A n \in Node :
    IF pc[n] = "idle"
    THEN reading[n] = NoPartition
    ELSE /\ reading[n] \in Partition
         /\ replies[reading[n]] # <<>>
         /\ \A m \in Node : reading[m] = reading[n] => m = n

\* What the labels of a task say of what it holds.
LabelsOK ==
  /\ \A s \in Saga : pc[s] = "start" => mem[s].sagaId = s
  /\ \A t \in Task : pc[t] = "continue" => act[t].kind = "local"

\* Everything stored is sound, and so is everything in memory: the row a task
\* will write, and the actions it is processing.
RowsOK == \A s \in Saga : SoundRow(s, instance[s])

TasksOK ==
  \A t \in Task : /\ SoundRow(mem[t].sagaId, mem[t].row)
                  /\ pc[t] \in {"process", "end", "update", "continue"} =>
                       SoundActions(mem[t].sagaId, act[t])

\* A failure reply is evidence of a failure.
RepliesOK ==
  \A p \in Partition : \A i \in 1 .. Len(replies[p]) :
    replies[p][i].outcome = "FAILURE" => Failed(replies[p][i].saga)

\* The inductive invariant.
Inv ==
  /\ TypeOK
  /\ ReadingOK
  /\ LabelsOK
  /\ RowsOK
  /\ TasksOK
  /\ RepliesOK
  /\ CompensationJustified

-----------------------------------------------------------------------------
(* The definition *)

\* executeNextStep returns actions that fit the execution state it started
\* from: the step is the next one, or there is none left.
LEMMA NextStepSound ==
  ASSUME NEW s \in Saga, NEW st \in ExecutionState, SoundState(s, st),
         NEW a \in ExecuteNextStep(st, data[s])
  PROVE  /\ a \in Actions
         /\ a.compensating = st.compensating
         /\ a.kind # "end" => a.step \in Step
         /\ a.kind = "end" =>
              a.step = NoStep /\ (~a.compensating => Reached(s, NumSteps - 1))
         /\ a.kind # "end" => Reached(s, a.step - 1)
         /\ a.compensating => Failed(s) /\ Reached(s, a.step)
         /\ a.kind \in {"local", "exception"} => a.step \in Local
<1> USE DefinitionAssumption
<1>1. CASE Eligible(st, data[s]) = {}
  <2>1. a = EndActions(st)
    BY <1>1 DEF ExecuteNextStep
  <2>2. ~st.compensating => Reached(s, NumSteps - 1)
    BY <1>1 DEF SoundState, Reached, Eligible, Ahead, Step, ExecutionState, NoStep
  <2> QED
    BY <2>1, <2>2 DEF EndActions, Actions, ActionKind, ExecutionState,
       SoundState, Reached, Step, NoStep
<1>2. CASE Eligible(st, data[s]) # {}
  <2>1. PICK j \in Step : IsNext(j, st, data[s]) /\ a \in ExecuteStep(j, st)
    BY <1>2 DEF ExecuteNextStep
  <2>2. /\ a.kind \in {"local", "exception", "remote"}
        /\ a.kind # "remote" => j \in Local
        /\ a.step = j /\ a.compensating = st.compensating /\ a \in Actions
    BY <2>1 DEF ExecuteStep, Actions, ActionKind, ExecutionState
  <2>3. Reached(s, j - 1)
    BY <2>1 DEF IsNext, SoundState, Reached, Eligible, Ahead, Step, ExecutionState, NoStep
  <2>4. st.compensating => Failed(s) /\ Reached(s, j)
    BY <2>1 DEF IsNext, SoundState, Reached, Eligible, Ahead, Step, ExecutionState, NoStep
  <2> QED
    BY <2>2, <2>3, <2>4
<1> QED
  BY <1>1, <1>2

-----------------------------------------------------------------------------
(* History only grows *)

Grows ==
  /\ data' = data
  /\ \A s \in Saga :
       /\ \A j \in Step : did'[s][j] >= did[s][j]
       /\ \A j \in Step : undid'[s][j] >= undid[s][j]
       /\ answered[s] \subseteq answered'[s]

\* What has been started stays started, and what has failed stays failed.
LEMMA GrowthKeeps ==
  ASSUME TypeOK, did' \in [Saga -> [Step -> Nat]], Grows, NEW s \in Saga
  PROVE  /\ \A i : Reached(s, i) => Reached(s, i)'
         /\ Failed(s) => Failed(s)'
         /\ \A row : SoundRow(s, row) => SoundRow(s, row)'
         /\ \A a : SoundActions(s, a) => SoundActions(s, a)'
<1>1. \A i : Reached(s, i) => Reached(s, i)'
  BY DEF Reached, Grows, TypeOK
<1>2. Failed(s) => Failed(s)'
  BY DEF Failed, Grows
<1> QED
  BY <1>1, <1>2 DEF SoundRow, SoundActions

\* The effect of executeNextStep on the task that runs it and on the history.
LEMMA DecideSound ==
  ASSUME TypeOK, NEW t \in Task, NEW s \in Saga, NEW st \in ExecutionState,
         SoundState(s, st), Decide(t, s, st), data' = data
  PROVE  /\ act' \in [Task -> Actions]
         /\ did' \in [Saga -> [Step -> Nat]]
         /\ undid' \in [Saga -> [Step -> Nat]]
         /\ answered' \in [Saga -> SUBSET Answer]
         /\ \A u \in Task \ {t} : act'[u] = act[u]
         /\ Grows
         /\ SoundActions(s, act[t])'
         /\ \A r \in Saga : \A j \in Step : undid'[r][j] >= 1 =>
              undid[r][j] >= 1 \/ (r = s /\ Reached(s, j)' /\ Failed(s)')
<1> USE DefinitionAssumption
<1>1. PICK a \in ExecuteNextStep(st, data[s]) :
        /\ act' = [act EXCEPT ![t] = a]
        /\ did' = [did EXCEPT ![s] =
             [j \in Step |-> IF Ran(a, j, FALSE) THEN @[j] + 1 ELSE @[j]]]
        /\ undid' = [undid EXCEPT ![s] =
             [j \in Step |-> @[j]
                             + (IF j \in Probed(st, data[s]) THEN 1 ELSE 0)
                             + (IF Ran(a, j, TRUE) THEN 1 ELSE 0)]]
        /\ answered' = [answered EXCEPT ![s] =
             @ \cup LocalAnswers(st, data[s], a)]
  BY DEF Decide
<1>2. /\ a \in Actions
      /\ a.compensating = st.compensating
      /\ a.kind # "end" => a.step \in Step
      /\ a.kind = "end" =>
           a.step = NoStep /\ (~a.compensating => Reached(s, NumSteps - 1))
      /\ a.kind # "end" => Reached(s, a.step - 1)
      /\ a.compensating => Failed(s) /\ Reached(s, a.step)
      /\ a.kind \in {"local", "exception"} => a.step \in Local
  BY NextStepSound
<1>3. act' \in [Task -> Actions] /\ act'[t] = a
      /\ \A u \in Task \ {t} : act'[u] = act[u]
  BY <1>1, <1>2 DEF TypeOK
<1>4. /\ did' \in [Saga -> [Step -> Nat]]
      /\ \A r \in Saga \ {s} : did'[r] = did[r]
      /\ \A j \in Step :
           did'[s][j] = IF Ran(a, j, FALSE) THEN did[s][j] + 1 ELSE did[s][j]
  <2> DEFINE f == [j \in Step |-> IF Ran(a, j, FALSE) THEN did[s][j] + 1
                                                     ELSE did[s][j]]
  <2>1. did' = [did EXCEPT ![s] = f]
    BY <1>1
  <2>2. f \in [Step -> Nat]
    <3> SUFFICES ASSUME NEW j \in Step
                 PROVE  did[s][j] \in Nat /\ did[s][j] + 1 \in Nat
      OBVIOUS
    <3> QED
      BY DEF TypeOK
  <2> QED
    BY <2>1, <2>2 DEF TypeOK
<1>5. /\ undid' \in [Saga -> [Step -> Nat]]
      /\ \A r \in Saga \ {s} : undid'[r] = undid[r]
      /\ \A j \in Step : undid'[s][j] >= undid[s][j]
      /\ \A j \in Step : j \notin Probed(st, data[s]) /\ ~Ran(a, j, TRUE) =>
           undid'[s][j] = undid[s][j]
  <2> DEFINE g(j) == undid[s][j]
                     + (IF j \in Probed(st, data[s]) THEN 1 ELSE 0)
                     + (IF Ran(a, j, TRUE) THEN 1 ELSE 0)
             f == [j \in Step |-> g(j)]
  <2>1. undid' = [undid EXCEPT ![s] = f]
    BY <1>1
  <2>2. \A j \in Step :
          /\ g(j) \in Nat /\ g(j) >= undid[s][j]
          /\ j \notin Probed(st, data[s]) /\ ~Ran(a, j, TRUE) =>
               g(j) = undid[s][j]
    <3> SUFFICES ASSUME NEW j \in Step
                 PROVE  /\ g(j) \in Nat /\ g(j) >= undid[s][j]
                        /\ j \notin Probed(st, data[s]) /\ ~Ran(a, j, TRUE) =>
                             g(j) = undid[s][j]
      OBVIOUS
    <3> DEFINE x == IF j \in Probed(st, data[s]) THEN 1 ELSE 0
               y == IF Ran(a, j, TRUE) THEN 1 ELSE 0
    <3>1. undid[s][j] \in Nat
      BY DEF TypeOK
    <3>2. x \in {0, 1} /\ y \in {0, 1}
      OBVIOUS
    <3>3. j \notin Probed(st, data[s]) /\ ~Ran(a, j, TRUE) => x = 0 /\ y = 0
      OBVIOUS
    <3>4. g(j) = undid[s][j] + x + y
      OBVIOUS
    <3> HIDE DEF g, x, y
    <3>5. x \in Nat /\ y \in Nat
      BY <3>2
    <3>6. g(j) \in Nat /\ g(j) >= undid[s][j]
      BY <3>1, <3>4, <3>5
    <3>7. x = 0 /\ y = 0 => g(j) = undid[s][j]
      BY <3>1, <3>4
    <3> QED
      BY <3>3, <3>6, <3>7
  <2> HIDE DEF g
  <2>3. f \in [Step -> Nat] /\ \A j \in Step : f[j] = g(j)
    BY <2>2
  <2> HIDE DEF f
  <2> QED
    BY <2>1, <2>2, <2>3 DEF TypeOK
<1>6. Probed(st, data[s]) \subseteq Step
      /\ (Probed(st, data[s]) # {} => st.compensating)
  BY DEF Probed
<1>7. LocalAnswers(st, data[s], a) \subseteq Answer
  <2>1. a.compensating \in BOOLEAN
    BY <1>2 DEF Actions
  <2>2. {[step |-> k, compensating |-> TRUE, outcome |-> "SUCCESS"] :
           k \in Probed(st, data[s])} \subseteq Answer
    <3> SUFFICES ASSUME NEW k \in Step
                 PROVE  [step |-> k, compensating |-> TRUE,
                         outcome |-> "SUCCESS"] \in Answer
      BY <1>6
    <3> QED
      BY DEF Answer, Outcome
  <2>3. a.kind = "local" => LocalAnswers(st, data[s], a) =
          {[step |-> k, compensating |-> TRUE, outcome |-> "SUCCESS"] :
             k \in Probed(st, data[s])}
          \cup {[step |-> a.step, compensating |-> a.compensating,
                 outcome |-> "SUCCESS"]}
    BY DEF LocalAnswers
  <2>4. a.kind = "exception" => LocalAnswers(st, data[s], a) =
          {[step |-> k, compensating |-> TRUE, outcome |-> "SUCCESS"] :
             k \in Probed(st, data[s])}
          \cup {[step |-> a.step, compensating |-> a.compensating,
                 outcome |-> "FAILURE"]}
    BY DEF LocalAnswers
  <2>5. a.kind \notin {"local", "exception"} => LocalAnswers(st, data[s], a) =
          {[step |-> k, compensating |-> TRUE, outcome |-> "SUCCESS"] :
             k \in Probed(st, data[s])}
    BY DEF LocalAnswers
  <2> QED
    BY <1>2, <2>1, <2>2, <2>3, <2>4, <2>5 DEF Answer, Outcome
<1>8. answered' \in [Saga -> SUBSET Answer]
  BY <1>1, <1>7 DEF TypeOK
<1>9. Grows
  <2>1. \A r \in Saga : answered[r] \subseteq answered'[r]
    BY <1>1 DEF TypeOK
  <2>2. ASSUME NEW r \in Saga, NEW j \in Step
        PROVE  did'[r][j] >= did[r][j] /\ undid'[r][j] >= undid[r][j]
    <3>1. did[r][j] \in Nat /\ undid[r][j] \in Nat
      BY DEF TypeOK
    <3>2. CASE r = s
      <4>1. did'[s][j] = did[s][j] \/ did'[s][j] = did[s][j] + 1
        BY <1>4
      <4> QED
        BY <1>5, <3>1, <3>2, <4>1
    <3>3. CASE r # s
      BY <1>4, <1>5, <3>1, <3>3
    <3> QED
      BY <3>2, <3>3
  <2> QED
    BY <2>1, <2>2 DEF Grows
<1>10. a.kind = "exception" => Failed(s)'
  <2> SUFFICES ASSUME a.kind = "exception" PROVE Failed(s)'
    OBVIOUS
  <2>1. [step |-> a.step, compensating |-> a.compensating,
         outcome |-> "FAILURE"] \in answered'[s]
    BY <1>1 DEF LocalAnswers, TypeOK
  <2> QED
    BY <2>1 DEF Failed
<1>11. \A i : Reached(s, i) => Reached(s, i)'
  BY <1>4, <1>9, GrowthKeeps
<1>12. Failed(s) => Failed(s)'
  BY <1>4, <1>9, GrowthKeeps
<1>13. a.kind = "local" => Reached(s, a.step)'
  <2> SUFFICES ASSUME a.kind = "local", NEW j \in Step, j <= a.step,
                      HasAction(j, data[s])
               PROVE  did'[s][j] >= 1
    BY DEF Reached
  <2>1. CASE j < a.step
    <3>1. j <= a.step - 1 /\ Reached(s, a.step - 1)
      BY <2>1, <1>2 DEF Step
    <3>2. did[s][j] >= 1
      BY <3>1 DEF Reached
    <3>3. did[s][j] \in Nat /\ did'[s][j] \in Nat /\ did'[s][j] >= did[s][j]
      BY <1>4, <1>9 DEF Grows, TypeOK
    <3> QED
      BY <3>2, <3>3
  <2>2. CASE j = a.step /\ ~a.compensating
    BY <2>2, <1>1 DEF Ran, TypeOK
  <2>3. CASE j = a.step /\ a.compensating
    BY <2>3, <1>2, <1>4, <1>9 DEF Reached, Grows, TypeOK
  <2> QED
    BY <2>1, <2>2, <2>3, <1>2 DEF Step, Actions
<1>14. SoundActions(s, act[t])'
  <2>1. SoundActions(s, a)'
    BY <1>2, <1>10, <1>11, <1>12, <1>13 DEF SoundActions
  <2> QED
    BY <2>1, <1>3
<1>15. ASSUME NEW r \in Saga, NEW j \in Step, undid'[r][j] >= 1,
              ~(undid[r][j] >= 1)
       PROVE  r = s /\ Reached(s, j)' /\ Failed(s)'
  <2>1. r = s
    BY <1>5, <1>15
  <2>2. j \in Probed(st, data[s]) \/ Ran(a, j, TRUE)
    BY <1>5, <1>15, <2>1
  <2>3. CASE j \in Probed(st, data[s])
    <3>1. st.compensating /\ j < st.currentlyExecuting
      BY <2>3 DEF Probed, Ahead
    <3> QED
      BY <3>1, <2>1, <1>11, <1>12
         DEF SoundState, Reached, Step, ExecutionState, NoStep
  <2>4. CASE Ran(a, j, TRUE)
    BY <2>4, <2>1, <1>2, <1>11, <1>12 DEF Ran
  <2> QED
    BY <2>2, <2>3, <2>4
<1> QED
  BY <1>3, <1>4, <1>5, <1>8, <1>9, <1>14, <1>15

-----------------------------------------------------------------------------
(* What a step leaves alone stays sound *)

Working == {"process", "end", "update", "continue"}

\* What holds of a row, of actions or of a reply holds on as the history grows.
LEMMA Frame ==
  ASSUME Inv, did' \in [Saga -> [Step -> Nat]], Grows
  PROVE  /\ \A s \in Saga :
              instance'[s] = instance[s] => SoundRow(s, instance[s])'
         /\ \A t \in Task : mem'[t] = mem[t] =>
              /\ SoundRow(mem[t].sagaId, mem[t].row)'
              /\ act'[t] = act[t] /\ pc[t] \in Working =>
                   SoundActions(mem[t].sagaId, act[t])'
         /\ replies' = replies => RepliesOK'
         /\ (\A r \in Saga : \A j \in Step : undid'[r][j] >= 1 =>
               undid[r][j] >= 1 \/ (Reached(r, j)' /\ Failed(r)'))
              => CompensationJustified'
<1>1. ASSUME NEW s \in Saga, instance'[s] = instance[s]
      PROVE  SoundRow(s, instance[s])'
  BY <1>1, GrowthKeeps DEF Inv, RowsOK, SoundRow
<1>2. ASSUME NEW t \in Task, mem'[t] = mem[t]
      PROVE  /\ SoundRow(mem[t].sagaId, mem[t].row)'
             /\ act'[t] = act[t] /\ pc[t] \in Working =>
                  SoundActions(mem[t].sagaId, act[t])'
  <2>1. mem[t].sagaId \in Saga
    BY DEF Inv, TypeOK, SagaInstance
  <2>2. SoundRow(mem[t].sagaId, mem[t].row)'
    BY <1>2, <2>1, GrowthKeeps DEF Inv, TasksOK, SoundRow
  <2>3. act'[t] = act[t] /\ pc[t] \in Working =>
          SoundActions(mem[t].sagaId, act[t])'
    BY <1>2, <2>1, GrowthKeeps DEF Inv, TasksOK, SoundActions, Working
  <2> QED
    BY <2>2, <2>3
<1>3. ASSUME replies' = replies
      PROVE  RepliesOK'
  <2> SUFFICES ASSUME NEW p \in Partition, NEW i \in 1 .. Len(replies[p]),
                      replies[p][i].outcome = "FAILURE"
               PROVE  Failed(replies[p][i].saga)'
    BY <1>3 DEF RepliesOK
  <2>1. replies[p][i].saga \in Saga
    <3>1. replies[p] \in Seq(Reply)
      BY DEF Inv, TypeOK
    <3>2. replies[p][i] \in Reply
      BY <3>1
    <3> QED
      BY <3>2 DEF Reply
  <2>2. Failed(replies[p][i].saga)
    BY DEF Inv, RepliesOK
  <2> QED
    BY <2>1, <2>2, <1>3, GrowthKeeps DEF Inv, Failed
<1>4. ASSUME \A r \in Saga : \A j \in Step : undid'[r][j] >= 1 =>
               undid[r][j] >= 1 \/ (Reached(r, j)' /\ Failed(r)')
      PROVE  CompensationJustified'
  <2> SUFFICES ASSUME NEW r \in Saga, NEW j \in Step, undid'[r][j] >= 1
               PROVE  Reached(r, j)' /\ Failed(r)'
    BY DEF CompensationJustified, Failed
  <2>1. CASE undid[r][j] >= 1
    <3>1. Reached(r, j) /\ Failed(r)
      BY <2>1 DEF Inv, CompensationJustified, Failed
    <3> QED
      BY <3>1, GrowthKeeps DEF Inv
  <2> QED
    BY <1>4, <2>1
<1> QED
  BY <1>1, <1>2, <1>3, <1>4

\* The steps of a task that holds on to its partition, if it is a node.
LEMMA ReadingKept ==
  ASSUME ReadingOK, reading' = reading, replies' = replies,
         \A n \in Node : pc'[n] = "idle" <=> pc[n] = "idle"
  PROVE  ReadingOK'
BY DEF ReadingOK

-----------------------------------------------------------------------------
(* Every step keeps the invariant *)

\* In the initial states there is nothing to be wrong about.
LEMMA InitInv == Init => Inv
<1> SUFFICES ASSUME Init
             PROVE  Inv
  OBVIOUS
<1> USE DefinitionAssumption, ManagerAssumption DEF Init
<1>1. NoRow \in Row /\ NoActions \in Actions
  BY DEF NoRow, Row, Stage, NoStep, NoActions, Actions, ActionKind
<1>2. NoInstance \in SagaInstance /\ NoInstance.row = NoRow
  <2>1. (CHOOSE s \in Saga : TRUE) \in Saga
    OBVIOUS
  <2> QED
    BY <1>1, <2>1 DEF NoInstance, InstanceOf, SagaInstance
<1>3. TypeOK
  <2>1. <<>> \in Seq(Reply)
    OBVIOUS
  <2> QED
    BY <1>1, <1>2, <2>1 DEF TypeOK, Label
<1>4. ReadingOK
  BY DEF ReadingOK, Task
<1>5. LabelsOK
  BY DEF LabelsOK, Task
<1>6. RowsOK /\ TasksOK
  BY <1>2 DEF RowsOK, TasksOK, SoundRow, NoRow
<1>7. RepliesOK
  BY DEF RepliesOK
<1>8. CompensationJustified
  BY DEF CompensationJustified
<1> QED
  BY <1>3, <1>4, <1>5, <1>6, <1>7, <1>8 DEF Inv

\* A new row claims nothing.
LEMMA CreateInv ==
  ASSUME Inv, NEW s \in Saga, Create(s)
  PROVE  Inv'
<1> USE DefinitionAssumption, ManagerAssumption
<1>1. Unstarted \in Row /\ Unstarted.stage = "unparsable"
      /\ Unstarted.compensating = FALSE
  BY DEF Unstarted, NoRow, Row, Stage, NoStep
<1>2. /\ instance' = [instance EXCEPT ![s] = Unstarted]
      /\ mem' = [mem EXCEPT ![s] = InstanceOf(s, Unstarted)]
      /\ pc' = [pc EXCEPT ![s] = "start"] /\ pc[s] = "idle"
      /\ UNCHANGED <<data, act, reading, commands, replies, unlocks, callbacks,
                     crashes, redeliveries, did, undid, answered>>
  BY DEF Create, Goto
<1>3. InstanceOf(s, Unstarted) \in SagaInstance
      /\ InstanceOf(s, Unstarted).sagaId = s
      /\ InstanceOf(s, Unstarted).row = Unstarted
  BY <1>1 DEF InstanceOf, SagaInstance
<1>4. TypeOK'
  BY <1>1, <1>2, <1>3 DEF Inv, TypeOK, Label, Task
<1>5. Grows
  BY <1>2 DEF Grows, Inv, TypeOK
<1>6. ReadingOK'
  BY <1>2, ReadingKept DEF Inv, TypeOK, Task
<1>7. LabelsOK'
  BY <1>2, <1>3 DEF Inv, LabelsOK, TypeOK, Task
<1>8. RowsOK'
  <2>1. SoundRow(s, instance[s])'
    BY <1>1, <1>2 DEF SoundRow, Inv, TypeOK
  <2> QED
    BY <1>2, <1>4, <1>5, <2>1, Frame DEF RowsOK, Inv, TypeOK
<1>9. TasksOK'
  <2> SUFFICES ASSUME NEW t \in Task
               PROVE  /\ SoundRow(mem[t].sagaId, mem[t].row)'
                      /\ pc'[t] \in Working =>
                           SoundActions(mem[t].sagaId, act[t])'
    BY DEF TasksOK, Working
  <2>1. CASE t = s
    BY <2>1, <1>1, <1>2, <1>3 DEF SoundRow, Inv, TypeOK, Working
  <2>2. CASE t # s
    BY <2>2, <1>2, <1>4, <1>5, Frame DEF Inv, TypeOK
  <2> QED
    BY <2>1, <2>2
<1>10. RepliesOK' /\ CompensationJustified'
  BY <1>2, <1>4, <1>5, Frame DEF TypeOK
<1> QED
  BY <1>4, <1>6, <1>7, <1>8, <1>9, <1>10 DEF Inv

\* The steps in which task t runs executeNextStep for the saga it holds.
LEMMA DecideKeeps ==
  ASSUME Inv, NEW t \in Task, NEW s \in Saga, NEW st \in ExecutionState,
         SoundState(s, st), Decide(t, s, st),
         NEW row, SoundRow(s, row), mem'[t].sagaId = s, mem'[t].row = row,
         \A u \in Task \ {t} : mem'[u] = mem[u] /\ pc'[u] = pc[u],
         UNCHANGED <<data, instance, replies>>
  PROVE  /\ act' \in [Task -> Actions]
         /\ \A u \in Task \ {t} : act'[u] = act[u]
         /\ did' \in [Saga -> [Step -> Nat]]
         /\ undid' \in [Saga -> [Step -> Nat]]
         /\ answered' \in [Saga -> SUBSET Answer]
         /\ RowsOK' /\ TasksOK' /\ RepliesOK' /\ CompensationJustified'
<1>1. /\ act' \in [Task -> Actions]
      /\ did' \in [Saga -> [Step -> Nat]]
      /\ undid' \in [Saga -> [Step -> Nat]]
      /\ answered' \in [Saga -> SUBSET Answer]
      /\ \A u \in Task \ {t} : act'[u] = act[u]
      /\ Grows
      /\ SoundActions(s, act[t])'
      /\ \A r \in Saga : \A j \in Step : undid'[r][j] >= 1 =>
           undid[r][j] >= 1 \/ (r = s /\ Reached(s, j)' /\ Failed(s)')
  BY DecideSound DEF Inv
<1>2. RowsOK'
  BY <1>1, Frame DEF RowsOK
<1>3. RepliesOK'
  BY <1>1, Frame
<1>4. CompensationJustified'
  <2>1. \A r \in Saga : \A j \in Step : undid'[r][j] >= 1 =>
          undid[r][j] >= 1 \/ (Reached(r, j)' /\ Failed(r)')
    BY <1>1
  <2> QED
    BY <1>1, <2>1, Frame
<1>5. TasksOK'
  <2> SUFFICES ASSUME NEW u \in Task
               PROVE  /\ SoundRow(mem[u].sagaId, mem[u].row)'
                      /\ pc'[u] \in Working =>
                           SoundActions(mem[u].sagaId, act[u])'
    BY DEF TasksOK, Working
  <2>1. CASE u = t
    <3>1. SoundRow(s, row)'
      BY <1>1, GrowthKeeps DEF Inv
    <3> QED
      BY <3>1, <2>1, <1>1 DEF SoundRow, SoundActions
  <2>2. CASE u # t
    BY <2>2, <1>1, Frame
  <2> QED
    BY <2>1, <2>2
<1> QED
  BY <1>1, <1>2, <1>3, <1>4, <1>5

\* The first step is looked for from the state before all steps.
LEMMA StartInv ==
  ASSUME Inv, NEW s \in Saga, Start(s)
  PROVE  Inv'
<1> USE DefinitionAssumption, ManagerAssumption
<1>1. /\ pc[s] = "start" /\ pc' = [pc EXCEPT ![s] = "process"]
      /\ Decide(s, s, InitialState)
      /\ UNCHANGED <<data, instance, mem, reading, commands, replies, unlocks,
                     callbacks, crashes, redeliveries>>
  BY DEF Start, Goto
<1>2. InitialState \in ExecutionState /\ SoundState(s, InitialState)
  BY DEF InitialState, ExecutionState, SoundState, Reached, Step, NoStep
<1>3. s \in Task /\ mem[s].sagaId = s
  BY <1>1 DEF Inv, LabelsOK, Task
<1>4. SoundRow(s, mem[s].row)
  BY <1>3 DEF Inv, TasksOK
<1>5. \A u \in Task \ {s} : mem'[u] = mem[u] /\ pc'[u] = pc[u]
  BY <1>1 DEF Inv, TypeOK
<1>6. /\ act' \in [Task -> Actions]
      /\ \A u \in Task \ {s} : act'[u] = act[u]
      /\ did' \in [Saga -> [Step -> Nat]]
      /\ undid' \in [Saga -> [Step -> Nat]]
      /\ answered' \in [Saga -> SUBSET Answer]
      /\ RowsOK' /\ TasksOK' /\ RepliesOK' /\ CompensationJustified'
  BY <1>1, <1>2, <1>3, <1>4, <1>5, DecideKeeps
<1>7. TypeOK'
  BY <1>1, <1>3, <1>6 DEF Inv, TypeOK, Label
<1>8. ReadingOK'
  BY <1>1, ReadingKept DEF Inv, TypeOK, Task
<1>9. LabelsOK'
  BY <1>1, <1>6 DEF Inv, LabelsOK, TypeOK, Task
<1> QED
  BY <1>6, <1>7, <1>8, <1>9 DEF Inv

\* A throw leaves nothing of the task but its label.
LEMMA ThrowKeeps ==
  ASSUME Inv, NEW t \in Task, Throw(t),
         UNCHANGED <<data, instance, replies, did, undid, answered>>
  PROVE  /\ pc' \in [Task -> Label] /\ mem' \in [Task -> SagaInstance]
         /\ act' \in [Task -> Actions]
         /\ LabelsOK' /\ RowsOK' /\ TasksOK' /\ RepliesOK' /\ CompensationJustified'
<1> USE DefinitionAssumption, ManagerAssumption
<1>1. /\ pc' = [pc EXCEPT ![t] = IF t \in Node THEN "failed" ELSE "rejected"]
      /\ mem' = [mem EXCEPT ![t] = NoInstance]
      /\ act' = [act EXCEPT ![t] = NoActions]
  BY DEF Throw, Goto
<1>2. /\ NoInstance \in SagaInstance /\ NoActions \in Actions
      /\ NoInstance.row = NoRow
  <2>1. (CHOOSE r \in Saga : TRUE) \in Saga
    OBVIOUS
  <2> QED
    BY <2>1 DEF NoInstance, InstanceOf, SagaInstance, NoRow, Row, Stage,
       NoStep, NoActions, Actions, ActionKind
<1>3. pc' \in [Task -> Label] /\ mem' \in [Task -> SagaInstance]
      /\ act' \in [Task -> Actions]
  BY <1>1, <1>2 DEF Inv, TypeOK, Label
<1>4. did' \in [Saga -> [Step -> Nat]] /\ Grows
  BY DEF Grows, Inv, TypeOK
<1>5. LabelsOK'
  BY <1>1 DEF Inv, LabelsOK, TypeOK, Task
<1>6. RowsOK' /\ RepliesOK' /\ CompensationJustified'
  BY <1>4, Frame DEF RowsOK
<1>7. TasksOK'
  <2> SUFFICES ASSUME NEW u \in Task
               PROVE  /\ SoundRow(mem[u].sagaId, mem[u].row)'
                      /\ pc'[u] \in Working =>
                           SoundActions(mem[u].sagaId, act[u])'
    BY DEF TasksOK, Working
  <2>1. CASE u = t
    BY <2>1, <1>1, <1>2 DEF SoundRow, Inv, TypeOK, Working, NoRow
  <2>2. CASE u # t
    BY <2>2, <1>1, <1>4, Frame DEF Inv, TypeOK
  <2> QED
    BY <2>1, <2>2
<1> QED
  BY <1>3, <1>5, <1>6, <1>7

\* A local step that threw is answered like a failure reply.
LEMMA LocalExceptionInv ==
  ASSUME Inv, NEW t \in Task, LocalException(t)
  PROVE  Inv'
<1> USE DefinitionAssumption, ManagerAssumption
<1> DEFINE st == AfterReply(UpdatedState(act[t]), "FAILURE")
           s  == mem[t].sagaId
<1>1. /\ pc[t] = "process" /\ act[t].kind = "exception"
      /\ UNCHANGED <<data, instance, reading, commands, replies, unlocks,
                     callbacks, crashes, redeliveries>>
  BY DEF LocalException
<1>2. s \in Saga /\ act[t] \in Actions
  BY DEF Inv, TypeOK, SagaInstance
<1>3. SoundActions(s, act[t])
  BY <1>1 DEF Inv, TasksOK
<1>4. CASE Throw(t) /\ UNCHANGED <<did, undid, answered>>
  <2>1. /\ pc' \in [Task -> Label] /\ mem' \in [Task -> SagaInstance]
        /\ act' \in [Task -> Actions]
        /\ LabelsOK' /\ RowsOK' /\ TasksOK' /\ RepliesOK' /\ CompensationJustified'
    BY <1>1, <1>4, ThrowKeeps
  <2>2. TypeOK'
    BY <1>1, <1>4, <2>1 DEF Inv, TypeOK
  <2>3. ReadingOK'
    BY <1>1, <1>4, ReadingKept DEF Inv, TypeOK, Task, Throw, Goto
  <2> QED
    BY <2>1, <2>2, <2>3 DEF Inv
<1>5. CASE Decide(t, s, st) /\ UNCHANGED <<pc, mem>>
  <2>1. st \in ExecutionState /\ SoundState(s, st)
    BY <1>1, <1>2, <1>3 DEF AfterReply, UpdatedState, StartCompensating,
       ExecutionState, SoundState, SoundActions, Actions
  <2>2. SoundRow(s, mem[t].row)
    BY DEF Inv, TasksOK
  <2>3. \A u \in Task \ {t} : mem'[u] = mem[u] /\ pc'[u] = pc[u]
    BY <1>5
  <2>4. /\ act' \in [Task -> Actions]
        /\ \A u \in Task \ {t} : act'[u] = act[u]
        /\ did' \in [Saga -> [Step -> Nat]]
        /\ undid' \in [Saga -> [Step -> Nat]]
        /\ answered' \in [Saga -> SUBSET Answer]
        /\ RowsOK' /\ TasksOK' /\ RepliesOK' /\ CompensationJustified'
    <3> HIDE DEF st
    <3> QED
      BY <1>1, <1>2, <1>5, <2>1, <2>2, <2>3, DecideKeeps
  <2>5. TypeOK'
    BY <1>1, <1>5, <2>4 DEF Inv, TypeOK
  <2>6. ReadingOK' /\ LabelsOK'
    BY <1>1, <1>5, <2>4, ReadingKept DEF Inv, LabelsOK
  <2> QED
    BY <2>4, <2>5, <2>6 DEF Inv
<1> QED
  BY <1>4, <1>5 DEF LocalException

\* The command of a step is counted as the step is claimed in memory.
LEMMA SendCommandsInv ==
  ASSUME Inv, NEW t \in Task, SendCommands(t)
  PROVE  Inv'
<1> USE DefinitionAssumption, ManagerAssumption
<1>0. PICK s \in Saga, a \in Actions : s = mem[t].sagaId /\ a = act[t]
  BY DEF Inv, TypeOK, SagaInstance
<1> DEFINE j == a.step
           row == [stage |-> IF a.kind = "end" THEN "ended" ELSE "running",
                   currentlyExecuting |-> j, compensating |-> a.compensating]
<1>1. /\ pc[t] = "process" /\ a.kind # "exception"
      /\ mem' = [mem EXCEPT ![t].row = row]
      /\ pc' = [pc EXCEPT ![t] = AfterSend(a)]
      /\ UNCHANGED <<data, instance, act, reading, replies, unlocks, callbacks,
                     crashes, redeliveries, answered>>
  BY <1>0 DEF SendCommands, Goto
<1>2. /\ s \in Saga /\ mem[t] \in SagaInstance
      /\ a \in Actions /\ a.compensating \in BOOLEAN
      /\ j \in Step \cup {NoStep}
  BY <1>0 DEF Inv, TypeOK, SagaInstance, Actions
<1>3. SoundActions(s, a)
  BY <1>0, <1>1 DEF Inv, TasksOK
<1>4. /\ did' \in [Saga -> [Step -> Nat]]
      /\ undid' \in [Saga -> [Step -> Nat]]
      /\ commands' \subseteq Command
      /\ Grows
      /\ a.kind = "remote" /\ ~a.compensating => did'[s][j] >= 1
      /\ \A r \in Saga : \A i \in Step : undid'[r][i] >= 1 =>
           undid[r][i] >= 1 \/ (r = s /\ i = j /\ a.compensating)
  <2>1. CASE a.kind = "remote"
    <3>1. j \in Step
      BY <2>1, <1>3 DEF SoundActions
    <3>2. did[s][j] \in Nat /\ undid[s][j] \in Nat
      BY <3>1, <1>2 DEF Inv, TypeOK
    <3>3. /\ did' = [did EXCEPT ![s][j] = IF a.compensating THEN @ ELSE @ + 1]
          /\ undid' = [undid EXCEPT ![s][j] = IF a.compensating THEN @ + 1 ELSE @]
          /\ commands' = commands \cup
               {[saga |-> s, step |-> j, compensating |-> a.compensating,
                 n |-> (IF a.compensating THEN undid[s][j] ELSE did[s][j]) + 1]}
      BY <1>0, <2>1 DEF SendCommands
    <3>4. commands' \subseteq Command
      BY <1>2, <3>1, <3>2, <3>3 DEF Command, Inv, TypeOK
    <3>5. CASE a.compensating
      <4>1. /\ did' = did
            /\ undid' = [undid EXCEPT ![s][j] = @ + 1]
        BY <3>3, <3>5, <1>2, <3>1 DEF Inv, TypeOK
      <4>2. undid' \in [Saga -> [Step -> Nat]]
        <5>1. undid[s][j] + 1 \in Nat
          BY <3>2
        <5>2. [undid[s] EXCEPT ![j] = undid[s][j] + 1] \in [Step -> Nat]
          BY <5>1 DEF Inv, TypeOK
        <5>3. undid' = [undid EXCEPT ![s] = [undid[s] EXCEPT ![j] = undid[s][j] + 1]]
          BY <4>1
        <5> QED
          BY <5>2, <5>3 DEF Inv, TypeOK
      <4>3. \A r \in Saga : \A i \in Step :
              undid'[r][i] = IF r = s /\ i = j THEN undid[r][i] + 1 ELSE undid[r][i]
        BY <4>1, <1>2, <3>1 DEF Inv, TypeOK
      <4>4. \A r \in Saga : \A i \in Step :
              undid[r][i] \in Nat /\ did[r][i] \in Nat
        BY DEF Inv, TypeOK
      <4>5. Grows
        BY <1>1, <4>1, <4>3, <4>4 DEF Grows
      <4> QED
        BY <3>4, <3>5, <4>1, <4>2, <4>3, <4>5 DEF Inv, TypeOK
    <3>6. CASE ~a.compensating
      <4>1. /\ undid' = undid
            /\ did' = [did EXCEPT ![s][j] = @ + 1]
        BY <3>3, <3>6, <1>2, <3>1 DEF Inv, TypeOK
      <4>2. did' \in [Saga -> [Step -> Nat]]
        <5>1. did[s][j] + 1 \in Nat
          BY <3>2
        <5>2. [did[s] EXCEPT ![j] = did[s][j] + 1] \in [Step -> Nat]
          BY <5>1 DEF Inv, TypeOK
        <5>3. did' = [did EXCEPT ![s] = [did[s] EXCEPT ![j] = did[s][j] + 1]]
          BY <4>1
        <5> QED
          BY <5>2, <5>3 DEF Inv, TypeOK
      <4>3. \A r \in Saga : \A i \in Step :
              did'[r][i] = IF r = s /\ i = j THEN did[r][i] + 1 ELSE did[r][i]
        BY <4>1, <1>2, <3>1 DEF Inv, TypeOK
      <4>4. \A r \in Saga : \A i \in Step :
              undid[r][i] \in Nat /\ did[r][i] \in Nat
        BY DEF Inv, TypeOK
      <4>5. Grows
        BY <1>1, <4>1, <4>3, <4>4 DEF Grows
      <4> QED
        BY <1>2, <3>1, <3>2, <3>4, <3>6, <4>1, <4>2, <4>3, <4>5 DEF Inv, TypeOK
    <3> QED
      BY <3>5, <3>6
  <2>2. CASE a.kind # "remote"
    <3>1. UNCHANGED <<commands, did, undid>>
      BY <1>0, <2>2 DEF SendCommands
    <3> QED
      BY <3>1, <1>1, <2>2 DEF Grows, Inv, TypeOK
  <2> QED
    BY <2>1, <2>2
<1>5. row \in Row /\ AfterSend(a) \in {"end", "update"}
  BY <1>2 DEF Row, Stage, AfterSend
<1>6. /\ mem' \in [Task -> SagaInstance]
      /\ mem'[t].sagaId = s /\ mem'[t].row = row
      /\ \A u \in Task \ {t} : mem'[u] = mem[u]
  <2> HIDE DEF row
  <2>1. mem \in [Task -> SagaInstance] /\ row \in Row
    BY <1>5 DEF Inv, TypeOK
  <2> DEFINE changed == [mem[t] EXCEPT !.row = row]
  <2>2. changed \in SagaInstance /\ changed.sagaId = s /\ changed.row = row
    BY <1>0, <1>2, <2>1 DEF SagaInstance
  <2>3. mem' = [mem EXCEPT ![t] = changed]
    BY <1>1
  <2> HIDE DEF changed
  <2> QED
    BY <2>1, <2>2, <2>3
<1>7. TypeOK'
  BY <1>1, <1>4, <1>5, <1>6 DEF Inv, TypeOK, Label
<1>8. ReadingOK' /\ LabelsOK'
  <2>1. \A n \in Node : pc'[n] = "idle" <=> pc[n] = "idle"
    BY <1>1, <1>5 DEF Inv, TypeOK, Task
  <2> QED
    BY <1>1, <1>5, <1>6, <2>1, ReadingKept DEF Inv, LabelsOK, TypeOK, Task
<1>9. (\A i : Reached(s, i) => Reached(s, i)') /\ (Failed(s) => Failed(s)')
  BY <1>2, <1>4, GrowthKeeps DEF Inv
<1>10. a.kind = "remote" => Reached(s, j)'
  <2> SUFFICES ASSUME a.kind = "remote", NEW i \in Step, i <= j,
                      HasAction(i, data[s])
               PROVE  did'[s][i] >= 1
    BY <1>1 DEF Reached
  <2>1. CASE a.compensating
    BY <2>1, <1>1, <1>3, <1>9 DEF SoundActions, Reached
  <2>2. CASE ~a.compensating /\ i = j
    BY <2>2, <1>4
  <2>3. CASE i < j
    <3>1. Reached(s, j - 1)'
      BY <1>3, <1>9 DEF SoundActions
    <3> QED
      BY <2>3, <3>1, <1>1, <1>3 DEF Reached, SoundActions, Step
  <2> QED
    BY <2>1, <2>2, <2>3, <1>3 DEF SoundActions, Step
<1>11. RowsOK' /\ RepliesOK'
  BY <1>1, <1>4, Frame DEF RowsOK
<1>12. CompensationJustified'
  <2>1. a.compensating => Failed(s)' /\ Reached(s, j)'
    BY <1>3, <1>9 DEF SoundActions
  <2>2. \A r \in Saga : \A i \in Step : undid'[r][i] >= 1 =>
          undid[r][i] >= 1 \/ (Reached(r, i)' /\ Failed(r)')
    BY <1>4, <2>1
  <2> QED
    BY <1>4, <2>2, Frame
<1>13. TasksOK'
  <2> SUFFICES ASSUME NEW u \in Task
               PROVE  /\ SoundRow(mem[u].sagaId, mem[u].row)'
                      /\ pc'[u] \in Working =>
                           SoundActions(mem[u].sagaId, act[u])'
    BY DEF TasksOK, Working
  <2>1. CASE u = t
    <3>1. SoundActions(s, a)'
      BY <1>2, <1>3, <1>4, <1>1, GrowthKeeps DEF Inv, SoundActions
    <3>2. a.kind # "end" => j \in Step /\ Reached(s, j)'
      BY <1>1, <1>2, <1>3, <1>9, <1>10 DEF SoundActions, Actions, ActionKind
    <3>3. SoundRow(s, row)'
      BY <1>3, <1>9, <3>2, <1>1 DEF SoundRow, SoundActions
    <3> QED
      BY <2>1, <3>1, <3>3, <1>0, <1>6, <1>1 DEF SoundRow, SoundActions
  <2>2. CASE u # t
    BY <2>2, <1>1, <1>4, <1>6, Frame DEF Inv, TypeOK
  <2> QED
    BY <2>1, <2>2
<1> QED
  BY <1>7, <1>8, <1>11, <1>12, <1>13 DEF Inv

\* What only relabels task t, while the tables other than instance are kept.
LEMMA RelabelKeeps ==
  ASSUME Inv, NEW t \in Task, NEW l \in Label \ {"idle", "start"},
         l = "continue" => act[t].kind = "local",
         pc[t] \in Working, pc' = [pc EXCEPT ![t] = l],
         UNCHANGED <<data, mem, act, reading, replies, did, undid, answered>>
  PROVE  /\ pc' \in [Task -> Label]
         /\ ReadingOK' /\ LabelsOK' /\ TasksOK' /\ RepliesOK'
         /\ CompensationJustified'
         /\ did' \in [Saga -> [Step -> Nat]] /\ Grows
<1> USE ManagerAssumption
<1>1. pc' \in [Task -> Label]
  BY DEF Inv, TypeOK
<1>2. did' \in [Saga -> [Step -> Nat]] /\ Grows
  BY DEF Grows, Inv, TypeOK
<1>3. ReadingOK'
  <2>1. \A n \in Node : pc'[n] = "idle" <=> pc[n] = "idle"
    BY DEF Working, Inv, TypeOK, Task
  <2> QED
    BY <2>1, ReadingKept DEF Inv
<1>4. LabelsOK'
  BY DEF Inv, LabelsOK, TypeOK, Task
<1>5. TasksOK'
  <2> SUFFICES ASSUME NEW u \in Task
               PROVE  /\ SoundRow(mem[u].sagaId, mem[u].row)'
                      /\ pc'[u] \in Working =>
                           SoundActions(mem[u].sagaId, act[u])'
    BY DEF TasksOK, Working
  <2>1. pc'[u] \in Working => pc[u] \in Working
    BY DEF Inv, TypeOK
  <2> QED
    BY <2>1, <1>2, Frame
<1>6. RepliesOK' /\ CompensationJustified'
  BY <1>2, Frame
<1> QED
  BY <1>1, <1>2, <1>3, <1>4, <1>5, <1>6

\* Unlocks and callbacks are not read by anybody.
LEMMA PerformEndStateActionsInv ==
  ASSUME Inv, NEW t \in Task, PerformEndStateActions(t)
  PROVE  Inv'
<1>1. /\ pc[t] \in Working /\ pc' = [pc EXCEPT ![t] = "update"]
      /\ "update" \in Label \ {"idle", "start"}
      /\ UNCHANGED <<data, instance, mem, act, reading, commands, replies,
                     crashes, redeliveries, did, undid, answered>>
  BY DEF PerformEndStateActions, Goto, Working, Label
<1>2. /\ pc' \in [Task -> Label]
      /\ ReadingOK' /\ LabelsOK' /\ TasksOK' /\ RepliesOK'
      /\ CompensationJustified'
      /\ did' \in [Saga -> [Step -> Nat]] /\ Grows
  BY <1>1, RelabelKeeps
<1>3. RowsOK'
  BY <1>1, <1>2, Frame DEF RowsOK
<1>4. unlocks' \subseteq Saga \X Step
  <2>1. mem[t].sagaId \in Saga /\ mem[t].destinationsAndResources \subseteq Step
    BY DEF Inv, TypeOK, SagaInstance
  <2> QED
    BY <2>1 DEF PerformEndStateActions, Inv, TypeOK
<1>5. callbacks' \in [Saga -> SUBSET {"completed", "rolledBack"}]
  BY DEF PerformEndStateActions, Inv, TypeOK
<1>6. TypeOK'
  BY <1>1, <1>2, <1>4, <1>5 DEF Inv, TypeOK
<1> QED
  BY <1>2, <1>3, <1>6 DEF Inv

\* The row stored is the one in memory, which was sound.
LEMMA UpdateInv ==
  ASSUME Inv, NEW t \in Task, Update(t)
  PROVE  Inv'
<1> DEFINE l == IF act[t].kind = "local" THEN "continue"
                ELSE IF t \in Node THEN "commit" ELSE "done"
<1>1. /\ pc[t] \in Working /\ pc' = [pc EXCEPT ![t] = l]
      /\ l \in Label \ {"idle", "start"}
      /\ l = "continue" => act[t].kind = "local"
      /\ instance' = [instance EXCEPT ![mem[t].sagaId] = mem[t].row]
      /\ UNCHANGED <<data, mem, act, reading, commands, replies, unlocks,
                     callbacks, crashes, redeliveries, did, undid, answered>>
  BY DEF Update, Goto, Working, Label
<1>2. /\ pc' \in [Task -> Label]
      /\ ReadingOK' /\ LabelsOK' /\ TasksOK' /\ RepliesOK'
      /\ CompensationJustified'
      /\ did' \in [Saga -> [Step -> Nat]] /\ Grows
  <2> HIDE DEF l
  <2> QED
    BY <1>1, RelabelKeeps
<1>3. mem[t].sagaId \in Saga /\ mem[t].row \in Row
  BY DEF Inv, TypeOK, SagaInstance
<1>4. RowsOK'
  <2> SUFFICES ASSUME NEW s \in Saga
               PROVE  SoundRow(s, instance[s])'
    BY DEF RowsOK
  <2>1. CASE s = mem[t].sagaId
    <3>1. SoundRow(mem[t].sagaId, mem[t].row)'
      BY <1>1, <1>2, Frame
    <3>2. mem'[t].sagaId = s /\ instance'[s] = mem'[t].row
      BY <2>1, <1>1, <1>3 DEF Inv, TypeOK
    <3> QED
      BY <3>1, <3>2 DEF SoundRow
  <2>2. CASE s # mem[t].sagaId
    BY <2>2, <1>1, <1>2, Frame DEF Inv, TypeOK
  <2> QED
    BY <2>1, <2>2
<1>5. TypeOK'
  BY <1>1, <1>2, <1>3 DEF Inv, TypeOK
<1> QED
  BY <1>2, <1>4, <1>5 DEF Inv

\* The state a local step left is where the next one is looked for.
LEMMA ContinueInv ==
  ASSUME Inv, NEW t \in Task, Continue(t)
  PROVE  Inv'
<1> USE DefinitionAssumption, ManagerAssumption
<1> DEFINE st == AfterReply(UpdatedState(act[t]), "SUCCESS")
           s  == mem[t].sagaId
<1>1. /\ pc[t] = "continue" /\ pc' = [pc EXCEPT ![t] = "process"]
      /\ Decide(t, s, st)
      /\ UNCHANGED <<data, instance, mem, reading, commands, replies, unlocks,
                     callbacks, crashes, redeliveries>>
  BY DEF Continue, Goto
<1>2. s \in Saga /\ act[t] \in Actions
  BY DEF Inv, TypeOK, SagaInstance
<1>3. act[t].kind = "local"
  BY <1>1 DEF Inv, LabelsOK
<1>4. SoundActions(s, act[t]) /\ SoundRow(s, mem[t].row)
  BY <1>1 DEF Inv, TasksOK
<1>5. st \in ExecutionState /\ SoundState(s, st)
  BY <1>2, <1>3, <1>4 DEF AfterReply, UpdatedState, ExecutionState,
     SoundState, SoundActions, Actions, Reached, Step
<1>6. \A u \in Task \ {t} : mem'[u] = mem[u] /\ pc'[u] = pc[u]
  BY <1>1 DEF Inv, TypeOK
<1>7. /\ act' \in [Task -> Actions]
      /\ \A u \in Task \ {t} : act'[u] = act[u]
      /\ did' \in [Saga -> [Step -> Nat]]
      /\ undid' \in [Saga -> [Step -> Nat]]
      /\ answered' \in [Saga -> SUBSET Answer]
      /\ RowsOK' /\ TasksOK' /\ RepliesOK' /\ CompensationJustified'
  <2> HIDE DEF st
  <2> QED
    BY <1>1, <1>2, <1>4, <1>5, <1>6, DecideKeeps
<1>8. TypeOK'
  BY <1>1, <1>7 DEF Inv, TypeOK, Label
<1>9. ReadingOK'
  BY <1>1, ReadingKept DEF Inv, TypeOK, Task
<1>10. LabelsOK'
  BY <1>1, <1>7 DEF Inv, LabelsOK, TypeOK, Task
<1> QED
  BY <1>7, <1>8, <1>9, <1>10 DEF Inv

\* The state read from a sound row is sound, and a failure reply is a failure.
LEMMA HandleReplyMessageInv ==
  ASSUME Inv, NEW n \in Node, NEW p \in Partition, HandleReplyMessage(n, p)
  PROVE  Inv'
<1> USE DefinitionAssumption, ManagerAssumption
<1> DEFINE r   == Head(replies[p])
           s   == r.saga
           row == instance[s]
           st  == AfterReply(StateOf(row), r.outcome)
           sagaInstance ==
             [InstanceOf(s, row) EXCEPT !.destinationsAndResources =
                IF r.locked THEN {r.step} ELSE {}]
<1>1. /\ CanRead(n, p) /\ ~Unreadable(r)
      /\ reading' = [reading EXCEPT ![n] = p]
      /\ mem' = [mem EXCEPT ![n] = sagaInstance]
      /\ Decide(n, s, st)
      /\ pc' = [pc EXCEPT ![n] = "process"]
      /\ UNCHANGED <<data, instance, commands, replies, unlocks, callbacks,
                     crashes, redeliveries>>
  BY DEF HandleReplyMessage, Goto
<1>2. /\ r \in Reply /\ s \in Saga
      /\ r.outcome = "FAILURE" => Failed(s)
  <2>1. replies[p] \in Seq(Reply) /\ replies[p] # <<>>
    BY <1>1 DEF Inv, TypeOK, CanRead
  <2>2. r \in Reply /\ r = replies[p][1] /\ 1 \in 1 .. Len(replies[p])
    BY <2>1
  <2> QED
    BY <2>2 DEF Reply, Inv, RepliesOK
<1>3. row \in Row /\ SoundRow(s, row)
  BY <1>2 DEF Inv, TypeOK, RowsOK
<1>4. st \in ExecutionState /\ SoundState(s, st)
  <2>1. row.stage \in {"running", "ended"} /\ row.currentlyExecuting \in Step
    BY <1>1, <1>3 DEF Unreadable, HandleReplyThrows, StateOf, Row, Stage
  <2>2. row.stage = "running" /\ Reached(s, row.currentlyExecuting)
        /\ (row.compensating => Failed(s))
    BY <2>1, <1>3 DEF SoundRow, NoStep, Step
  <2>3. r.outcome \in {"SUCCESS", "FAILURE"}
    BY <1>2 DEF Reply, Outcome
  <2>4. Reached(s, row.currentlyExecuting - 1)
    BY <2>1, <2>2 DEF Reached, Step
  <2> QED
    BY <1>2, <1>3, <2>1, <2>2, <2>3, <2>4 DEF AfterReply, StateOf, Row,
       StartCompensating, ExecutionState, SoundState
<1>5. /\ sagaInstance \in SagaInstance
      /\ sagaInstance.sagaId = s /\ sagaInstance.row = row
  BY <1>2, <1>3 DEF InstanceOf, SagaInstance, Reply
<1>6. /\ mem' \in [Task -> SagaInstance]
      /\ mem'[n].sagaId = s /\ mem'[n].row = row
      /\ \A u \in Task \ {n} : mem'[u] = mem[u] /\ pc'[u] = pc[u]
  <2> HIDE DEF sagaInstance, row, s
  <2> QED
    BY <1>1, <1>5 DEF Inv, TypeOK, Task
<1>7. /\ act' \in [Task -> Actions]
      /\ \A u \in Task \ {n} : act'[u] = act[u]
      /\ did' \in [Saga -> [Step -> Nat]]
      /\ undid' \in [Saga -> [Step -> Nat]]
      /\ answered' \in [Saga -> SUBSET Answer]
      /\ RowsOK' /\ TasksOK' /\ RepliesOK' /\ CompensationJustified'
  <2>1. n \in Task
    BY DEF Task
  <2> HIDE DEF st, row, s
  <2> QED
    BY <1>1, <1>2, <1>3, <1>4, <1>6, <2>1, DecideKeeps
<1>8. TypeOK'
  BY <1>1, <1>6, <1>7 DEF Inv, TypeOK, Label
<1>9. ReadingOK'
  BY <1>1 DEF Inv, ReadingOK, CanRead, TypeOK, Task
<1>10. LabelsOK'
  BY <1>1, <1>6, <1>7 DEF Inv, LabelsOK, TypeOK, Task
<1> QED
  BY <1>7, <1>8, <1>9, <1>10 DEF Inv

\* A reply that cannot be handled changes nothing but labels.
LEMMA RejectReplyMessageInv ==
  ASSUME Inv, NEW n \in Node, NEW p \in Partition, RejectReplyMessage(n, p)
  PROVE  Inv'
<1> USE ManagerAssumption
<1>1. /\ CanRead(n, p) /\ Throw(n) /\ n \in Task
      /\ reading' = [reading EXCEPT ![n] = p]
      /\ UNCHANGED <<data, instance, commands, replies, unlocks, callbacks,
                     crashes, redeliveries, did, undid, answered>>
  BY DEF RejectReplyMessage, Task
<1>2. /\ pc' \in [Task -> Label] /\ mem' \in [Task -> SagaInstance]
      /\ act' \in [Task -> Actions]
      /\ LabelsOK' /\ RowsOK' /\ TasksOK' /\ RepliesOK' /\ CompensationJustified'
  BY <1>1, ThrowKeeps
<1>3. TypeOK'
  BY <1>1, <1>2 DEF Inv, TypeOK
<1>4. ReadingOK'
  BY <1>1 DEF Inv, ReadingOK, CanRead, TypeOK, Task, Throw, Goto
<1> QED
  BY <1>2, <1>3, <1>4 DEF Inv

\* The reply stays where it is, for the next one to read it.
LEMMA RetryInv ==
  ASSUME Inv, NEW n \in Node, Retry(n)
  PROVE  Inv'
<1> USE ManagerAssumption
<1>1. /\ pc[n] = "failed" /\ pc' = [pc EXCEPT ![n] = "idle"]
      /\ reading' = [reading EXCEPT ![n] = NoPartition]
      /\ UNCHANGED <<data, instance, mem, act, commands, replies, unlocks,
                     callbacks, crashes, redeliveries, did, undid, answered>>
  BY DEF Retry, Goto
<1>2. TypeOK' /\ Grows
  BY <1>1 DEF Inv, TypeOK, Label, Task, Grows
<1>3. ReadingOK'
  BY <1>1 DEF Inv, ReadingOK, TypeOK, Task
<1>4. LabelsOK'
  BY <1>1 DEF Inv, LabelsOK, TypeOK, Task
<1>5. RowsOK' /\ RepliesOK' /\ CompensationJustified'
  BY <1>1, <1>2, Frame DEF RowsOK, TypeOK
<1>6. TasksOK'
  <2> SUFFICES ASSUME NEW u \in Task
               PROVE  /\ SoundRow(mem[u].sagaId, mem[u].row)'
                      /\ pc'[u] \in Working =>
                           SoundActions(mem[u].sagaId, act[u])'
    BY DEF TasksOK, Working
  <2>1. pc'[u] \in Working => pc[u] \in Working
    BY <1>1 DEF Inv, TypeOK, Working
  <2> QED
    BY <1>1, <1>2, <2>1, Frame DEF TypeOK
<1> QED
  BY <1>2, <1>3, <1>4, <1>5, <1>6 DEF Inv

\* A committed reply leaves its partition.
LEMMA CommitInv ==
  ASSUME Inv, NEW n \in Node, Commit(n)
  PROVE  Inv'
<1> USE ManagerAssumption
<1> DEFINE q == reading[n]
<1>1. /\ pc[n] = "commit" /\ pc' = [pc EXCEPT ![n] = "idle"]
      /\ replies' = [replies EXCEPT ![q] = Tail(replies[q])]
      /\ reading' = [reading EXCEPT ![n] = NoPartition]
      /\ mem' = [mem EXCEPT ![n] = NoInstance]
      /\ act' = [act EXCEPT ![n] = NoActions]
      /\ UNCHANGED <<data, instance, commands, unlocks, callbacks, crashes,
                     redeliveries, did, undid, answered>>
  BY DEF Commit, Goto
<1>2. /\ q \in Partition /\ replies[q] # <<>> /\ replies[q] \in Seq(Reply)
      /\ \A m \in Node : reading[m] = q => m = n
  BY <1>1 DEF Inv, ReadingOK, TypeOK
<1>3. /\ NoInstance \in SagaInstance /\ NoActions \in Actions
      /\ NoInstance.row = NoRow
  <2>1. (CHOOSE r \in Saga : TRUE) \in Saga
    OBVIOUS
  <2> QED
    BY <2>1 DEF NoInstance, InstanceOf, SagaInstance, NoRow, Row, Stage,
       NoStep, NoActions, Actions, ActionKind
<1>4. /\ Tail(replies[q]) \in Seq(Reply)
      /\ Len(Tail(replies[q])) = Len(replies[q]) - 1
      /\ \A i \in 1 .. Len(Tail(replies[q])) :
           /\ i + 1 \in 1 .. Len(replies[q])
           /\ Tail(replies[q])[i] = replies[q][i + 1]
  BY <1>2
<1>5. TypeOK' /\ Grows
  <2>1. replies' \in [Partition -> Seq(Reply)]
    BY <1>1, <1>2, <1>4 DEF Inv, TypeOK
  <2>2. /\ pc' \in [Task -> Label]
        /\ mem' \in [Task -> SagaInstance]
        /\ act' \in [Task -> Actions]
        /\ reading' \in [Node -> Partition \cup {NoPartition}]
    BY <1>1, <1>3 DEF Inv, TypeOK, Label
  <2>3. Grows
    BY <1>1 DEF Inv, TypeOK, Grows
  <2> QED
    BY <1>1, <2>1, <2>2, <2>3 DEF Inv, TypeOK
<1>6. ReadingOK'
  <2> SUFFICES ASSUME NEW m \in Node
               PROVE  IF pc'[m] = "idle"
                      THEN reading'[m] = NoPartition
                      ELSE /\ reading'[m] \in Partition
                           /\ replies'[reading'[m]] # <<>>
                           /\ \A k \in Node : reading'[k] = reading'[m] => k = m
    BY DEF ReadingOK
  <2>1. CASE m = n
    BY <2>1, <1>1 DEF Inv, TypeOK, Task
  <2>2. CASE m # n
    BY <2>2, <1>1, <1>2 DEF Inv, ReadingOK, TypeOK, Task
  <2> QED
    BY <2>1, <2>2
<1>7. LabelsOK'
  BY <1>1 DEF Inv, LabelsOK, TypeOK, Task
<1>8. RowsOK' /\ CompensationJustified'
  BY <1>1, <1>5, Frame DEF RowsOK, TypeOK
<1>9. RepliesOK'
  <2> SUFFICES ASSUME NEW p \in Partition, NEW i \in 1 .. Len(replies'[p]),
                      replies'[p][i].outcome = "FAILURE"
               PROVE  Failed(replies'[p][i].saga)
    BY <1>1 DEF RepliesOK, Failed
  <2>1. CASE p = q
    BY <2>1, <1>1, <1>2, <1>4 DEF Inv, RepliesOK, TypeOK
  <2>2. CASE p # q
    BY <2>2, <1>1 DEF Inv, RepliesOK, TypeOK
  <2> QED
    BY <2>1, <2>2
<1>10. TasksOK'
  <2> SUFFICES ASSUME NEW u \in Task
               PROVE  /\ SoundRow(mem[u].sagaId, mem[u].row)'
                      /\ pc'[u] \in Working =>
                           SoundActions(mem[u].sagaId, act[u])'
    BY DEF TasksOK, Working
  <2>1. CASE u = n
    BY <2>1, <1>1, <1>3 DEF SoundRow, Inv, TypeOK, Working, NoRow
  <2>2. CASE u # n
    BY <2>2, <1>1, <1>5, Frame DEF Inv, TypeOK
  <2> QED
    BY <2>1, <2>2
<1> QED
  BY <1>5, <1>6, <1>7, <1>8, <1>9, <1>10 DEF Inv

\* A reply is of a step whose command was sent.
LEMMA ParticipateInv ==
  ASSUME Inv, NEW c \in commands, NEW p \in Partition, NEW o \in Outcome,
         Participate(c, p, o)
  PROVE  Inv'
<1> USE DefinitionAssumption, ManagerAssumption
<1> DEFINE r == [saga |-> c.saga, step |-> c.step,
                 compensating |-> c.compensating, outcome |-> o,
                 locked |-> c.step \in Locking /\ ~c.compensating]
           x == [step |-> c.step, compensating |-> c.compensating,
                 outcome |-> o]
<1>1. /\ replies' = [replies EXCEPT ![p] = Append(replies[p], r)]
      /\ answered' = [answered EXCEPT ![c.saga] = @ \cup {x}]
      /\ commands' \subseteq commands
      /\ redeliveries' \in Nat
      /\ UNCHANGED <<data, instance, pc, mem, act, reading, unlocks, callbacks,
                     crashes, did, undid>>
  BY DEF Participate, Inv, TypeOK
<1>2. /\ c.saga \in Saga /\ r \in Reply /\ x \in Answer
      /\ replies[p] \in Seq(Reply)
  BY DEF Inv, TypeOK, Command, Reply, Answer
<1>3. /\ Append(replies[p], r) \in Seq(Reply)
      /\ Append(replies[p], r) # <<>>
      /\ Len(Append(replies[p], r)) = Len(replies[p]) + 1
      /\ \A i \in 1 .. Len(replies[p]) + 1 :
           Append(replies[p], r)[i] =
             IF i \in 1 .. Len(replies[p]) THEN replies[p][i] ELSE r
  <2> HIDE DEF r
  <2>1. /\ Append(replies[p], r) \in Seq(Reply)
        /\ Len(Append(replies[p], r)) = Len(replies[p]) + 1
    BY <1>2
  <2>2. Append(replies[p], r) # <<>>
    BY <1>2, <2>1
  <2>3. ASSUME NEW i \in 1 .. Len(replies[p]) + 1
        PROVE  Append(replies[p], r)[i] =
                 IF i \in 1 .. Len(replies[p]) THEN replies[p][i] ELSE r
    BY <1>2
  <2> QED
    BY <2>1, <2>2, <2>3
<1>4. /\ replies' \in [Partition -> Seq(Reply)]
      /\ answered' \in [Saga -> SUBSET Answer]
      /\ x \in answered'[c.saga]
      /\ \A s \in Saga : answered[s] \subseteq answered'[s]
  <2> HIDE DEF r, x
  <2> QED
    BY <1>1, <1>2, <1>3 DEF Inv, TypeOK
<1>5. TypeOK'
  BY <1>1, <1>4 DEF Inv, TypeOK
<1>6. Grows
  BY <1>1, <1>4 DEF Grows, Inv, TypeOK
<1>7. ReadingOK'
  <2> HIDE DEF r
  <2> QED
    BY <1>1, <1>3 DEF Inv, ReadingOK, TypeOK
<1>8. LabelsOK'
  BY <1>1 DEF Inv, LabelsOK
<1>9. RowsOK' /\ CompensationJustified'
  BY <1>1, <1>5, <1>6, Frame DEF RowsOK, TypeOK
<1>10. TasksOK'
  BY <1>1, <1>5, <1>6, Frame DEF TasksOK, TypeOK, Working
<1>11. RepliesOK'
  <2> SUFFICES ASSUME NEW q \in Partition, NEW i \in 1 .. Len(replies'[q]),
                      replies'[q][i].outcome = "FAILURE"
               PROVE  \E y \in answered'[replies'[q][i].saga] :
                        y.outcome = "FAILURE"
    BY DEF RepliesOK, Failed
  <2>1. CASE i \in 1 .. Len(replies[q])
    <3>1. replies'[q][i] = replies[q][i]
      <4> HIDE DEF r
      <4> QED
        BY <2>1, <1>1, <1>3 DEF Inv, TypeOK
    <3>2. Failed(replies[q][i].saga)
      BY <2>1, <3>1 DEF Inv, RepliesOK
    <3>3. replies[q][i].saga \in Saga
      <4>1. replies[q] \in Seq(Reply)
        BY DEF Inv, TypeOK
      <4>2. replies[q][i] \in Reply
        BY <2>1, <4>1
      <4> QED
        BY <4>2 DEF Reply
    <3> QED
      BY <3>1, <3>2, <3>3, <1>4 DEF Failed
  <2>2. CASE i \notin 1 .. Len(replies[q])
    <3>1. q = p /\ replies'[q][i] = r
      <4> HIDE DEF r
      <4> QED
        BY <2>2, <1>1, <1>2, <1>3 DEF Inv, TypeOK
    <3>2. o = "FAILURE" /\ replies'[q][i].saga = c.saga
      BY <3>1
    <3> QED
      BY <3>2, <1>4 DEF Failed
  <2> QED
    BY <2>1, <2>2
<1> QED
  BY <1>5, <1>7, <1>8, <1>9, <1>10, <1>11 DEF Inv

\* A crash leaves the tables alone.
LEMMA CrashInv ==
  ASSUME Inv, NEW n \in Node, Crash(n)
  PROVE  Inv'
<1> USE ManagerAssumption
<1> DEFINE lost == {n} \cup {s \in Saga : Home[s] = n /\
                               pc[s] \notin {"idle", "done", "rejected"}}
<1>1. /\ pc' = [t \in Task |-> IF t \notin lost THEN pc[t]
                               ELSE IF t = n THEN "idle" ELSE "rejected"]
      /\ mem' = [t \in Task |-> IF t \in lost THEN NoInstance ELSE mem[t]]
      /\ act' = [t \in Task |-> IF t \in lost THEN NoActions ELSE act[t]]
      /\ reading' = [reading EXCEPT ![n] = NoPartition]
      /\ crashes' \in Nat
      /\ UNCHANGED <<data, instance, commands, replies, unlocks, callbacks,
                     redeliveries, did, undid, answered>>
  BY DEF Crash, Inv, TypeOK
<1>2. /\ NoInstance \in SagaInstance /\ NoActions \in Actions
      /\ NoInstance.row = NoRow
  <2>1. (CHOOSE r \in Saga : TRUE) \in Saga
    OBVIOUS
  <2> QED
    BY <2>1 DEF NoInstance, InstanceOf, SagaInstance, NoRow, Row, Stage,
       NoStep, NoActions, Actions, ActionKind
<1>3. \A m \in Node : m \in lost => m = n
  OBVIOUS
<1> HIDE DEF lost
<1>4. TypeOK' /\ Grows
  BY <1>1, <1>2 DEF Inv, TypeOK, Label, Grows
<1>5. ReadingOK'
  <2> SUFFICES ASSUME NEW m \in Node
               PROVE  IF pc'[m] = "idle"
                      THEN reading'[m] = NoPartition
                      ELSE /\ reading'[m] \in Partition
                           /\ replies'[reading'[m]] # <<>>
                           /\ \A k \in Node : reading'[k] = reading'[m] => k = m
    BY DEF ReadingOK
  <2>1. CASE m = n
    BY <2>1, <1>1 DEF Inv, ReadingOK, TypeOK, Task, lost
  <2>2. CASE m # n
    BY <2>2, <1>1, <1>3 DEF Inv, ReadingOK, TypeOK, Task
  <2> QED
    BY <2>1, <2>2
<1>6. LabelsOK'
  BY <1>1 DEF Inv, LabelsOK, TypeOK, Task
<1>7. RowsOK' /\ RepliesOK' /\ CompensationJustified'
  BY <1>1, <1>4, Frame DEF RowsOK, TypeOK
<1>8. TasksOK'
  <2> SUFFICES ASSUME NEW u \in Task
               PROVE  /\ SoundRow(mem[u].sagaId, mem[u].row)'
                      /\ pc'[u] \in Working =>
                           SoundActions(mem[u].sagaId, act[u])'
    BY DEF TasksOK, Working
  <2>1. CASE u \in lost
    BY <2>1, <1>1, <1>2 DEF SoundRow, NoRow, Working
  <2>2. CASE u \notin lost
    BY <2>2, <1>1, <1>4, Frame DEF TypeOK
  <2> QED
    BY <2>1, <2>2
<1> QED
  BY <1>4, <1>5, <1>6, <1>7, <1>8 DEF Inv

\* A task that gives up leaves the tables alone.
LEMMA AwaitRejectsInv ==
  ASSUME Inv, NEW t \in Task, AwaitRejects(t)
  PROVE  Inv'
<1> USE ManagerAssumption
<1>1. /\ pc[t] \notin {"idle", "failed", "done", "rejected"} /\ Throw(t)
      /\ crashes' \in Nat
      /\ UNCHANGED <<data, instance, reading, commands, replies, unlocks,
                     callbacks, redeliveries, did, undid, answered>>
  BY DEF AwaitRejects, Inv, TypeOK
<1>2. /\ pc' \in [Task -> Label] /\ mem' \in [Task -> SagaInstance]
      /\ act' \in [Task -> Actions]
      /\ LabelsOK' /\ RowsOK' /\ TasksOK' /\ RepliesOK' /\ CompensationJustified'
  BY <1>1, ThrowKeeps
<1>3. TypeOK'
  BY <1>1, <1>2 DEF Inv, TypeOK
<1>4. ReadingOK'
  BY <1>1, ReadingKept DEF Inv, TypeOK, Task, Throw, Goto
<1> QED
  BY <1>2, <1>3, <1>4 DEF Inv

\* A reply that is skipped is committed like any other.
LEMMA SkipReplyMessageInv ==
  ASSUME Inv, NEW n \in Node, NEW p \in Partition, SkipReplyMessage(n, p)
  PROVE  Inv'
<1> USE ManagerAssumption
<1>1. /\ CanRead(n, p) /\ pc' = [pc EXCEPT ![n] = "commit"]
      /\ reading' = [reading EXCEPT ![n] = p]
      /\ crashes' \in Nat
      /\ UNCHANGED <<data, instance, mem, act, commands, replies, unlocks,
                     callbacks, redeliveries, did, undid, answered>>
  BY DEF SkipReplyMessage, Goto, Inv, TypeOK
<1>2. TypeOK' /\ Grows
  BY <1>1 DEF Inv, TypeOK, Label, Task, Grows
<1>3. ReadingOK'
  BY <1>1 DEF Inv, ReadingOK, CanRead, TypeOK, Task
<1>4. LabelsOK'
  BY <1>1 DEF Inv, LabelsOK, TypeOK, Task
<1>5. RowsOK' /\ RepliesOK' /\ CompensationJustified'
  BY <1>1, <1>2, Frame DEF RowsOK, TypeOK
<1>6. TasksOK'
  <2> SUFFICES ASSUME NEW u \in Task
               PROVE  /\ SoundRow(mem[u].sagaId, mem[u].row)'
                      /\ pc'[u] \in Working =>
                           SoundActions(mem[u].sagaId, act[u])'
    BY DEF TasksOK, Working
  <2>1. pc'[u] \in Working => pc[u] \in Working
    BY <1>1 DEF Inv, TypeOK, Working
  <2> QED
    BY <1>1, <1>2, <2>1, Frame DEF TypeOK
<1> QED
  BY <1>2, <1>3, <1>4, <1>5, <1>6 DEF Inv

\* A command that is skipped is never answered.
LEMMA SkipCommandInv ==
  ASSUME Inv, NEW c \in commands, SkipCommand(c)
  PROVE  Inv'
<1>1. /\ crashes' \in Nat /\ commands' \subseteq commands
      /\ UNCHANGED <<data, instance, pc, mem, act, reading, replies, unlocks,
                     callbacks, redeliveries, did, undid, answered>>
  BY DEF SkipCommand, Inv, TypeOK
<1>2. TypeOK' /\ Grows
  BY <1>1 DEF Inv, TypeOK, Grows
<1>3. ReadingOK' /\ LabelsOK'
  BY <1>1 DEF Inv, ReadingOK, LabelsOK
<1>4. RowsOK' /\ RepliesOK' /\ CompensationJustified'
  BY <1>1, <1>2, Frame DEF RowsOK, TypeOK
<1>5. TasksOK'
  BY <1>1, <1>2, Frame DEF TasksOK, TypeOK, Working
<1> QED
  BY <1>2, <1>3, <1>4, <1>5 DEF Inv

\* Nothing changes.
LEMMA StutterInv ==
  ASSUME Inv, UNCHANGED vars
  PROVE  Inv'
<1> USE DEF vars
<1>1. TypeOK'
  BY DEF Inv, TypeOK
<1>2. Grows
  BY DEF Grows, Inv, TypeOK
<1>3. ReadingOK' /\ LabelsOK'
  BY DEF Inv, ReadingOK, LabelsOK
<1>4. RowsOK' /\ RepliesOK' /\ CompensationJustified'
  BY <1>1, <1>2, Frame DEF RowsOK, TypeOK
<1>5. TasksOK'
  BY <1>1, <1>2, Frame DEF TasksOK, TypeOK, Working
<1> QED
  BY <1>1, <1>3, <1>4, <1>5 DEF Inv

-----------------------------------------------------------------------------
(* Theorems *)

\* The invariant holds in every state the manager reaches.
THEOREM Invariance == Spec => []Inv
<1>1. Inv /\ [Next]_vars => Inv'
  <2> SUFFICES ASSUME Inv, [Next]_vars
               PROVE  Inv'
    OBVIOUS
  <2>1. ASSUME NEW s \in Saga, Create(s) PROVE Inv'
    BY <2>1, CreateInv
  <2>2. ASSUME NEW s \in Saga, Start(s) PROVE Inv'
    BY <2>2, StartInv
  <2>3. ASSUME NEW t \in Task, ProcessActions(t) PROVE Inv'
    BY <2>3, LocalExceptionInv, SendCommandsInv, PerformEndStateActionsInv,
       UpdateInv, ContinueInv DEF ProcessActions
  <2>4. ASSUME NEW n \in Node, NEW p \in Partition, HandleReplyMessage(n, p)
        PROVE  Inv'
    BY <2>4, HandleReplyMessageInv
  <2>5. ASSUME NEW n \in Node, NEW p \in Partition, RejectReplyMessage(n, p)
        PROVE  Inv'
    BY <2>5, RejectReplyMessageInv
  <2>6. ASSUME NEW n \in Node, Retry(n) \/ Commit(n) \/ Crash(n) PROVE Inv'
    BY <2>6, RetryInv, CommitInv, CrashInv
  <2>7. ASSUME NEW c \in commands, NEW p \in Partition, NEW o \in Outcome,
               Participate(c, p, o)
        PROVE  Inv'
    BY <2>7, ParticipateInv
  <2>8. CASE UNCHANGED vars
    BY <2>8, StutterInv
  <2>9. ASSUME NEW t \in Task, AwaitRejects(t) PROVE Inv'
    BY <2>9, AwaitRejectsInv
  <2>10. ASSUME NEW n \in Node, NEW p \in Partition, SkipReplyMessage(n, p)
         PROVE  Inv'
    BY <2>10, SkipReplyMessageInv
  <2>11. ASSUME NEW c \in commands, SkipCommand(c) PROVE Inv'
    BY <2>11, SkipCommandInv
  <2> QED
    BY <2>1, <2>2, <2>3, <2>4, <2>5, <2>6, <2>7, <2>8, <2>9, <2>10, <2>11
    DEF Next, Terminated
<1> QED
  BY <1>1, InitInv, PTL DEF Spec

\* Every variable keeps its type.
THEOREM TypeCorrect == Spec => []TypeOK
<1>1. Inv => TypeOK
  BY DEF Inv
<1> QED
  BY <1>1, Invariance, PTL

\* However many nodes there are, and whatever is lost, repeated or reordered,
\* a stored state never claims a step that was not started, and no saga
\* completes with a step left out.
THEOREM NoStepIsSkipped == Spec => []NothingSkipped
<1>1. Inv => NothingSkipped
  BY DEF Inv, RowsOK, SoundRow, NothingSkipped
<1> QED
  BY <1>1, Invariance, PTL

\* No participant is asked to compensate a step that was not reached, or for
\* a saga in which nothing has failed.
THEOREM CompensationsAreJustified == Spec => []CompensationJustified
<1>1. Inv => CompensationJustified
  BY DEF Inv
<1> QED
  BY <1>1, Invariance, PTL
=============================================================================
