----------------------- MODULE SagaRefinement_proofs ------------------------
(***************************************************************************)
(* What SagaManager promises beyond what holds of every deployment.        *)
(*                                                                         *)
(* Alone: one node reads the replies, and no saga begins with a local      *)
(* step.  Then every row has one writer at a time, so that an ended saga   *)
(* is never touched again and a compensating one never goes forward,       *)
(* whatever crashes and whatever is delivered twice.                       *)
(*                                                                         *)
(* Calm: besides, nothing crashes, nothing is delivered twice, and no      *)
(* local compensation returns a truthy value.  Then each saga is in one    *)
(* place at a time, in a task's hands or in one message, and the manager   *)
(* implements SagaPattern.                                                 *)
(***************************************************************************)
EXTENDS SagaManager_proofs, FiniteSetTheorems

\* In every valuation a local step has a remote one before it.
RemoteFirst ==
  \A d \in Data : \A k \in Local : \E j \in Invocable[d] : j < k

Alone == RemoteFirst /\ \E n : Node = {n}

Calm == Alone /\ MaxCrashes = 0 /\ MaxRedeliveries = 0 /\ Truthy = {}

-----------------------------------------------------------------------------
(* One writer *)

Active == {"process", "end", "update", "continue"}

\* While create is at work the row says so, and nobody else can read it.
CreateOK ==
  \A s \in Saga :
    /\ pc[s] \in {"idle", "start", "process", "end", "update", "done", "rejected"}
    /\ pc[s] = "idle" => instance[s] = NoRow
    /\ pc[s] \in {"start", "process", "end", "update"} =>
         instance[s] = Unstarted /\ mem[s].sagaId = s
    /\ pc[s] \in {"process", "end", "update"} =>
         act[s].kind \in {"remote", "end"} /\ ~act[s].compensating

\* A node works on a row that runs, and has not turned it round.
NodeOK ==
  \A n \in Node :
    pc[n] \in Active =>
      LET row == instance[mem[n].sagaId]
      IN  row.stage = "running" /\ (row.compensating => act[n].compensating)

RowOf(a) == [stage |-> IF a.kind = "end" THEN "ended" ELSE "running",
             currentlyExecuting |-> a.step, compensating |-> a.compensating]

\* The row a task is about to write is that of its actions.
WriteOK ==
  \A t \in Task :
    /\ pc[t] \in {"end", "update"} => mem[t].row = RowOf(act[t])
    /\ pc[t] = "end" => act[t].kind = "end"

OneWriter == CreateOK /\ NodeOK /\ WriteOK

-----------------------------------------------------------------------------
(* One place *)

Acts(s) == {j \in Step : HasAction(j, data[s])}
Comps(s) == LocalCompensation \cup Compensable[data[s]]
Began(s) == {j \in Step : did[s][j] > 0}
Ok(s) == Answers(s, FALSE, "SUCCESS")
Broken(s) == Answers(s, FALSE, "FAILURE")
Undoes(s) == {j \in Step : undid[s][j] > 0}
Undone(s) == Answers(s, TRUE, "SUCCESS")

\* The actions up to j have begun and those up to k have succeeded.
Forward(s, j, k) ==
  /\ Began(s) = {i \in Acts(s) : i <= j}
  /\ Ok(s) = {i \in Acts(s) : i <= k}
  /\ Broken(s) = {} /\ Undoes(s) = {} /\ Undone(s) = {}

\* Action f has failed, those before it have succeeded, and of these the
\* compensations down to j have begun and those down to k are done.
BackFrom(f, s, j, k) ==
  /\ f \in Acts(s) /\ j <= f
  /\ Broken(s) = {f}
  /\ Ok(s) = {i \in Acts(s) : i < f}
  /\ Began(s) = {i \in Acts(s) : i < f \/ (i = f /\ f \notin Local)}
  /\ Undoes(s) = {i \in Comps(s) : j <= i /\ i < f}
  /\ Undone(s) = {i \in Comps(s) : k <= i /\ i < f}

Backward(s, j, k) == \E f \in Step : BackFrom(f, s, j, k)

\* Everything begun is answered, and the saga stands at st.
Stands(s, st) ==
  LET j == st.currentlyExecuting
  IN  IF st.compensating THEN Backward(s, j, j) ELSE Forward(s, j, j)

\* The command of step j, or of its compensation, is not answered.
Sent(s, j, compensating) ==
  /\ j \notin Local
  /\ IF compensating THEN j \in Undoes(s) /\ Backward(s, j, j + 1)
                     ELSE j \in Acts(s) /\ Forward(s, j, j - 1)

\* Where a saga stands for which actions a were chosen.
Target(a) ==
  [currentlyExecuting |->
     CASE a.kind = "end"    -> IF a.compensating THEN 0 ELSE NumSteps - 1
       [] a.kind = "remote" -> IF a.compensating THEN a.step + 1 ELSE a.step - 1
       [] OTHER             -> a.step,
   compensating |-> a.compensating \/ a.kind = "exception"]

Chosen(s, a) ==
  /\ Stands(s, Target(a))
  /\ a.kind = "remote" =>
       a.step \in (IF a.compensating THEN Comps(s) ELSE Acts(s)) \ Local
  /\ a.kind \in {"local", "exception"} => ~a.compensating

\* What a reply that nobody has handled says.
Replied(r) ==
  IF r.compensating /\ r.outcome = "FAILURE"
  THEN Sent(r.saga, r.step, TRUE)
  ELSE Stands(r.saga, [currentlyExecuting |-> r.step,
                       compensating |-> r.compensating \/ r.outcome = "FAILURE"])

Handling == Active \cup {"commit"}

Fresh(p) ==
  {i \in 1 .. Len(replies[p]) :
     ~(i = 1 /\ \E n \in Node : reading[n] = p /\ pc[n] \in Handling)}

\* Task t works for saga s.
Busy(t, s) ==
  /\ mem[t].sagaId = s
  /\ pc[t] \in Active \/ (t \in Saga /\ pc[t] = "start")

\* What a message is about is what the row says, or a task is about to write.
Agrees(s, j, compensating) ==
  LET a == [kind |-> "remote", step |-> j, compensating |-> compensating]
  IN  \/ instance[s] = RowOf(a) /\ \A t \in Task : ~Busy(t, s)
      \/ \E t \in Task : Busy(t, s) /\ pc[t] = "update" /\ act[t] = a

MailOK(s) ==
  /\ \A c \in commands : c.saga = s =>
       Sent(s, c.step, c.compensating) /\ Agrees(s, c.step, c.compensating)
  /\ \A r \in Reply : \A p \in Partition : \A i \in Fresh(p) :
       replies[p][i] = r /\ r.saga = s =>
         Replied(r) /\ Agrees(s, r.step, r.compensating)

\* A saga has one message at most.
OneMessage(s) ==
  /\ \A b, c \in commands : b.saga = s /\ c.saga = s => b = c
  /\ \A c \in commands : c.saga = s =>
       \A p \in Partition : \A i \in Fresh(p) : replies[p][i].saga # s
  /\ \A p, q \in Partition : \A i \in Fresh(p) : \A k \in Fresh(q) :
       replies[p][i].saga = s /\ replies[q][k].saga = s => p = q /\ i = k

NoMail(s) ==
  /\ \A c \in commands : c.saga # s
  /\ \A p \in Partition : \A i \in Fresh(p) : replies[p][i].saga # s

End(b) == {IF b THEN "rolledBack" ELSE "completed"}

\* What task t holds when it is at saga s with actions a: the saga is where
\* the actions were chosen, unless their command is on its way.
TaskStands(t, s, a) ==
  /\ \/ pc[t] = "update" /\ a.kind = "remote"
     \/ Chosen(s, a)
  /\ callbacks[s] = IF pc[t] = "update" /\ a.kind = "end"
                    THEN End(a.compensating) ELSE {}
  /\ a.kind = "exception" => pc[t] = "process"

TasksStand(s) ==
  /\ pc[s] \in {"idle", "start"} => Stands(s, InitialState) /\ callbacks[s] = {}
  /\ pc[s] # "rejected"
  /\ \A t \in Task, a \in Actions :
       pc[t] \in Active /\ mem[t].sagaId = s /\ act[t] = a => TaskStands(t, s, a)

EndStanding(s, b) == Stands(s, Target([NoActions EXCEPT !.compensating = b]))

\* A saga whose owner was called back has ended, or is about to be written so.
EndOK(s) ==
  /\ instance[s].stage = "ended" => callbacks[s] = End(instance[s].compensating)
  /\ callbacks[s] # {} =>
       /\ \E b \in BOOLEAN : callbacks[s] = End(b) /\ EndStanding(s, b)
       /\ \/ instance[s].stage = "ended"
          \/ \E t \in Task : Busy(t, s) /\ pc[t] = "update" /\ act[t].kind = "end"
  /\ \A u \in unlocks : u[1] = s => callbacks[s] # {}

\* Nothing is started twice.
CountsOK(s) == \A j \in Step : did[s][j] <= 1 /\ undid[s][j] <= 1

Place(s) ==
  MailOK(s) /\ OneMessage(s) /\ TasksStand(s) /\ EndOK(s) /\ CountsOK(s)

OnePlace == \A s \in Saga : Place(s)

-----------------------------------------------------------------------------
(* The definition *)

\* What executeNextStep chooses.
LEMMA NextActions ==
  ASSUME NEW d \in Data, NEW st \in ExecutionState,
         NEW a \in ExecuteNextStep(st, d)
  PROVE  /\ a \in Actions /\ a.compensating = st.compensating
         /\ \/ a = EndActions(st) /\ a.kind = "end" /\ Eligible(st, d) = {}
            \/ /\ a.kind \in {"remote", "local", "exception"}
               /\ a.step \in Step /\ IsNext(a.step, st, d)
               /\ a.kind = "remote" <=> a.step \notin Local
<1>1. CASE Eligible(st, d) = {}
  BY <1>1 DEF ExecuteNextStep, EndActions, Actions, ActionKind, ExecutionState
<1>2. CASE Eligible(st, d) # {}
  <2>1. PICK j \in Step : IsNext(j, st, d) /\ a \in ExecuteStep(j, st)
    BY <1>2 DEF ExecuteNextStep
  <2> QED BY <2>1 DEF ExecuteStep, Actions, ActionKind, ExecutionState
<1> QED BY <1>1, <1>2

LEMMA InitialIsState == InitialState \in ExecutionState /\ ~InitialState.compensating
  BY DEF InitialState, ExecutionState

\* A saga does not begin with a local step.
LEMMA FirstIsRemote ==
  ASSUME RemoteFirst, NEW d \in Data, NEW a \in ExecuteNextStep(InitialState, d)
  PROVE  a.kind \in {"remote", "end"} /\ ~a.compensating
<1> USE DefinitionAssumption
<1>1. InitialState \in ExecutionState /\ ~InitialState.compensating
  BY InitialIsState
<1>2. a.step \in Local => ~IsNext(a.step, InitialState, d)
  <2> SUFFICES ASSUME a.step \in Local, IsNext(a.step, InitialState, d)
               PROVE  FALSE
    OBVIOUS
  <2>1. PICK j \in Invocable[d] : j < a.step
    BY DEF RemoteFirst
  <2>2. j \in Step /\ HasAction(j, d) /\ a.step \in Step
    BY DEF HasAction
  <2>3. j \in Eligible(InitialState, d)
    BY <2>2 DEF Eligible, Ahead, InitialState, NoStep, Step
  <2>4. a.step <= j
    BY <1>1, <2>3 DEF IsNext
  <2> QED BY <2>1, <2>2, <2>4 DEF Step
<1> QED BY <1>1, <1>2, NextActions

\* What Decide does to the task and, when compensating, leaves alone.
LEMMA Decides ==
  ASSUME TypeOK, NEW t \in Task, NEW s \in Saga, NEW st \in ExecutionState,
         Decide(t, s, st)
  PROVE  /\ act'[t] \in ExecuteNextStep(st, data[s])
         /\ act'[t].compensating = st.compensating
         /\ \A u \in Task \ {t} : act'[u] = act[u]
         /\ \A r \in Saga \ {s} : did'[r] = did[r] /\ undid'[r] = undid[r]
         /\ st.compensating => did'[s] = did[s]
<1>1. PICK a \in ExecuteNextStep(st, data[s]) :
        /\ act' = [act EXCEPT ![t] = a]
        /\ did' = [did EXCEPT ![s] =
             [j \in Step |-> IF Ran(a, j, FALSE) THEN @[j] + 1 ELSE @[j]]]
        /\ undid' = [undid EXCEPT ![s] =
             [j \in Step |-> @[j]
                             + (IF j \in Probed(st, data[s]) THEN 1 ELSE 0)
                             + (IF Ran(a, j, TRUE) THEN 1 ELSE 0)]]
  BY DEF Decide
<1>2. act'[t] = a /\ \A u \in Task \ {t} : act'[u] = act[u]
  BY <1>1 DEF TypeOK
<1>3. a.compensating = st.compensating
  BY NextActions DEF TypeOK
<1>4. \A r \in Saga \ {s} : did'[r] = did[r] /\ undid'[r] = undid[r]
  BY <1>1 DEF TypeOK
<1>5. ASSUME st.compensating PROVE did'[s] = did[s]
  <2>1. \A j \in Step : ~Ran(a, j, FALSE)
    BY <1>3, <1>5 DEF Ran
  <2>2. did'[s] = [j \in Step |-> did[s][j]]
    BY <1>1, <2>1 DEF TypeOK
  <2> QED BY <2>2 DEF TypeOK
<1> QED BY <1>2, <1>3, <1>4, <1>5

-----------------------------------------------------------------------------
(* Rows with one writer *)

Final(s) ==
  instance[s].stage = "ended" =>
    /\ instance'[s] = instance[s]
    /\ did'[s] = did[s] /\ undid'[s] = undid[s]

Onward(s) ==
  instance[s].stage = "running" /\ instance[s].compensating =>
    instance'[s].compensating /\ did'[s] = did[s]

Kept == OneWriter' /\ \A s \in Saga : Final(s) /\ Onward(s)

LEMMA TasksApart ==
  Saga \subseteq Task /\ Node \subseteq Task /\ \A t \in Task : t \in Saga <=> t \notin Node
  BY ManagerAssumption DEF Task

\* Nothing is written, and the tasks stay where they are.
LEMMA StillKept ==
  ASSUME Inv, OneWriter, UNCHANGED <<instance, pc, mem, act, did, undid>>
  PROVE  Kept
  BY DEF Kept, OneWriter, CreateOK, NodeOK, WriteOK, Final, Onward, Inv, TypeOK

\* Tasks only give up, or go on without a word.
LEMMA IdleKept ==
  ASSUME Inv, OneWriter, UNCHANGED <<instance, did, undid>>,
         \A t \in Task :
           \/ pc'[t] = pc[t] /\ mem'[t] = mem[t] /\ act'[t] = act[t]
           \/ t \in Node /\ pc'[t] \notin Active
           \/ t \in Saga /\ pc'[t] \in {"done", "rejected"}
  PROVE  Kept
<1>1. CreateOK'
  BY TasksApart DEF OneWriter, CreateOK
<1>2. NodeOK'
  BY TasksApart DEF OneWriter, NodeOK
<1>3. WriteOK'
  BY TasksApart DEF OneWriter, WriteOK, Active
<1>4. \A s \in Saga : Final(s) /\ Onward(s)
  BY DEF Final, Onward, Inv, TypeOK
<1> QED BY <1>1, <1>2, <1>3, <1>4 DEF Kept, OneWriter

LEMMA CreateKept ==
  ASSUME Inv, OneWriter, NEW s \in Saga, Create(s)
  PROVE  Kept
<1>1. /\ pc[s] = "idle" /\ pc' = [pc EXCEPT ![s] = "start"]
      /\ instance' = [instance EXCEPT ![s] = Unstarted]
      /\ mem' = [mem EXCEPT ![s] = InstanceOf(s, Unstarted)]
      /\ UNCHANGED <<act, did, undid>>
  BY DEF Create, Goto
<1>2. /\ instance[s] = NoRow /\ instance'[s] = Unstarted
      /\ \A r \in Saga \ {s} : instance'[r] = instance[r]
  BY <1>1 DEF OneWriter, CreateOK, Inv, TypeOK
<1>3. /\ pc'[s] = "start" /\ mem'[s].sagaId = s /\ s \in Task
      /\ \A u \in Task \ {s} : pc'[u] = pc[u] /\ mem'[u] = mem[u]
  BY <1>1, TasksApart DEF Inv, TypeOK, InstanceOf
<1>4. CreateOK'
  BY <1>1, <1>2, <1>3, TasksApart DEF OneWriter, CreateOK
<1>5. NodeOK'
  <2> SUFFICES ASSUME NEW n \in Node, pc'[n] \in Active
               PROVE  /\ instance'[mem'[n].sagaId].stage = "running"
                      /\ instance'[mem'[n].sagaId].compensating => act'[n].compensating
    BY DEF NodeOK
  <2>1. pc'[n] = pc[n] /\ mem'[n] = mem[n] /\ mem[n].sagaId \in Saga
    BY <1>3, TasksApart DEF Inv, TypeOK, SagaInstance
  <2>2. mem[n].sagaId # s
    BY <1>2, <2>1 DEF OneWriter, NodeOK, NoRow
  <2> QED BY <1>1, <1>2, <2>1, <2>2 DEF OneWriter, NodeOK
<1>6. WriteOK'
  BY <1>1, <1>3 DEF OneWriter, WriteOK
<1>7. \A r \in Saga : Final(r) /\ Onward(r)
  BY <1>1, <1>2 DEF Final, Onward, NoRow
<1> QED BY <1>4, <1>5, <1>6, <1>7 DEF Kept, OneWriter

\* A task goes on with actions it has just chosen for its saga, whose row it
\* leaves alone.
LEMMA DecideKept ==
  ASSUME Inv, OneWriter, NEW t \in Task, NEW s \in Saga, NEW st \in ExecutionState,
         Decide(t, s, st), instance' = instance, pc'[t] = "process",
         \A u \in Task \ {t} : pc'[u] = pc[u] /\ mem'[u] = mem[u],
         mem'[t].sagaId = s,
         \/ t = s /\ instance[s] = Unstarted /\ act'[t].kind \in {"remote", "end"}
                  /\ ~st.compensating
         \/ t \in Node /\ instance[s].stage = "running"
                     /\ (instance[s].compensating => st.compensating)
  PROVE  Kept
<1>1. /\ act'[t].compensating = st.compensating
      /\ \A u \in Task \ {t} : act'[u] = act[u]
      /\ \A r \in Saga \ {s} : did'[r] = did[r] /\ undid'[r] = undid[r]
      /\ st.compensating => did'[s] = did[s]
  BY Decides DEF Inv
<1>2. CreateOK'
  BY <1>1, TasksApart DEF OneWriter, CreateOK
<1>3. NodeOK'
  BY <1>1, TasksApart DEF OneWriter, NodeOK
<1>4. WriteOK'
  BY <1>1 DEF OneWriter, WriteOK
<1>5. \A r \in Saga : Final(r) /\ Onward(r)
  BY <1>1 DEF Final, Onward, Unstarted, NoRow
<1> QED BY <1>2, <1>3, <1>4, <1>5 DEF Kept, OneWriter

LEMMA StartKept ==
  ASSUME Inv, OneWriter, RemoteFirst, NEW s \in Saga, Start(s)
  PROVE  Kept
<1>1. /\ pc[s] = "start" /\ pc' = [pc EXCEPT ![s] = "process"] /\ mem' = mem
      /\ instance' = instance /\ Decide(s, s, InitialState) /\ s \in Task
  BY TasksApart DEF Start, Goto
<1>2. instance[s] = Unstarted /\ mem[s].sagaId = s
  BY <1>1 DEF OneWriter, CreateOK
<1>3. act'[s].kind \in {"remote", "end"}
  BY <1>1, InitialIsState, Decides, FirstIsRemote DEF Inv, TypeOK
<1>4. pc'[s] = "process" /\ \A u \in Task \ {s} : pc'[u] = pc[u] /\ mem'[u] = mem[u]
  BY <1>1 DEF Inv, TypeOK
<1> QED BY <1>1, <1>2, <1>3, <1>4, InitialIsState, DecideKept

LEMMA UpdatedIsState ==
  ASSUME NEW a \in Actions, NEW o \in Outcome
  PROVE  /\ AfterReply(UpdatedState(a), o) \in ExecutionState
         /\ AfterReply(UpdatedState(a), o).compensating
              <=> a.compensating \/ o = "FAILURE"
  BY DEF AfterReply, UpdatedState, StartCompensating, ExecutionState, Actions,
         Outcome

\* A task is a create call or a node, and the saga it is at is its own or runs.
LEMMA TaskKinds ==
  ASSUME Inv, OneWriter, NEW t \in Task, pc[t] \in Active
  PROVE  /\ mem[t].sagaId \in Saga /\ act[t] \in Actions /\ mem[t].row \in Row
         /\ \/ /\ t \in Saga /\ mem[t].sagaId = t /\ instance[t] = Unstarted
               /\ act[t].kind \in {"remote", "end"} /\ ~act[t].compensating
            \/ /\ t \in Node /\ instance[mem[t].sagaId].stage = "running"
               /\ instance[mem[t].sagaId].compensating => act[t].compensating
<1>1. mem[t].sagaId \in Saga /\ act[t] \in Actions /\ mem[t].row \in Row
  BY DEF Inv, TypeOK, SagaInstance
<1>2. CASE t \in Saga
  <2>1. pc[t] # "continue"
    BY <1>2 DEF OneWriter, CreateOK
  <2> QED BY <1>1, <1>2, <2>1 DEF OneWriter, CreateOK, Active
<1>3. CASE t \in Node
  BY <1>1, <1>3 DEF OneWriter, NodeOK
<1> QED BY <1>2, <1>3, TasksApart

LEMMA ExceptionKept ==
  ASSUME Inv, OneWriter, NEW t \in Task, LocalException(t)
  PROVE  Kept
<1> DEFINE st == AfterReply(UpdatedState(act[t]), "FAILURE")
           s  == mem[t].sagaId
<1>1. pc[t] = "process" /\ act[t].kind = "exception" /\ instance' = instance
  BY DEF LocalException
<1>2. /\ t \in Node /\ s \in Saga /\ act[t] \in Actions
      /\ instance[s].stage = "running"
  BY <1>1, TaskKinds DEF Active
<1>3. CASE Throw(t) /\ UNCHANGED <<did, undid, answered>>
  <2>1. \A u \in Task \ {t} : pc'[u] = pc[u] /\ mem'[u] = mem[u] /\ act'[u] = act[u]
    BY <1>3 DEF Throw, Goto, Inv, TypeOK
  <2>2. pc'[t] = "failed"
    BY <1>2, <1>3 DEF Throw, Goto, Inv, TypeOK
  <2> QED BY <1>1, <1>2, <1>3, <2>1, <2>2, IdleKept DEF Active
<1>4. CASE Decide(t, s, st) /\ UNCHANGED <<pc, mem>>
  <2>1. st \in ExecutionState /\ st.compensating
    BY <1>2, UpdatedIsState DEF Outcome
  <2> HIDE DEF st
  <2> QED BY <1>1, <1>2, <1>4, <2>1, DecideKept
<1> QED BY <1>3, <1>4 DEF LocalException

LEMMA ContinueKept ==
  ASSUME Inv, OneWriter, NEW t \in Task, Continue(t)
  PROVE  Kept
<1> DEFINE st == AfterReply(UpdatedState(act[t]), "SUCCESS")
           s  == mem[t].sagaId
<1>1. /\ pc[t] = "continue" /\ pc' = [pc EXCEPT ![t] = "process"]
      /\ Decide(t, s, st) /\ UNCHANGED <<instance, mem>>
  BY DEF Continue, Goto
<1>2. act[t].kind = "local"
  BY <1>1 DEF Inv, LabelsOK
<1>3. /\ t \in Node /\ s \in Saga /\ act[t] \in Actions
      /\ instance[s].stage = "running"
      /\ instance[s].compensating => act[t].compensating
  BY <1>1, <1>2, TaskKinds DEF Active
<1>4. /\ pc'[t] = "process"
      /\ \A u \in Task \ {t} : pc'[u] = pc[u] /\ mem'[u] = mem[u]
  BY <1>1 DEF Inv, TypeOK
<1>5. st \in ExecutionState /\ (st.compensating <=> act[t].compensating)
  BY <1>3, UpdatedIsState DEF Outcome
<1> HIDE DEF st
<1> QED BY <1>1, <1>3, <1>4, <1>5, DecideKept

LEMMA HandleReplyKept ==
  ASSUME Inv, OneWriter, NEW n \in Node, NEW p \in Partition,
         HandleReplyMessage(n, p)
  PROVE  Kept
<1> DEFINE r   == Head(replies[p])
           s   == r.saga
           st  == AfterReply(StateOf(instance[s]), r.outcome)
<1>1. /\ CanRead(n, p) /\ ~Unreadable(r) /\ Decide(n, s, st)
      /\ mem' = [mem EXCEPT ![n] =
           [InstanceOf(s, instance[s]) EXCEPT !.destinationsAndResources =
              IF r.locked THEN {r.step} ELSE {}]]
      /\ pc' = [pc EXCEPT ![n] = "process"] /\ instance' = instance
  BY DEF HandleReplyMessage, Goto
<1>2. r \in Reply /\ s \in Saga /\ r.outcome \in Outcome /\ instance[s] \in Row
      /\ SoundRow(s, instance[s])
  <2>1. replies[p] \in Seq(Reply) /\ replies[p] # <<>>
    BY <1>1 DEF Inv, TypeOK, CanRead
  <2>2. r \in Reply
    BY <2>1
  <2> QED BY <2>2 DEF Reply, Inv, TypeOK, RowsOK
<1>3. /\ instance[s].stage = "running"
      /\ instance[s].currentlyExecuting \in Step
  <2>1. ~Unreadable(r)
    BY <1>1
  <2>2. /\ instance[s].stage \notin {"absent", "unparsable"}
        /\ instance[s].currentlyExecuting \in Step
    <3> HIDE DEF r
    <3> QED BY <2>1 DEF Unreadable, HandleReplyThrows, StateOf
  <2> HIDE DEF s
  <2> QED BY <1>2, <2>2 DEF Row, Stage, SoundRow, NoStep, Step
<1>4. st \in ExecutionState /\ (instance[s].compensating => st.compensating)
  BY <1>2, <1>3 DEF AfterReply, StateOf, StartCompensating, ExecutionState, Row,
     Outcome
<1>5. /\ pc'[n] = "process" /\ mem'[n].sagaId = s /\ n \in Task
      /\ \A u \in Task \ {n} : pc'[u] = pc[u] /\ mem'[u] = mem[u]
  BY <1>1, TasksApart DEF Inv, TypeOK, InstanceOf
<1> HIDE DEF st, s
<1> QED BY <1>1, <1>2, <1>3, <1>4, <1>5, DecideKept

LEMMA SendCommandsKept ==
  ASSUME Inv, OneWriter, NEW t \in Task, SendCommands(t)
  PROVE  Kept
<1> DEFINE a == act[t]
           s == mem[t].sagaId
<1>1. /\ pc[t] = "process" /\ a.kind # "exception"
      /\ mem' = [mem EXCEPT ![t].row = RowOf(a)]
      /\ pc' = [pc EXCEPT ![t] = AfterSend(a)]
      /\ UNCHANGED <<instance, act>>
      /\ \/ a.kind # "remote" /\ did' = did /\ undid' = undid
         \/ /\ did' = [did EXCEPT ![s][a.step] = IF a.compensating THEN @ ELSE @ + 1]
            /\ undid' = [undid EXCEPT ![s][a.step] = IF a.compensating THEN @ + 1 ELSE @]
  BY DEF SendCommands, Goto, RowOf
<1>2. /\ s \in Saga /\ a \in Actions
      /\ \/ /\ t \in Saga /\ s = t /\ instance[t] = Unstarted
            /\ a.kind \in {"remote", "end"} /\ ~a.compensating
         \/ /\ t \in Node /\ instance[s].stage = "running"
            /\ instance[s].compensating => a.compensating
  BY <1>1, TaskKinds DEF Active
<1>3. /\ pc'[t] \in {"end", "update"} /\ (pc'[t] = "end" => a.kind = "end")
      /\ mem'[t].sagaId = s /\ mem'[t].row = RowOf(a)
      /\ \A u \in Task \ {t} : pc'[u] = pc[u] /\ mem'[u] = mem[u]
  <2>1. mem[t] \in SagaInstance
    BY DEF Inv, TypeOK
  <2> QED BY <1>1, <2>1 DEF Inv, TypeOK, AfterSend, SagaInstance
<1> HIDE DEF a, s
<1>4. CreateOK'
  BY <1>1, <1>2, <1>3, TasksApart DEF OneWriter, CreateOK, a, s
<1>5. NodeOK'
  BY <1>1, <1>2, <1>3, TasksApart DEF OneWriter, NodeOK, a, s
<1>6. WriteOK'
  BY <1>1, <1>3 DEF OneWriter, WriteOK, a
<1>7. /\ \A r \in Saga \ {s} : did'[r] = did[r] /\ undid'[r] = undid[r]
      /\ a.compensating => did'[s] = did[s]
  BY <1>1, <1>2 DEF Inv, TypeOK
<1>8. \A r \in Saga : Final(r) /\ Onward(r)
  BY <1>1, <1>2, <1>7 DEF Final, Onward, Unstarted, NoRow
<1> QED BY <1>4, <1>5, <1>6, <1>8 DEF Kept, OneWriter

LEMMA EndStateKept ==
  ASSUME Inv, OneWriter, NEW t \in Task, PerformEndStateActions(t)
  PROVE  Kept
<1>1. /\ pc[t] = "end" /\ pc' = [pc EXCEPT ![t] = "update"]
      /\ UNCHANGED <<instance, mem, act, did, undid>>
  BY DEF PerformEndStateActions, Goto
<1>2. pc'[t] = "update" /\ \A u \in Task \ {t} : pc'[u] = pc[u]
  BY <1>1 DEF Inv, TypeOK
<1>3. CreateOK' /\ NodeOK' /\ WriteOK'
  BY <1>1, <1>2 DEF OneWriter, CreateOK, NodeOK, WriteOK, Active
<1>4. \A s \in Saga : Final(s) /\ Onward(s)
  BY <1>1 DEF Final, Onward
<1> QED BY <1>3, <1>4 DEF Kept, OneWriter

\* With one node, nobody else is at a row that is written.
LEMMA UpdateKept ==
  ASSUME Inv, OneWriter, Alone, NEW t \in Task, Update(t)
  PROVE  Kept
<1> DEFINE a == act[t]
           s == mem[t].sagaId
<1>1. /\ pc[t] = "update" /\ instance' = [instance EXCEPT ![s] = mem[t].row]
      /\ pc' = [pc EXCEPT ![t] = IF a.kind = "local" THEN "continue"
                                ELSE IF t \in Node THEN "commit" ELSE "done"]
      /\ UNCHANGED <<mem, act, did, undid>>
  BY DEF Update, Goto
<1>2. /\ s \in Saga /\ a \in Actions
      /\ \/ /\ t \in Saga /\ s = t /\ instance[t] = Unstarted
            /\ a.kind \in {"remote", "end"} /\ ~a.compensating
         \/ /\ t \in Node /\ instance[s].stage = "running"
            /\ instance[s].compensating => a.compensating
  BY <1>1, TaskKinds DEF Active
<1>3. /\ instance'[s] = RowOf(a)
      /\ \A r \in Saga \ {s} : instance'[r] = instance[r]
      /\ pc'[t] = IF a.kind = "local" THEN "continue"
                  ELSE IF t \in Node THEN "commit" ELSE "done"
      /\ \A u \in Task \ {t} : pc'[u] = pc[u]
  BY <1>1, <1>2 DEF Inv, TypeOK, OneWriter, WriteOK
<1> HIDE DEF a, s
<1>4. CreateOK'
  <2> SUFFICES ASSUME NEW r \in Saga
               PROVE  /\ pc'[r] \in {"idle", "start", "process", "end", "update",
                                     "done", "rejected"}
                      /\ pc'[r] = "idle" => instance'[r] = NoRow
                      /\ pc'[r] \in {"start", "process", "end", "update"} =>
                           instance'[r] = Unstarted /\ mem'[r].sagaId = r
                      /\ pc'[r] \in {"process", "end", "update"} =>
                           act'[r].kind \in {"remote", "end"} /\ ~act'[r].compensating
    BY DEF CreateOK
  <2>1. CASE r = t
    BY <1>2, <1>3, <2>1, TasksApart DEF a
  <2>2. CASE r # t
    <3>1. pc'[r] = pc[r] /\ mem'[r] = mem[r] /\ act'[r] = act[r] /\ r \in Task
      BY <1>1, <1>3, <2>2, TasksApart
    <3>2. pc[r] \in {"idle", "start", "process", "end", "update"} => r # s
      BY <1>2, <2>2 DEF OneWriter, CreateOK, NoRow, Unstarted
    <3> QED BY <1>3, <3>1, <3>2 DEF OneWriter, CreateOK
  <2> QED BY <2>1, <2>2
<1>5. NodeOK'
  <2> SUFFICES ASSUME NEW n \in Node, pc'[n] \in Active
               PROVE  /\ instance'[mem'[n].sagaId].stage = "running"
                      /\ instance'[mem'[n].sagaId].compensating => act'[n].compensating
    BY DEF NodeOK
  <2>1. CASE n = t
    BY <1>1, <1>3, <2>1 DEF Active, RowOf, a, s
  <2>2. CASE n # t
    <3>1. t \notin Node /\ n \in Task
      BY <2>2, TasksApart DEF Alone
    <3>2. pc'[n] = pc[n] /\ mem'[n] = mem[n] /\ act'[n] = act[n]
      BY <1>1, <1>3, <2>2, <3>1
    <3>3. mem[n].sagaId # s /\ mem[n].sagaId \in Saga
      BY <1>2, <3>1, <3>2, TaskKinds DEF OneWriter, NodeOK, Unstarted, NoRow
    <3> QED BY <1>3, <3>2, <3>3 DEF OneWriter, NodeOK
  <2> QED BY <2>1, <2>2
<1>6. WriteOK'
  BY <1>1, <1>3 DEF OneWriter, WriteOK
<1>7. \A r \in Saga : Final(r) /\ Onward(r)
  BY <1>1, <1>2, <1>3 DEF Final, Onward, Unstarted, NoRow, RowOf
<1> QED BY <1>4, <1>5, <1>6, <1>7 DEF Kept, OneWriter

LEMMA NextKept ==
  ASSUME Inv, OneWriter, Alone, [Next]_vars
  PROVE  Kept
<1>1. ASSUME NEW t \in Task, pc[t] \notin {"idle", "failed", "done", "rejected"}, Throw(t),
             UNCHANGED <<instance, did, undid>>
      PROVE  Kept
  <2>1. /\ \A u \in Task \ {t} : pc'[u] = pc[u] /\ mem'[u] = mem[u] /\ act'[u] = act[u]
        /\ pc'[t] = IF t \in Node THEN "failed" ELSE "rejected"
    BY <1>1 DEF Throw, Goto, Inv, TypeOK
  <2> QED BY <1>1, <2>1, TasksApart, IdleKept DEF Active
<1>2. ASSUME NEW n \in Node, NEW l \in {"idle", "failed", "commit"},
             pc' = [pc EXCEPT ![n] = l],
             \A u \in Task \ {n} : mem'[u] = mem[u] /\ act'[u] = act[u],
             UNCHANGED <<instance, did, undid>>
      PROVE  Kept
  <2>1. n \in Task /\ pc'[n] = l /\ \A u \in Task \ {n} : pc'[u] = pc[u]
    BY <1>2, TasksApart DEF Inv, TypeOK
  <2> QED BY <1>2, <2>1, IdleKept DEF Active
<1>3. CASE \E s \in Saga : Create(s) \/ Start(s)
  BY <1>3, CreateKept, StartKept DEF Alone
<1>4. CASE \E t \in Task : ProcessActions(t)
  BY <1>4, ExceptionKept, SendCommandsKept, EndStateKept, UpdateKept, ContinueKept
     DEF ProcessActions
<1>5. CASE \E t \in Task : AwaitRejects(t)
  BY <1>1, <1>5 DEF AwaitRejects
<1>6. CASE \E n \in Node, p \in Partition : HandleReplyMessage(n, p)
  BY <1>6, HandleReplyKept
<1>7. CASE \E n \in Node, p \in Partition :
             RejectReplyMessage(n, p) \/ SkipReplyMessage(n, p)
  <2>1. ASSUME NEW n \in Node, NEW p \in Partition, RejectReplyMessage(n, p)
        PROVE  Kept
    <3>1. /\ pc' = [pc EXCEPT ![n] = "failed"]
          /\ \A u \in Task \ {n} : mem'[u] = mem[u] /\ act'[u] = act[u]
          /\ UNCHANGED <<instance, did, undid>>
      BY <2>1 DEF RejectReplyMessage, Throw, Goto, Inv, TypeOK
    <3> QED BY <1>2, <3>1
  <2>2. ASSUME NEW n \in Node, NEW p \in Partition, SkipReplyMessage(n, p)
        PROVE  Kept
    BY <1>2, <2>2 DEF SkipReplyMessage, Goto
  <2> QED BY <1>7, <2>1, <2>2
<1>8. CASE \E n \in Node : Retry(n) \/ Commit(n)
  <2>1. ASSUME NEW n \in Node, Retry(n) PROVE Kept
    BY <1>2, <2>1 DEF Retry, Goto
  <2>2. ASSUME NEW n \in Node, Commit(n) PROVE Kept
    <3>1. /\ pc' = [pc EXCEPT ![n] = "idle"]
          /\ \A u \in Task \ {n} : mem'[u] = mem[u] /\ act'[u] = act[u]
          /\ UNCHANGED <<instance, did, undid>>
      BY <2>2 DEF Commit, Goto, Inv, TypeOK
    <3> QED BY <1>2, <3>1
  <2> QED BY <1>8, <2>1, <2>2
<1>9. CASE \E n \in Node : Crash(n)
  <2> SUFFICES ASSUME NEW n \in Node, Crash(n) PROVE Kept
    BY <1>9
  <2> DEFINE lost == {n} \cup {s \in Saga : Home[s] = n /\
                                  pc[s] \notin {"idle", "done", "rejected"}}
  <2>1. /\ pc' = [t \in Task |-> IF t \notin lost THEN pc[t]
                                 ELSE IF t = n THEN "idle" ELSE "rejected"]
        /\ mem' = [t \in Task |-> IF t \in lost THEN NoInstance ELSE mem[t]]
        /\ act' = [t \in Task |-> IF t \in lost THEN NoActions ELSE act[t]]
        /\ UNCHANGED <<instance, did, undid>>
    BY DEF Crash
  <2>2. \A t \in Task : t \in lost => t = n \/ t \in Saga
    OBVIOUS
  <2> HIDE DEF lost
  <2>3. \A t \in Task :
          \/ pc'[t] = pc[t] /\ mem'[t] = mem[t] /\ act'[t] = act[t]
          \/ t \in Node /\ pc'[t] \notin Active
          \/ t \in Saga /\ pc'[t] \in {"done", "rejected"}
    BY <2>1, <2>2 DEF Active
  <2> QED BY <2>1, <2>3, IdleKept
<1>10. CASE \E c \in commands, p \in Partition, o \in Outcome : Participate(c, p, o)
  BY <1>10, StillKept DEF Participate
<1>11. CASE \E c \in commands : SkipCommand(c)
  BY <1>11, StillKept DEF SkipCommand
<1>12. CASE Terminated \/ UNCHANGED vars
  BY <1>12, StillKept DEF Terminated, vars
<1> QED
  BY <1>3, <1>4, <1>5, <1>6, <1>7, <1>8, <1>9, <1>10, <1>11, <1>12 DEF Next

LEMMA InitOneWriter ==
  ASSUME Init PROVE OneWriter
<1>1. \A t \in Task : pc[t] = "idle"
  BY DEF Init
<1>2. \A s \in Saga : instance[s] = NoRow
  BY DEF Init
<1> QED BY <1>1, <1>2, TasksApart DEF OneWriter, CreateOK, NodeOK, WriteOK, Active

LEMMA OneWriterHolds == Alone => (Spec => []OneWriter)
<1> SUFFICES ASSUME Alone PROVE Spec => []OneWriter
  OBVIOUS
<1>1. Init => OneWriter
  BY InitOneWriter
<1>2. Inv /\ OneWriter /\ [Next]_vars => OneWriter'
  BY NextKept DEF Kept
<1> QED BY <1>1, <1>2, Invariance, PTL DEF Spec

\* Once a saga has ended its row stays as it is, and nothing more is started
\* for it, however often its replies are read again.
THEOREM EndStands == Alone => (Spec => EndIsFinal)
<1> SUFFICES ASSUME Alone PROVE Spec => EndIsFinal
  OBVIOUS
<1>1. Inv /\ OneWriter /\ [Next]_vars
        => [\A s \in Saga :
              instance[s].stage = "ended" =>
                /\ instance'[s] = instance[s]
                /\ did'[s] = did[s] /\ undid'[s] = undid[s]]_vars
  BY NextKept DEF Kept, Final
<1> QED BY <1>1, OneWriterHolds, Invariance, PTL DEF Spec, EndIsFinal

\* A saga whose stored state is compensating starts no action any more.
THEOREM NoWayBack == Alone => (Spec => NeverForwardAgain)
<1> SUFFICES ASSUME Alone PROVE Spec => NeverForwardAgain
  OBVIOUS
<1>1. Inv /\ OneWriter /\ [Next]_vars
        => [\A s \in Saga :
              instance[s].stage = "running" /\ instance[s].compensating =>
                instance'[s].compensating /\ did'[s] = did[s]]_vars
  BY NextKept DEF Kept, Onward
<1> QED BY <1>1, OneWriterHolds, Invariance, PTL DEF Spec, NeverForwardAgain

-----------------------------------------------------------------------------
(* Moves of one saga *)

SameHistory(s) ==
  data' = data /\ did'[s] = did[s] /\ undid'[s] = undid[s] /\ answered'[s] = answered[s]

\* Saga s begins B; O succeed and X fail; U are begun to be undone, and D are.
Move(s, B, O, X, U, D) ==
  /\ data' = data
  /\ Began(s)' = Began(s) \cup B
  /\ Ok(s)' = Ok(s) \cup O
  /\ Broken(s)' = Broken(s) \cup X
  /\ Undoes(s)' = Undoes(s) \cup U
  /\ Undone(s)' = Undone(s) \cup D
  /\ \A r \in Saga \ {s} : SameHistory(r)

LEMMA HistoryKept ==
  ASSUME NEW s \in Saga, SameHistory(s)
  PROVE  /\ Acts(s)' = Acts(s) /\ Comps(s)' = Comps(s)
         /\ Began(s)' = Began(s) /\ Ok(s)' = Ok(s) /\ Broken(s)' = Broken(s)
         /\ Undoes(s)' = Undoes(s) /\ Undone(s)' = Undone(s)
         /\ \A st : Stands(s, st)' <=> Stands(s, st)
         /\ \A j, b : Sent(s, j, b)' <=> Sent(s, j, b)
         /\ \A a : Chosen(s, a)' <=> Chosen(s, a)
         /\ \A b : EndStanding(s, b)' <=> EndStanding(s, b)
         /\ \A r : r.saga = s => (Replied(r)' <=> Replied(r))
         /\ CountsOK(s)' <=> CountsOK(s)
<1>1. Acts(s)' = Acts(s) /\ Comps(s)' = Comps(s)
  BY DEF SameHistory, Acts, Comps
<1>2. /\ Began(s)' = Began(s) /\ Ok(s)' = Ok(s) /\ Broken(s)' = Broken(s)
      /\ Undoes(s)' = Undoes(s) /\ Undone(s)' = Undone(s)
  BY DEF SameHistory, Began, Ok, Broken, Undoes, Undone, Answers
<1>3. \A j, k : Forward(s, j, k)' <=> Forward(s, j, k)
  BY <1>1, <1>2 DEF Forward
<1>4. \A j, k : Backward(s, j, k)' <=> Backward(s, j, k)
  BY <1>1, <1>2 DEF Backward, BackFrom
<1>5. \A st : Stands(s, st)' <=> Stands(s, st)
  BY <1>3, <1>4 DEF Stands
<1>6. \A j, b : Sent(s, j, b)' <=> Sent(s, j, b)
  BY <1>1, <1>2, <1>3, <1>4 DEF Sent
<1>7. \A a : Chosen(s, a)' <=> Chosen(s, a)
  BY <1>1, <1>5 DEF Chosen
<1>8. \A b : EndStanding(s, b)' <=> EndStanding(s, b)
  BY <1>5 DEF EndStanding
<1>9. \A r : r.saga = s => (Replied(r)' <=> Replied(r))
  BY <1>5, <1>6 DEF Replied
<1>10. CountsOK(s)' <=> CountsOK(s)
  BY DEF SameHistory, CountsOK
<1> QED BY <1>1, <1>2, <1>5, <1>6, <1>7, <1>8, <1>9, <1>10

\* The steps a choice of actions starts at once, and those it sees fail.
RanSteps(a) == IF a.kind = "local" THEN {a.step} ELSE {}
ThrewSteps(a) == IF a.kind = "exception" THEN {a.step} ELSE {}

\* No local step is run when compensating: hasCompensation runs the function,
\* and no function returns a truthy value.
LEMMA LocalIsForward ==
  ASSUME Truthy = {}, NEW d \in Data, NEW st \in ExecutionState,
         NEW a \in ExecuteNextStep(st, d)
  PROVE  a.kind \in {"local", "exception"} => ~a.compensating
<1> SUFFICES ASSUME a.kind \in {"local", "exception"}, a.compensating
             PROVE  FALSE
  OBVIOUS
<1>1. a.step \in Local /\ IsNext(a.step, st, d) /\ st.compensating
  BY NextActions
<1>2. a.step \in Compensable[d]
  BY <1>1 DEF IsNext, Eligible, HasCompensation
<1> QED BY <1>1, <1>2, DefinitionAssumption

LEMMA DecideMoves ==
  ASSUME TypeOK, Truthy = {}, NEW t \in Task, NEW s \in Saga,
         NEW st \in ExecutionState, Decide(t, s, st), data' = data
  PROVE  \E a \in ExecuteNextStep(st, data[s]) :
           /\ act'[t] = a
           /\ Move(s, RanSteps(a), RanSteps(a), ThrewSteps(a),
                   Probed(st, data[s]), Probed(st, data[s]))
           /\ \A j \in Step :
                /\ j \in RanSteps(a) \/ did'[s][j] = did[s][j]
                /\ j \in RanSteps(a) => did'[s][j] = did[s][j] + 1
                /\ j \in Probed(st, data[s]) \/ undid'[s][j] = undid[s][j]
                /\ j \in Probed(st, data[s]) => undid'[s][j] = undid[s][j] + 1
<1> DEFINE K == Probed(st, data[s])
<1>1. PICK a \in ExecuteNextStep(st, data[s]) :
        /\ act' = [act EXCEPT ![t] = a]
        /\ did' = [did EXCEPT ![s] =
             [j \in Step |-> IF Ran(a, j, FALSE) THEN @[j] + 1 ELSE @[j]]]
        /\ undid' = [undid EXCEPT ![s] =
             [j \in Step |-> @[j]
                             + (IF j \in Probed(st, data[s]) THEN 1 ELSE 0)
                             + (IF Ran(a, j, TRUE) THEN 1 ELSE 0)]]
        /\ answered' = [answered EXCEPT ![s] =
             @ \cup LocalAnswers(st, data[s], a)]
  BY DEF Decide
<1>2. data[s] \in Data
  BY DEF TypeOK
<1>3. /\ a \in Actions /\ (a.kind \in {"local", "exception"} => ~a.compensating)
      /\ K \subseteq Step
      /\ a.kind \in {"local", "exception"} => a.step \in Step
  <2>1. a.kind \in {"local", "exception"} => ~a.compensating
    BY <1>2, LocalIsForward
  <2>2. a \in Actions /\ (a.kind \in {"local", "exception"} => a.step \in Step)
    BY <1>2, NextActions
  <2> QED BY <2>1, <2>2 DEF Probed, Ahead
<1>4. act'[t] = a
  BY <1>1 DEF TypeOK
<1>5. \A j \in Step : Ran(a, j, FALSE) <=> j \in RanSteps(a)
  BY <1>3 DEF Ran, RanSteps
<1>6. \A j \in Step : ~Ran(a, j, TRUE)
  BY <1>3 DEF Ran
<1>7. \A j \in Step : did[s][j] \in Nat /\ undid[s][j] \in Nat
  BY DEF TypeOK
<1>8. \A j \in Step :
        did'[s][j] = IF j \in RanSteps(a) THEN did[s][j] + 1 ELSE did[s][j]
  BY <1>1, <1>5 DEF TypeOK
<1>9. \A j \in Step :
        undid'[s][j] = IF j \in K THEN undid[s][j] + 1 ELSE undid[s][j]
  <2>1. \A j \in Step :
          undid'[s][j] = undid[s][j] + (IF j \in K THEN 1 ELSE 0)
                                     + (IF Ran(a, j, TRUE) THEN 1 ELSE 0)
    BY <1>1 DEF TypeOK
  <2> HIDE DEF K
  <2> SUFFICES ASSUME NEW j \in Step
               PROVE  undid'[s][j] = IF j \in K THEN undid[s][j] + 1 ELSE undid[s][j]
    OBVIOUS
  <2>2. undid'[s][j] = undid[s][j] + (IF j \in K THEN 1 ELSE 0) + 0
    BY <1>6, <2>1
  <2>3. undid[s][j] \in Nat
    BY <1>7
  <2>4. CASE j \in K
    BY <2>2, <2>3, <2>4
  <2>5. CASE j \notin K
    BY <2>2, <2>3, <2>5
  <2> QED BY <2>4, <2>5
<1>10. answered'[s] = answered[s] \cup LocalAnswers(st, data[s], a)
  BY <1>1 DEF TypeOK
<1>11. \A x : x \in LocalAnswers(st, data[s], a) <=>
         \/ \E k \in K : x = [step |-> k, compensating |-> TRUE, outcome |-> "SUCCESS"]
         \/ a.kind = "local" /\ x = [step |-> a.step, compensating |-> FALSE,
                                     outcome |-> "SUCCESS"]
         \/ a.kind = "exception" /\ x = [step |-> a.step, compensating |-> FALSE,
                                         outcome |-> "FAILURE"]
  <2>1. CASE a.kind = "local"
    BY <1>3, <2>1 DEF LocalAnswers, Actions
  <2>2. CASE a.kind = "exception"
    BY <1>3, <2>2 DEF LocalAnswers, Actions
  <2>3. CASE a.kind \notin {"local", "exception"}
    BY <2>3 DEF LocalAnswers
  <2> QED BY <2>1, <2>2, <2>3
<1>12. /\ Began(s)' = Began(s) \cup RanSteps(a)
       /\ Undoes(s)' = Undoes(s) \cup K
  <2>1. RanSteps(a) \subseteq Step
    BY <1>3 DEF RanSteps
  <2> HIDE DEF K
  <2> QED BY <1>3, <1>7, <1>8, <1>9, <2>1 DEF Began, Undoes
<1>13. /\ Ok(s)' = Ok(s) \cup RanSteps(a)
       /\ Broken(s)' = Broken(s) \cup ThrewSteps(a)
       /\ Undone(s)' = Undone(s) \cup K
  <2> HIDE DEF K
  <2>1. Ok(s)' = Ok(s) \cup RanSteps(a)
    BY <1>3, <1>10, <1>11 DEF Ok, Answers, RanSteps
  <2>2. Broken(s)' = Broken(s) \cup ThrewSteps(a)
    BY <1>3, <1>10, <1>11 DEF Broken, Answers, ThrewSteps
  <2>3. Undone(s)' = Undone(s) \cup K
    BY <1>3, <1>10, <1>11 DEF Undone, Answers
  <2> QED BY <2>1, <2>2, <2>3
<1>14. \A r \in Saga \ {s} : SameHistory(r)
  BY <1>1 DEF SameHistory, TypeOK
<1>15. Move(s, RanSteps(a), RanSteps(a), ThrewSteps(a), K, K)
  BY <1>12, <1>13, <1>14 DEF Move
<1> QED BY <1>1, <1>4, <1>8, <1>9, <1>15

\* Going forward, the next step is the first action ahead.
LEMMA ScanForward ==
  ASSUME TypeOK, NEW s \in Saga, NEW st \in ExecutionState, ~st.compensating,
         NEW a \in ExecuteNextStep(st, data[s])
  PROVE  /\ a \in Actions /\ ~a.compensating /\ Probed(st, data[s]) = {}
         /\ \/ /\ a.kind = "end"
               /\ \A i \in Acts(s) : i <= st.currentlyExecuting
            \/ /\ a.kind \in {"remote", "local", "exception"}
               /\ a.step \in Acts(s) /\ (a.kind = "remote" <=> a.step \notin Local)
               /\ st.currentlyExecuting < a.step
               /\ \A i \in Acts(s) : i < a.step => i <= st.currentlyExecuting
<1> DEFINE d == data[s]
           J == st.currentlyExecuting
<1>1. d \in Data /\ J \in Int
  BY DEF TypeOK, ExecutionState, Step, NoStep
<1>2. \A i : i \in Eligible(st, d) <=> i \in Acts(s) /\ i > J
  BY DEF Eligible, Ahead, Acts
<1>3. /\ a \in Actions /\ ~a.compensating
      /\ \/ a.kind = "end" /\ Eligible(st, d) = {}
         \/ /\ a.kind \in {"remote", "local", "exception"}
            /\ a.step \in Step /\ IsNext(a.step, st, d)
            /\ a.kind = "remote" <=> a.step \notin Local
  BY <1>1, NextActions
<1>4. Probed(st, d) = {}
  BY DEF Probed
<1>5. Acts(s) \subseteq Int
  BY DEF Acts, Step
<1>6. CASE a.kind = "end" /\ Eligible(st, d) = {}
  <2>1. \A i \in Acts(s) : i <= J
    BY <1>1, <1>2, <1>5, <1>6
  <2> QED BY <1>3, <1>4, <1>6, <2>1
<1>7. CASE /\ a.kind \in {"remote", "local", "exception"}
           /\ a.step \in Step /\ IsNext(a.step, st, d)
           /\ a.kind = "remote" <=> a.step \notin Local
  <2>1. /\ a.step \in Eligible(st, d)
        /\ \A k \in Eligible(st, d) : a.step <= k
    BY <1>7 DEF IsNext
  <2>2. a.step \in Acts(s) /\ J < a.step /\ \A i \in Acts(s) : i < a.step => i <= J
    BY <1>1, <1>2, <1>5, <2>1
  <2> QED BY <1>3, <1>4, <1>7, <2>2
<1> QED BY <1>3, <1>6, <1>7

\* Going back, the next step is the last remote compensation ahead, and the
\* local ones after it are run on the way.
LEMMA ScanBack ==
  ASSUME TypeOK, Truthy = {}, NEW s \in Saga, NEW st \in ExecutionState,
         st.compensating, NEW a \in ExecuteNextStep(st, data[s])
  PROVE  /\ a \in Actions /\ a.compensating
         /\ \/ /\ a.kind = "end"
               /\ Probed(st, data[s]) = {i \in Comps(s) : i < st.currentlyExecuting}
            \/ /\ a.kind = "remote" /\ a.step \in Comps(s) \ Local
               /\ a.step < st.currentlyExecuting
               /\ Probed(st, data[s]) = {i \in Comps(s) :
                    a.step < i /\ i < st.currentlyExecuting}
<1> DEFINE d == data[s]
           J == st.currentlyExecuting
           C == Compensable[d]
<1>1. d \in Data /\ J \in Int
  BY DEF TypeOK, ExecutionState, Step, NoStep
<1>2. C \subseteq Step \ Local /\ LocalCompensation \subseteq Local /\ Local \subseteq Step
  BY <1>1, DefinitionAssumption
<1>3. \A i : i \in Eligible(st, d) <=> i \in C /\ i < J
  BY <1>2 DEF Eligible, Ahead, HasCompensation
<1>4. /\ a \in Actions /\ a.compensating
      /\ \/ a.kind = "end" /\ Eligible(st, d) = {}
         \/ /\ a.kind \in {"remote", "local", "exception"}
            /\ a.step \in Step /\ IsNext(a.step, st, d)
            /\ a.kind = "remote" <=> a.step \notin Local
  BY <1>1, NextActions
<1>5. \A i : i \in Probed(st, d) <=>
        i \in LocalCompensation /\ i < J /\ \A k \in Eligible(st, d) : k <= i
  BY <1>2 DEF Probed, Ahead
<1>6. \A i : i \in Comps(s) <=> i \in LocalCompensation \/ i \in C
  BY DEF Comps
<1> HIDE DEF C
<1>7. CASE a.kind = "end" /\ Eligible(st, d) = {}
  <2>1. Probed(st, d) = {i \in Comps(s) : i < J}
    BY <1>3, <1>5, <1>6, <1>7
  <2> QED BY <1>4, <1>7, <2>1
<1>8. CASE /\ a.kind \in {"remote", "local", "exception"}
           /\ a.step \in Step /\ IsNext(a.step, st, d)
           /\ a.kind = "remote" <=> a.step \notin Local
  <2>1. /\ a.step \in Eligible(st, d)
        /\ \A k \in Eligible(st, d) : k <= a.step
    BY <1>8 DEF IsNext
  <2>2. a.step \in C /\ a.step < J /\ a.kind = "remote" /\ a.step \in Comps(s) \ Local
    BY <1>2, <1>3, <1>6, <1>8, <2>1
  <2>0. Step \subseteq Int
    BY DEF Step
  <2>3. \A i : i \in Probed(st, d) <=> i \in Comps(s) /\ a.step < i /\ i < J
    <3> SUFFICES ASSUME NEW i
                 PROVE  i \in Probed(st, d) <=> i \in Comps(s) /\ a.step < i /\ i < J
      OBVIOUS
    <3>1. ASSUME i \in Probed(st, d)
          PROVE  i \in Comps(s) /\ a.step < i /\ i < J
      <4>1. i \in LocalCompensation /\ i < J /\ a.step <= i
        BY <1>5, <2>1, <3>1
      <4>2. i # a.step
        BY <1>2, <2>2, <4>1
      <4>3. i \in Int /\ a.step \in Int
        BY <1>2, <2>2, <2>0, <4>1
      <4> QED BY <1>6, <4>1, <4>2, <4>3
    <3>2. ASSUME i \in Comps(s), a.step < i, i < J
          PROVE  i \in Probed(st, d)
      <4>1. i \in Int /\ a.step \in Int /\ \A k \in Eligible(st, d) : k \in Int
        BY <1>2, <1>3, <1>6, <2>2, <2>0, <3>2
      <4>2. i \notin C
        BY <1>3, <2>1, <3>2, <4>1
      <4> QED BY <1>5, <1>6, <2>1, <3>2, <4>1, <4>2
    <3> QED BY <3>1, <3>2
  <2> QED BY <1>4, <2>2, <2>3
<1> QED BY <1>4, <1>7, <1>8

\* What is chosen where a saga stands leaves it standing where its target is,
\* and starts nothing that was started before.
LEMMA MoveStands ==
  ASSUME TypeOK, Truthy = {}, NEW s \in Saga, NEW st \in ExecutionState,
         NEW a \in ExecuteNextStep(st, data[s]), Stands(s, st),
         Move(s, RanSteps(a), RanSteps(a), ThrewSteps(a),
              Probed(st, data[s]), Probed(st, data[s]))
  PROVE  /\ Chosen(s, a)'
         /\ RanSteps(a) \cap Began(s) = {}
         /\ Probed(st, data[s]) \cap Undoes(s) = {}
<1> DEFINE J == st.currentlyExecuting
<1>1. /\ Acts(s)' = Acts(s) /\ Comps(s)' = Comps(s)
      /\ Acts(s) \subseteq Step /\ Comps(s) \subseteq Step
  BY DefinitionAssumption DEF Move, Acts, Comps, TypeOK
<1>2. J \in Int /\ NumSteps \in Nat
  BY DefinitionAssumption DEF ExecutionState, Step, NoStep
<1>3. CASE ~st.compensating
  <2>1. /\ Forward(s, J, J) /\ a \in Actions /\ ~a.compensating
        /\ Probed(st, data[s]) = {}
    BY <1>3, ScanForward DEF Stands
  <2>2. CASE a.kind = "end" /\ \A i \in Acts(s) : i <= J
    <3>1. {i \in Acts(s) : i <= NumSteps - 1} = {i \in Acts(s) : i <= J}
      BY <1>1, <1>2, <2>2 DEF Step
    <3>2. Forward(s, NumSteps - 1, NumSteps - 1)'
      BY <1>1, <2>1, <2>2, <3>1 DEF Forward, Move, RanSteps, ThrewSteps
    <3> QED BY <2>1, <2>2, <3>2 DEF Chosen, Stands, Target, RanSteps
  <2>3. CASE /\ a.kind \in {"remote", "local", "exception"}
             /\ a.step \in Acts(s) /\ (a.kind = "remote" <=> a.step \notin Local)
             /\ J < a.step
             /\ \A i \in Acts(s) : i < a.step => i <= J
    <3>1. a.step \in Int
      BY <1>1, <2>3 DEF Step
    <3>2. /\ {i \in Acts(s) : i <= a.step - 1} = {i \in Acts(s) : i <= J}
          /\ {i \in Acts(s) : i < a.step} = {i \in Acts(s) : i <= J}
          /\ {i \in Acts(s) : i <= a.step} = {i \in Acts(s) : i <= J} \cup {a.step}
          /\ a.step \notin {i \in Acts(s) : i <= J}
      BY <1>1, <1>2, <2>3, <3>1 DEF Step
    <3>3. CASE a.kind = "remote"
      <4>1. Forward(s, a.step - 1, a.step - 1)'
        BY <1>1, <2>1, <3>2, <3>3 DEF Forward, Move, RanSteps, ThrewSteps
      <4> QED BY <1>1, <2>1, <2>3, <3>3, <4>1 DEF Chosen, Stands, Target, RanSteps
    <3>4. CASE a.kind = "local"
      <4>1. Forward(s, a.step, a.step)'
        BY <1>1, <2>1, <3>2, <3>4 DEF Forward, Move, RanSteps, ThrewSteps
      <4> QED
        BY <2>1, <3>2, <3>4, <4>1 DEF Chosen, Stands, Target, RanSteps, Forward
    <3>5. CASE a.kind = "exception"
      <4>1. /\ {i \in Comps(s) : a.step <= i /\ i < a.step} = {}
            /\ {i \in Acts(s) : i < a.step \/ (i = a.step /\ a.step \notin Local)}
                 = {i \in Acts(s) : i <= J}
        BY <1>1, <2>3, <3>1, <3>2, <3>5 DEF Step
      <4>2. BackFrom(a.step, s, a.step, a.step)'
        BY <1>1, <2>1, <2>3, <3>1, <3>2, <3>5, <4>1
           DEF Forward, BackFrom, Move, RanSteps, ThrewSteps
      <4>3. a.step \in Step
        BY <1>1, <2>3
      <4> QED
        BY <2>1, <3>5, <4>2, <4>3 DEF Chosen, Stands, Target, RanSteps, Backward
    <3> QED BY <2>3, <3>3, <3>4, <3>5
  <2> QED BY <1>3, <2>2, <2>3, ScanForward
<1>4. CASE st.compensating
  <2> DEFINE K == Probed(st, data[s])
  <2>1. PICK f \in Step : BackFrom(f, s, J, J)
    BY <1>4 DEF Stands, Backward
  <2>2. a \in Actions /\ a.compensating
    BY <1>4, ScanBack
  <2>3. f \in Int /\ Comps(s) \subseteq Int /\ J <= f
    BY <1>1, <2>1 DEF Step, BackFrom
  <2>4. CASE a.kind = "end" /\ K = {i \in Comps(s) : i < J}
    <3>1. /\ {i \in Comps(s) : 0 <= i /\ i < f}
               = {i \in Comps(s) : J <= i /\ i < f} \cup K
          /\ K \cap {i \in Comps(s) : J <= i /\ i < f} = {}
      BY <1>1, <1>2, <2>3, <2>4 DEF Step
    <3> HIDE DEF K
    <3>2. BackFrom(f, s, 0, 0)'
      BY <1>1, <2>1, <2>4, <3>1 DEF BackFrom, Move, RanSteps, ThrewSteps, K, Step
    <3>3. Stands(s, Target(a))'
      BY <2>1, <2>2, <2>4, <3>2 DEF Stands, Target, Backward
    <3>4. Chosen(s, a)'
      BY <2>4, <3>3 DEF Chosen
    <3>5. RanSteps(a) = {}
      BY <2>4 DEF RanSteps
    <3>6. K \cap Undoes(s) = {}
      BY <2>1, <3>1 DEF BackFrom
    <3> QED
      BY <3>4, <3>5, <3>6 DEF K
  <2>5. CASE /\ a.kind = "remote" /\ a.step \in Comps(s) \ Local /\ a.step < J
             /\ K = {i \in Comps(s) : a.step < i /\ i < J}
    <3>1. a.step \in Int /\ a.step + 1 <= f
      BY <1>2, <2>3, <2>5
    <3>2. /\ {i \in Comps(s) : a.step + 1 <= i /\ i < f}
               = {i \in Comps(s) : J <= i /\ i < f} \cup K
          /\ K \cap {i \in Comps(s) : J <= i /\ i < f} = {}
      BY <1>1, <1>2, <2>3, <2>5, <3>1
    <3> HIDE DEF K
    <3>3. BackFrom(f, s, a.step + 1, a.step + 1)'
      BY <1>1, <2>1, <2>5, <3>1, <3>2 DEF BackFrom, Move, RanSteps, ThrewSteps, K
    <3>4. Stands(s, Target(a))'
      BY <2>1, <2>2, <2>5, <3>3 DEF Stands, Target, Backward
    <3>5. Chosen(s, a)'
      BY <1>1, <2>2, <2>5, <3>4 DEF Chosen
    <3> QED
      BY <2>1, <2>5, <3>2, <3>5 DEF RanSteps, BackFrom, K
  <2> QED BY <1>4, <2>4, <2>5, ScanBack
<1> QED BY <1>3, <1>4

-----------------------------------------------------------------------------
(* A saga nobody works for *)

\* No message about saga r is new; committing moves a partition by one.
MailKept(r) ==
  /\ \A c \in commands' : c.saga = r => c \in commands
  /\ \E d \in [Partition -> {0, 1}] : \A p \in Partition : \A i \in Fresh(p)' :
       replies'[p][i].saga = r =>
         i + d[p] \in Fresh(p) /\ replies'[p][i] = replies[p][i + d[p]]

SameRow(r) ==
  /\ instance'[r] = instance[r] /\ callbacks'[r] = callbacks[r]
  /\ \A u \in unlocks' : u[1] = r => u \in unlocks

SameTask(t) == pc'[t] = pc[t] /\ mem'[t] = mem[t] /\ act'[t] = act[t]

SameTasks(r) ==
  /\ pc'[r] = pc[r]
  /\ \A t \in Task : Busy(t, r) \/ Busy(t, r)' => SameTask(t)

\* What messages about a saga say still holds when nothing of theirs is new.
LEMMA MailStands ==
  ASSUME NEW s \in Saga, MailOK(s), OneMessage(s), MailKept(s),
         \A j, b : Sent(s, j, b) => Sent(s, j, b)',
         \A r : r.saga = s /\ Replied(r) => Replied(r)',
         \A j, b : Agrees(s, j, b) => Agrees(s, j, b)'
  PROVE  MailOK(s)' /\ OneMessage(s)'
<1>1. PICK d \in [Partition -> {0, 1}] : \A p \in Partition : \A i \in Fresh(p)' :
        replies'[p][i].saga = s =>
          i + d[p] \in Fresh(p) /\ replies'[p][i] = replies[p][i + d[p]]
  BY DEF MailKept
<1>2. \A c \in commands' : c.saga = s => c \in commands
  BY DEF MailKept
<1>3. MailOK(s)'
  BY <1>1, <1>2 DEF MailOK
<1>4. \A p \in Partition : \A i \in Fresh(p)' : i \in Int
  BY DEF Fresh
<1>5. \A b, c \in commands' : b.saga = s /\ c.saga = s => b = c
  BY <1>2 DEF OneMessage
<1>6. \A c \in commands' : c.saga = s =>
        \A p \in Partition : \A i \in Fresh(p)' : replies'[p][i].saga # s
  BY <1>1, <1>2 DEF OneMessage
<1>7. ASSUME NEW p \in Partition, NEW q \in Partition,
             NEW i \in Fresh(p)', NEW k \in Fresh(q)',
             replies'[p][i].saga = s, replies'[q][k].saga = s
      PROVE  p = q /\ i = k
  <2>1. /\ i + d[p] \in Fresh(p) /\ replies[p][i + d[p]].saga = s
        /\ k + d[q] \in Fresh(q) /\ replies[q][k + d[q]].saga = s
    BY <1>1, <1>7
  <2>2. p = q /\ i + d[p] = k + d[q]
    BY <2>1 DEF OneMessage
  <2>3. i \in Int /\ k \in Int /\ d[p] \in Int /\ d[q] = d[p]
    BY <1>4, <2>2
  <2> QED BY <2>2, <2>3
<1>8. OneMessage(s)'
  BY <1>5, <1>6, <1>7 DEF OneMessage
<1> QED BY <1>3, <1>8

LEMMA PlaceKept ==
  ASSUME NEW r \in Saga, Place(r), SameHistory(r), SameRow(r), MailKept(r), SameTasks(r)
  PROVE  Place(r)'
<1>1. /\ \A st : Stands(r, st)' <=> Stands(r, st)
      /\ \A j, b : Sent(r, j, b)' <=> Sent(r, j, b)
      /\ \A a : Chosen(r, a)' <=> Chosen(r, a)
      /\ \A b : EndStanding(r, b)' <=> EndStanding(r, b)
      /\ \A q : q.saga = r => (Replied(q)' <=> Replied(q))
      /\ CountsOK(r)' <=> CountsOK(r)
  BY HistoryKept
<1>2. \A t \in Task : Busy(t, r)' <=> Busy(t, r)
  BY DEF SameTasks, SameTask, Busy
<1>3. \A j, b : Agrees(r, j, b) => Agrees(r, j, b)'
  BY <1>2 DEF Agrees, SameRow, SameTasks, SameTask
<1>4. MailOK(r)' /\ OneMessage(r)'
  BY <1>1, <1>3, MailStands DEF Place
<1>5. TasksStand(r)'
  <2>1. /\ pc'[r] \in {"idle", "start"} => Stands(r, InitialState)' /\ callbacks'[r] = {}
        /\ pc'[r] # "rejected"
    BY <1>1 DEF Place, TasksStand, SameTasks, SameRow
  <2>2. ASSUME NEW t \in Task, NEW a \in Actions, pc'[t] \in Active,
               mem'[t].sagaId = r, act'[t] = a
        PROVE  TaskStands(t, r, a)'
    <3>1. pc'[t] = pc[t] /\ mem'[t] = mem[t] /\ act'[t] = act[t]
      BY <2>2 DEF Busy, SameTasks, SameTask
    <3>2. TaskStands(t, r, a)
      BY <2>2, <3>1 DEF Place, TasksStand
    <3> QED BY <1>1, <3>1, <3>2 DEF TaskStands, SameRow
  <2> QED BY <2>1, <2>2 DEF TasksStand
<1>6. EndOK(r)'
  <2>1. instance'[r].stage = "ended" => callbacks'[r] = End(instance'[r].compensating)
    BY DEF SameRow, Place, EndOK
  <2>2. ASSUME callbacks'[r] # {}
        PROVE  /\ \E b \in BOOLEAN : callbacks'[r] = End(b) /\ EndStanding(r, b)'
               /\ \/ instance'[r].stage = "ended"
                  \/ \E t \in Task : Busy(t, r)' /\ pc'[t] = "update" /\ act'[t].kind = "end"
    BY <1>1, <1>2, <2>2 DEF SameRow, Place, EndOK, SameTasks, SameTask
  <2>3. \A u \in unlocks' : u[1] = r => callbacks'[r] # {}
    BY DEF SameRow, Place, EndOK
  <2> QED BY <2>1, <2>2, <2>3 DEF EndOK
<1> QED BY <1>1, <1>4, <1>5, <1>6 DEF Place

\* Nothing is read, written or committed, and nobody takes a reply up.
LEMMA FreshKept ==
  ASSUME replies' = replies,
         \A n \in Node :
           \/ reading'[n] = reading[n] /\ (pc'[n] \in Handling <=> pc[n] \in Handling)
           \/ pc'[n] \notin Handling /\ pc[n] \notin Handling
  PROVE  \A p : Fresh(p)' = Fresh(p)
<1> SUFFICES ASSUME NEW p PROVE Fresh(p)' = Fresh(p)
  OBVIOUS
<1>1. (\E n \in Node : reading[n] = p /\ pc[n] \in Handling)'
        <=> \E n \in Node : reading[n] = p /\ pc[n] \in Handling
  BY DEF Handling
<1> QED BY <1>1 DEF Fresh

LEMMA StillMail ==
  ASSUME replies' = replies, NEW r, \A p : Fresh(p)' = Fresh(p),
         \A c \in commands' : c.saga = r => c \in commands
  PROVE  MailKept(r)
<1> DEFINE d == [p \in Partition |-> 0]
<1>1. d \in [Partition -> {0, 1}] /\ \A p \in Partition : d[p] = 0
  OBVIOUS
<1> HIDE DEF d
<1>2. \A p \in Partition : \A i \in Fresh(p)' : i + d[p] = i
  BY <1>1 DEF Fresh
<1>3. \A p \in Partition : \A i \in Fresh(p)' :
        i + d[p] \in Fresh(p) /\ replies'[p][i] = replies[p][i + d[p]]
  BY <1>2
<1> QED BY <1>1, <1>3 DEF MailKept

\* Two tasks are never at one saga.
LEMMA BusyAlone ==
  ASSUME Inv, OneWriter, Alone, NEW s \in Saga, NEW t \in Task, NEW u \in Task,
         Busy(t, s), Busy(u, s)
  PROVE  t = u
<1>1. \A v \in Saga : Busy(v, s) => v = s /\ instance[s] = Unstarted
  BY DEF Busy, OneWriter, CreateOK, Active
<1>2. \A v \in Node : Busy(v, s) => instance[s].stage = "running"
  BY TasksApart DEF Busy, OneWriter, NodeOK
<1>3. \A v, w \in Node : v = w
  BY DEF Alone
<1> QED BY <1>1, <1>2, <1>3, TasksApart DEF Unstarted, NoRow

\* A saga a task is at has no message, unless the task has just sent it.
LEMMA NoMailAt ==
  ASSUME Inv, OneWriter, Alone, NEW s \in Saga, Place(s), NEW t \in Task, Busy(t, s),
         ~(pc[t] = "update" /\ act[t].kind = "remote")
  PROVE  NoMail(s)
<1>1. \A j, b : ~Agrees(s, j, b)
  BY BusyAlone DEF Agrees
<1>2. \A c \in commands : c.saga # s
  BY <1>1 DEF Place, MailOK
<1>3. ASSUME NEW p \in Partition, NEW i \in Fresh(p) PROVE replies[p][i].saga # s
  <2>1. replies[p][i] \in Reply
    BY DEF Inv, TypeOK, Fresh
  <2> QED BY <1>1, <2>1 DEF Place, MailOK
<1> QED BY <1>2, <1>3 DEF NoMail

\* Nor has one whose owner was called back.
LEMMA NoMailEnded ==
  ASSUME Inv, OneWriter, Alone, NEW s \in Saga, Place(s), callbacks[s] # {}
  PROVE  NoMail(s)
<1>1. CASE instance[s].stage = "ended"
  <2>1. \A t \in Task : ~Busy(t, s)
    BY <1>1, TasksApart DEF Busy, OneWriter, CreateOK, NodeOK, Unstarted, NoRow, Active
  <2>2. \A j, b : ~Agrees(s, j, b)
    BY <1>1, <2>1 DEF Agrees, RowOf
  <2>3. \A c \in commands : c.saga # s
    BY <2>2 DEF Place, MailOK
  <2>4. ASSUME NEW p \in Partition, NEW i \in Fresh(p) PROVE replies[p][i].saga # s
    <3>1. replies[p][i] \in Reply
      BY DEF Inv, TypeOK, Fresh
    <3> QED BY <2>2, <3>1 DEF Place, MailOK
  <2> QED BY <2>3, <2>4 DEF NoMail
<1>2. CASE \E t \in Task : Busy(t, s) /\ pc[t] = "update" /\ act[t].kind = "end"
  BY <1>2, NoMailAt
<1> QED BY <1>1, <1>2 DEF Place, EndOK

-----------------------------------------------------------------------------
(* The steps of SagaPattern *)

Phases == [s \in Saga |-> Phase(s)]
Begans == [s \in Saga |-> Began(s)]
Oks == [s \in Saga |-> Ok(s)]
Brokens == [s \in Saga |-> Broken(s)]
Undoings == [s \in Saga |-> Undoes(s)]
Undones == [s \in Saga |-> Undone(s)]

Tells == Pattern!Next \/ UNCHANGED Pattern!vars

SamePhases == \A r \in Saga : Phase(r)' = Phase(r)

LEMMA MoveTold ==
  ASSUME NEW s \in Saga, NEW B, NEW O, NEW X, NEW U, NEW D, Move(s, B, O, X, U, D)
  PROVE  /\ Begans' = [Begans EXCEPT ![s] = @ \cup B]
         /\ Oks' = [Oks EXCEPT ![s] = @ \cup O]
         /\ Brokens' = [Brokens EXCEPT ![s] = @ \cup X]
         /\ Undoings' = [Undoings EXCEPT ![s] = @ \cup U]
         /\ Undones' = [Undones EXCEPT ![s] = @ \cup D]
         /\ B = {} => Begans' = Begans
         /\ O = {} => Oks' = Oks
         /\ X = {} => Brokens' = Brokens
         /\ U = {} => Undoings' = Undoings
         /\ D = {} => Undones' = Undones
         /\ data' = data
<1>1. \A r \in Saga \ {s} :
        /\ Began(r)' = Began(r) /\ Ok(r)' = Ok(r) /\ Broken(r)' = Broken(r)
        /\ Undoes(r)' = Undoes(r) /\ Undone(r)' = Undone(r)
  BY HistoryKept DEF Move
<1> QED BY <1>1 DEF Move, Begans, Oks, Brokens, Undoings, Undones

LEMMA PhasesTold ==
  ASSUME SamePhases PROVE Phases' = Phases
  BY DEF SamePhases, Phases

LEMMA MayBegin ==
  ASSUME TypeOK, NEW s \in Saga, NEW J \in Int, NEW j \in Acts(s), Phase(s) = "active",
         Forward(s, J, J), J < j, \A i \in Acts(s) : i < j => i <= J
  PROVE  Pattern!May(s, j)
<1>1. data[s] \in Data /\ j \in Int /\ j \in Step
  BY DEF TypeOK, Acts, Step
<1>2. /\ Phases[s] = "active" /\ Brokens[s] = {} /\ Begans[s] = Oks[s]
      /\ j \in Acts(s) \ Oks[s] /\ \A i \in Acts(s) : i < j => i \in Oks[s]
  BY <1>1 DEF Phases, Brokens, Begans, Oks, Forward
<1> QED
  BY <1>1, <1>2 DEF Pattern!May, Acts, Phases, Brokens, Begans, Oks, Broken, Began, Ok

LEMMA MayUndo ==
  ASSUME TypeOK, NEW s \in Saga, NEW f \in Step, NEW J \in Int, NEW m \in Int, NEW K,
         Phase(s) = "active", BackFrom(f, s, J, J), K # {},
         K = {i \in Comps(s) : m < i /\ i < J}
  PROVE  Pattern!MayUndo(s, K)
<1>1. data[s] \in Data /\ Comps(s) \subseteq Int /\ f \in Int /\ J <= f
  <2>1. data[s] \in Data /\ Comps(s) \subseteq Step
    BY DefinitionAssumption DEF TypeOK, Comps
  <2> QED BY <2>1 DEF Step, BackFrom
<1> DEFINE owed == {i \in Comps(s) : \E g \in Brokens[s] : i < g} \ Undoings[s]
<1>2. \A i : i \in owed <=> i \in Comps(s) /\ i < J
  BY <1>1 DEF Brokens, Undoings, BackFrom
<1>3. Pattern!Owed(s) = owed
  BY <1>1 DEF Pattern!Owed, Comps, Brokens, Broken, Undoings, Undoes
<1> HIDE DEF owed
<1>4. K \subseteq owed /\ \A k \in K : \A i \in owed : i > k => i \in K
  BY <1>1, <1>2
<1>5. Phases[s] = "active" /\ Undoings[s] = Undones[s]
  BY DEF Phases, Undoings, Undones, BackFrom
<1> QED
  BY <1>3, <1>4, <1>5 DEF Pattern!MayUndo, Phases, Undoings, Undones, Undoes, Undone

LEMMA StutterTold ==
  ASSUME NEW s \in Saga, SamePhases, Move(s, {}, {}, {}, {}, {})
  PROVE  Tells
<1>1. /\ Phases' = Phases /\ Begans' = Begans /\ Oks' = Oks /\ Brokens' = Brokens
      /\ Undoings' = Undoings /\ Undones' = Undones /\ data' = data
  BY MoveTold, PhasesTold
<1> QED
  BY <1>1 DEF Tells, Pattern!vars, Phases, Begans, Oks, Brokens, Undoings, Undones,
     Began, Ok, Broken, Undoes, Undone

LEMMA BeginTold ==
  ASSUME NEW s \in Saga, NEW j \in Step \ Local, SamePhases,
         Move(s, {j}, {}, {}, {}, {}), Pattern!May(s, j)
  PROVE  Tells
<1>1. /\ Phases' = Phases /\ Begans' = [Begans EXCEPT ![s] = @ \cup {j}]
      /\ Oks' = Oks /\ Brokens' = Brokens /\ Undoings' = Undoings /\ Undones' = Undones
      /\ data' = data
  BY MoveTold, PhasesTold
<1>2. Pattern!Begin(s, j)
  BY <1>1 DEF Pattern!Begin, Pattern!Add, Phases, Begans, Oks, Brokens, Undoings,
     Undones, Began, Ok, Broken, Undoes, Undone
<1> QED BY <1>2 DEF Tells, Pattern!Next

LEMMA SucceedTold ==
  ASSUME NEW s \in Saga, NEW j \in Step, SamePhases,
         Move(s, {}, {j}, {}, {}, {}), j \in Began(s) \ Ok(s)
  PROVE  Tells
<1>1. /\ Phases' = Phases /\ Begans' = Begans /\ Oks' = [Oks EXCEPT ![s] = @ \cup {j}]
      /\ Brokens' = Brokens /\ Undoings' = Undoings /\ Undones' = Undones
      /\ data' = data
  BY MoveTold, PhasesTold
<1>2. j \in Begans[s] \ Oks[s]
  BY DEF Begans, Oks
<1>3. Pattern!Succeed(s, j)
  BY <1>1, <1>2 DEF Pattern!Succeed, Pattern!Add, Phases, Begans, Oks, Brokens, Undoings,
     Undones, Began, Ok, Broken, Undoes, Undone
<1> QED BY <1>3 DEF Tells, Pattern!Next

LEMMA FailTold ==
  ASSUME NEW s \in Saga, NEW j \in Step, SamePhases,
         Move(s, {}, {}, {j}, {}, {}), j \in Began(s) \ Ok(s)
  PROVE  Tells
<1>1. /\ Phases' = Phases /\ Begans' = Begans /\ Oks' = Oks
      /\ Brokens' = [Brokens EXCEPT ![s] = @ \cup {j}]
      /\ Undoings' = Undoings /\ Undones' = Undones
      /\ data' = data
  BY MoveTold, PhasesTold
<1>2. j \in Begans[s] \ Oks[s]
  BY DEF Begans, Oks
<1>3. Pattern!Fail(s, j)
  BY <1>1, <1>2 DEF Pattern!Fail, Pattern!Add, Phases, Begans, Oks, Brokens, Undoings,
     Undones, Began, Ok, Broken, Undoes, Undone
<1> QED BY <1>3 DEF Tells, Pattern!Next

LEMMA SucceedLocallyTold ==
  ASSUME NEW s \in Saga, NEW j \in Step \cap Local, SamePhases,
         Move(s, {j}, {j}, {}, {}, {}), Pattern!May(s, j)
  PROVE  Tells
<1>1. /\ Phases' = Phases /\ Begans' = [Begans EXCEPT ![s] = @ \cup {j}]
      /\ Oks' = [Oks EXCEPT ![s] = @ \cup {j}]
      /\ Brokens' = Brokens /\ Undoings' = Undoings /\ Undones' = Undones
      /\ data' = data
  BY MoveTold, PhasesTold
<1>2. Pattern!SucceedLocally(s, j)
  BY <1>1 DEF Pattern!SucceedLocally, Pattern!Add, Phases, Begans, Oks, Brokens,
     Undoings, Undones, Began, Ok, Broken, Undoes, Undone
<1> QED BY <1>2 DEF Tells, Pattern!Next

LEMMA FailLocallyTold ==
  ASSUME NEW s \in Saga, NEW j \in Step \cap Local, SamePhases,
         Move(s, {}, {}, {j}, {}, {}), Pattern!May(s, j)
  PROVE  Tells
<1>1. /\ Phases' = Phases /\ Begans' = Begans /\ Oks' = Oks
      /\ Brokens' = [Brokens EXCEPT ![s] = @ \cup {j}]
      /\ Undoings' = Undoings /\ Undones' = Undones /\ data' = data
  BY MoveTold, PhasesTold
<1>2. Pattern!FailLocally(s, j)
  BY <1>1 DEF Pattern!FailLocally, Pattern!Add, Phases, Begans, Oks, Brokens,
     Undoings, Undones, Began, Ok, Broken, Undoes, Undone
<1> QED BY <1>2 DEF Tells, Pattern!Next

LEMMA UndoTold ==
  ASSUME NEW s \in Saga, NEW j \in Step \ Local, SamePhases,
         Move(s, {}, {}, {}, {j}, {}), Pattern!MayUndo(s, {j})
  PROVE  Tells
<1>1. /\ Phases' = Phases /\ Begans' = Begans /\ Oks' = Oks /\ Brokens' = Brokens
      /\ Undoings' = [Undoings EXCEPT ![s] = @ \cup {j}]
      /\ Undones' = Undones /\ data' = data
  BY MoveTold, PhasesTold
<1>2. Pattern!Undo(s, j)
  BY <1>1 DEF Pattern!Undo, Pattern!Add, Phases, Begans, Oks, Brokens, Undoings,
     Undones, Began, Ok, Broken, Undoes, Undone
<1> QED BY <1>2 DEF Tells, Pattern!Next

LEMMA UndoneTold ==
  ASSUME NEW s \in Saga, NEW j \in Step, SamePhases,
         Move(s, {}, {}, {}, {}, {j}), j \in Undoes(s) \ Undone(s)
  PROVE  Tells
<1>1. /\ Phases' = Phases /\ Begans' = Begans /\ Oks' = Oks /\ Brokens' = Brokens
      /\ Undoings' = Undoings /\ Undones' = [Undones EXCEPT ![s] = @ \cup {j}]
      /\ data' = data
  BY MoveTold, PhasesTold
<1>2. j \in Undoings[s] \ Undones[s]
  BY DEF Undoings, Undones
<1>3. Pattern!Undone(s, j)
  BY <1>1, <1>2 DEF Pattern!Undone, Pattern!Add, Phases, Begans, Oks, Brokens, Undoings,
     Undones, Began, Ok, Broken, Undoes, Undone
<1> QED BY <1>3 DEF Tells, Pattern!Next

LEMMA UndoLocallyTold ==
  ASSUME NEW s \in Saga, NEW K \in SUBSET Local, SamePhases,
         Move(s, {}, {}, {}, K, K), Pattern!MayUndo(s, K)
  PROVE  Tells
<1>1. /\ Phases' = Phases /\ Begans' = Begans /\ Oks' = Oks /\ Brokens' = Brokens
      /\ Undoings' = [Undoings EXCEPT ![s] = @ \cup K]
      /\ Undones' = [Undones EXCEPT ![s] = @ \cup K] /\ data' = data
  BY MoveTold, PhasesTold
<1>2. Pattern!UndoLocally(s, K)
  BY <1>1 DEF Pattern!UndoLocally, Pattern!Add, Phases, Begans, Oks, Brokens, Undoings,
     Undones, Began, Ok, Broken, Undoes, Undone
<1> QED BY <1>2 DEF Tells, Pattern!Next

LEMMA OpenTold ==
  ASSUME NEW s \in Saga, \A r \in Saga : SameHistory(r), Phase(s) = "none",
         Phase(s)' = "active", \A r \in Saga \ {s} : Phase(r)' = Phase(r)
  PROVE  Tells
<1>1. Phases[s] = "none" /\ Phases' = [Phases EXCEPT ![s] = "active"]
  BY DEF Phases
<1>2. /\ Begans' = Begans /\ Oks' = Oks /\ Brokens' = Brokens
      /\ Undoings' = Undoings /\ Undones' = Undones /\ data' = data
  BY HistoryKept DEF Begans, Oks, Brokens, Undoings, Undones, SameHistory
<1>3. Pattern!Open(s)
  BY <1>1, <1>2 DEF Pattern!Open, Phases, Begans, Oks, Brokens, Undoings,
     Undones, Began, Ok, Broken, Undoes, Undone
<1> QED BY <1>3 DEF Tells, Pattern!Next

\* The owner is called back.
LEMMA EndTold ==
  ASSUME TypeOK, NEW s \in Saga, \A r \in Saga : SameHistory(r), Phase(s) = "active",
         NEW b \in BOOLEAN, EndStanding(s, b),
         Phase(s)' = (IF b THEN "rolledBack" ELSE "completed"),
         \A r \in Saga \ {s} : Phase(r)' = Phase(r)
  PROVE  Tells
<1>1. /\ Phases[s] = "active"
      /\ Phases' = [Phases EXCEPT ![s] = IF b THEN "rolledBack" ELSE "completed"]
  BY DEF Phases
<1>2. /\ Begans' = Begans /\ Oks' = Oks /\ Brokens' = Brokens
      /\ Undoings' = Undoings /\ Undones' = Undones /\ data' = data
  BY HistoryKept DEF Begans, Oks, Brokens, Undoings, Undones, SameHistory
<1>3. data[s] \in Data /\ Acts(s) \subseteq Step /\ Comps(s) \subseteq Step
      /\ NumSteps \in Nat
  BY DefinitionAssumption DEF TypeOK, Acts, Comps
<1>4. CASE ~b
  <2>1. Forward(s, NumSteps - 1, NumSteps - 1)
    BY <1>4 DEF EndStanding, Stands, Target, NoActions
  <2>2. Brokens[s] = {} /\ Oks[s] = Acts(s)
    BY <1>3, <2>1 DEF Forward, Brokens, Oks, Step
  <2>3. Pattern!Complete(s)
    BY <1>1, <1>2, <1>3, <1>4, <2>2 DEF Pattern!Complete, Phases, Begans, Oks, Brokens,
       Undoings, Undones, Began, Ok, Broken, Undoes, Undone, Acts
  <2> QED BY <2>3 DEF Tells, Pattern!Next
<1>5. CASE b
  <2>1. PICK f \in Step : BackFrom(f, s, 0, 0)
    BY <1>5 DEF EndStanding, Stands, Target, NoActions, Backward
  <2>2. Brokens[s] = {f} /\ Undoings[s] = Undones[s]
    BY <2>1 DEF BackFrom, Brokens, Undoings, Undones
  <2>3. {i \in Comps(s) : \E g \in Brokens[s] : i < g} \ Undoings[s] = {}
    BY <1>3, <2>1, <2>2 DEF BackFrom, Undoings, Step
  <2>4. Pattern!Owed(s) = {}
    BY <1>3, <2>3 DEF Pattern!Owed, Comps, Brokens, Broken, Undoings, Undoes
  <2>5. Pattern!RollBack(s)
    BY <1>1, <1>2, <1>5, <2>2, <2>4 DEF Pattern!RollBack, Phases, Begans, Oks, Brokens,
       Undoings, Undones, Began, Ok, Broken, Undoes, Undone
  <2> QED BY <2>5 DEF Tells, Pattern!Next
<1> QED BY <1>4, <1>5

\* The next step is chosen, and run when it is local.
LEMMA DecideTold ==
  ASSUME TypeOK, Truthy = {}, NEW s \in Saga, NEW st \in ExecutionState,
         NEW a \in ExecuteNextStep(st, data[s]), Stands(s, st),
         SamePhases, Phase(s) = "active",
         Move(s, RanSteps(a), RanSteps(a), ThrewSteps(a),
              Probed(st, data[s]), Probed(st, data[s]))
  PROVE  Tells
<1>1. st.currentlyExecuting \in Int /\ Acts(s) \subseteq Step
  BY DEF ExecutionState, Step, NoStep, Acts
<1> DEFINE K == Probed(st, data[s])
<1>2. CASE ~st.compensating
  <2>1. Forward(s, st.currentlyExecuting, st.currentlyExecuting) /\ K = {}
    BY <1>2, ScanForward DEF Stands
  <2> HIDE DEF K
  <2>2. CASE a.kind \in {"end", "remote"}
    <3>1. Move(s, {}, {}, {}, {}, {})
      BY <2>1, <2>2 DEF RanSteps, ThrewSteps, K
    <3> QED BY <3>1, StutterTold
  <2>3. ASSUME a.kind \in {"local", "exception"}
        PROVE  a.step \in Step \cap Local /\ Pattern!May(s, a.step)
    <3>1. /\ a.step \in Acts(s) /\ a.step \in Local /\ st.currentlyExecuting < a.step
          /\ \A i \in Acts(s) : i < a.step => i <= st.currentlyExecuting
      BY <1>2, <2>3, ScanForward
    <3> QED BY <1>1, <2>1, <3>1, MayBegin
  <2>4. CASE a.kind = "local"
    <3>1. Move(s, {a.step}, {a.step}, {}, {}, {})
      BY <2>1, <2>4 DEF RanSteps, ThrewSteps, K
    <3> QED BY <2>3, <2>4, <3>1, SucceedLocallyTold
  <2>5. CASE a.kind = "exception"
    <3>1. Move(s, {}, {}, {a.step}, {}, {})
      BY <2>1, <2>5 DEF RanSteps, ThrewSteps, K
    <3> QED BY <2>3, <2>5, <3>1, FailLocallyTold
  <2> QED BY <1>2, <2>2, <2>4, <2>5, ScanForward
<1>3. CASE st.compensating
  <2>1. PICK f \in Step : BackFrom(f, s, st.currentlyExecuting, st.currentlyExecuting)
    BY <1>3 DEF Stands, Backward
  <2>2. a.kind \in {"end", "remote"}
    BY <1>3, ScanBack
  <2>3. K \subseteq Local /\ Comps(s) \subseteq Step
    BY DefinitionAssumption DEF Probed, Comps, TypeOK
  <2>4. \E m \in Int : K = {i \in Comps(s) : m < i /\ i < st.currentlyExecuting}
    <3>1. CASE a.kind = "end"
      <4>1. K = {i \in Comps(s) : i < st.currentlyExecuting}
        BY <1>3, <3>1, ScanBack
      <4>2. K = {i \in Comps(s) : -1 < i /\ i < st.currentlyExecuting}
        BY <2>3, <4>1 DEF Step
      <4> QED BY <4>2
    <3>2. CASE a.kind = "remote"
      <4>1. /\ K = {i \in Comps(s) : a.step < i /\ i < st.currentlyExecuting}
            /\ a.step \in Comps(s)
        BY <1>3, <3>2, ScanBack
      <4> HIDE DEF K
      <4> QED BY <2>3, <4>1 DEF Step
    <3> QED BY <2>2, <3>1, <3>2
  <2>5. Move(s, {}, {}, {}, K, K)
    BY <2>2 DEF RanSteps, ThrewSteps
  <2> HIDE DEF K
  <2>6. CASE K = {}
    BY <2>5, <2>6, StutterTold
  <2>7. CASE K # {}
    <3>1. Pattern!MayUndo(s, K)
      BY <1>1, <2>1, <2>4, <2>7, MayUndo
    <3> QED BY <2>3, <2>5, <3>1, UndoLocallyTold
  <2> QED BY <2>6, <2>7
<1> QED BY <1>2, <1>3

LEMMA PhaseIsNone ==
  ASSUME NEW s \in Saga, instance[s].stage = "absent", callbacks[s] = {}
  PROVE  Phase(s) = "none"
<1>1. Cardinality({}) = 0
  BY FS_EmptySet
<1> QED BY <1>1 DEF Phase

LEMMA PhaseIs ==
  ASSUME NEW s \in Saga, instance[s].stage # "absent"
  PROVE  /\ callbacks[s] = {} => Phase(s) = "active"
         /\ \A b \in BOOLEAN : callbacks[s] = End(b) =>
              Phase(s) = IF b THEN "rolledBack" ELSE "completed"
<1>1. Cardinality({}) = 0 /\ \A x : Cardinality({x}) = 1
  BY FS_EmptySet, FS_Singleton
<1>2. {"completed"} # {"rolledBack"} /\ {} # {"completed"} /\ {} # {"rolledBack"}
  OBVIOUS
<1>3. callbacks[s] = {} => Phase(s) = "active"
  BY <1>1, <1>2 DEF Phase
<1>4. callbacks[s] = {"completed"} => Phase(s) = "completed"
  <2> SUFFICES ASSUME callbacks[s] = {"completed"} PROVE Phase(s) = "completed"
    OBVIOUS
  <2>1. Cardinality({"completed"}) = 1
    BY <1>1
  <2>2. Cardinality(callbacks[s]) = 1
    BY <2>1, Zenon
  <2>3. ~(Cardinality(callbacks[s]) > 1)
    BY <2>2
  <2> QED BY <1>2, <2>3 DEF Phase
<1>5. callbacks[s] = {"rolledBack"} => Phase(s) = "rolledBack"
  BY <1>1, <1>2 DEF Phase
<1> QED BY <1>3, <1>4, <1>5 DEF End

LEMMA PhaseWillBe ==
  ASSUME NEW s \in Saga, instance'[s].stage # "absent"
  PROVE  /\ callbacks'[s] = {} => Phase(s)' = "active"
         /\ \A b \in BOOLEAN : callbacks'[s] = End(b) =>
              Phase(s)' = IF b THEN "rolledBack" ELSE "completed"
<1>1. Cardinality({}) = 0 /\ \A x : Cardinality({x}) = 1
  BY FS_EmptySet, FS_Singleton
<1>2. "completed" # "rolledBack"
  OBVIOUS
<1> QED BY <1>1, <1>2 DEF Phase, End

LEMMA PhaseKept ==
  ASSUME NEW r \in Saga, callbacks'[r] = callbacks[r],
         instance'[r].stage = "absent" <=> instance[r].stage = "absent"
  PROVE  Phase(r)' = Phase(r)
  BY DEF Phase

-----------------------------------------------------------------------------
(* The steps of the manager *)

Placed == OnePlace' /\ Tells

\* Task t has worked for saga s and for no other.
Worked(t, s) ==
  /\ t \in Saga => t = s
  /\ \A u \in Task \ {t} : SameTask(u)
  /\ \A r \in Saga \ {s} : ~Busy(t, r) /\ ~Busy(t, r)'
  /\ \A r \in Saga \ {s} : SameHistory(r) /\ SameRow(r) /\ MailKept(r)

LEMMA OthersPlaced ==
  ASSUME OnePlace, NEW t \in Task, NEW s \in Saga, Worked(t, s), Place(s)'
  PROVE  OnePlace'
<1> SUFFICES ASSUME NEW r \in Saga \ {s} PROVE Place(r)'
  BY DEF OnePlace
<1>1. r \in Task /\ r # t
  BY TasksApart DEF Worked
<1>2. SameTasks(r)
  BY <1>1 DEF Worked, SameTasks, SameTask
<1> QED BY <1>2, PlaceKept DEF OnePlace, Worked

\* Task t goes on with actions it has just chosen for s, where s stands.
LEMMA DecidePlaced ==
  ASSUME Inv, OneWriter, Calm, OnePlace, NEW t \in Task, NEW s \in Saga,
         NEW st \in ExecutionState, Stands(s, st), Decide(t, s, st),
         UNCHANGED <<data, instance, callbacks, unlocks>>,
         pc'[t] = "process", mem'[t].sagaId = s,
         \A u \in Task \ {t} : pc'[u] = pc[u] /\ mem'[u] = mem[u] /\ ~Busy(u, s),
         \A r \in Saga \ {s} : ~Busy(t, r) /\ MailKept(r),
         NoMail(s)', callbacks[s] = {},
         \/ t = s /\ instance[s] = Unstarted
         \/ t \in Node /\ instance[s].stage = "running"
  PROVE  Placed
<1>1. TypeOK /\ Truthy = {} /\ data' = data
  BY DEF Inv, Calm
<1>2. PICK a \in ExecuteNextStep(st, data[s]) :
        /\ act'[t] = a
        /\ Move(s, RanSteps(a), RanSteps(a), ThrewSteps(a),
                Probed(st, data[s]), Probed(st, data[s]))
        /\ \A j \in Step :
             /\ j \in RanSteps(a) \/ did'[s][j] = did[s][j]
             /\ j \in RanSteps(a) => did'[s][j] = did[s][j] + 1
             /\ j \in Probed(st, data[s]) \/ undid'[s][j] = undid[s][j]
             /\ j \in Probed(st, data[s]) => undid'[s][j] = undid[s][j] + 1
  BY <1>1, DecideMoves
<1>3. /\ Chosen(s, a)' /\ RanSteps(a) \cap Began(s) = {}
      /\ Probed(st, data[s]) \cap Undoes(s) = {}
  BY <1>1, <1>2, MoveStands
<1>4. \A u \in Task \ {t} : act'[u] = act[u]
  BY <1>1, Decides
<1>5. /\ \A r \in Saga \ {s} : Busy(t, r)' <=> FALSE
      /\ \A u \in Task \ {t} : ~Busy(u, s)'
  BY DEF Busy
<1>6. Worked(t, s)
  <2>1. t \in Saga => t = s
    BY TasksApart
  <2>2. \A r \in Saga \ {s} : SameHistory(r) /\ SameRow(r)
    BY <1>2 DEF Move, SameRow
  <2> QED BY <1>4, <1>5, <2>1, <2>2 DEF Worked, SameTask
<1>7. MailOK(s)' /\ OneMessage(s)'
  BY DEF NoMail, MailOK, OneMessage
<1>8. TasksStand(s)'
  <2>1. pc'[s] \notin {"idle", "start", "rejected"}
    <3>1. CASE t = s
      BY <3>1
    <3>2. CASE t # s
      <4>1. /\ s \in Task /\ pc'[s] = pc[s] /\ ~Busy(s, s)
            /\ instance[s].stage = "running"
        BY <3>2, TasksApart
      <4>2. pc[s] # "idle"
        BY <4>1 DEF OneWriter, CreateOK, NoRow
      <4>3. pc[s] # "start"
        BY <4>1 DEF Busy, OneWriter, CreateOK
      <4> QED BY <4>1, <4>2, <4>3 DEF OnePlace, Place, TasksStand
    <3> QED BY <3>1, <3>2
  <2>2. ASSUME NEW u \in Task, NEW b \in Actions, pc'[u] \in Active,
               mem'[u].sagaId = s, act'[u] = b
        PROVE  TaskStands(u, s, b)'
    <3>1. u = t /\ b = a
      BY <1>2, <1>5, <2>2 DEF Busy
    <3> QED BY <1>3, <3>1 DEF TaskStands
  <2> QED BY <2>1, <2>2 DEF TasksStand
<1>9. EndOK(s)'
  <2>1. \A u \in unlocks : u[1] # s
    BY DEF OnePlace, Place, EndOK
  <2> QED BY <2>1 DEF EndOK, Unstarted, NoRow
<1>10. CountsOK(s)'
  <2> SUFFICES ASSUME NEW j \in Step PROVE did'[s][j] <= 1 /\ undid'[s][j] <= 1
    BY DEF CountsOK
  <2>1. did[s][j] \in Nat /\ undid[s][j] \in Nat /\ did[s][j] <= 1 /\ undid[s][j] <= 1
    BY <1>1 DEF TypeOK, OnePlace, Place, CountsOK
  <2>2. did'[s][j] <= 1
    <3>1. j \in RanSteps(a) => did[s][j] = 0
      BY <1>3, <2>1 DEF Began
    <3> QED BY <1>2, <2>1, <3>1
  <2>3. undid'[s][j] <= 1
    <3>1. j \in Probed(st, data[s]) => undid[s][j] = 0
      BY <1>3, <2>1 DEF Undoes
    <3> QED BY <1>2, <2>1, <3>1
  <2> QED BY <2>2, <2>3
<1>11. Tells
  <2>1. SamePhases
    BY PhaseKept DEF SamePhases
  <2>2. Phase(s) = "active"
    BY PhaseIs DEF Unstarted, NoRow
  <2> QED BY <1>1, <1>2, <2>1, <2>2, DecideTold
<1>12. Place(s)'
  BY <1>7, <1>8, <1>9, <1>10 DEF Place
<1> QED BY <1>6, <1>11, <1>12, OthersPlaced DEF Placed

LEMMA NoMailKept ==
  ASSUME NEW s \in Saga, NoMail(s), UNCHANGED <<commands, replies>>,
         \A p : Fresh(p)' = Fresh(p)
  PROVE  NoMail(s)'
  BY DEF NoMail

\* A node is not at a saga that create is still at.
LEMMA OthersIdle ==
  ASSUME Inv, OneWriter, Alone, NEW t \in Task, NEW s \in Saga, Busy(t, s)
  PROVE  /\ \A u \in Task \ {t} : ~Busy(u, s)
         /\ \/ t = s /\ instance[s] = Unstarted
            \/ t \in Node /\ instance[s].stage = "running"
         /\ t \in Saga => t = s
         /\ \A r \in Saga \ {s} : ~Busy(t, r)
<1>1. \A u \in Task \ {t} : ~Busy(u, s)
  BY BusyAlone
<1>2. t \in Saga => t = s /\ instance[s] = Unstarted
  BY DEF Busy, OneWriter, CreateOK, Active
<1>3. t \in Node => instance[s].stage = "running"
  BY TasksApart DEF Busy, OneWriter, NodeOK
<1>4. \A r \in Saga \ {s} : ~Busy(t, r)
  BY DEF Busy
<1> QED BY <1>1, <1>2, <1>3, <1>4, TasksApart

LEMMA StartPlaced ==
  ASSUME Inv, OneWriter, Calm, OnePlace, NEW s \in Saga, Start(s)
  PROVE  Placed
<1>1. /\ pc[s] = "start" /\ Decide(s, s, InitialState)
      /\ pc' = [pc EXCEPT ![s] = "process"]
      /\ UNCHANGED <<data, instance, mem, reading, commands, replies, unlocks, callbacks>>
  BY DEF Start, Goto
<1>2. s \in Task /\ Alone /\ InitialState \in ExecutionState
  BY TasksApart, InitialIsState DEF Calm
<1>3. Busy(s, s)
  BY <1>1 DEF Busy, OneWriter, CreateOK
<1>4. /\ \A u \in Task \ {s} : ~Busy(u, s)
      /\ instance[s] = Unstarted /\ \A r \in Saga \ {s} : ~Busy(s, r)
  BY <1>2, <1>3, OthersIdle, TasksApart
<1>5. Place(s) /\ Stands(s, InitialState) /\ callbacks[s] = {}
  BY <1>1 DEF OnePlace, Place, TasksStand
<1>6. /\ pc'[s] = "process" /\ mem'[s].sagaId = s
      /\ \A u \in Task \ {s} : pc'[u] = pc[u] /\ mem'[u] = mem[u]
  BY <1>1, <1>2, <1>3 DEF Inv, TypeOK, Busy
<1>7. \A p : Fresh(p)' = Fresh(p)
  BY <1>1, <1>6, TasksApart, FreshKept
<1>8. NoMail(s)'
  BY <1>1, <1>2, <1>3, <1>5, <1>7, NoMailAt, NoMailKept
<1>9. \A r \in Saga \ {s} : MailKept(r)
  BY <1>1, <1>7, StillMail
<1> QED BY <1>1, <1>2, <1>4, <1>5, <1>6, <1>8, <1>9, DecidePlaced

\* A node goes on after a local step, or after the exception of one.
LEMMA GoesOn ==
  ASSUME Inv, OneWriter, Calm, OnePlace, NEW t \in Task, pc[t] \in {"process", "continue"},
         act[t].kind \in {"local", "exception"}, NEW s \in Saga, s = mem[t].sagaId,
         NEW st \in ExecutionState, st = Target(act[t]), Decide(t, s, st),
         pc' = [pc EXCEPT ![t] = "process"],
         UNCHANGED <<data, instance, mem, reading, commands, replies, unlocks, callbacks>>
  PROVE  Placed
<1>1. Alone /\ Busy(t, s) /\ pc[t] \in Active
  BY DEF Calm, Busy, Active
<1>2. /\ \A u \in Task \ {t} : ~Busy(u, s)
      /\ \/ t = s /\ instance[s] = Unstarted
         \/ t \in Node /\ instance[s].stage = "running"
      /\ \A r \in Saga \ {s} : ~Busy(t, r)
  BY <1>1, OthersIdle
<1>3. act[t] \in Actions /\ Place(s)
  BY DEF Inv, TypeOK, OnePlace
<1>4. TaskStands(t, s, act[t])
  BY <1>1, <1>3 DEF Place, TasksStand
<1>5. Stands(s, st) /\ callbacks[s] = {}
  BY <1>4 DEF TaskStands, Chosen
<1>6. /\ pc'[t] = "process" /\ mem'[t].sagaId = s
      /\ \A u \in Task \ {t} : pc'[u] = pc[u] /\ mem'[u] = mem[u]
  BY DEF Inv, TypeOK
<1>7. \A p : Fresh(p)' = Fresh(p)
  <2>1. \A n \in Node : pc'[n] \in Handling <=> pc[n] \in Handling
    BY <1>1, <1>6, TasksApart DEF Handling, Active
  <2> QED BY <2>1, FreshKept
<1>8. NoMail(s)'
  BY <1>1, <1>3, <1>7, NoMailAt, NoMailKept
<1>9. \A r \in Saga \ {s} : MailKept(r)
  BY <1>7, StillMail
<1> QED BY <1>2, <1>5, <1>6, <1>8, <1>9, DecidePlaced

LEMMA ContinuePlaced ==
  ASSUME Inv, OneWriter, Calm, OnePlace, NEW t \in Task, Continue(t)
  PROVE  Placed
<1> DEFINE s == mem[t].sagaId
           st == AfterReply(UpdatedState(act[t]), "SUCCESS")
<1>1. /\ pc[t] = "continue" /\ Decide(t, s, st)
      /\ pc' = [pc EXCEPT ![t] = "process"]
      /\ UNCHANGED <<data, instance, mem, reading, commands, replies, unlocks, callbacks>>
  BY DEF Continue, Goto
<1>2. act[t].kind = "local" /\ act[t] \in Actions /\ s \in Saga
  BY <1>1 DEF Inv, LabelsOK, TypeOK, SagaInstance
<1>3. TaskStands(t, s, act[t])
  BY <1>1, <1>2 DEF OnePlace, Place, TasksStand, Active
<1>4. ~act[t].compensating
  BY <1>1, <1>2, <1>3 DEF TaskStands, Chosen
<1>5. st = Target(act[t]) /\ st \in ExecutionState
  BY <1>2, <1>4 DEF AfterReply, UpdatedState, Target, ExecutionState, Actions
<1> HIDE DEF s, st
<1> QED BY <1>1, <1>2, <1>5, GoesOn DEF s

LEMMA LocalExceptionPlaced ==
  ASSUME Inv, OneWriter, Calm, OnePlace, NEW t \in Task, LocalException(t)
  PROVE  Placed
<1> DEFINE s == mem[t].sagaId
           st == AfterReply(UpdatedState(act[t]), "FAILURE")
<1>1. /\ pc[t] = "process" /\ act[t].kind = "exception"
      /\ UNCHANGED <<data, instance, reading, commands, replies, unlocks, callbacks>>
      /\ \/ t \in Saga \/ HandleReplyThrows(UpdatedState(act[t]), "FAILURE")
         \/ Decide(t, s, st) /\ UNCHANGED <<pc, mem>>
  BY DEF LocalException
<1>2. t \in Node /\ act[t] \in Actions /\ s \in Saga
  BY <1>1, TaskKinds DEF Active
<1>3. TaskStands(t, s, act[t])
  BY <1>1, <1>2 DEF OnePlace, Place, TasksStand, Active
<1>4. ~act[t].compensating
  BY <1>1, <1>2, <1>3 DEF TaskStands, Chosen
<1>5. act[t].step \in Step
  BY <1>1 DEF Inv, TasksOK, SoundActions
<1>6. ~HandleReplyThrows(UpdatedState(act[t]), "FAILURE")
  BY <1>4, <1>5 DEF HandleReplyThrows, UpdatedState
<1>7. Decide(t, s, st) /\ UNCHANGED <<pc, mem>>
  BY <1>1, <1>2, <1>6, TasksApart
<1>8. st = Target(act[t]) /\ st \in ExecutionState
  BY <1>1, <1>2, <1>4 DEF AfterReply, UpdatedState, StartCompensating, Target,
     ExecutionState, Actions
<1>9. pc' = [pc EXCEPT ![t] = "process"]
  BY <1>1, <1>7 DEF Inv, TypeOK
<1> HIDE DEF s, st
<1> QED BY <1>1, <1>2, <1>7, <1>8, <1>9, GoesOn DEF s

\* A reply is taken up where its saga stands, and it is its only message.
LEMMA HandleReplyPlaced ==
  ASSUME Inv, OneWriter, Calm, OnePlace, NEW n \in Node, NEW p \in Partition,
         HandleReplyMessage(n, p)
  PROVE  Placed
<1>1. /\ CanRead(n, p) /\ ~Unreadable(Head(replies[p]))
      /\ reading' = [reading EXCEPT ![n] = p]
      /\ UNCHANGED <<data, instance, commands, replies, unlocks, callbacks>>
  BY DEF HandleReplyMessage
<1>2. n \in Task /\ pc[n] = "idle" /\ replies[p] \in Seq(Reply) /\ replies[p] # <<>>
      /\ \A m \in Node : reading[m] # p
  BY <1>1, TasksApart DEF CanRead, Inv, TypeOK
<1>3. /\ Head(replies[p]) = replies[p][1] /\ Head(replies[p]) \in Reply
      /\ 1 \in Fresh(p)
  BY <1>2 DEF Fresh
<1>4. PICK r \in Reply : r = Head(replies[p])
  BY <1>3
<1>5. PICK s \in Saga : s = r.saga
  BY DEF Reply
<1> DEFINE row == instance[s]
           st  == AfterReply(StateOf(row), r.outcome)
<1>6. /\ Decide(n, s, st) /\ pc' = [pc EXCEPT ![n] = "process"]
      /\ mem' = [mem EXCEPT ![n] =
           [InstanceOf(s, row) EXCEPT !.destinationsAndResources =
              IF r.locked THEN {r.step} ELSE {}]]
  BY <1>4, <1>5 DEF HandleReplyMessage, Goto
<1>7. row.stage = "running" /\ ~HandleReplyThrows(StateOf(row), r.outcome)
  <2>1. row.stage \notin {"absent", "unparsable"}
        /\ ~HandleReplyThrows(StateOf(row), r.outcome)
    BY <1>1, <1>4, <1>5 DEF Unreadable
  <2>2. row \in Row /\ SoundRow(s, row)
    BY DEF Inv, TypeOK, RowsOK
  <2>3. row.stage # "ended"
    BY <2>1, <2>2 DEF HandleReplyThrows, StateOf, SoundRow, Step, NoStep
  <2> QED BY <2>1, <2>2, <2>3 DEF Row, Stage
<1>8. Alone /\ Place(s) /\ Replied(r) /\ Agrees(s, r.step, r.compensating)
  BY <1>3, <1>4, <1>5 DEF Calm, OnePlace, Place, MailOK
<1>9. \A t \in Task : ~(Busy(t, s) /\ pc[t] = "update")
  <2> SUFFICES ASSUME NEW t \in Task, Busy(t, s), pc[t] = "update" PROVE FALSE
    OBVIOUS
  <2>1. t \in Node
    BY <1>7, <1>8, OthersIdle DEF Unstarted, NoRow
  <2>2. t = n
    BY <1>8, <2>1 DEF Alone
  <2> QED BY <1>2, <2>2
<1>10. /\ row = RowOf([kind |-> "remote", step |-> r.step,
                       compensating |-> r.compensating])
       /\ \A t \in Task : ~Busy(t, s)
  BY <1>8, <1>9 DEF Agrees
<1>11. r.step \in Step /\ r.compensating \in BOOLEAN /\ r.outcome \in Outcome
  BY DEF Reply
<1>12. /\ st = [currentlyExecuting |-> r.step,
                compensating |-> r.compensating \/ r.outcome = "FAILURE"]
       /\ ~(r.compensating /\ r.outcome = "FAILURE")
  <2>1. StateOf(row) = [currentlyExecuting |-> r.step, compensating |-> r.compensating]
    BY <1>10 DEF StateOf, RowOf
  <2>2. ~(r.compensating /\ r.outcome = "FAILURE")
    BY <1>7, <2>1 DEF HandleReplyThrows
  <2>3. CASE r.outcome = "SUCCESS"
    BY <1>11, <2>1, <2>2, <2>3 DEF AfterReply
  <2>4. CASE r.outcome = "FAILURE"
    <3>1. st = [currentlyExecuting |-> r.step, compensating |-> TRUE]
      <4>1. st = [currentlyExecuting |-> row.currentlyExecuting, compensating |-> TRUE]
        BY <2>4 DEF AfterReply, StartCompensating, StateOf
      <4>2. row.currentlyExecuting = r.step
        BY <1>10 DEF RowOf
      <4> QED BY <4>1, <4>2
    <3>2. (r.compensating \/ r.outcome = "FAILURE") = TRUE
      BY <2>4
    <3> HIDE DEF st
    <3> QED BY <2>2, <3>1, <3>2
  <2> QED BY <1>11, <2>3, <2>4 DEF Outcome
<1>13. Stands(s, st) /\ st \in ExecutionState
  <2> HIDE DEF st
  <2>1. Stands(s, st)
    BY <1>5, <1>8, <1>12 DEF Replied
  <2>2. (r.compensating \/ r.outcome = "FAILURE") \in BOOLEAN
    OBVIOUS
  <2> QED BY <1>11, <1>12, <2>1, <2>2 DEF ExecutionState
<1>14. callbacks[s] = {}
  <2>1. 1 \in Fresh(p) /\ replies[p][1].saga = s
    BY <1>3, <1>4, <1>5
  <2> QED BY <1>8, <2>1, NoMailEnded DEF NoMail
<1>15. /\ pc'[n] = "process" /\ mem'[n].sagaId = s
       /\ \A u \in Task \ {n} : pc'[u] = pc[u] /\ mem'[u] = mem[u]
       /\ \A m \in Node \ {n} : reading'[m] = reading[m]
       /\ reading'[n] = p
  BY <1>1, <1>2, <1>6 DEF Inv, TypeOK, InstanceOf
<1>16. Fresh(p)' = Fresh(p) \ {1} /\ \A q \in Partition \ {p} : Fresh(q)' = Fresh(q)
  <2>1. Fresh(p) = 1 .. Len(replies[p])
    BY <1>2 DEF Fresh
  <2>2. Fresh(p)' = (1 .. Len(replies[p])) \ {1}
    BY <1>1, <1>15 DEF Fresh, Handling, Active
  <2>3. ASSUME NEW q \in Partition \ {p} PROVE Fresh(q)' = Fresh(q)
    <3>1. (\E m \in Node : reading[m] = q /\ pc[m] \in Handling)'
            <=> \E m \in Node : reading[m] = q /\ pc[m] \in Handling
      BY <1>2, <1>15, TasksApart DEF Handling, Active
    <3> QED BY <1>1, <3>1 DEF Fresh
  <2> QED BY <2>1, <2>2, <2>3
<1>17. NoMail(s)'
  <2>1. \A c \in commands : c.saga # s
    BY <1>3, <1>4, <1>5, <1>8 DEF Place, OneMessage
  <2>2. ASSUME NEW q \in Partition, NEW i \in Fresh(q)' PROVE replies[q][i].saga # s
    <3>1. i \in Fresh(q) /\ ~(q = p /\ i = 1)
      BY <1>16
    <3> QED BY <1>3, <1>4, <1>5, <1>8, <3>1 DEF Place, OneMessage
  <2> QED BY <1>1, <2>1, <2>2 DEF NoMail
<1>18. ASSUME NEW r0 \in Saga \ {s} PROVE MailKept(r0)
  <2> DEFINE d == [q \in Partition |-> 0]
  <2>1. d \in [Partition -> {0, 1}] /\ \A q \in Partition : d[q] = 0
    OBVIOUS
  <2> HIDE DEF d
  <2>2. \A q \in Partition : \A i \in Fresh(q)' : i \in Fresh(q) /\ i + d[q] = i
    BY <1>16, <2>1 DEF Fresh
  <2> QED BY <1>1, <2>1, <2>2 DEF MailKept
<1>19. \A r0 \in Saga \ {s} : ~Busy(n, r0)
  BY <1>2, TasksApart DEF Busy, Active
<1> HIDE DEF st, row
<1> QED
  BY <1>1, <1>2, <1>6, <1>7, <1>10, <1>13, <1>14, <1>15, <1>17, <1>18, <1>19,
     DecidePlaced DEF row

\* The command of what was chosen is sent.
LEMMA MoveSends ==
  ASSUME TypeOK, NEW s \in Saga, NEW a \in Actions, a.kind = "remote", Chosen(s, a),
         SamePhases, Phase(s) = "active",
         IF a.compensating THEN Move(s, {}, {}, {}, {a.step}, {})
                           ELSE Move(s, {a.step}, {}, {}, {}, {})
  PROVE  /\ Sent(s, a.step, a.compensating)'
         /\ a.step \notin IF a.compensating THEN Undoes(s) ELSE Began(s)
         /\ Tells
<1> DEFINE j == a.step
<1>1. /\ Acts(s)' = Acts(s) /\ Comps(s)' = Comps(s)
      /\ Acts(s) \subseteq Step /\ Comps(s) \subseteq Step /\ Step \subseteq Int
  <2>1. /\ Acts(s)' = Acts(s) /\ Comps(s)' = Comps(s)
        /\ Acts(s) \subseteq Step /\ Comps(s) \subseteq Step
    BY DefinitionAssumption DEF Move, Acts, Comps, TypeOK
  <2> QED BY <2>1 DEF Step
<1>2. CASE ~a.compensating
  <2>1. Move(s, {j}, {}, {}, {}, {}) /\ Forward(s, j - 1, j - 1) /\ j \in Acts(s) \ Local
    BY <1>2 DEF Chosen, Stands, Target
  <2>2. j \in Step /\ j \in Int
    BY <1>1, <2>1
  <2>3. /\ {i \in Acts(s) : i <= j} = {i \in Acts(s) : i <= j - 1} \cup {j}
        /\ j \notin {i \in Acts(s) : i <= j - 1}
        /\ \A i \in Acts(s) : i < j => i <= j - 1
    <3>1. Acts(s) \subseteq Int /\ j \in Acts(s)
      BY <1>1, <2>1
    <3> HIDE DEF j
    <3> QED BY <2>2, <3>1
  <2> HIDE DEF j
  <2>4. Forward(s, j, j - 1)' /\ j \notin Began(s)
    BY <1>1, <2>1, <2>3 DEF Forward, Move
  <2>5. Pattern!May(s, j)
    BY <1>1, <2>1, <2>2, <2>3, MayBegin
  <2>6. Tells
    BY <2>1, <2>2, <2>5, BeginTold
  <2> QED BY <1>1, <1>2, <2>1, <2>4, <2>6 DEF Sent, j
<1>3. CASE a.compensating
  <2>1. /\ Move(s, {}, {}, {}, {j}, {}) /\ Backward(s, j + 1, j + 1)
        /\ j \in Comps(s) \ Local
    BY <1>3 DEF Chosen, Stands, Target
  <2>2. j \in Step /\ j \in Int
    BY <1>1, <2>1
  <2>3. PICK f \in Step : BackFrom(f, s, j + 1, j + 1)
    BY <2>1 DEF Backward
  <2>4. f \in Int /\ j < f
    BY <1>1, <2>2, <2>3 DEF BackFrom
  <2>5. /\ {i \in Comps(s) : j <= i /\ i < f}
             = {i \in Comps(s) : j + 1 <= i /\ i < f} \cup {j}
        /\ j \notin {i \in Comps(s) : j + 1 <= i /\ i < f}
        /\ {j} = {i \in Comps(s) : j - 1 < i /\ i < j + 1}
        /\ j <= f /\ j - 1 \in Int /\ j + 1 \in Int
    <3>1. Comps(s) \subseteq Int /\ j \in Comps(s)
      BY <1>1, <2>1
    <3> HIDE DEF j
    <3> QED BY <2>2, <2>4, <3>1
  <2> HIDE DEF j
  <2>6. BackFrom(f, s, j, j + 1)' /\ j \notin Undoes(s) /\ j \in Undoes(s)'
    BY <1>1, <2>1, <2>3, <2>5 DEF BackFrom, Move
  <2>7. Pattern!MayUndo(s, {j})
    BY <2>3, <2>5, MayUndo
  <2>8. Tells
    BY <2>1, <2>2, <2>7, UndoTold
  <2> QED BY <1>3, <2>1, <2>6, <2>8 DEF Sent, Backward, j
<1> QED BY <1>2, <1>3

\* What a working task holds, named.
LEMMA AtWork ==
  ASSUME Inv, OneWriter, Calm, OnePlace, NEW t \in Task, pc[t] \in Active
  PROVE  \E s \in Saga, a \in Actions :
           /\ mem[t].sagaId = s /\ act[t] = a /\ Busy(t, s) /\ Place(s)
           /\ TaskStands(t, s, a) /\ SoundActions(s, a)
           /\ \A u \in Task \ {t} : ~Busy(u, s)
           /\ \/ t = s /\ instance[s] = Unstarted
              \/ t \in Node /\ instance[s].stage = "running"
           /\ t \in Saga => t = s
           /\ \A r \in Saga \ {s} : ~Busy(t, r)
           /\ pc[t] \in {"end", "update"} => mem[t].row = RowOf(a)
           /\ pc[t] = "end" => a.kind = "end"
<1>1. PICK s \in Saga, a \in Actions : mem[t].sagaId = s /\ act[t] = a
  BY DEF Inv, TypeOK, SagaInstance
<1>2. Busy(t, s) /\ Alone
  BY <1>1 DEF Busy, Calm
<1>3. Place(s) /\ TaskStands(t, s, a)
  BY <1>1 DEF OnePlace, Place, TasksStand
<1>4. SoundActions(s, a)
  BY <1>1 DEF Inv, TasksOK, Active
<1>5. /\ pc[t] \in {"end", "update"} => mem[t].row = RowOf(a)
      /\ pc[t] = "end" => a.kind = "end"
  BY <1>1 DEF OneWriter, WriteOK
<1> QED BY <1>1, <1>2, <1>3, <1>4, <1>5, OthersIdle

LEMMA SendCommandsPlaced ==
  ASSUME Inv, OneWriter, Calm, OnePlace, NEW t \in Task, SendCommands(t)
  PROVE  Placed
<1>1. pc[t] = "process" /\ pc[t] \in Active
  BY DEF SendCommands, Active
<1>2. PICK s \in Saga, a \in Actions :
        /\ mem[t].sagaId = s /\ act[t] = a /\ Busy(t, s) /\ Place(s)
        /\ TaskStands(t, s, a) /\ SoundActions(s, a)
        /\ \A u \in Task \ {t} : ~Busy(u, s)
        /\ \/ t = s /\ instance[s] = Unstarted
           \/ t \in Node /\ instance[s].stage = "running"
        /\ t \in Saga => t = s
        /\ \A r \in Saga \ {s} : ~Busy(t, r)
  BY <1>1, AtWork
<1>3. /\ a.kind # "exception"
      /\ mem' = [mem EXCEPT ![t].row = RowOf(a)]
      /\ pc' = [pc EXCEPT ![t] = AfterSend(a)]
      /\ UNCHANGED <<data, instance, act, reading, replies, unlocks, callbacks, answered>>
  BY <1>2 DEF SendCommands, Goto, RowOf
<1>4. Chosen(s, a) /\ callbacks[s] = {}
  BY <1>1, <1>2 DEF TaskStands
<1>5. /\ pc'[t] = AfterSend(a) /\ pc'[t] \in {"end", "update"}
      /\ pc'[t] = "end" <=> a.kind = "end"
      /\ mem'[t].sagaId = s /\ act'[t] = a
      /\ \A u \in Task \ {t} : SameTask(u)
  <2>1. mem[t] \in SagaInstance
    BY DEF Inv, TypeOK
  <2> QED BY <1>2, <1>3, <2>1 DEF Inv, TypeOK, AfterSend, SagaInstance, SameTask
<1>6. /\ Busy(t, s)' /\ \A r \in Saga \ {s} : ~Busy(t, r)'
      /\ \A u \in Task \ {t} : ~Busy(u, s)'
  BY <1>2, <1>5 DEF Busy, SameTask, Active
<1>7. \A p : Fresh(p)' = Fresh(p)
  <2>1. \A n \in Node : pc'[n] \in Handling <=> pc[n] \in Handling
    BY <1>1, <1>5, TasksApart DEF Handling, Active, SameTask
  <2> QED BY <1>3, <2>1, FreshKept
<1>8. NoMail(s) /\ Alone
  BY <1>1, <1>2, NoMailAt DEF Calm
<1>9. SamePhases /\ Phase(s) = "active"
  <2>1. SamePhases
    BY <1>3, PhaseKept DEF SamePhases
  <2> QED BY <1>2, <1>4, <2>1, PhaseIs DEF Unstarted, NoRow
<1>10. pc'[s] \notin {"idle", "start", "rejected"}
  <2>1. CASE t = s
    BY <1>5, <2>1
  <2>2. CASE t # s
    <3>1. s \in Task /\ pc'[s] = pc[s] /\ ~Busy(s, s) /\ instance[s].stage = "running"
      BY <1>2, <1>5, <2>2, TasksApart DEF SameTask
    <3>2. pc[s] # "idle" /\ pc[s] # "start"
      BY <3>1 DEF OneWriter, CreateOK, NoRow, Busy
    <3> QED BY <1>2, <3>1, <3>2 DEF Place, TasksStand
  <2> QED BY <2>1, <2>2
<1>11. EndOK(s)'
  <2>1. \A u \in unlocks : u[1] # s
    BY <1>2, <1>4 DEF Place, EndOK
  <2> QED BY <1>2, <1>3, <1>4, <2>1 DEF EndOK, Unstarted, NoRow
<1>12. \A r \in Saga \ {s} : SameRow(r)
  BY <1>3 DEF SameRow
<1>13. CASE a.kind = "remote"
  <2>1. a.step \in Step
    BY <1>2, <1>13 DEF SoundActions
  <2>2. PICK c : /\ c.saga = s /\ c.step = a.step /\ c.compensating = a.compensating
                 /\ commands' = commands \cup {c}
    BY <1>2, <1>13 DEF SendCommands
  <2>3. /\ did' = [did EXCEPT ![s][a.step] = IF a.compensating THEN @ ELSE @ + 1]
        /\ undid' = [undid EXCEPT ![s][a.step] = IF a.compensating THEN @ + 1 ELSE @]
    BY <1>2, <1>13 DEF SendCommands
  <2>4. /\ \A j \in Step : did[s][j] \in Nat /\ undid[s][j] \in Nat
        /\ \A j \in Step : did'[s][j] = IF j = a.step /\ ~a.compensating
                                        THEN did[s][j] + 1 ELSE did[s][j]
        /\ \A j \in Step : undid'[s][j] = IF j = a.step /\ a.compensating
                                          THEN undid[s][j] + 1 ELSE undid[s][j]
        /\ \A r \in Saga \ {s} : did'[r] = did[r] /\ undid'[r] = undid[r]
    BY <2>1, <2>3 DEF Inv, TypeOK
  <2>5. \A r \in Saga \ {s} : SameHistory(r)
    BY <1>3, <2>4 DEF SameHistory
  <2>6. IF a.compensating THEN Move(s, {}, {}, {}, {a.step}, {})
                          ELSE Move(s, {a.step}, {}, {}, {}, {})
    <3>1. Ok(s)' = Ok(s) /\ Broken(s)' = Broken(s) /\ Undone(s)' = Undone(s)
      BY <1>3 DEF Ok, Broken, Undone, Answers
    <3>2. /\ a.compensating => Began(s)' = Began(s) /\ Undoes(s)' = Undoes(s) \cup {a.step}
          /\ ~a.compensating => Began(s)' = Began(s) \cup {a.step} /\ Undoes(s)' = Undoes(s)
      BY <2>1, <2>4 DEF Began, Undoes
    <3> QED BY <1>3, <2>5, <3>1, <3>2 DEF Move
  <2>7. /\ Sent(s, a.step, a.compensating)' /\ Tells
        /\ a.step \notin IF a.compensating THEN Undoes(s) ELSE Began(s)
    BY <1>4, <1>9, <1>13, <2>6, MoveSends DEF Inv
  <2>8. Agrees(s, a.step, a.compensating)'
    <3>1. a = [kind |-> "remote", step |-> a.step, compensating |-> a.compensating]
      BY <1>13 DEF Actions
    <3>2. pc'[t] = "update"
      BY <1>5, <1>13
    <3> QED BY <1>5, <1>6, <3>1, <3>2 DEF Agrees
  <2>9. MailOK(s)' /\ OneMessage(s)'
    <3>1. \A b \in commands' : b.saga = s => b = c
      BY <1>8, <2>2 DEF NoMail
    <3>2. \A p \in Partition : \A i \in Fresh(p)' : replies'[p][i].saga # s
      BY <1>3, <1>7, <1>8 DEF NoMail
    <3> QED BY <2>2, <2>7, <2>8, <3>1, <3>2 DEF MailOK, OneMessage
  <2>10. TasksStand(s)'
    <3>1. ASSUME NEW u \in Task, NEW b \in Actions, pc'[u] \in Active,
                 mem'[u].sagaId = s, act'[u] = b
          PROVE  TaskStands(u, s, b)'
      <4>1. u = t /\ b = a
        BY <1>5, <1>6, <3>1 DEF Busy
      <4> QED BY <1>3, <1>4, <1>5, <1>13, <4>1 DEF TaskStands
    <3> QED BY <1>10, <3>1 DEF TasksStand
  <2>11. CountsOK(s)'
    <3> SUFFICES ASSUME NEW j \in Step PROVE did'[s][j] <= 1 /\ undid'[s][j] <= 1
      BY DEF CountsOK
    <3>1. did[s][j] <= 1 /\ undid[s][j] <= 1
      BY <1>2 DEF Place, CountsOK
    <3>2. /\ j = a.step /\ ~a.compensating => did[s][j] = 0
          /\ j = a.step /\ a.compensating => undid[s][j] = 0
      BY <2>4, <2>7 DEF Began, Undoes
    <3> QED BY <2>4, <3>1, <3>2
  <2>12. \A r \in Saga \ {s} : MailKept(r)
    <3>1. \A r \in Saga \ {s} : \A b \in commands' : b.saga = r => b \in commands
      BY <2>2
    <3> QED BY <1>3, <1>7, <3>1, StillMail
  <2>13. Worked(t, s) /\ Place(s)'
    BY <1>2, <1>5, <1>6, <1>11, <1>12, <2>5, <2>9, <2>10, <2>11, <2>12 DEF Worked, Place
  <2> QED BY <2>7, <2>13, OthersPlaced DEF Placed
<1>14. CASE a.kind # "remote"
  <2>1. UNCHANGED <<commands, did, undid>>
    BY <1>2, <1>14 DEF SendCommands
  <2>2. \A r \in Saga : SameHistory(r)
    BY <1>3, <2>1 DEF SameHistory
  <2>3. Move(s, {}, {}, {}, {}, {})
    BY <1>3, <2>2, HistoryKept DEF Move
  <2>4. MailOK(s)' /\ OneMessage(s)'
    <3>1. NoMail(s)'
      BY <1>3, <1>7, <1>8, <2>1, NoMailKept
    <3> QED BY <3>1 DEF NoMail, MailOK, OneMessage
  <2>5. Chosen(s, a)' /\ CountsOK(s)'
    BY <1>2, <1>4, <2>2, HistoryKept DEF Place
  <2>6. TasksStand(s)'
    <3>1. ASSUME NEW u \in Task, NEW b \in Actions, pc'[u] \in Active,
                 mem'[u].sagaId = s, act'[u] = b
          PROVE  TaskStands(u, s, b)'
      <4>1. u = t /\ b = a
        BY <1>5, <1>6, <3>1 DEF Busy
      <4> QED BY <1>3, <1>4, <1>5, <2>5, <4>1 DEF TaskStands
    <3> QED BY <1>10, <3>1 DEF TasksStand
  <2>7. \A r \in Saga \ {s} : MailKept(r)
    BY <1>3, <1>7, <2>1, StillMail
  <2>8. Worked(t, s) /\ Place(s)'
    BY <1>2, <1>5, <1>6, <1>11, <1>12, <2>2, <2>4, <2>5, <2>6, <2>7 DEF Worked, Place
  <2>9. Tells
    BY <1>9, <2>3, StutterTold
  <2> QED BY <2>8, <2>9, OthersPlaced DEF Placed
<1> QED BY <1>13, <1>14

LEMMA CreatePlaced ==
  ASSUME Inv, OneWriter, Calm, OnePlace, NEW s \in Saga, Create(s)
  PROVE  Placed
<1>1. /\ pc[s] = "idle" /\ pc' = [pc EXCEPT ![s] = "start"]
      /\ instance' = [instance EXCEPT ![s] = Unstarted]
      /\ mem' = [mem EXCEPT ![s] = InstanceOf(s, Unstarted)]
      /\ UNCHANGED <<data, act, reading, commands, replies, unlocks, callbacks, did,
                     undid, answered>>
  BY DEF Create, Goto
<1>2. /\ s \in Task /\ pc'[s] = "start" /\ mem'[s].sagaId = s
      /\ instance[s] = NoRow /\ instance'[s] = Unstarted
      /\ \A u \in Task \ {s} : SameTask(u)
      /\ \A r \in Saga \ {s} : instance'[r] = instance[r]
  BY <1>1, TasksApart DEF Inv, TypeOK, InstanceOf, SameTask, OneWriter, CreateOK
<1>3. \A u \in Task : ~Busy(u, s)
  <2>1. \A u \in Saga : ~Busy(u, s)
    BY <1>1 DEF Busy, OneWriter, CreateOK, Active
  <2>2. \A u \in Node : ~Busy(u, s)
    BY <1>2, TasksApart DEF Busy, OneWriter, NodeOK, NoRow
  <2> QED BY <2>1, <2>2, TasksApart
<1>4. Place(s) /\ Stands(s, InitialState) /\ callbacks[s] = {}
  BY <1>1 DEF OnePlace, Place, TasksStand
<1>5. NoMail(s)
  <2>1. \A j, b : ~Agrees(s, j, b)
    BY <1>2, <1>3 DEF Agrees, RowOf, NoRow
  <2>2. \A c \in commands : c.saga # s
    BY <1>4, <2>1 DEF Place, MailOK
  <2>3. ASSUME NEW p \in Partition, NEW i \in Fresh(p) PROVE replies[p][i].saga # s
    <3>1. replies[p][i] \in Reply
      BY DEF Inv, TypeOK, Fresh
    <3> QED BY <1>4, <2>1, <3>1 DEF Place, MailOK
  <2> QED BY <2>2, <2>3 DEF NoMail
<1>6. \A p : Fresh(p)' = Fresh(p)
  BY <1>1, <1>2, TasksApart, FreshKept DEF SameTask
<1>7. \A r \in Saga : SameHistory(r)
  BY <1>1 DEF SameHistory
<1>8. Worked(s, s)
  <2>1. \A r \in Saga \ {s} : ~Busy(s, r) /\ ~Busy(s, r)'
    BY <1>1, <1>2 DEF Busy, Active
  <2>2. \A r \in Saga \ {s} : SameRow(r) /\ MailKept(r)
    BY <1>1, <1>2, <1>6, StillMail DEF SameRow
  <2> QED BY <1>2, <1>7, <2>1, <2>2 DEF Worked
<1>9. Place(s)'
  <2>1. MailOK(s)' /\ OneMessage(s)'
    <3>1. NoMail(s)'
      BY <1>1, <1>5, <1>6, NoMailKept
    <3> QED BY <3>1 DEF NoMail, MailOK, OneMessage
  <2>2. Stands(s, InitialState)' /\ CountsOK(s)'
    BY <1>4, <1>7, HistoryKept DEF Place
  <2>3. \A u \in Task : pc'[u] \in Active => mem'[u].sagaId # s
    <3>1. \A u \in Task \ {s} : pc'[u] = pc[u] /\ mem'[u] = mem[u]
      BY <1>2 DEF SameTask
    <3> QED BY <1>2, <1>3, <3>1 DEF Busy, Active
  <2>4. TasksStand(s)'
    BY <1>1, <1>2, <1>4, <2>2, <2>3 DEF TasksStand
  <2>5. EndOK(s)'
    <3>1. \A u \in unlocks : u[1] # s
      BY <1>4 DEF Place, EndOK
    <3> QED BY <1>1, <1>2, <1>4, <3>1 DEF EndOK, Unstarted, NoRow
  <2> QED BY <2>1, <2>2, <2>4, <2>5 DEF Place
<1>10. Tells
  <2>1. Phase(s) = "none"
    BY <1>2, <1>4, PhaseIsNone DEF NoRow
  <2>2. Phase(s)' = "active"
    BY <1>1, <1>2, <1>4, PhaseWillBe DEF Unstarted, NoRow
  <2>3. \A r \in Saga \ {s} : Phase(r)' = Phase(r)
    BY <1>1, <1>2, PhaseKept
  <2> QED BY <1>7, <2>1, <2>2, <2>3, OpenTold
<1> QED BY <1>2, <1>8, <1>9, <1>10, OthersPlaced DEF Placed

LEMMA EndStatePlaced ==
  ASSUME Inv, OneWriter, Calm, OnePlace, NEW t \in Task, PerformEndStateActions(t)
  PROVE  Placed
<1>1. pc[t] = "end" /\ pc[t] \in Active
  BY DEF PerformEndStateActions, Active
<1>2. PICK s \in Saga, a \in Actions :
        /\ mem[t].sagaId = s /\ act[t] = a /\ Busy(t, s) /\ Place(s)
        /\ TaskStands(t, s, a) /\ a.kind = "end"
        /\ \A u \in Task \ {t} : ~Busy(u, s)
        /\ \/ t = s /\ instance[s] = Unstarted
           \/ t \in Node /\ instance[s].stage = "running"
        /\ t \in Saga => t = s
        /\ \A r \in Saga \ {s} : ~Busy(t, r)
  BY <1>1, AtWork
<1> DEFINE b == a.compensating
<1>3. /\ callbacks' = [callbacks EXCEPT ![s] = @ \cup End(b)]
      /\ \A u \in unlocks' : u \in unlocks \/ u[1] = s
      /\ pc' = [pc EXCEPT ![t] = "update"]
      /\ UNCHANGED <<data, instance, mem, act, reading, commands, replies, did, undid,
                     answered>>
  BY <1>2 DEF PerformEndStateActions, Goto, End
<1>4. Chosen(s, a) /\ callbacks[s] = {} /\ b \in BOOLEAN
  BY <1>1, <1>2 DEF TaskStands, Actions
<1>5. /\ callbacks'[s] = End(b) /\ callbacks'[s] # {}
      /\ \A r \in Saga \ {s} : callbacks'[r] = callbacks[r]
  BY <1>3, <1>4 DEF Inv, TypeOK, End
<1>6. /\ pc'[t] = "update" /\ mem'[t].sagaId = s /\ act'[t] = a
      /\ \A u \in Task \ {t} : SameTask(u)
  BY <1>2, <1>3 DEF Inv, TypeOK, SameTask
<1>7. /\ Busy(t, s)' /\ \A r \in Saga \ {s} : ~Busy(t, r)'
      /\ \A u \in Task \ {t} : ~Busy(u, s)'
  BY <1>2, <1>6 DEF Busy, SameTask, Active
<1>8. \A p : Fresh(p)' = Fresh(p)
  <2>1. \A n \in Node : pc'[n] \in Handling <=> pc[n] \in Handling
    BY <1>1, <1>6, TasksApart DEF Handling, Active, SameTask
  <2> QED BY <1>3, <2>1, FreshKept
<1>9. NoMail(s)
  BY <1>1, <1>2, NoMailAt DEF Calm
<1>10. \A r \in Saga : SameHistory(r)
  BY <1>3 DEF SameHistory
<1>11. Worked(t, s)
  <2>1. \A r \in Saga \ {s} : SameRow(r) /\ MailKept(r)
    BY <1>3, <1>5, <1>8, StillMail DEF SameRow
  <2> QED BY <1>2, <1>6, <1>7, <1>10, <2>1 DEF Worked
<1>12. EndStanding(s, b)
  BY <1>2, <1>4 DEF Chosen, EndStanding, Target, NoActions
<1>13. pc'[s] \notin {"idle", "start", "rejected"}
  <2>1. CASE t = s
    BY <1>6, <2>1
  <2>2. CASE t # s
    <3>1. s \in Task /\ pc'[s] = pc[s] /\ ~Busy(s, s) /\ instance[s].stage = "running"
      BY <1>2, <1>6, <2>2, TasksApart DEF SameTask
    <3>2. pc[s] # "idle" /\ pc[s] # "start"
      BY <3>1 DEF OneWriter, CreateOK, NoRow, Busy
    <3> QED BY <1>2, <3>1, <3>2 DEF Place, TasksStand
  <2> QED BY <2>1, <2>2
<1> HIDE DEF b
<1>14. Place(s)'
  <2>1. MailOK(s)' /\ OneMessage(s)'
    <3>1. NoMail(s)'
      BY <1>3, <1>8, <1>9, NoMailKept
    <3> QED BY <3>1 DEF NoMail, MailOK, OneMessage
  <2>2. Chosen(s, a)' /\ CountsOK(s)' /\ EndStanding(s, b)'
    BY <1>2, <1>4, <1>10, <1>12, HistoryKept DEF Place
  <2>3. TasksStand(s)'
    <3>1. ASSUME NEW u \in Task, NEW c \in Actions, pc'[u] \in Active,
                 mem'[u].sagaId = s, act'[u] = c
          PROVE  TaskStands(u, s, c)'
      <4>1. u = t /\ c = a
        BY <1>6, <1>7, <3>1 DEF Busy
      <4> QED BY <1>2, <1>5, <1>6, <2>2, <4>1 DEF TaskStands, b
    <3> QED BY <1>13, <3>1 DEF TasksStand
  <2>4. EndOK(s)'
    <3>1. instance'[s].stage # "ended"
      BY <1>2, <1>3 DEF Unstarted, NoRow
    <3>2. \E u \in Task : Busy(u, s)' /\ pc'[u] = "update" /\ act'[u].kind = "end"
      BY <1>2, <1>6, <1>7
    <3> QED BY <1>4, <1>5, <2>2, <3>1, <3>2 DEF EndOK
  <2> QED BY <2>1, <2>2, <2>3, <2>4 DEF Place
<1>15. Tells
  <2>1. instance[s].stage # "absent" /\ instance'[s].stage # "absent"
    BY <1>2, <1>3 DEF Unstarted, NoRow
  <2>2. Phase(s) = "active"
    BY <1>4, <2>1, PhaseIs
  <2>3. Phase(s)' = IF b THEN "rolledBack" ELSE "completed"
    BY <1>4, <1>5, <2>1, PhaseWillBe
  <2>4. \A r \in Saga \ {s} : Phase(r)' = Phase(r)
    BY <1>3, <1>5, PhaseKept
  <2> QED BY <1>4, <1>10, <1>12, <2>2, <2>3, <2>4, EndTold DEF Inv
<1> QED BY <1>11, <1>14, <1>15, OthersPlaced DEF Placed

LEMMA UpdatePlaced ==
  ASSUME Inv, OneWriter, Calm, OnePlace, NEW t \in Task, Update(t)
  PROVE  Placed
<1>1. pc[t] = "update" /\ pc[t] \in Active
  BY DEF Update, Active
<1>2. PICK s \in Saga, a \in Actions :
        /\ mem[t].sagaId = s /\ act[t] = a /\ Busy(t, s) /\ Place(s)
        /\ TaskStands(t, s, a) /\ SoundActions(s, a)
        /\ \A u \in Task \ {t} : ~Busy(u, s)
        /\ \/ t = s /\ instance[s] = Unstarted
           \/ t \in Node /\ instance[s].stage = "running"
        /\ t \in Saga => t = s
        /\ \A r \in Saga \ {s} : ~Busy(t, r)
        /\ mem[t].row = RowOf(a)
  BY <1>1, AtWork
<1>3. /\ instance' = [instance EXCEPT ![s] = RowOf(a)]
      /\ pc' = [pc EXCEPT ![t] = IF a.kind = "local" THEN "continue"
                                ELSE IF t \in Node THEN "commit" ELSE "done"]
      /\ UNCHANGED <<data, mem, act, reading, commands, replies, unlocks, callbacks,
                     did, undid, answered>>
  BY <1>2 DEF Update, Goto
<1>4. /\ instance'[s] = RowOf(a) /\ \A r \in Saga \ {s} : instance'[r] = instance[r]
      /\ instance[s].stage \notin {"absent", "ended"}
      /\ mem'[t].sagaId = s /\ act'[t] = a
      /\ a.kind = "local" => pc'[t] = "continue"
      /\ a.kind # "local" => pc'[t] \in {"commit", "done"}
      /\ pc'[t] = "commit" \/ a.kind = "local" \/ t \notin Node
      /\ \A u \in Task \ {t} : SameTask(u)
  BY <1>2, <1>3 DEF Inv, TypeOK, SameTask, Unstarted, NoRow
<1>5. /\ \A r \in Saga \ {s} : ~Busy(t, r)'
      /\ \A u \in Task \ {t} : ~Busy(u, s)'
      /\ a.kind # "local" => ~Busy(t, s)'
  BY <1>2, <1>4 DEF Busy, SameTask, Active
<1>6. \A p : Fresh(p)' = Fresh(p)
  <2>1. \A n \in Node : pc'[n] \in Handling <=> pc[n] \in Handling
    BY <1>1, <1>4, TasksApart DEF Handling, Active, SameTask
  <2> QED BY <1>3, <2>1, FreshKept
<1>7. \A r \in Saga : SameHistory(r)
  BY <1>3 DEF SameHistory
<1>8. Worked(t, s)
  <2>1. \A r \in Saga \ {s} : SameRow(r) /\ MailKept(r)
    BY <1>3, <1>4, <1>6, StillMail DEF SameRow
  <2> QED BY <1>2, <1>4, <1>5, <1>7, <2>1 DEF Worked
<1>9. a.kind \in {"local", "remote", "end"}
  BY <1>1, <1>2 DEF TaskStands, Actions, ActionKind
<1>10. MailOK(s)' /\ OneMessage(s)'
  <2>1. CASE a.kind # "remote"
    <3>1. NoMail(s)
      BY <1>2, <2>1, NoMailAt DEF Calm
    <3>2. NoMail(s)'
      BY <1>3, <1>6, <3>1, NoMailKept
    <3> QED BY <3>2 DEF NoMail, MailOK, OneMessage
  <2>2. CASE a.kind = "remote"
    <3>1. \A j, b : Agrees(s, j, b) => Agrees(s, j, b)'
      <4> SUFFICES ASSUME NEW j, NEW b, Agrees(s, j, b) PROVE Agrees(s, j, b)'
        OBVIOUS
      <4>1. a = [kind |-> "remote", step |-> j, compensating |-> b]
        BY <1>2 DEF Agrees
      <4>2. \A u \in Task : ~Busy(u, s)'
        BY <1>5, <2>2
      <4> QED BY <1>4, <4>1, <4>2 DEF Agrees
    <3>2. /\ \A j, b : Sent(s, j, b) => Sent(s, j, b)'
          /\ \A r : r.saga = s /\ Replied(r) => Replied(r)'
      BY <1>7, HistoryKept
    <3>3. MailKept(s)
      BY <1>3, <1>6, StillMail
    <3> QED BY <1>2, <3>1, <3>2, <3>3, MailStands DEF Place
  <2> QED BY <2>1, <2>2
<1>11. CountsOK(s)' /\ (Chosen(s, a) => Chosen(s, a)')
       /\ \A b : EndStanding(s, b) => EndStanding(s, b)'
  BY <1>2, <1>7, HistoryKept DEF Place
<1>12. pc'[s] \notin {"idle", "start", "rejected"}
  <2>1. CASE t = s
    BY <1>4, <2>1
  <2>2. CASE t # s
    <3>1. s \in Task /\ pc'[s] = pc[s] /\ ~Busy(s, s) /\ instance[s].stage = "running"
      BY <1>2, <1>4, <2>2, TasksApart DEF SameTask
    <3>2. pc[s] # "idle" /\ pc[s] # "start"
      BY <3>1 DEF OneWriter, CreateOK, NoRow, Busy
    <3> QED BY <1>2, <3>1, <3>2 DEF Place, TasksStand
  <2> QED BY <2>1, <2>2
<1>13. TasksStand(s)'
  <2>1. ASSUME NEW u \in Task, NEW c \in Actions, pc'[u] \in Active,
               mem'[u].sagaId = s, act'[u] = c
        PROVE  TaskStands(u, s, c)'
    <3>1. u = t /\ c = a /\ a.kind = "local"
      BY <1>4, <1>5, <2>1 DEF Busy
    <3> QED BY <1>1, <1>2, <1>3, <1>4, <1>11, <3>1 DEF TaskStands
  <2> QED BY <1>12, <2>1 DEF TasksStand
<1>14. EndOK(s)'
  <2>1. CASE a.kind = "end"
    <3>1. callbacks[s] = End(a.compensating)
      BY <1>1, <1>2, <2>1 DEF TaskStands
    <3>2. instance'[s].stage = "ended" /\ instance'[s].compensating = a.compensating
      BY <1>4, <2>1 DEF RowOf
    <3>3. callbacks[s] # {}
      BY <3>1 DEF End
    <3>4. \E b \in BOOLEAN : callbacks[s] = End(b) /\ EndStanding(s, b)
      BY <1>2, <3>3 DEF Place, EndOK
    <3> QED BY <1>3, <1>11, <3>1, <3>2, <3>3, <3>4 DEF EndOK
  <2>2. CASE a.kind # "end"
    <3>1. callbacks[s] = {}
      BY <1>2, <2>2 DEF TaskStands
    <3>2. \A u \in unlocks : u[1] # s
      BY <1>2, <3>1 DEF Place, EndOK
    <3>3. instance'[s].stage # "ended"
      BY <1>4, <2>2 DEF RowOf
    <3> QED BY <1>3, <3>1, <3>2, <3>3 DEF EndOK
  <2> QED BY <2>1, <2>2
<1>15. Tells
  <2>1. SamePhases
    <3>1. instance'[s].stage # "absent"
      BY <1>4 DEF RowOf
    <3> QED BY <1>3, <1>4, <3>1, PhaseKept DEF SamePhases
  <2>2. Move(s, {}, {}, {}, {}, {})
    BY <1>3, <1>7, HistoryKept DEF Move
  <2> QED BY <2>1, <2>2, StutterTold
<1>16. Place(s)'
  BY <1>10, <1>11, <1>13, <1>14 DEF Place
<1> QED BY <1>8, <1>15, <1>16, OthersPlaced DEF Placed

\* A node that works for no saga moves on; no message is new.
LEMMA IdlePlaced ==
  ASSUME OnePlace, NEW n \in Node, pc[n] \notin Active, pc'[n] \notin Active,
         \A u \in Task \ {n} : SameTask(u),
         UNCHANGED <<data, instance, unlocks, callbacks, did, undid, answered>>,
         \A r \in Saga : MailKept(r)
  PROVE  Placed
<1>1. \A r \in Saga : SameHistory(r) /\ SameRow(r)
  BY DEF SameHistory, SameRow
<1>2. \A r \in Saga : SameTasks(r)
  <2>1. \A r : ~Busy(n, r) /\ ~Busy(n, r)'
    BY TasksApart DEF Busy
  <2>2. \A r \in Saga : r \in Task \ {n}
    BY TasksApart
  <2> QED BY <2>1, <2>2 DEF SameTasks, SameTask
<1>3. OnePlace'
  BY <1>1, <1>2, PlaceKept DEF OnePlace
<1>4. PICK s \in Saga : TRUE
  BY ManagerAssumption
<1>5. SamePhases
  BY PhaseKept DEF SamePhases
<1>6. Move(s, {}, {}, {}, {}, {})
  BY <1>1, HistoryKept DEF Move
<1> QED BY <1>3, <1>5, <1>6, StutterTold DEF Placed

LEMMA RetryPlaced ==
  ASSUME Inv, OnePlace, NEW n \in Node, Retry(n)
  PROVE  Placed
<1>1. /\ pc[n] = "failed" /\ pc' = [pc EXCEPT ![n] = "idle"]
      /\ reading' = [reading EXCEPT ![n] = NoPartition]
      /\ UNCHANGED <<data, instance, mem, act, commands, replies, unlocks, callbacks,
                     did, undid, answered>>
  BY DEF Retry, Goto
<1>2. /\ pc'[n] = "idle" /\ \A u \in Task \ {n} : SameTask(u)
      /\ \A m \in Node \ {n} : reading'[m] = reading[m]
  BY <1>1, TasksApart DEF Inv, TypeOK, SameTask
<1>3. \A p : Fresh(p)' = Fresh(p)
  BY <1>1, <1>2, TasksApart, FreshKept DEF SameTask, Handling, Active
<1>4. \A r \in Saga : MailKept(r)
  BY <1>1, <1>3, StillMail
<1> QED BY <1>1, <1>2, <1>4, IdlePlaced DEF Active

LEMMA RejectPlaced ==
  ASSUME Inv, OnePlace, NEW n \in Node, NEW p \in Partition, RejectReplyMessage(n, p)
  PROVE  Placed
<1>1. /\ pc[n] = "idle" /\ pc' = [pc EXCEPT ![n] = "failed"]
      /\ reading' = [reading EXCEPT ![n] = p]
      /\ mem' = [mem EXCEPT ![n] = NoInstance]
      /\ act' = [act EXCEPT ![n] = NoActions]
      /\ UNCHANGED <<data, instance, commands, replies, unlocks, callbacks, did, undid,
                     answered>>
  BY DEF RejectReplyMessage, CanRead, Throw, Goto
<1>2. /\ pc'[n] = "failed" /\ \A u \in Task \ {n} : SameTask(u)
      /\ \A m \in Node \ {n} : reading'[m] = reading[m]
  BY <1>1, TasksApart DEF Inv, TypeOK, SameTask
<1>3. \A q : Fresh(q)' = Fresh(q)
  BY <1>1, <1>2, TasksApart, FreshKept DEF SameTask, Handling, Active
<1>4. \A r \in Saga : MailKept(r)
  BY <1>1, <1>3, StillMail
<1> QED BY <1>1, <1>2, <1>4, IdlePlaced DEF Active

\* The reply that was handled leaves its partition, and the others move up.
LEMMA CommitPlaced ==
  ASSUME Inv, OnePlace, NEW n \in Node, Commit(n)
  PROVE  Placed
<1>1. /\ pc[n] = "commit" /\ pc' = [pc EXCEPT ![n] = "idle"]
      /\ reading' = [reading EXCEPT ![n] = NoPartition]
      /\ mem' = [mem EXCEPT ![n] = NoInstance]
      /\ act' = [act EXCEPT ![n] = NoActions]
      /\ replies' = [replies EXCEPT ![reading[n]] = Tail(@)]
      /\ UNCHANGED <<data, instance, commands, unlocks, callbacks, did, undid, answered>>
  BY DEF Commit, Goto
<1>2. PICK p \in Partition : /\ reading[n] = p /\ replies[p] # <<>>
                             /\ \A m \in Node : reading[m] = p => m = n
  BY <1>1 DEF Inv, ReadingOK
<1>3. /\ pc'[n] = "idle" /\ \A u \in Task \ {n} : SameTask(u)
      /\ \A m \in Node \ {n} : reading'[m] = reading[m]
      /\ replies'[p] = Tail(replies[p]) /\ replies[p] \in Seq(Reply)
      /\ \A q \in Partition \ {p} : replies'[q] = replies[q]
  BY <1>1, <1>2, TasksApart DEF Inv, TypeOK, SameTask
<1>4. \A i \in 1 .. Len(Tail(replies[p])) :
        i + 1 \in 1 .. Len(replies[p]) /\ Tail(replies[p])[i] = replies[p][i + 1]
  BY <1>2, <1>3
<1>5. \A i \in Fresh(p)' : i + 1 \in Fresh(p) /\ replies'[p][i] = replies[p][i + 1]
  <2>1. \A i \in Fresh(p)' : i \in 1 .. Len(Tail(replies[p]))
    BY <1>3 DEF Fresh
  <2>2. \A i \in 1 .. Len(Tail(replies[p])) : i + 1 # 1
    OBVIOUS
  <2> QED BY <1>3, <1>4, <2>1, <2>2 DEF Fresh
<1>6. ASSUME NEW q \in Partition \ {p}, NEW i \in Fresh(q)'
      PROVE  i \in Fresh(q) /\ i \in Int /\ replies'[q][i] = replies[q][i]
  <2>1. i \in 1 .. Len(replies[q])
    BY <1>3 DEF Fresh
  <2>2. ASSUME NEW m \in Node, reading[m] = q, pc[m] \in Handling, i = 1
        PROVE  FALSE
    <3>1. m # n
      BY <1>2, <2>2
    <3>2. reading'[m] = q /\ pc'[m] \in Handling
      BY <1>3, <2>2, <3>1, TasksApart DEF SameTask, Handling
    <3> QED BY <2>2, <3>2 DEF Fresh, Handling
  <2> QED BY <1>3, <2>1, <2>2 DEF Fresh
<1>7. ASSUME NEW r \in Saga PROVE MailKept(r)
  <2> DEFINE d == [q \in Partition |-> IF q = p THEN 1 ELSE 0]
  <2>1. /\ d \in [Partition -> {0, 1}] /\ d[p] = 1
        /\ \A q \in Partition \ {p} : d[q] = 0
    OBVIOUS
  <2> HIDE DEF d
  <2>2. \A q \in Partition : \A i \in Fresh(q)' :
          i + d[q] \in Fresh(q) /\ replies'[q][i] = replies[q][i + d[q]]
    <3> SUFFICES ASSUME NEW q \in Partition, NEW i \in Fresh(q)'
                 PROVE  i + d[q] \in Fresh(q) /\ replies'[q][i] = replies[q][i + d[q]]
      OBVIOUS
    <3>1. CASE q = p
      BY <1>5, <2>1, <3>1
    <3>2. CASE q # p
      <4>1. i + d[q] = i
        BY <1>6, <2>1, <3>2
      <4> QED BY <1>6, <3>2, <4>1
    <3> QED BY <3>1, <3>2
  <2> QED BY <1>1, <2>1, <2>2 DEF MailKept
<1> QED BY <1>1, <1>3, <1>7, IdlePlaced DEF Active

\* A command is answered: the reply is what the saga is at now.
LEMMA ParticipatePlaced ==
  ASSUME Inv, OneWriter, Calm, OnePlace, NEW c \in commands, NEW p \in Partition,
         NEW o \in Outcome, Participate(c, p, o)
  PROVE  Placed
<1>1. c \in Command
  BY DEF Inv, TypeOK
<1>2. PICK s \in Saga, j \in Step, b \in BOOLEAN :
        c.saga = s /\ c.step = j /\ c.compensating = b
  BY <1>1 DEF Command
<1>3. PICK r : /\ r = [saga |-> s, step |-> j, compensating |-> b, outcome |-> o,
                       locked |-> j \in Locking /\ ~b]
               /\ replies' = [replies EXCEPT ![p] = Append(@, r)]
  BY <1>2 DEF Participate
<1>4. /\ answered' = [answered EXCEPT ![s] = @ \cup
           {[step |-> j, compensating |-> b, outcome |-> o]}]
      /\ commands' = commands \ {c}
      /\ UNCHANGED <<data, instance, pc, mem, act, reading, unlocks, callbacks, did,
                     undid>>
  BY <1>2 DEF Participate, Calm, Inv, TypeOK
<1>5. r \in Reply
  BY <1>3 DEF Reply
<1>6. Alone /\ Place(s) /\ Sent(s, j, b) /\ Agrees(s, j, b)
  BY <1>2 DEF Calm, OnePlace, Place, MailOK
<1>7. callbacks[s] = {}
  BY <1>2, <1>6, NoMailEnded DEF NoMail
<1>8. /\ \A t \in Task : Busy(t, s) => pc[t] = "update" /\ act[t].kind = "remote"
      /\ instance[s].stage # "absent"
  <2>1. CASE instance[s] = RowOf([kind |-> "remote", step |-> j, compensating |-> b])
             /\ \A t \in Task : ~Busy(t, s)
    BY <2>1 DEF RowOf
  <2>2. ASSUME NEW t \in Task, Busy(t, s), pc[t] = "update",
               act[t] = [kind |-> "remote", step |-> j, compensating |-> b]
        PROVE  /\ \A u \in Task : Busy(u, s) => pc[u] = "update" /\ act[u].kind = "remote"
               /\ instance[s].stage # "absent"
    BY <1>6, <2>2, OthersIdle DEF Unstarted, NoRow
  <2> QED BY <1>6, <2>1, <2>2 DEF Agrees
<1>9. pc[s] \notin {"idle", "start", "rejected"}
  <2>1. pc[s] # "idle"
    BY <1>8 DEF OneWriter, CreateOK, NoRow
  <2>2. pc[s] # "start"
    BY <1>8, TasksApart DEF Busy, OneWriter, CreateOK
  <2> QED BY <1>6, <2>1, <2>2 DEF Place, TasksStand
<1>10. /\ \A q \in Saga \ {s} : SameHistory(q)
       /\ Began(s)' = Began(s) /\ Undoes(s)' = Undoes(s)
       /\ answered'[s] = answered[s] \cup
            {[step |-> j, compensating |-> b, outcome |-> o]}
  BY <1>4 DEF SameHistory, Began, Undoes, Inv, TypeOK
<1>11. Move(s, {}, IF ~b /\ o = "SUCCESS" THEN {j} ELSE {},
               IF ~b /\ o = "FAILURE" THEN {j} ELSE {}, {},
               IF b /\ o = "SUCCESS" THEN {j} ELSE {})
  <2>1. Ok(s)' = Ok(s) \cup (IF ~b /\ o = "SUCCESS" THEN {j} ELSE {})
    BY <1>10 DEF Ok, Answers
  <2>2. Broken(s)' = Broken(s) \cup (IF ~b /\ o = "FAILURE" THEN {j} ELSE {})
    BY <1>10 DEF Broken, Answers
  <2>3. Undone(s)' = Undone(s) \cup (IF b /\ o = "SUCCESS" THEN {j} ELSE {})
    BY <1>10 DEF Undone, Answers
  <2> QED BY <1>4, <1>10, <2>1, <2>2, <2>3 DEF Move
<1>12. /\ Acts(s)' = Acts(s) /\ Comps(s)' = Comps(s)
       /\ Acts(s) \subseteq Int /\ Comps(s) \subseteq Int /\ j \in Int
       /\ \A i \in Step : i \in Int
  <2>1. Acts(s) \subseteq Step /\ Comps(s) \subseteq Step
    BY DefinitionAssumption DEF Acts, Comps, Inv, TypeOK
  <2>2. Step \subseteq Int
    BY DEF Step
  <2> QED BY <1>4, <2>1, <2>2 DEF Acts, Comps
<1>13. SamePhases
  BY <1>4, PhaseKept DEF SamePhases
<1>14. Replied(r)' /\ Tells
  <2>1. CASE ~b
    <3>1. Forward(s, j, j - 1) /\ j \in Acts(s) \ Local
      BY <1>6, <2>1 DEF Sent
    <3>2. /\ {i \in Acts(s) : i <= j} = {i \in Acts(s) : i <= j - 1} \cup {j}
          /\ j \notin {i \in Acts(s) : i <= j - 1}
          /\ {i \in Acts(s) : i <= j - 1} = {i \in Acts(s) : i < j}
          /\ {i \in Acts(s) : i <= j}
               = {i \in Acts(s) : i < j \/ (i = j /\ j \notin Local)}
          /\ {i \in Comps(s) : j <= i /\ i < j} = {}
      BY <1>12, <3>1
    <3>3. j \in Began(s) \ Ok(s)
      BY <3>1, <3>2 DEF Forward
    <3>4. CASE o = "SUCCESS"
      <4>1. Move(s, {}, {j}, {}, {}, {})
        BY <1>11, <2>1, <3>4
      <4>2. Forward(s, j, j)'
        BY <1>12, <3>1, <3>2, <4>1 DEF Forward, Move
      <4>3. Replied(r)'
        BY <1>3, <2>1, <3>4, <4>2 DEF Replied, Stands
      <4> QED BY <1>13, <3>3, <4>1, <4>3, SucceedTold
    <3>5. CASE o = "FAILURE"
      <4>1. Move(s, {}, {}, {j}, {}, {})
        BY <1>11, <2>1, <3>5
      <4>2. BackFrom(j, s, j, j)'
        BY <1>12, <3>1, <3>2, <4>1 DEF Forward, BackFrom, Move
      <4>3. Replied(r)'
        BY <1>3, <2>1, <3>5, <4>2 DEF Replied, Stands, Backward
      <4> QED BY <1>13, <3>3, <4>1, <4>3, FailTold
    <3> QED BY <3>4, <3>5 DEF Outcome
  <2>2. CASE b
    <3>1. j \notin Local /\ j \in Undoes(s)
      BY <1>6, <2>2 DEF Sent
    <3>2. PICK f \in Step : BackFrom(f, s, j, j + 1)
      BY <1>6, <2>2 DEF Sent, Backward
    <3>3. j \in Comps(s) /\ j < f /\ f \in Int
      BY <1>12, <3>1, <3>2 DEF BackFrom
    <3>4. /\ {i \in Comps(s) : j <= i /\ i < f}
               = {i \in Comps(s) : j + 1 <= i /\ i < f} \cup {j}
          /\ j \notin {i \in Comps(s) : j + 1 <= i /\ i < f}
      BY <1>12, <3>3
    <3>5. CASE o = "SUCCESS"
      <4>1. Move(s, {}, {}, {}, {}, {j})
        BY <1>11, <2>2, <3>5
      <4>2. BackFrom(f, s, j, j)'
        BY <1>12, <3>2, <3>4, <4>1 DEF BackFrom, Move
      <4>3. Replied(r)'
        BY <1>3, <2>2, <3>5, <4>2 DEF Replied, Stands, Backward
      <4>4. j \in Undoes(s) \ Undone(s)
        BY <3>1, <3>2, <3>4 DEF BackFrom
      <4> QED BY <1>13, <4>1, <4>3, <4>4, UndoneTold
    <3>6. CASE o = "FAILURE"
      <4>1. Move(s, {}, {}, {}, {}, {})
        BY <1>11, <2>2, <3>6
      <4>2. BackFrom(f, s, j, j + 1)' /\ j \in Undoes(s)'
        BY <1>12, <3>1, <3>2, <4>1 DEF BackFrom, Move
      <4>3. Sent(s, j, TRUE)'
        BY <3>1, <4>2 DEF Sent, Backward
      <4>4. Replied(r)'
        BY <1>3, <2>2, <3>6, <4>3 DEF Replied
      <4> QED BY <1>13, <4>1, <4>4, StutterTold
    <3> QED BY <3>5, <3>6 DEF Outcome
  <2> QED BY <2>1, <2>2
<1> DEFINE L == Len(replies[p]) + 1
<1>15. /\ replies[p] \in Seq(Reply) /\ L \in Int
       /\ Len(replies'[p]) = L /\ replies'[p][L] = r
       /\ \A i \in 1 .. Len(replies[p]) : i # L /\ replies'[p][i] = replies[p][i]
       /\ \A q \in Partition \ {p} : replies'[q] = replies[q]
  BY <1>3 DEF Inv, TypeOK
<1>16. /\ \A q \in Partition : \A i \in Fresh(q)' :
            \/ i \in Fresh(q) /\ replies'[q][i] = replies[q][i]
            \/ q = p /\ i = L
       /\ \A q \in Partition : \A i \in Fresh(q)' : i \in Int
  <2> SUFFICES ASSUME NEW q \in Partition, NEW i \in Fresh(q)'
               PROVE  /\ \/ i \in Fresh(q) /\ replies'[q][i] = replies[q][i]
                         \/ q = p /\ i = L
                      /\ i \in Int
    OBVIOUS
  <2>1. CASE q # p
    BY <1>4, <1>15, <2>1 DEF Fresh
  <2>2. CASE q = p
    <3>1. i \in 1 .. L /\ i \in Int
      BY <1>15, <2>2 DEF Fresh
    <3>2. CASE i = L
      BY <2>2, <3>1, <3>2
    <3>3. CASE i # L
      <4>1. i \in 1 .. Len(replies[p])
        BY <1>15, <3>1, <3>3
      <4> QED BY <1>4, <1>15, <2>2, <3>1, <4>1 DEF Fresh
    <3> QED BY <3>2, <3>3
  <2> QED BY <2>1, <2>2
<1> HIDE DEF L
\* Before, c was the only message of s.
<1>17. /\ \A a \in commands : a.saga = s => a = c
       /\ \A q \in Partition : \A i \in Fresh(q) : replies[q][i].saga # s
  BY <1>2, <1>6 DEF Place, OneMessage
<1>18. r.saga = s /\ r.step = j /\ r.compensating = b
  BY <1>3
<1>19. Agrees(s, j, b)'
  <2>1. \A t \in Task : Busy(t, s)' <=> Busy(t, s)
    BY <1>4 DEF Busy
  <2> QED BY <1>4, <1>6, <2>1 DEF Agrees
<1>20. MailOK(s)' /\ OneMessage(s)'
  <2>1. \A a \in commands' : a.saga # s
    BY <1>4, <1>17
  <2>2. \A q \in Partition : \A i \in Fresh(q)' :
          replies'[q][i].saga = s => q = p /\ i = L
    BY <1>16, <1>17
  <2>3. \A x \in Reply : \A q \in Partition : \A i \in Fresh(q)' :
          replies'[q][i] = x /\ x.saga = s =>
            Replied(x)' /\ Agrees(s, x.step, x.compensating)'
    BY <1>14, <1>15, <1>18, <1>19, <2>2
  <2>4. MailOK(s)'
    BY <2>1, <2>3 DEF MailOK
  <2>5. OneMessage(s)'
    BY <2>1, <2>2 DEF OneMessage
  <2> QED BY <2>4, <2>5
<1>21. TasksStand(s)'
  <2> SUFFICES ASSUME NEW u \in Task, NEW a \in Actions, pc'[u] \in Active,
                      mem'[u].sagaId = s, act'[u] = a
               PROVE  TaskStands(u, s, a)'
    BY <1>4, <1>9 DEF TasksStand
  <2>1. pc[u] = "update" /\ a.kind = "remote"
    BY <1>4, <1>8 DEF Busy
  <2> QED BY <1>4, <1>7, <2>1 DEF TaskStands
<1>22. EndOK(s)' /\ CountsOK(s)'
  <2>1. \A u \in unlocks : u[1] # s
    BY <1>6, <1>7 DEF Place, EndOK
  <2>2. instance[s].stage # "ended"
    BY <1>6, <1>7 DEF Place, EndOK, End
  <2> QED BY <1>4, <1>6, <1>7, <2>1, <2>2 DEF EndOK, CountsOK, Place
<1>23. Place(s)'
  BY <1>20, <1>21, <1>22 DEF Place
<1>24. ASSUME NEW q \in Saga \ {s} PROVE Place(q)'
  <2>1. SameTasks(q) /\ SameRow(q)
    BY <1>4 DEF SameTasks, SameTask, SameRow
  <2>2. MailKept(q)
    <3> DEFINE d == [x \in Partition |-> 0]
    <3>1. d \in [Partition -> {0, 1}] /\ \A x \in Partition : d[x] = 0
      OBVIOUS
    <3> HIDE DEF d
    <3>2. \A x \in Partition : \A i \in Fresh(x)' : i + d[x] = i
      BY <1>16, <3>1
    <3>3. \A x \in Partition : \A i \in Fresh(x)' : replies'[x][i].saga = q =>
            i \in Fresh(x) /\ replies'[x][i] = replies[x][i]
      BY <1>15, <1>16, <1>18
    <3>4. \A a \in commands' : a.saga = q => a \in commands
      BY <1>4
    <3> QED BY <3>1, <3>2, <3>3, <3>4 DEF MailKept
  <2> QED BY <1>10, <2>1, <2>2, PlaceKept DEF OnePlace
<1> QED BY <1>14, <1>23, <1>24 DEF Placed, OnePlace

LEMMA StillPlaced ==
  ASSUME OnePlace, UNCHANGED vars
  PROVE  Placed
<1>1. \A r \in Saga : SameHistory(r) /\ SameRow(r) /\ SameTasks(r)
  BY DEF vars, SameHistory, SameRow, SameTasks, SameTask
<1>2. \A p : Fresh(p)' = Fresh(p)
  BY DEF vars, Fresh
<1>3. \A r \in Saga : MailKept(r)
  BY <1>2, StillMail DEF vars
<1>4. PICK s \in Saga : TRUE
  BY ManagerAssumption
<1>5. SamePhases
  BY PhaseKept DEF SamePhases, vars
<1>6. Move(s, {}, {}, {}, {}, {})
  BY <1>1, HistoryKept DEF Move, vars
<1>7. OnePlace'
  BY <1>1, <1>3, PlaceKept DEF OnePlace
<1> QED BY <1>5, <1>6, <1>7, StutterTold DEF Placed

LEMMA NextPlaced ==
  ASSUME Inv, OneWriter, Calm, OnePlace, [Next]_vars
  PROVE  Placed
<1>1. ~(crashes < MaxCrashes)
  BY DEF Calm, Inv, TypeOK
<1>2. CASE \E s \in Saga : Create(s) \/ Start(s)
  BY <1>2, CreatePlaced, StartPlaced
<1>3. CASE \E t \in Task : ProcessActions(t) \/ AwaitRejects(t)
  BY <1>1, <1>3, LocalExceptionPlaced, SendCommandsPlaced, EndStatePlaced, UpdatePlaced,
     ContinuePlaced DEF ProcessActions, AwaitRejects
<1>4. CASE \E n \in Node, p \in Partition :
             HandleReplyMessage(n, p) \/ RejectReplyMessage(n, p) \/ SkipReplyMessage(n, p)
  BY <1>1, <1>4, HandleReplyPlaced, RejectPlaced DEF SkipReplyMessage
<1>5. CASE \E n \in Node : Retry(n) \/ Commit(n) \/ Crash(n)
  BY <1>1, <1>5, RetryPlaced, CommitPlaced DEF Crash
<1>6. CASE \E c \in commands, p \in Partition, o \in Outcome : Participate(c, p, o)
  BY <1>6, ParticipatePlaced
<1>7. CASE \E c \in commands : SkipCommand(c)
  BY <1>1, <1>7 DEF SkipCommand
<1>8. CASE Terminated \/ UNCHANGED vars
  BY <1>8, StillPlaced DEF Terminated
<1> QED BY <1>2, <1>3, <1>4, <1>5, <1>6, <1>7, <1>8 DEF Next

LEMMA InitPlaced ==
  ASSUME Init PROVE OnePlace /\ Pattern!Init
<1>1. /\ \A s \in Saga : instance[s] = NoRow /\ callbacks[s] = {} /\ answered[s] = {}
      /\ \A s \in Saga : \A j \in Step : did[s][j] = 0 /\ undid[s][j] = 0
      /\ \A t \in Task : pc[t] = "idle"
      /\ \A p \in Partition : replies[p] = <<>>
      /\ commands = {} /\ unlocks = {} /\ data \in [Saga -> Data]
  BY DEF Init
<1>2. \A p \in Partition : Fresh(p) = {}
  BY <1>1 DEF Fresh
<1>3. \A s \in Saga : /\ Began(s) = {} /\ Ok(s) = {} /\ Broken(s) = {}
                      /\ Undoes(s) = {} /\ Undone(s) = {}
  BY <1>1 DEF Began, Ok, Broken, Undoes, Undone, Answers
<1>4. ASSUME NEW s \in Saga PROVE Place(s)
  <2>1. MailOK(s) /\ OneMessage(s)
    BY <1>1, <1>2 DEF MailOK, OneMessage
  <2>2. Stands(s, InitialState)
    <3>1. {i \in Acts(s) : i <= -1} = {}
      BY DEF Acts, Step
    <3> QED BY <1>3, <3>1 DEF Stands, Forward, InitialState, NoStep
  <2>3. TasksStand(s)
    BY <1>1, <2>2, TasksApart DEF TasksStand, Active
  <2>4. EndOK(s) /\ CountsOK(s)
    BY <1>1 DEF EndOK, CountsOK, NoRow
  <2> QED BY <2>1, <2>3, <2>4 DEF Place
<1>5. \A s \in Saga : Phase(s) = "none"
  BY <1>1, PhaseIsNone DEF NoRow
<1>6. /\ Phases = [s \in Saga |-> "none"]
      /\ Begans = [s \in Saga |-> {}] /\ Oks = [s \in Saga |-> {}]
      /\ Brokens = [s \in Saga |-> {}] /\ Undoings = [s \in Saga |-> {}]
      /\ Undones = [s \in Saga |-> {}]
  BY <1>3, <1>5 DEF Phases, Begans, Oks, Brokens, Undoings, Undones
<1>7. Pattern!Init
  BY <1>1, <1>6 DEF Pattern!Init, Pattern!None, Phases, Begans, Oks, Brokens, Undoings,
     Undones, Began, Ok, Broken, Undoes, Undone
<1> QED BY <1>4, <1>7 DEF OnePlace

LEMMA OnePlaceHolds == Calm => (Spec => []OnePlace)
<1> SUFFICES ASSUME Calm PROVE Spec => []OnePlace
  OBVIOUS
<1>1. Alone
  BY DEF Calm
<1>2. Init => OnePlace
  BY InitPlaced
<1>3. Inv /\ OneWriter /\ OnePlace /\ [Next]_vars => OnePlace'
  BY NextPlaced DEF Placed
<1> QED BY <1>1, <1>2, <1>3, Invariance, OneWriterHolds, PTL DEF Spec

\* When nothing crashes and nothing is delivered twice, no action and no
\* compensation is started twice, and the stored end of a saga agrees with the
\* one callback its owner got.
THEOREM StartedOnce == Calm => (Spec => []OnceEach)
<1> SUFFICES ASSUME Calm PROVE Spec => []OnceEach
  OBVIOUS
<1>1. OnePlace => OnceEach
  BY DEF OnePlace, Place, CountsOK, EndOK, OnceEach, Calm, End
<1> QED BY <1>1, OnePlaceHolds, PTL

\* A resource is released only when every command of its saga is answered, so
\* that no other saga gets in between.
THEOREM ReleasedLast == Calm => (Spec => []UnlocksComeLast)
<1> SUFFICES ASSUME Calm PROVE Spec => []UnlocksComeLast
  OBVIOUS
<1>1. ASSUME Inv, OneWriter, OnePlace PROVE UnlocksComeLast
  <2> SUFFICES ASSUME NEW s \in Saga, NEW k \in Step, <<s, k>> \in unlocks
               PROVE  /\ \A c \in commands : c.saga # s
                      /\ \A j \in Step :
                           /\ did[s][j] > 0 =>
                                \E x \in answered[s] : x.step = j /\ ~x.compensating
                           /\ undid[s][j] > 0 =>
                                [step |-> j, compensating |-> TRUE,
                                 outcome |-> "SUCCESS"] \in answered[s]
    BY <1>1 DEF UnlocksComeLast, Inv, TypeOK
  <2>1. Place(s) /\ callbacks[s] # {}
    BY <1>1 DEF OnePlace, Place, EndOK
  <2>2. \A c \in commands : c.saga # s
    BY <1>1, <2>1, NoMailEnded DEF NoMail, Calm
  <2>3. PICK b \in BOOLEAN : EndStanding(s, b)
    BY <2>1 DEF Place, EndOK
  <2>4. Began(s) \subseteq Ok(s) \cup Broken(s) /\ Undoes(s) \subseteq Undone(s)
    <3>1. CASE ~b
      BY <2>3, <3>1 DEF EndStanding, Stands, Target, NoActions, Forward
    <3>2. CASE b
      BY <2>3, <3>2 DEF EndStanding, Stands, Target, NoActions, Backward, BackFrom
    <3> QED BY <3>1, <3>2
  <2>5. ASSUME NEW j \in Step, did[s][j] > 0
        PROVE  \E x \in answered[s] : x.step = j /\ ~x.compensating
    <3>1. j \in Ok(s) \/ j \in Broken(s)
      BY <2>4, <2>5 DEF Began
    <3> QED BY <3>1 DEF Ok, Broken, Answers
  <2>6. ASSUME NEW j \in Step, undid[s][j] > 0
        PROVE  [step |-> j, compensating |-> TRUE, outcome |-> "SUCCESS"] \in answered[s]
    BY <2>4, <2>6 DEF Undoes, Undone, Answers
  <2> QED BY <2>2, <2>5, <2>6
<1>2. Alone
  BY DEF Calm
<1> QED BY <1>1, <1>2, Invariance, OneWriterHolds, OnePlaceHolds, PTL

\* The manager, its consumers, rows and messages implement SagaPattern.
THEOREM PatternImplemented == Calm => (Spec => ImplementsPattern)
<1> SUFFICES ASSUME Calm PROVE Spec => ImplementsPattern
  OBVIOUS
<1>1. Init => Pattern!Init
  BY InitPlaced
<1>2. Inv /\ OneWriter /\ OnePlace /\ [Next]_vars => [Pattern!Next]_(Pattern!vars)
  BY NextPlaced DEF Placed, Tells
<1>3. Alone
  BY DEF Calm
<1> QED
  BY <1>1, <1>2, <1>3, Invariance, OneWriterHolds, OnePlaceHolds, PTL
     DEF Spec, ImplementsPattern, Pattern!Spec
=============================================================================
