---------------------------- MODULE SagaManager ----------------------------
(***************************************************************************)
(* SagaManager of packages/sagas/orchestration: sagas are created by calls *)
(* to create, advanced by the consumers of the reply channel, and stored   *)
(* in the database repository.                                             *)
(*                                                                         *)
(* A task is one run of an async function: the call of create for a saga,  *)
(* or the eachMessage loop of a node.  A node handles one reply at a time, *)
(* but its loop interleaves with the create calls of any node at every     *)
(* await.  Commands leave before the instance is written, and the write    *)
(* compares no version.  A reply stays at the head of its partition until  *)
(* its handler has returned, so a throw or a crash means redelivery.       *)
(*                                                                         *)
(* The participants, Kafka and TypeORM are external: a participant answers *)
(* every command it handles, a partition is a queue read by one node at a  *)
(* time, and EntityManager.create, which createDestinationsAndResources    *)
(* and claimLock call, builds an entity without inserting it.              *)
(***************************************************************************)
EXTENDS SagaDefinition, Sequences, FiniteSets

CONSTANTS
  Saga,                 \* instances of the saga type
  Node,                 \* processes running the service
  Home,                 \* the node each saga is created on
  Partition,            \* partitions of the reply channel
  NoPartition,
  Locking,              \* steps whose handler replies withLock
  CompensationMayFail,  \* may a participant refuse a compensation?
  MaxRuns,              \* bound on the times one step's action, or its
                        \* compensation, is started
  MaxCrashes,           \* bound on node crashes, rejected awaits and
                        \* skipped messages
  MaxRedeliveries       \* bound on commands delivered twice

ASSUME ManagerAssumption ==
  /\ Saga # {}
  /\ Saga \cap Node = {}
  /\ Home \in [Saga -> Node]
  /\ NoPartition \notin Partition
  /\ Locking \subseteq Step
  /\ CompensationMayFail \in BOOLEAN
  /\ MaxRuns \in Nat
  /\ MaxCrashes \in Nat
  /\ MaxRedeliveries \in Nat

VARIABLES
  data,          \* the valuation each saga is created with
  instance,      \* the saga_instance table
  pc,            \* where each task is
  mem,           \* the SagaInstance each task holds
  act,           \* the SagaActions each task is processing
  reading,       \* the partition a node handles the head of
  commands,      \* commands sent and not yet handled
  replies,       \* uncommitted replies, per partition
  unlocks,       \* the unlock commands sent
  callbacks,     \* onSagaCompletedSuccessfully and onSagaRolledBack calls
  crashes, redeliveries,
  did, undid,    \* history: actions and compensations started, per step
  answered       \* history: how they ended

vars == <<data, instance, pc, mem, act, reading, commands, replies, unlocks,
          callbacks, crashes, redeliveries, did, undid, answered>>

Task == Saga \cup Node

\* A row: absent, with the state name '????' that create saves, with an
\* encoded execution state, or with the encoded end state.  The compensating
\* column and the state's own field agree except in the end state, where only
\* the column is kept here.
Stage == {"absent", "unparsable", "running", "ended"}

Row == [stage : Stage, currentlyExecuting : Step \cup {NoStep},
        compensating : BOOLEAN]

SagaInstance ==
  [sagaId : Saga, row : Row, destinationsAndResources : SUBSET Step]

Command == [saga : Saga, step : Step, compensating : BOOLEAN, n : Nat]

Reply == [saga : Saga, step : Step, compensating : BOOLEAN,
          outcome : Outcome, locked : BOOLEAN]

Answer == [step : Step, compensating : BOOLEAN, outcome : Outcome]

Label == {"idle", "start", "process", "end", "update", "continue", "commit",
          "failed", "done", "rejected"}

NoRow == [stage |-> "absent", currentlyExecuting |-> NoStep,
          compensating |-> FALSE]

Unstarted == [NoRow EXCEPT !.stage = "unparsable"]

\* What find returns: the row, and none of the destinations and resources.
InstanceOf(s, row) ==
  [sagaId |-> s, row |-> row, destinationsAndResources |-> {}]

NoInstance == InstanceOf(CHOOSE s \in Saga : TRUE, NoRow)

StateOf_Forward(row) ==
  [currentlyExecuting |-> row.currentlyExecuting, compensating |-> FALSE]

StateOf(row) == [currentlyExecuting |-> row.currentlyExecuting,
                 compensating |-> row.compensating]

Init ==
  /\ data \in [Saga -> Data]
  /\ instance = [s \in Saga |-> NoRow]
  /\ pc = [t \in Task |-> "idle"]
  /\ mem = [t \in Task |-> NoInstance]
  /\ act = [t \in Task |-> NoActions]
  /\ reading = [n \in Node |-> NoPartition]
  /\ commands = {}
  /\ replies = [p \in Partition |-> <<>>]
  /\ unlocks = {}
  /\ callbacks = [s \in Saga |-> {}]
  /\ crashes = 0 /\ redeliveries = 0
  /\ did = [s \in Saga |-> [j \in Step |-> 0]]
  /\ undid = [s \in Saga |-> [j \in Step |-> 0]]
  /\ answered = [s \in Saga |-> {}]

-----------------------------------------------------------------------------
(* Choosing a step *)

Goto(t, l) == pc' = [pc EXCEPT ![t] = l]

Ran(a, j, compensating) ==
  a.kind = "local" /\ a.step = j /\ a.compensating = compensating

LocalAnswers(st, d, a) ==
  {[step |-> k, compensating |-> TRUE, outcome |-> "SUCCESS"] :
     k \in Probed(st, d)}
  \cup
  {[step |-> a.step, compensating |-> a.compensating, outcome |-> o] :
     o \in CASE a.kind = "local"     -> {"SUCCESS"}
             [] a.kind = "exception" -> {"FAILURE"}
             [] OTHER                -> {}}

\* Nodes that read stale rows, or a reply that is retried for ever, can start
\* a step any number of times.
WithinBound(s) ==
  \A j \in Step : did'[s][j] <= MaxRuns /\ undid'[s][j] <= MaxRuns

\* executeNextStep, run by task t for saga s from execution state st: choose
\* the next step; if it is local, run it; run the compensations the scan asks.
Decide(t, s, st) ==
  \E a \in ExecuteNextStep(st, data[s]) :
    /\ act' = [act EXCEPT ![t] = a]
    /\ did' = [did EXCEPT ![s] =
         [j \in Step |-> IF Ran(a, j, FALSE) THEN @[j] + 1 ELSE @[j]]]
    /\ undid' = [undid EXCEPT ![s] =
         [j \in Step |-> @[j]
                         + (IF j \in Probed(st, data[s]) THEN 1 ELSE 0)
                         + (IF Ran(a, j, TRUE) THEN 1 ELSE 0)]]
    /\ WithinBound(s)
    /\ answered' = [answered EXCEPT ![s] = @ \cup LocalAnswers(st, data[s], a)]

\* What only a throw does: a consumer's message is retried, a create call
\* rejects and nothing takes the saga up again.
Throw(t) ==
  /\ Goto(t, IF t \in Node THEN "failed" ELSE "rejected")
  /\ mem' = [mem EXCEPT ![t] = NoInstance]
  /\ act' = [act EXCEPT ![t] = NoActions]

-----------------------------------------------------------------------------
(* create *)

\* A new row is saved with state name '????'.
Create(s) ==
  /\ pc[s] = "idle"
  /\ instance' = [instance EXCEPT ![s] = Unstarted]
  /\ mem' = [mem EXCEPT ![s] = InstanceOf(s, Unstarted)]
  /\ Goto(s, "start")
  /\ UNCHANGED <<data, act, reading, commands, replies, unlocks, callbacks,
                 crashes, redeliveries, did, undid, answered>>

\* claimLock inserts nothing, so it never refuses; the definition chooses the
\* first step.
Start(s) ==
  /\ pc[s] = "start"
  /\ Decide(s, s, InitialState)
  /\ Goto(s, "process")
  /\ UNCHANGED <<data, instance, mem, reading, commands, replies, unlocks,
                 callbacks, crashes, redeliveries>>

-----------------------------------------------------------------------------
(* processActions *)

\* The exception of the very first step leaves create; any other one is
\* answered by the definition as a failure reply would be.  The instance is
\* neither changed nor written.
LocalException(t) ==
  LET st == UpdatedState(act[t])
      s  == mem[t].sagaId
  IN
  /\ pc[t] = "process"
  /\ act[t].kind = "exception"
  /\ IF \/ t \in Saga /\ mem[t].row = Unstarted
        \/ HandleReplyThrows(st, "FAILURE")
     THEN Throw(t) /\ UNCHANGED <<did, undid, answered>>
     ELSE Decide(t, s, AfterReply(st, "FAILURE")) /\ UNCHANGED <<pc, mem>>
  /\ UNCHANGED <<data, instance, reading, commands, replies, unlocks,
                 callbacks, crashes, redeliveries>>

AfterSend_AlwaysEnd(a) == "end"

\* performEndStateActions follows only in the end state.
AfterSend(a) == IF a.kind = "end" THEN "end" ELSE "update"

\* sendCommands, then updateState on the copy in memory.
SendCommands(t) ==
  LET a == act[t]
      s == mem[t].sagaId
      j == a.step
  IN
  /\ pc[t] = "process"
  /\ a.kind # "exception"
  /\ IF a.kind = "remote"
     THEN /\ did' = [did EXCEPT ![s][j] = IF a.compensating THEN @ ELSE @ + 1]
          /\ undid' = [undid EXCEPT ![s][j] = IF a.compensating THEN @ + 1 ELSE @]
          /\ commands' = commands \cup
               {[saga |-> s, step |-> j, compensating |-> a.compensating,
                 n |-> (IF a.compensating THEN undid[s][j] ELSE did[s][j]) + 1]}
          /\ WithinBound(s)
     ELSE UNCHANGED <<commands, did, undid>>
  /\ mem' = [mem EXCEPT ![t].row =
       [stage |-> IF a.kind = "end" THEN "ended" ELSE "running",
        currentlyExecuting |-> j, compensating |-> a.compensating]]
  /\ Goto(t, AfterSend(a))
  /\ UNCHANGED <<data, instance, act, reading, replies, unlocks, callbacks,
                 crashes, redeliveries, answered>>

\* An unlock command for every resource the copy in memory knows of, then the
\* callback of the direction the saga ended in.
PerformEndStateActions(t) ==
  LET s == mem[t].sagaId IN
  /\ pc[t] = "end"
  /\ unlocks' = unlocks \cup
       {<<s, j>> : j \in mem[t].destinationsAndResources}
  /\ callbacks' = [callbacks EXCEPT ![s] = @ \cup
       {IF act[t].compensating THEN "rolledBack" ELSE "completed"}]
  /\ Goto(t, "update")
  /\ UNCHANGED <<data, instance, mem, act, reading, commands, replies,
                 crashes, redeliveries, did, undid, answered>>

\* repository.update overwrites the row, whatever is there by now.
Update(t) ==
  /\ pc[t] = "update"
  /\ instance' = [instance EXCEPT ![mem[t].sagaId] = mem[t].row]
  /\ Goto(t, IF act[t].kind = "local" THEN "continue"
             ELSE IF t \in Node THEN "commit" ELSE "done")
  /\ UNCHANGED <<data, mem, act, reading, commands, replies, unlocks,
                 callbacks, crashes, redeliveries, did, undid, answered>>

\* After a local step the loop answers itself with a success message.
Continue(t) ==
  /\ pc[t] = "continue"
  /\ Decide(t, mem[t].sagaId, AfterReply(UpdatedState(act[t]), "SUCCESS"))
  /\ Goto(t, "process")
  /\ UNCHANGED <<data, instance, mem, reading, commands, replies, unlocks,
                 callbacks, crashes, redeliveries>>

ProcessActions(t) ==
  \/ LocalException(t)
  \/ SendCommands(t)
  \/ PerformEndStateActions(t)
  \/ Update(t)
  \/ Continue(t)

-----------------------------------------------------------------------------
(* The consumer of the reply channel: handleMessage and handleReply under   *)
(* eachMessage                                                              *)

CanRead(n, p) ==
  /\ pc[n] = "idle"
  /\ replies[p] # <<>>
  /\ \A m \in Node : reading[m] # p

Unreadable(r) ==
  \/ instance[r.saga].stage \in {"absent", "unparsable"}
  \/ HandleReplyThrows(StateOf(instance[r.saga]), r.outcome)

HandleReplyMessage(n, p) ==
  LET r   == Head(replies[p])
      s   == r.saga
      row == instance[s]
  IN
  /\ CanRead(n, p)
  /\ ~Unreadable(r)
  /\ reading' = [reading EXCEPT ![n] = p]
  /\ mem' = [mem EXCEPT ![n] =
       [InstanceOf(s, row) EXCEPT !.destinationsAndResources =
          IF r.locked THEN {r.step} ELSE {}]]
  /\ Decide(n, s, AfterReply(StateOf(row), r.outcome))
  /\ Goto(n, "process")
  /\ UNCHANGED <<data, instance, commands, replies, unlocks, callbacks,
                 crashes, redeliveries>>

\* The state name does not parse, its step is missing, or a compensation was
\* refused.
RejectReplyMessage(n, p) ==
  /\ CanRead(n, p)
  /\ Unreadable(Head(replies[p]))
  /\ reading' = [reading EXCEPT ![n] = p]
  /\ Throw(n)
  /\ UNCHANGED <<data, instance, commands, replies, unlocks, callbacks,
                 crashes, redeliveries, did, undid, answered>>

Retry_Skips(n) ==
  /\ pc[n] = "failed"
  /\ Goto(n, "idle")
  /\ replies' = [replies EXCEPT ![reading[n]] = Tail(@)]
  /\ reading' = [reading EXCEPT ![n] = NoPartition]
  /\ UNCHANGED <<data, instance, mem, act, commands, unlocks, callbacks,
                 crashes, redeliveries, did, undid, answered>>

\* The runner fetches again from the last committed offset.
Retry(n) ==
  /\ pc[n] = "failed"
  /\ Goto(n, "idle")
  /\ reading' = [reading EXCEPT ![n] = NoPartition]
  /\ UNCHANGED <<data, instance, mem, act, commands, replies, unlocks,
                 callbacks, crashes, redeliveries, did, undid, answered>>

\* The handler has returned and the offset is committed.
Commit(n) ==
  /\ pc[n] = "commit"
  /\ replies' = [replies EXCEPT ![reading[n]] = Tail(@)]
  /\ reading' = [reading EXCEPT ![n] = NoPartition]
  /\ mem' = [mem EXCEPT ![n] = NoInstance]
  /\ act' = [act EXCEPT ![n] = NoActions]
  /\ Goto(n, "idle")
  /\ UNCHANGED <<data, instance, commands, unlocks, callbacks, crashes,
                 redeliveries, did, undid, answered>>

-----------------------------------------------------------------------------
(* Participants and failures *)

\* A participant handles a command and replies on any partition: the key of
\* a message is its random id.  A redelivered command stays to be handled
\* again.
Participate(c, p, o) ==
  /\ c \in commands
  /\ o = "FAILURE" /\ c.compensating => CompensationMayFail
  /\ replies' = [replies EXCEPT ![p] = Append(@,
       [saga |-> c.saga, step |-> c.step, compensating |-> c.compensating,
        outcome |-> o, locked |-> c.step \in Locking /\ ~c.compensating])]
  /\ answered' = [answered EXCEPT ![c.saga] = @ \cup
       {[step |-> c.step, compensating |-> c.compensating, outcome |-> o]}]
  /\ \/ commands' = commands \ {c} /\ UNCHANGED redeliveries
     \/ /\ redeliveries < MaxRedeliveries
        /\ redeliveries' = redeliveries + 1
        /\ UNCHANGED commands
  /\ UNCHANGED <<data, instance, pc, mem, act, reading, unlocks, callbacks,
                 crashes, did, undid>>

\* A node dies and restarts: its consumer starts over from the committed
\* offset, and the create calls it was running are gone.
Crash(n) ==
  LET lost == {n} \cup {s \in Saga : Home[s] = n /\
                          pc[s] \notin {"idle", "done", "rejected"}}
  IN
  /\ crashes < MaxCrashes
  /\ \E t \in lost : pc[t] # "idle"
  /\ crashes' = crashes + 1
  /\ pc' = [t \in Task |-> IF t \notin lost THEN pc[t]
                           ELSE IF t = n THEN "idle" ELSE "rejected"]
  /\ mem' = [t \in Task |-> IF t \in lost THEN NoInstance ELSE mem[t]]
  /\ act' = [t \in Task |-> IF t \in lost THEN NoActions ELSE act[t]]
  /\ reading' = [reading EXCEPT ![n] = NoPartition]
  /\ UNCHANGED <<data, instance, commands, replies, unlocks, callbacks,
                 redeliveries, did, undid, answered>>

\* The database, the broker or one of the saga's own functions fails: what task
\* t awaits rejects, and t gives up.
AwaitRejects(t) ==
  /\ pc[t] \notin {"idle", "failed", "done", "rejected"}
  /\ crashes < MaxCrashes
  /\ crashes' = crashes + 1
  /\ Throw(t)
  /\ UNCHANGED <<data, instance, reading, commands, replies, unlocks,
                 callbacks, redeliveries, did, undid, answered>>

\* The insert into received_messages fails, which isDuplicate reports as a
\* duplicate: the handler returns without having looked at the message.
SkipReplyMessage(n, p) ==
  /\ CanRead(n, p)
  /\ crashes < MaxCrashes
  /\ crashes' = crashes + 1
  /\ reading' = [reading EXCEPT ![n] = p]
  /\ Goto(n, "commit")
  /\ UNCHANGED <<data, instance, mem, act, commands, replies, unlocks,
                 callbacks, redeliveries, did, undid, answered>>

SkipCommand(c) ==
  /\ c \in commands
  /\ crashes < MaxCrashes
  /\ crashes' = crashes + 1
  /\ commands' = commands \ {c}
  /\ UNCHANGED <<data, instance, pc, mem, act, reading, replies, unlocks,
                 callbacks, redeliveries, did, undid, answered>>

-----------------------------------------------------------------------------
\* Everything has been handled.
Terminated ==
  /\ \A s \in Saga : pc[s] \in {"done", "rejected"}
  /\ \A n \in Node : pc[n] = "idle"
  /\ commands = {}
  /\ \A p \in Partition : replies[p] = <<>>
  /\ UNCHANGED vars

Next ==
  \/ \E s \in Saga : Create(s) \/ Start(s)
  \/ \E t \in Task : ProcessActions(t) \/ AwaitRejects(t)
  \/ \E n \in Node, p \in Partition :
       HandleReplyMessage(n, p) \/ RejectReplyMessage(n, p)
       \/ SkipReplyMessage(n, p)
  \/ \E n \in Node : Retry(n) \/ Commit(n) \/ Crash(n)
  \/ \E c \in commands, p \in Partition, o \in Outcome : Participate(c, p, o)
  \/ \E c \in commands : SkipCommand(c)
  \/ Terminated

Spec == Init /\ [][Next]_vars

\* The event loop runs every task that can move; participants answer.
Fairness ==
  /\ \A s \in Saga : WF_vars(Create(s) \/ Start(s) \/ ProcessActions(s))
  /\ \A n \in Node :
       WF_vars(ProcessActions(n) \/ Retry(n) \/ Commit(n)
               \/ \E p \in Partition :
                    HandleReplyMessage(n, p) \/ RejectReplyMessage(n, p))
  /\ WF_vars(\E c \in commands, p \in Partition, o \in Outcome :
               Participate(c, p, o))

FairSpec == Spec /\ Fairness

-----------------------------------------------------------------------------
(* Properties *)

TypeOK ==
  /\ data \in [Saga -> Data]
  /\ instance \in [Saga -> Row]
  /\ pc \in [Task -> Label]
  /\ mem \in [Task -> SagaInstance]
  /\ act \in [Task -> Actions]
  /\ reading \in [Node -> Partition \cup {NoPartition}]
  /\ commands \subseteq Command
  /\ replies \in [Partition -> Seq(Reply)]
  /\ unlocks \subseteq Saga \X Step
  /\ callbacks \in [Saga -> SUBSET {"completed", "rolledBack"}]
  /\ crashes \in Nat /\ redeliveries \in Nat
  /\ did \in [Saga -> [Step -> Nat]]
  /\ undid \in [Saga -> [Step -> Nat]]
  /\ answered \in [Saga -> SUBSET Answer]

\* Every action of saga s up to step i has been started.
Reached(s, i) ==
  \A j \in Step : j <= i /\ HasAction(j, data[s]) => did[s][j] >= 1

\* No step is passed over: however replies are repeated, reordered or taken
\* for one another, a stored state says that every action up to its step was
\* started, and a completed saga has started them all.
NothingSkipped ==
  \A s \in Saga :
    LET row == instance[s] IN
    /\ row.stage = "running" => Reached(s, row.currentlyExecuting)
    /\ row.stage = "ended" /\ ~row.compensating => Reached(s, NumSteps - 1)

\* A compensation is only ever run for a saga in which something has failed,
\* and only for a step all of whose predecessors, itself included, started.
CompensationJustified ==
  \A s \in Saga : \A j \in Step :
    undid[s][j] >= 1 =>
      /\ Reached(s, j)
      /\ \E x \in answered[s] : x.outcome = "FAILURE"

\* Once a saga has ended, its row stays as it is and nothing more is started
\* for it, whatever replies are still to come.
EndIsFinal ==
  [][\A s \in Saga :
       instance[s].stage = "ended" =>
         /\ instance'[s] = instance[s]
         /\ did'[s] = did[s] /\ undid'[s] = undid[s]]_vars

\* Once a stored state says that the saga is compensating, the saga never goes
\* forward again: no action is started and no later state says otherwise.
NeverForwardAgain ==
  [][\A s \in Saga :
       instance[s].stage = "running" /\ instance[s].compensating =>
         instance'[s].compensating /\ did'[s] = did[s]]_vars

\* Without crashes and redeliveries everything happens once, and the stored
\* end agrees with the one callback the saga's owner got.
OnceEach ==
  \A s \in Saga :
    /\ \A j \in Step :
         /\ did[s][j] <= 1
         /\ undid[s][j] <= IF j \in Truthy THEN 2 ELSE 1
    /\ instance[s].stage = "ended" =>
         callbacks[s] = {IF instance[s].compensating THEN "rolledBack"
                                                     ELSE "completed"}

\* A participant is told to release a resource only when every command of the
\* saga has been answered, so that nobody enters between two of its steps.
UnlocksComeLast ==
  \A u \in unlocks :
    /\ \A c \in commands : c.saga # u[1]
    /\ \A j \in Step :
         /\ did[u[1]][j] > 0 =>
              \E x \in answered[u[1]] : x.step = j /\ ~x.compensating
         /\ undid[u[1]][j] > 0 =>
              [step |-> j, compensating |-> TRUE, outcome |-> "SUCCESS"]
                \in answered[u[1]]

\* A participant has refused a compensation; its reply can never be handled.
CompensationRefused ==
  \E s \in Saga : \E x \in answered[s] :
    x.compensating /\ x.outcome = "FAILURE"

\* Unless that happens, every saga that is created ends: replies that come
\* before the row can be read are retried until they are handled.
EverySagaEnds ==
  \A s \in Saga :
    instance[s].stage = "unparsable"
      ~> instance[s].stage = "ended" \/ CompensationRefused

-----------------------------------------------------------------------------
(* Refinement of SagaPattern *)

Answers(s, compensating, outcome) ==
  {j \in Step : [step |-> j, compensating |-> compensating,
                 outcome |-> outcome] \in answered[s]}

\* A saga reported as rolled back has compensated every step that succeeded
\* before the one that failed.
RollbackIsComplete ==
  \A s \in Saga :
    instance[s].stage = "ended" /\ instance[s].compensating =>
      \A f \in Answers(s, FALSE, "FAILURE") :
        \A j \in Answers(s, FALSE, "SUCCESS") :
          j < f /\ j \in LocalCompensation \cup Compensable[data[s]]
            => undid[s][j] >= 1

Phase(s) ==
  CASE instance[s].stage = "absent"    -> "none"
    [] callbacks[s] = {"completed"}    -> "completed"
    [] callbacks[s] = {"rolledBack"}   -> "rolledBack"
    [] Cardinality(callbacks[s]) > 1   -> "both"
    [] OTHER                           -> "active"

Pattern ==
  INSTANCE SagaPattern WITH
    Action       <- [d \in Data |-> {j \in Step : HasAction(j, d)}],
    Compensation <- [d \in Data |-> LocalCompensation \cup Compensable[d]],
    phase        <- [s \in Saga |-> Phase(s)],
    begun        <- [s \in Saga |-> {j \in Step : did[s][j] > 0}],
    ok           <- [s \in Saga |-> Answers(s, FALSE, "SUCCESS")],
    failed       <- [s \in Saga |-> Answers(s, FALSE, "FAILURE")],
    undoing      <- [s \in Saga |-> {j \in Step : undid[s][j] > 0}],
    undone       <- [s \in Saga |-> Answers(s, TRUE, "SUCCESS")]

\* With one node, no crash and no redelivery, and a remote first step, the
\* manager keeps the promise of SagaPattern.
ImplementsPattern == Pattern!Spec
=============================================================================
