-------------------------- MODULE FtgoOrders_proofs --------------------------
(***************************************************************************)
(* What the food-to-go services keep for every number of orders, any       *)
(* prices, revisions, workers, callers and crashes.                        *)
(*                                                                         *)
(* The create saga of an order is at one of its steps, and its only        *)
(* command is the one of that step, which one worker at most has in hand.  *)
(* So what the saga has done to the order and its ticket follows from      *)
(* where it is, as long as nobody else calls the methods of its commands   *)
(* (OnlySagas, OnlyAccepts).  Without a create saga, calls that follow one *)
(* another (OneCaller) save what they have made of the row as it is.       *)
(***************************************************************************)
EXTENDS FtgoOrders, SumTheorems

Pc == {"idle", "save", "publish", "done", "failed"}

State == [currentlyExecuting : -1 .. 5, compensating : BOOLEAN]

SagaRow == [begun : BOOLEAN, st : State, ticketId : Nat,
            reply : {"none", "SUCCESS", "FAILURE"}]

Ticket == [order : Order, state : TicketState,
           previousState : TicketState \cup {"none"}]

\* A suspended ticket can be restored.
Sane(t) ==
  t \in Ticket
  /\ (t.state \in {"CANCEL_PENDING", "REVISION_PENDING"} => t.previousState \in Open)

At(o) == saga["create"][o].st.currentlyExecuting
Back(o) == saga["create"][o].st.compensating
Reply(o) == saga["create"][o].reply
TicketId(o) == saga["create"][o].ticketId

\* The one command of the create saga of o.
Cmd(o) ==
  CommandOf("create", o, [step |-> At(o), compensating |-> Back(o)], TicketId(o))

ShapesOK ==
  /\ saga \in [SagaType -> [Order -> SagaRow]]
  /\ orders = [o \in Order |-> orders[o]] /\ \A o \in Order : orders[o].state \in OrderState
  /\ tickets \in Seq(Ticket) /\ \A i \in DOMAIN tickets : Sane(tickets[i])
  /\ task = [w \in Worker \cup Caller |-> task[w]]
  /\ calls \in 0 .. MaxCalls /\ crashes \in 0 .. MaxCrashes

\* Where a create saga can be; the others never get to a step.
SagasOK ==
  /\ \A t \in SagaType \ {"create"} : \A o \in Order :
       saga[t][o].st = NoSaga.st /\ saga[t][o].reply = "none" /\ saga[t][o].ticketId = 0
  /\ \A o \in Order :
       /\ TicketId(o) \in {0} \cup DOMAIN tickets
       /\ At(o) \in (IF Back(o) THEN {-1, 0, 2} ELSE {-1} \cup 1 .. 5)
       /\ At(o) = -1 => Reply(o) = "none"
       /\ ~saga["create"][o].begun => At(o) = -1 /\ ~Back(o) /\ TicketId(o) = 0

InboxOK ==
  \A c \in inbox :
    /\ c.order \in Order /\ c = Cmd(c.order)
    /\ At(c.order) # -1 /\ Reply(c.order) = "none"

\* A task is a copy of the ticket or the order it is for.
TaskOK(k) ==
  /\ k.pc \in Pc
  /\ k.pc # "idle" =>
       /\ k = Task(k.cmd, k.service, k.op, k.id, k.pc, k.copy, k.told)
       /\ \/ /\ k.service = "order" /\ k.op \in DOMAIN OrderFrom /\ k.id \in Order
             /\ k.pc = "save" => k.copy.state = OrderTo[k.op]
          \/ /\ k.service = "kitchen" /\ k.op \in TicketHandlers \cup {"accept"}
             /\ k.pc = "save" => Sane(k.copy)
             /\ k.pc \notin {"save", "failed"} => k.id \in DOMAIN tickets
             /\ k.pc = "save" /\ k.op # "create" =>
                  k.id \in DOMAIN tickets /\ k.copy.order = tickets[k.id].order

\* A worker has its command from the channel, and no other worker has it.
WorkersOK ==
  /\ \A w \in Worker \cup Caller : TaskOK(task[w])
  /\ \A w \in Worker : Busy(w) =>
       /\ task[w].cmd \in inbox
       /\ task[w].service = task[w].cmd.service /\ task[w].op = task[w].cmd.op
       /\ ~(task[w].op = "create" /\ task[w].pc \in {"publish", "done"}) =>
            task[w].id = task[w].cmd.id
       /\ task[w].op = "create" /\ task[w].pc = "save" => task[w].copy.order = task[w].id
  /\ \A v, w \in Worker : Busy(v) /\ Busy(w) /\ task[v].cmd = task[w].cmd => v = w
  /\ \A k \in Caller : Busy(k) => task[k].op \in CalledOps

Inv == ShapesOK /\ SagasOK /\ InboxOK /\ WorkersOK

-----------------------------------------------------------------------------
(* What the sagas have done, when nobody else calls their methods *)

SagaOps == {"create", "confirmCreate", "cancelCreate", "approve", "reject"}

\* The commands of the create saga reach the services through the saga alone.
OnlySagas == CalledOps \cap SagaOps = {}

Decided(state) == state \notin {"APPROVAL_PENDING", "REJECTED"}

\* What an order's task has found, or has made of the order.
OrderTaskOK(k) ==
  /\ k.pc = "save" =>
       IF k.op \in {"approve", "reject"} THEN orders[k.id].state = "APPROVAL_PENDING"
       ELSE Decided(orders[k.id].state)
  /\ k.pc \in {"publish", "done"} =>
       CASE k.op = "approve" -> Decided(orders[k.id].state)
         [] k.op = "reject" -> orders[k.id].state = "REJECTED"
         [] OTHER -> TRUE

TicketTaskOK(k) ==
  /\ k.pc = "save" =>
       CASE k.op = "create" -> k.copy.state = "CREATE_PENDING"
         [] k.op = "confirmCreate" ->
              /\ tickets[k.id].state = "CREATE_PENDING"
              /\ k.copy.state = "AWAITING_ACCEPTANCE"
         [] k.op = "cancelCreate" ->
              k.copy.state = "CREATE_PENDING" <=> tickets[k.id].state = "CREATE_PENDING"
         [] OTHER -> /\ k.copy.state # "CREATE_PENDING"
                     /\ tickets[k.id].state # "CREATE_PENDING"
  /\ k.pc \in {"publish", "done"} /\ k.op = "confirmCreate" =>
       tickets[k.id].state # "CREATE_PENDING"

EntityOK(k) == IF k.service = "order" THEN OrderTaskOK(k) ELSE TicketTaskOK(k)

\* A ticket that was just made is of the order it was made for.
OwnTicket(k) ==
  k.op = "create" /\ k.pc \in {"publish", "done"} => k.id \in TicketsOf(k.cmd.order)

EntitiesOK ==
  /\ \A w \in Worker \cup Caller : Busy(w) => EntityOK(task[w])
  /\ \A w \in Worker : Busy(w) => OwnTicket(task[w])

\* Worker w is past the save of the command of o.
Past(o) ==
  \E w \in Worker : /\ task[w].pc \in {"publish", "done"}
                    /\ task[w].cmd.order = o

HasTicket(o) == TicketId(o) \in TicketsOf(o)

Confirmed(o) == HasTicket(o) /\ tickets[TicketId(o)].state # "CREATE_PENDING"

Finished(o) == saga["create"][o].begun /\ ~Back(o) /\ At(o) = -1

\* What the saga of o knows at its step.
Progress(o) ==
  /\ TicketId(o) # 0 => HasTicket(o)
  /\ ~Back(o) /\ At(o) \in 3 .. 5 => HasTicket(o)
  /\ ~Back(o) /\ At(o) = 2 /\ Reply(o) = "SUCCESS" => HasTicket(o)
  /\ ~Back(o) /\ At(o) = 4 /\ Reply(o) = "SUCCESS" => Confirmed(o)
  /\ ~Back(o) /\ At(o) = 5 => Confirmed(o)
  /\ ~Back(o) /\ At(o) < 5 /\ ~Finished(o) => orders[o].state = "APPROVAL_PENDING"
  /\ Finished(o) => Decided(orders[o].state)
  /\ Reply(o) = "SUCCESS" /\ ~Back(o) /\ At(o) = 5 => Decided(orders[o].state)
  /\ Decided(orders[o].state) => Confirmed(o)
  /\ orders[o].state = "REJECTED" => Back(o)

Cooked(o) == \E i \in TicketsOf(o) : tickets[i].state # "CREATE_PENDING"

\* Once the ticket is confirmed the saga does not fail.
Smooth(o) ==
  /\ Cooked(o) =>
       /\ ~Back(o)
       /\ At(o) \in {4, 5} \/ Finished(o)
       /\ At(o) = 4 => Reply(o) = "SUCCESS" \/ (Reply(o) = "none" /\ Past(o))
  /\ ~Back(o) /\ At(o) = 5 =>
       /\ Cooked(o)
       /\ Reply(o) # "FAILURE"
       /\ orders[o].state = "APPROVAL_PENDING" \/ Reply(o) = "SUCCESS" \/ Past(o)
       /\ \A w \in Worker : Busy(w) /\ task[w].cmd.order = o => task[w].pc # "failed"

\* Nobody has made a ticket for the order, except before a crash.
Fresh(o) ==
  /\ ~Back(o) /\ ~Finished(o) /\ At(o) <= 2
  /\ At(o) = 2 => Reply(o) = "none" /\ ~Past(o)

Counted(o) ==
  /\ Cardinality(TicketsOf(o)) <= 1 + crashes
  /\ Fresh(o) => Cardinality(TicketsOf(o)) <= crashes

ProgressOK == \A o \in Order : Progress(o)
SmoothOK == crashes = 0 => \A o \in Order : Smooth(o)
CountOK == \A o \in Order : Counted(o)

\* What is announced has happened, and is not taken back.
IsTrue(e) ==
  /\ e.type \in {"OrderAuthorized", "OrderRejected"} => e.id \in Order
  /\ e.type = "OrderAuthorized" => Decided(orders[e.id].state)
  /\ e.type = "OrderRejected" => orders[e.id].state = "REJECTED"
  /\ e.type = "TicketCreated" =>
       e.id \in DOMAIN tickets /\ tickets[e.id].state # "CREATE_PENDING"

EventsOK == \A e \in events : IsTrue(e)

Story == EntitiesOK /\ ProgressOK /\ SmoothOK /\ CountOK /\ EventsOK

-----------------------------------------------------------------------------
(* The steps of the sagas *)

LEMMA CreateSteps ==
  /\ Len(Steps("create")) = 6
  /\ Steps("create")[1] = S("order", None, "reject")
  /\ Steps("create")[2] = S("customer", "validateOrder", None)
  /\ Steps("create")[3] = S("kitchen", "create", "cancelCreate")
  /\ Steps("create")[4] = S("accounting", "authorize", None)
  /\ Steps("create")[5] = S("kitchen", "confirmCreate", None)
  /\ Steps("create")[6] = S("order", "approve", None)
BY DEF Steps, CreateOrderSaga, Begin, Authorize, Confirm, Approve

LEMMA CreateWith ==
  /\ With("create", "action") = 1 .. 5
  /\ With("create", "compensation") = {0, 2}
<1>1. \A j \in 0 .. 5 : j \in {0, 1, 2, 3, 4, 5}
  OBVIOUS
<1>2. \A j \in 0 .. 5 : Steps("create")[j + 1].action # None <=> j # 0
  BY <1>1, CreateSteps DEF S, None
<1>3. \A j \in 0 .. 5 : Steps("create")[j + 1].compensation # None <=> j \in {0, 2}
  BY <1>1, CreateSteps DEF S, None
<1>4. Len(Steps("create")) - 1 = 5
  BY CreateSteps
<1>5. With("create", "action") = {j \in 0 .. 5 : j # 0}
  BY <1>2, <1>4 DEF With
<1>6. With("create", "compensation") = {j \in 0 .. 5 : j \in {0, 2}}
  BY <1>3, <1>4 DEF With
<1> QED
  BY <1>5, <1>6

\* The step the scan of nextStepToExecute stops at.
NextStep(st) ==
  LET e == st.currentlyExecuting IN
  IF st.compensating
  THEN IF e > 2 THEN 2 ELSE IF e > 0 THEN 0 ELSE -1
  ELSE IF e < 1 THEN 1 ELSE IF e < 5 THEN e + 1 ELSE -1

LEMMA CreateNext ==
  ASSUME NEW st \in State, st.compensating => st.currentlyExecuting # -1,
         NEW a \in D("create")!ExecuteNextStep(st, "any")
  PROVE  /\ a.step = NextStep(st) /\ a.compensating = st.compensating
         /\ a.kind = IF NextStep(st) = -1 THEN "end" ELSE "remote"
<1> DEFINE e == st.currentlyExecuting
           E == D("create")!Eligible(st, "any")
<1>1. D("create")!Step = 0 .. 5 /\ e \in -1 .. 5 /\ st.compensating \in BOOLEAN
  <2>1. Len(Steps("create")) - 1 = 5
    BY CreateSteps
  <2>2. D("create")!Step = 0 .. 5
    BY <2>1 DEF D!Step
  <2> QED
    BY <2>2 DEF State
<1>2. \A j : j \in E <=>
        j \in 0 .. 5 /\ (IF st.compensating THEN j < e /\ j \in {0, 2} ELSE j > e /\ j \in 1 .. 5)
  BY <1>1, CreateWith
     DEF D!Eligible, D!Ahead, D!HasAction, D!HasCompensation
<1>3. CASE E = {}
  <2>1. a = [kind |-> "end", step |-> -1, compensating |-> st.compensating]
    BY <1>3 DEF D!ExecuteNextStep, D!EndActions, D!NoStep
  <2>2. 0 \notin E /\ 2 \notin E /\ e + 1 \notin E /\ 1 \notin E
    BY <1>3
  <2>3. NextStep(st) = -1
    BY <1>1, <1>2, <2>2 DEF NextStep
  <2> QED
    BY <2>1, <2>3
<1>4. CASE E # {}
  <2>1. PICK j \in 0 .. 5 : /\ D("create")!IsNext(j, st, "any")
                            /\ a \in D("create")!ExecuteStep(j, st)
    <3>1. a \in UNION {D("create")!ExecuteStep(j, st) :
                         j \in {i \in D("create")!Step : D("create")!IsNext(i, st, "any")}}
      BY <1>4 DEF D!ExecuteNextStep
    <3> QED
      BY <1>1, <3>1
  <2>2. a = [kind |-> "remote", step |-> j, compensating |-> st.compensating]
    BY <2>1 DEF D!ExecuteStep
  <2>3. j \in E /\ \A k \in E : IF st.compensating THEN k <= j ELSE j <= k
    BY <2>1 DEF D!IsNext
  <2>4. j = NextStep(st)
    <3>1. CASE st.compensating
      <4>1. 0 \in E \/ 2 \in E => e > 0
        BY <1>1, <1>2, <3>1
      <4>2. e > 0 => 0 \in E
        BY <1>1, <1>2, <3>1
      <4>3. e > 2 <=> 2 \in E
        BY <1>1, <1>2, <3>1
      <4>4. j \in {0, 2} /\ j < e
        BY <1>2, <2>3, <3>1
      <4> HIDE DEF E
      <4> QED
        BY <1>1, <2>3, <3>1, <4>1, <4>2, <4>3, <4>4 DEF NextStep
    <3>2. CASE ~st.compensating
      <4>1. e < 5 => e + 1 \in E \/ (e = -1 /\ 1 \in E)
        BY <1>1, <1>2, <3>2
      <4>2. j \in 1 .. 5 /\ j > e
        BY <1>2, <2>3, <3>2
      <4> HIDE DEF E
      <4> QED
        BY <1>1, <2>3, <3>2, <4>1, <4>2 DEF NextStep
    <3> QED
      BY <3>1, <3>2
  <2> QED
    BY <2>2, <2>4
<1> QED
  BY <1>3, <1>4

\* The cancel and revise sagas have nobody to send their first command to.
LEMMA OthersUndirected ==
  ASSUME NEW t \in SagaType \ {"create"},
         NEW a \in D(t)!ExecuteNextStep(NoSaga.st, "any")
  PROVE  Undirected(t, a)
<1>1. /\ Len(Steps(t)) = 5
      /\ \A j \in 1 .. 5 : Steps(t)[j].service = None /\ Steps(t)[j].action # None
  <2>1. t = "cancel" \/ t = "revise"
    BY DEF SagaType
  <2>2. \A j \in 1 .. 5 : j \in {1, 2, 3, 4, 5}
    OBVIOUS
  <2>3. CASE t = "cancel"
    BY <2>2, <2>3 DEF Steps, CancelOrderSaga, S, None
  <2>4. CASE t = "revise"
    BY <2>2, <2>4 DEF Steps, ReviseOrderSaga, S, None
  <2> QED
    BY <2>1, <2>3, <2>4
<1>2. D(t)!Step = 0 .. 4 /\ With(t, "action") = 0 .. 4
  BY <1>1 DEF D!Step, With
<1>3. NoSaga.st = [currentlyExecuting |-> -1, compensating |-> FALSE]
  BY DEF NoSaga, D!InitialState, D!NoStep
<1>4. 0 \in D(t)!Eligible(NoSaga.st, "any")
  BY <1>2, <1>3 DEF D!Eligible, D!Ahead, D!HasAction
<1>5. PICK j \in 0 .. 4 : a \in D(t)!ExecuteStep(j, NoSaga.st)
  <2>1. a \in UNION {D(t)!ExecuteStep(j, NoSaga.st) :
                       j \in {i \in D(t)!Step : D(t)!IsNext(i, NoSaga.st, "any")}}
    BY <1>4 DEF D!ExecuteNextStep
  <2> QED
    BY <1>2, <2>1
<1>6. a.kind = "remote" /\ a.step = j
  BY <1>5 DEF D!ExecuteStep
<1> QED
  BY <1>1, <1>6 DEF Undirected

\* The command of each step.
LEMMA Commands ==
  ASSUME NEW o, NEW e \in 0 .. 5, NEW b \in BOOLEAN, IF b THEN e \in {0, 2} ELSE e # 0,
         NEW id
  PROVE  LET c == CommandOf("create", o, [step |-> e, compensating |-> b], id) IN
         /\ c.saga = "create" /\ c.order = o
         /\ c.service = CASE e \in {0, 5} -> "order" [] e = 1 -> "customer"
                          [] e = 3 -> "accounting" [] OTHER -> "kitchen"
         /\ c.op = CASE e = 0 -> "reject" [] e = 1 -> "validateOrder"
                     [] e = 2 -> (IF b THEN "cancelCreate" ELSE "create")
                     [] e = 3 -> "authorize" [] e = 4 -> "confirmCreate"
                     [] OTHER -> "approve"
         /\ c.id = IF e = 4 \/ (e = 2 /\ b) THEN id ELSE o
<1>1. e \in {0, 1, 2, 3, 4, 5}
  OBVIOUS
<1> QED
  BY <1>1, CreateSteps DEF CommandOf, S, IdOf, None

-----------------------------------------------------------------------------
(* The operations of tickets and orders *)

LEMMA TicketAfterSane ==
  ASSUME NEW t, Sane(t), NEW op \in (TicketHandlers \cup {"accept"}) \ {"create"},
         t.state \in TicketFrom[op]
  PROVE  Sane(TicketAfter(op, t)) /\ TicketAfter(op, t).order = t.order
<1>1. t \in Ticket
  BY DEF Sane
<1>2. t.order \in Order /\ t.state \in TicketState
      /\ t.previousState \in TicketState \cup {"none"}
  BY <1>1 DEF Ticket
<1>3. CASE op \in Restoring
  <2>1. t.state \in {"CANCEL_PENDING", "REVISION_PENDING"}
    BY <1>3 DEF Restoring, TicketFrom
  <2>2. t.previousState \in Open
    BY <2>1 DEF Sane
  <2> QED
    BY <1>1, <1>2, <1>3, <2>2
       DEF TicketAfter, Sane, Ticket, Restoring, Suspending, Open, TicketState
<1>4. CASE op \in Suspending
  <2>1. t.state \in Open
    BY <1>4 DEF Suspending, TicketFrom
  <2>2. TicketAfter(op, t) =
          [order |-> t.order, previousState |-> t.state,
           state |-> IF op = "cancel" THEN "CANCEL_PENDING" ELSE "REVISION_PENDING"]
    BY <1>1, <1>4 DEF TicketAfter, Restoring, Suspending, TicketTo
  <2> QED
    BY <1>2, <2>1, <2>2 DEF Sane, Ticket, Open, TicketState
<1>5. CASE op = "cancelCreate"
  <2>1. TicketAfter(op, t) = t
    BY <1>1, <1>5 DEF TicketAfter, Restoring, Suspending, TicketTo, Ticket
  <2> QED
    BY <2>1
<1>6. CASE op \in {"confirmCreate", "accept", "confirmCancel"}
  <2>1. TicketAfter(op, t).state \in {"AWAITING_ACCEPTANCE", "ACCEPTED", "CANCELLED"}
        /\ TicketAfter(op, t).previousState = t.previousState
        /\ TicketAfter(op, t).order = t.order
        /\ TicketAfter(op, t) = [order |-> t.order, state |-> TicketTo[op],
                                 previousState |-> t.previousState]
    BY <1>1, <1>6 DEF TicketAfter, Restoring, Suspending, TicketTo
  <2> QED
    BY <1>2, <2>1 DEF Sane, Ticket, TicketState
<1> QED
  BY <1>3, <1>4, <1>5, <1>6 DEF TicketHandlers, Restoring, Suspending

LEMMA TicketTaskIs ==
  ASSUME Inv, NEW c, NEW op \in TicketHandlers \cup {"accept"}, NEW id,
         op = "create" => id \in Order
  PROVE  LET k == TicketTask(c, op, id) IN
         /\ TaskOK(k) /\ k.pc \in {"save", "failed"}
         /\ k.cmd = c /\ k.service = "kitchen" /\ k.op = op /\ k.id = id
         /\ op = "create" => k.pc = "save" /\ k.copy.order = id
                             /\ k.copy.state = "CREATE_PENDING"
         /\ k.pc = "save" /\ op # "create" =>
              /\ id \in DOMAIN tickets /\ tickets[id].state \in TicketFrom[op]
              /\ k.copy = TicketAfter(op, tickets[id])
<1>1. CASE op = "create"
  <2> DEFINE t == [order |-> id, state |-> "CREATE_PENDING", previousState |-> "none"]
  <2>1. Sane(t)
    BY <1>1 DEF Sane, Ticket, TicketState
  <2>2. TicketTask(c, op, id) = Task(c, "kitchen", op, id, "save", t, 0)
    BY <1>1 DEF TicketTask
  <2> HIDE DEF t
  <2>3. TaskOK(TicketTask(c, op, id))
    BY <1>1, <2>1, <2>2 DEF TaskOK, Task, Pc
  <2> USE DEF t
  <2> QED
    BY <1>1, <2>2, <2>3 DEF Task
<1>2. CASE op # "create" /\ id \in DOMAIN tickets /\ tickets[id].state \in TicketFrom[op]
  <2>1. Sane(tickets[id])
    BY <1>2 DEF Inv, ShapesOK
  <2>2. /\ Sane(TicketAfter(op, tickets[id]))
        /\ TicketAfter(op, tickets[id]).order = tickets[id].order
    BY <1>2, <2>1, TicketAfterSane
  <2>3. TicketTask(c, op, id)
          = Task(c, "kitchen", op, id, "save", TicketAfter(op, tickets[id]), 0)
    BY <1>2 DEF TicketTask
  <2>4. TaskOK(TicketTask(c, op, id))
    BY <1>2, <2>2, <2>3 DEF TaskOK, Task, Pc
  <2> QED
    BY <1>2, <2>3, <2>4 DEF Task
<1>3. CASE op # "create" /\ ~(id \in DOMAIN tickets /\ tickets[id].state \in TicketFrom[op])
  <2>1. TicketTask(c, op, id) = Failed(c, "kitchen", op, id)
    BY <1>3 DEF TicketTask
  <2>2. TaskOK(TicketTask(c, op, id))
    BY <2>1 DEF TaskOK, Task, Pc, Failed
  <2> QED
    BY <1>3, <2>1, <2>2 DEF Task, Failed
<1> QED
  BY <1>1, <1>2, <1>3

LEMMA OrderTaskIs ==
  ASSUME NEW c, NEW op \in DOMAIN OrderFrom, NEW id \in Order, NEW rev
  PROVE  LET k == OrderTask(c, op, id, rev) IN
         /\ TaskOK(k) /\ k.pc \in {"save", "failed"}
         /\ k.cmd = c /\ k.service = "order" /\ k.op = op /\ k.id = id
         /\ k.pc = "save" => orders[id].state = OrderFrom[op]
                             /\ Accepts(op, orders[id].items, rev)
                             /\ k.copy = OrderAfter(op, orders[id], rev)
                             /\ k.told = Told(op, orders[id], rev)
         /\ k.pc = "failed" => ~(orders[id].state = OrderFrom[op]
                                 /\ Accepts(op, orders[id].items, rev))
<1>1. CASE orders[id].state = OrderFrom[op] /\ Accepts(op, orders[id].items, rev)
  <2>1. OrderTask(c, op, id, rev)
          = Task(c, "order", op, id, "save", OrderAfter(op, orders[id], rev),
                 Told(op, orders[id], rev))
    BY <1>1 DEF OrderTask
  <2>2. OrderAfter(op, orders[id], rev).state = OrderTo[op]
    BY DEF OrderAfter
  <2> QED
    BY <1>1, <2>1, <2>2 DEF TaskOK, Task, Pc
<1>2. CASE ~(orders[id].state = OrderFrom[op] /\ Accepts(op, orders[id].items, rev))
  <2>1. OrderTask(c, op, id, rev) = Failed(c, "order", op, id)
    BY <1>2 DEF OrderTask
  <2> QED
    BY <1>2, <2>1 DEF TaskOK, Task, Pc, Failed
<1> QED
  BY <1>1, <1>2

LEMMA OrderToIs ==
  \A op \in DOMAIN OrderFrom :
    /\ OrderTo[op] \in OrderState /\ OrderFrom[op] \in OrderState
    /\ OrderFrom[op] = "APPROVAL_PENDING" <=> op \in {"approve", "reject"}
    /\ op \notin {"approve", "reject"} => Decided(OrderFrom[op])
    /\ OrderTo[op] = "REJECTED" <=> op = "reject"
    /\ op # "reject" => Decided(OrderTo[op])
BY DEF OrderTo, OrderFrom, OrderState, Decided

-----------------------------------------------------------------------------
(* A saga goes on, or is answered *)

\* Only the row of the create saga of o is touched.
Elsewhere(o) ==
  /\ \A t \in SagaType \ {"create"} : saga'[t] = saga[t]
  /\ \A n \in Order \ {o} : saga'["create"][n] = saga["create"][n]

LEMMA RowSet ==
  ASSUME Inv, NEW o \in Order, NEW r \in SagaRow,
         saga' = [saga EXCEPT !["create"][o] = r]
  PROVE  /\ saga' \in [SagaType -> [Order -> SagaRow]]
         /\ saga'["create"][o] = r /\ Elsewhere(o)
<1>1. saga \in [SagaType -> [Order -> SagaRow]] /\ "create" \in SagaType
  BY DEF Inv, ShapesOK, SagaType
<1> QED
  BY <1>1 DEF Elsewhere

\* What an answer to c makes of its saga.
LEMMA Answered ==
  ASSUME Inv, NEW c \in inbox, NEW outcome \in {"SUCCESS", "FAILURE"}, NEW id \in Nat,
         Answer(c, outcome, id)
  PROVE  LET o == c.order IN
         /\ o \in Order /\ c = Cmd(o) /\ Elsewhere(o)
         /\ saga' \in [SagaType -> [Order -> SagaRow]]
         /\ At(o)' = At(o) /\ Back(o)' = Back(o) /\ Reply(o)' = outcome
         /\ saga'["create"][o].begun = saga["create"][o].begun
         /\ TicketId(o)' = IF KeepsTicket(c, outcome) THEN id ELSE TicketId(o)
         /\ At(o) # -1 /\ Reply(o) = "none"
         /\ inbox' = inbox \ {c} /\ \A d \in inbox' : d.order # o
<1> DEFINE o == c.order
           r == saga["create"][o]
           new == [begun |-> r.begun, st |-> r.st, reply |-> outcome,
                   ticketId |-> IF KeepsTicket(c, outcome) THEN id ELSE r.ticketId]
<1>1. o \in Order /\ c = Cmd(o) /\ At(o) # -1 /\ Reply(o) = "none"
  BY DEF Inv, InboxOK
<1>2. c.saga = "create"
  BY <1>1 DEF Cmd, CommandOf
<1>3. r \in SagaRow
  BY <1>1 DEF Inv, ShapesOK, SagaType
<1>4. new \in SagaRow
  BY <1>3 DEF SagaRow
<1>5. saga' = [saga EXCEPT !["create"][o] = new]
  BY <1>2 DEF Answer
<1>6. /\ saga' \in [SagaType -> [Order -> SagaRow]]
      /\ saga'["create"][o] = new /\ Elsewhere(o)
  <2> HIDE DEF new, o
  <2> QED
    BY <1>1, <1>4, <1>5, RowSet DEF o
<1>7. inbox' = inbox \ {c} /\ \A d \in inbox' : d.order # o
  <2>1. inbox' = inbox \ {c}
    BY DEF Answer
  <2>2. \A d \in inbox : d.order = o => d = c
    BY <1>1 DEF Inv, InboxOK
  <2> QED
    BY <2>1, <2>2
<1>8. /\ At(o)' = At(o) /\ Back(o)' = Back(o) /\ Reply(o)' = outcome
      /\ saga'["create"][o].begun = saga["create"][o].begun
      /\ TicketId(o)' = IF KeepsTicket(c, outcome) THEN id ELSE TicketId(o)
  BY <1>6 DEF At, Back, Reply, TicketId
<1> QED
  BY <1>1, <1>6, <1>7, <1>8

\* Other sagas and their commands are as they were.
LEMMA OthersKept ==
  ASSUME Inv, NEW o \in Order, Elsewhere(o)
  PROVE  \A n \in Order \ {o} :
           /\ At(n)' = At(n) /\ Back(n)' = Back(n) /\ Reply(n)' = Reply(n)
           /\ TicketId(n)' = TicketId(n) /\ Cmd(n)' = Cmd(n)
           /\ saga'["create"][n] = saga["create"][n]
BY DEF Elsewhere, At, Back, Reply, TicketId, Cmd

LEMMA AnsweredInv ==
  ASSUME Inv, NEW c \in inbox, NEW outcome \in {"SUCCESS", "FAILURE"},
         NEW id \in Nat, Answer(c, outcome, id),
         KeepsTicket(c, outcome) => id \in DOMAIN tickets,
         UNCHANGED <<orders, tickets, calls, crashes>>,
         task' = [w \in Worker \cup Caller |-> task'[w]],
         \A w \in Worker \cup Caller : task'[w] = task[w] \/ task'[w] = Idle,
         \A w \in Worker : task'[w] # Idle => ~Busy(w) \/ task[w].cmd # c
  PROVE  Inv'
<1> DEFINE o == c.order
<1>1. /\ o \in Order /\ c = Cmd(o) /\ Elsewhere(o)
      /\ saga' \in [SagaType -> [Order -> SagaRow]]
      /\ At(o)' = At(o) /\ Back(o)' = Back(o) /\ Reply(o)' = outcome
      /\ saga'["create"][o].begun = saga["create"][o].begun
      /\ TicketId(o)' = IF KeepsTicket(c, outcome) THEN id ELSE TicketId(o)
      /\ At(o) # -1 /\ Reply(o) = "none"
      /\ inbox' = inbox \ {c} /\ \A d \in inbox' : d.order # o
  BY Answered
<1> HIDE DEF o
<1>2. \A n \in Order \ {o} :
           /\ At(n)' = At(n) /\ Back(n)' = Back(n) /\ Reply(n)' = Reply(n)
           /\ TicketId(n)' = TicketId(n) /\ Cmd(n)' = Cmd(n)
           /\ saga'["create"][n] = saga["create"][n]
  BY <1>1, OthersKept
<1>3. ShapesOK /\ SagasOK /\ InboxOK /\ WorkersOK
  BY DEF Inv
<1>4. ShapesOK'
  BY <1>1, <1>3 DEF ShapesOK
<1>5. SagasOK'
  <2>1. \A t \in SagaType \ {"create"} : saga'[t] = saga[t]
    BY <1>1 DEF Elsewhere
  <2>2. \A n \in Order :
          /\ TicketId(n)' \in {0} \cup DOMAIN tickets'
          /\ At(n)' \in (IF Back(n)' THEN {-1, 0, 2} ELSE {-1} \cup 1 .. 5)
          /\ At(n)' = -1 => Reply(n)' = "none"
          /\ ~saga'["create"][n].begun => At(n)' = -1 /\ ~Back(n)' /\ TicketId(n)' = 0
    <3> SUFFICES ASSUME NEW n \in Order
                 PROVE  /\ TicketId(n)' \in {0} \cup DOMAIN tickets'
                        /\ At(n)' \in (IF Back(n)' THEN {-1, 0, 2} ELSE {-1} \cup 1 .. 5)
                        /\ At(n)' = -1 => Reply(n)' = "none"
                        /\ ~saga'["create"][n].begun => At(n)' = -1 /\ ~Back(n)' /\ TicketId(n)' = 0
      OBVIOUS
    <3>1. /\ TicketId(n) \in {0} \cup DOMAIN tickets
          /\ At(n) \in (IF Back(n) THEN {-1, 0, 2} ELSE {-1} \cup 1 .. 5)
          /\ At(n) = -1 => Reply(n) = "none"
          /\ ~saga["create"][n].begun => At(n) = -1 /\ ~Back(n) /\ TicketId(n) = 0
      BY <1>3 DEF SagasOK
    <3>2. CASE n = o
      BY <1>1, <3>1, <3>2
    <3>3. CASE n # o
      BY <1>2, <3>1, <3>3
    <3> QED
      BY <3>2, <3>3
  <2>3. \A t \in SagaType \ {"create"} : \A n \in Order :
          saga'[t][n].st = NoSaga.st /\ saga'[t][n].reply = "none"
          /\ saga'[t][n].ticketId = 0
    BY <1>3, <2>1 DEF SagasOK
  <2> HIDE DEF NoSaga
  <2> QED
    BY <2>2, <2>3 DEF SagasOK, NoSaga
<1>6. InboxOK'
  <2> SUFFICES ASSUME NEW d \in inbox'
               PROVE  /\ d.order \in Order /\ d = Cmd(d.order)'
                      /\ At(d.order)' # -1 /\ Reply(d.order)' = "none"
    BY DEF InboxOK
  <2>1. d \in inbox /\ d.order # o
    BY <1>1
  <2>2. d.order \in Order /\ d = Cmd(d.order) /\ At(d.order) # -1 /\ Reply(d.order) = "none"
    BY <1>3, <2>1 DEF InboxOK
  <2> QED
    BY <1>2, <2>1, <2>2
<1>7. WorkersOK'
  <2>1. \A w \in Worker \cup Caller : TaskOK(task[w])'
    <3> SUFFICES ASSUME NEW w \in Worker \cup Caller PROVE TaskOK(task[w])'
      OBVIOUS
    <3>1. TaskOK(task[w])
      BY <1>3 DEF WorkersOK
    <3>2. CASE task'[w] = Idle
      BY <3>2 DEF TaskOK, Idle, Pc
    <3>3. CASE task'[w] = task[w]
      BY <3>1, <3>3 DEF TaskOK
    <3> QED
      BY <3>2, <3>3
  <2>2. \A w \in Worker \cup Caller : Busy(w)' => Busy(w) /\ task'[w] = task[w]
    BY DEF Busy, Idle
  <2>3. \A w \in Worker : Busy(w)' => task[w].cmd \in inbox'
    BY <1>1, <1>3, <2>2 DEF WorkersOK, Busy, Idle
  <2>4. \A w \in Worker : Busy(w)' =>
          /\ task'[w].cmd \in inbox'
          /\ task'[w].service = task'[w].cmd.service /\ task'[w].op = task'[w].cmd.op
          /\ ~(task'[w].op = "create" /\ task'[w].pc \in {"publish", "done"}) =>
               task'[w].id = task'[w].cmd.id
          /\ task'[w].op = "create" /\ task'[w].pc = "save" =>
               task'[w].copy.order = task'[w].id
    BY <1>3, <2>2, <2>3 DEF WorkersOK
  <2>5. \A v, w \in Worker :
          Busy(v)' /\ Busy(w)' /\ task'[v].cmd = task'[w].cmd => v = w
    BY <1>3, <2>2 DEF WorkersOK
  <2>6. \A k \in Caller : Busy(k)' => task'[k].op \in CalledOps
    BY <1>3, <2>2 DEF WorkersOK
  <2> QED
    BY <2>1, <2>4, <2>5, <2>6 DEF WorkersOK
<1> QED
  BY <1>4, <1>5, <1>6, <1>7 DEF Inv

\* The saga of o goes on from st: its row and its new command, if any.
LEMMA Proceeded ==
  ASSUME Inv, NEW o \in Order, NEW st \in State,
         st.compensating => st.currentlyExecuting # -1,
         Proceed("create", o, st, TicketId(o))
  PROVE  /\ saga' \in [SagaType -> [Order -> SagaRow]] /\ Elsewhere(o)
         /\ At(o)' = NextStep(st) /\ Back(o)' = st.compensating /\ Reply(o)' = "none"
         /\ TicketId(o)' = TicketId(o) /\ saga'["create"][o].begun
         /\ inbox' = IF NextStep(st) = -1 THEN inbox ELSE inbox \cup {Cmd(o)'}
<1>1. PICK a \in D("create")!ExecuteNextStep(st, "any") :
        /\ saga' = [saga EXCEPT !["create"][o] =
                      [begun |-> TRUE, st |-> D("create")!UpdatedState(a),
                       ticketId |-> TicketId(o), reply |-> "none"]]
        /\ inbox' = IF a.kind = "remote"
                    THEN inbox \cup {CommandOf("create", o, a, TicketId(o))} ELSE inbox
  BY DEF Proceed
<1>2. /\ a.step = NextStep(st) /\ a.compensating = st.compensating
      /\ a.kind = IF NextStep(st) = -1 THEN "end" ELSE "remote"
  BY CreateNext
<1> DEFINE new == [begun |-> TRUE,
                   st |-> [currentlyExecuting |-> NextStep(st), compensating |-> st.compensating],
                   ticketId |-> TicketId(o), reply |-> "none"]
<1>3. saga' = [saga EXCEPT !["create"][o] = new]
  BY <1>1, <1>2 DEF D!UpdatedState
<1>4. st.currentlyExecuting \in -1 .. 5 /\ st.compensating \in BOOLEAN
  BY DEF State
<1>5. new \in SagaRow
  <2>1. NextStep(st) \in -1 .. 5
    BY <1>4 DEF NextStep
  <2>2. TicketId(o) \in Nat
    BY DEF Inv, ShapesOK, SagaType, SagaRow, TicketId
  <2> QED
    BY <1>4, <2>1, <2>2 DEF SagaRow, State
<1>6. /\ saga' \in [SagaType -> [Order -> SagaRow]]
      /\ saga'["create"][o] = new /\ Elsewhere(o)
  <2> HIDE DEF new
  <2> QED
    BY <1>3, <1>5, RowSet
<1>7. /\ At(o)' = NextStep(st) /\ Back(o)' = st.compensating /\ Reply(o)' = "none"
      /\ TicketId(o)' = TicketId(o) /\ saga'["create"][o].begun
  BY <1>6 DEF At, Back, Reply, TicketId
<1>8. Cmd(o)' = CommandOf("create", o, a, TicketId(o))
  BY <1>2, <1>7 DEF Cmd, CommandOf
<1> QED
  BY <1>1, <1>2, <1>6, <1>7, <1>8

LEMMA ProceedInv ==
  ASSUME Inv, NEW o \in Order, NEW st \in State,
         st.compensating => st.currentlyExecuting # -1,
         Proceed("create", o, st, TicketId(o)),
         \A c \in inbox : c.order # o,
         UNCHANGED <<orders, tickets, task, calls, crashes>>
  PROVE  Inv'
<1>1. /\ saga' \in [SagaType -> [Order -> SagaRow]] /\ Elsewhere(o)
      /\ At(o)' = NextStep(st) /\ Back(o)' = st.compensating /\ Reply(o)' = "none"
      /\ TicketId(o)' = TicketId(o) /\ saga'["create"][o].begun
      /\ inbox' = IF NextStep(st) = -1 THEN inbox ELSE inbox \cup {Cmd(o)'}
  BY Proceeded
<1>2. \A n \in Order \ {o} :
           /\ At(n)' = At(n) /\ Back(n)' = Back(n) /\ Reply(n)' = Reply(n)
           /\ TicketId(n)' = TicketId(n) /\ Cmd(n)' = Cmd(n)
           /\ saga'["create"][n] = saga["create"][n]
  BY <1>1, OthersKept
<1>3. ShapesOK /\ SagasOK /\ InboxOK /\ WorkersOK
  BY DEF Inv
<1>4. NextStep(st) \in (IF st.compensating THEN {-1, 0, 2} ELSE {-1} \cup 1 .. 5)
  BY DEF NextStep, State
<1>5. ShapesOK'
  BY <1>1, <1>3 DEF ShapesOK
<1>6. SagasOK'
  <2>1. \A t \in SagaType \ {"create"} : saga'[t] = saga[t]
    BY <1>1 DEF Elsewhere
  <2>2. \A n \in Order :
          /\ TicketId(n)' \in {0} \cup DOMAIN tickets'
          /\ At(n)' \in (IF Back(n)' THEN {-1, 0, 2} ELSE {-1} \cup 1 .. 5)
          /\ At(n)' = -1 => Reply(n)' = "none"
          /\ ~saga'["create"][n].begun => At(n)' = -1 /\ ~Back(n)' /\ TicketId(n)' = 0
    <3> SUFFICES ASSUME NEW n \in Order
                 PROVE  /\ TicketId(n)' \in {0} \cup DOMAIN tickets'
                        /\ At(n)' \in (IF Back(n)' THEN {-1, 0, 2} ELSE {-1} \cup 1 .. 5)
                        /\ At(n)' = -1 => Reply(n)' = "none"
                        /\ ~saga'["create"][n].begun => At(n)' = -1 /\ ~Back(n)' /\ TicketId(n)' = 0
      OBVIOUS
    <3>1. /\ TicketId(n) \in {0} \cup DOMAIN tickets
          /\ At(n) \in (IF Back(n) THEN {-1, 0, 2} ELSE {-1} \cup 1 .. 5)
          /\ At(n) = -1 => Reply(n) = "none"
          /\ ~saga["create"][n].begun => At(n) = -1 /\ ~Back(n) /\ TicketId(n) = 0
      BY <1>3 DEF SagasOK
    <3>2. CASE n = o
      BY <1>1, <1>4, <3>1, <3>2
    <3>3. CASE n # o
      BY <1>2, <3>1, <3>3
    <3> QED
      BY <3>2, <3>3
  <2>3. \A t \in SagaType \ {"create"} : \A n \in Order :
          saga'[t][n].st = NoSaga.st /\ saga'[t][n].reply = "none"
          /\ saga'[t][n].ticketId = 0
    BY <1>3, <2>1 DEF SagasOK
  <2> HIDE DEF NoSaga
  <2> QED
    BY <2>2, <2>3 DEF SagasOK, NoSaga
<1>7. InboxOK'
  <2> SUFFICES ASSUME NEW d \in inbox'
               PROVE  /\ d.order \in Order /\ d = Cmd(d.order)'
                      /\ At(d.order)' # -1 /\ Reply(d.order)' = "none"
    BY DEF InboxOK
  <2>1. CASE d \in inbox
    <3>1. d.order # o
      BY <2>1
    <3>2. d.order \in Order /\ d = Cmd(d.order) /\ At(d.order) # -1 /\ Reply(d.order) = "none"
      BY <1>3, <2>1 DEF InboxOK
    <3> QED
      BY <1>2, <3>1, <3>2
  <2>2. CASE d \notin inbox
    <3>1. d = Cmd(o)' /\ NextStep(st) # -1
      BY <1>1, <2>2
    <3>2. d.order = o
      BY <3>1 DEF Cmd, CommandOf
    <3> QED
      BY <1>1, <3>1, <3>2
  <2> QED
    BY <2>1, <2>2
<1>8. WorkersOK'
  <2>1. inbox \subseteq inbox'
    BY <1>1
  <2>2. \A w \in Worker \cup Caller : TaskOK(task[w])'
    BY <1>3 DEF WorkersOK, TaskOK
  <2> QED
    BY <1>3, <2>1, <2>2 DEF WorkersOK, Busy
<1> QED
  BY <1>5, <1>6, <1>7, <1>8 DEF Inv

\* Which of the sagas take a step, and from where.
LEMMA StartIs ==
  ASSUME Inv, NEW t \in SagaType, NEW o \in Order, StartSaga(t, o)
  PROVE  \/ /\ t = "create" /\ ~saga["create"][o].begun
            /\ NoSaga.st \in State /\ Proceed("create", o, NoSaga.st, TicketId(o))
            /\ At(o) = -1 /\ ~Back(o) /\ \A c \in inbox : c.order # o
         \/ /\ t # "create" /\ UNCHANGED inbox
            /\ saga' = [saga EXCEPT ![t][o].begun = TRUE]
<1>1. NoSaga.st = D(t)!InitialState /\ NoSaga.st = [currentlyExecuting |-> -1, compensating |-> FALSE]
  BY DEF NoSaga, D!InitialState, D!NoStep
<1>2. CASE t = "create"
  <2>1. ~saga["create"][o].begun /\ At(o) = -1 /\ ~Back(o) /\ TicketId(o) = NoTicket
    BY <1>2 DEF StartSaga, Inv, SagasOK, NoTicket
  <2>2. NoSaga.st \in State /\ ~NoSaga.st.compensating
    BY <1>1 DEF State
  <2>4. ~\E a \in D(t)!ExecuteNextStep(NoSaga.st, "any") : Undirected(t, a)
    <3> SUFFICES ASSUME NEW a \in D("create")!ExecuteNextStep(NoSaga.st, "any")
                 PROVE  ~Undirected("create", a)
      BY <1>2
    <3>1. a.step = NextStep(NoSaga.st)
      BY <2>2, CreateNext
    <3>2. NextStep(NoSaga.st) = 1
      BY <1>1 DEF NextStep
    <3>3. Steps("create")[2].service = "customer"
      BY CreateSteps DEF S
    <3> QED
      BY <3>1, <3>2, <3>3 DEF Undirected, None
  <2>5. Proceed("create", o, NoSaga.st, NoTicket)
    BY <1>1, <1>2, <2>4 DEF StartSaga
  <2>6. \A c \in inbox : c.order # o
    BY <2>1 DEF Inv, InboxOK
  <2> QED
    BY <1>2, <2>1, <2>2, <2>5, <2>6
<1>3. CASE t # "create"
  <2>1. t \in SagaType \ {"create"}
    BY <1>3
  <2>2. ~Proceed(t, o, NoSaga.st, NoTicket)
    BY <2>1, OthersUndirected DEF Proceed
  <2> QED
    BY <1>1, <1>3, <2>2 DEF StartSaga
<1> QED
  BY <1>2, <1>3

LEMMA ReplyIs ==
  ASSUME Inv, NEW t \in SagaType, NEW o \in Order, HandleReply(t, o)
  PROVE  LET st == D("create")!AfterReply(saga["create"][o].st, Reply(o)) IN
         /\ t = "create" /\ Reply(o) # "none" /\ At(o) # -1
         /\ ~(Reply(o) = "FAILURE" /\ Back(o))
         /\ st \in State /\ st.currentlyExecuting = At(o)
         /\ st.compensating = (Back(o) \/ Reply(o) = "FAILURE")
         /\ Proceed("create", o, st, TicketId(o))
         /\ \A c \in inbox : c.order # o
<1>1. t = "create"
  BY DEF HandleReply, Inv, SagasOK
<1>2. Reply(o) # "none"
  BY <1>1 DEF HandleReply, Reply
<1>3. At(o) # -1 /\ \A c \in inbox : c.order # o
  BY <1>2 DEF Inv, SagasOK, InboxOK
<1>4. ~(Reply(o) = "FAILURE" /\ Back(o))
  BY <1>1 DEF HandleReply, D!HandleReplyThrows, Reply, Back
<1>5. saga["create"][o] \in SagaRow
  BY DEF Inv, ShapesOK, SagaType
<1> DEFINE s == saga["create"][o].st
<1>6. s \in State /\ Reply(o) \in {"SUCCESS", "FAILURE"}
  BY <1>2, <1>5 DEF SagaRow, Reply
<1>7. /\ D("create")!AfterReply(s, Reply(o)) \in State
      /\ D("create")!AfterReply(s, Reply(o)).currentlyExecuting = s.currentlyExecuting
      /\ D("create")!AfterReply(s, Reply(o)).compensating
           = (s.compensating \/ Reply(o) = "FAILURE")
  BY <1>6 DEF State, D!AfterReply, D!StartCompensating
<1>8. Proceed("create", o, D("create")!AfterReply(s, Reply(o)), TicketId(o))
  BY <1>1 DEF HandleReply, Reply, TicketId
<1> QED
  BY <1>1, <1>2, <1>3, <1>4, <1>7, <1>8 DEF At, Back

LEMMA SagaStepInv ==
  ASSUME Inv, NEW t \in SagaType, NEW o \in Order, StartSaga(t, o) \/ HandleReply(t, o)
  PROVE  Inv'
<1>0. UNCHANGED <<orders, tickets, task, calls, crashes>>
  BY DEF StartSaga, HandleReply
<1>1. CASE StartSaga(t, o)
  <2>1. CASE t = "create"
    <3>1. ~NoSaga.st.compensating
      BY DEF NoSaga, D!InitialState
    <3> QED
      BY <1>0, <1>1, <2>1, <3>1, StartIs, ProceedInv
  <2>2. CASE t # "create"
    <3>1. UNCHANGED inbox /\ saga' = [saga EXCEPT ![t][o].begun = TRUE]
      BY <1>1, <2>2, StartIs
    <3>2. saga \in [SagaType -> [Order -> SagaRow]]
      BY DEF Inv, ShapesOK
    <3>3. \A r \in SagaRow : [r EXCEPT !.begun = TRUE] \in SagaRow
      BY DEF SagaRow
    <3>4. saga' \in [SagaType -> [Order -> SagaRow]]
      BY <3>1, <3>2, <3>3
    <3>5. saga'["create"] = saga["create"]
      BY <2>2, <3>1, <3>2 DEF SagaType
    <3>6. \A u \in SagaType, n \in Order :
            /\ saga'[u][n].st = saga[u][n].st /\ saga'[u][n].reply = saga[u][n].reply
            /\ saga'[u][n].ticketId = saga[u][n].ticketId
      <4> SUFFICES ASSUME NEW u \in SagaType, NEW n \in Order
                   PROVE /\ saga'[u][n].st = saga[u][n].st
                         /\ saga'[u][n].reply = saga[u][n].reply
                         /\ saga'[u][n].ticketId = saga[u][n].ticketId
        OBVIOUS
      <4>1. saga[u][n] \in SagaRow
        BY <3>2
      <4>2. \/ saga'[u][n] = saga[u][n]
            \/ saga'[u][n] = [saga[u][n] EXCEPT !.begun = TRUE]
        BY <3>1, <3>2
      <4> QED
        BY <4>1, <4>2 DEF SagaRow
    <3>7. ShapesOK'
      BY <1>0, <3>4 DEF Inv, ShapesOK
    <3>8. SagasOK'
      <4>1. SagasOK
        BY DEF Inv
      <4> HIDE DEF NoSaga
      <4> QED
        BY <1>0, <3>5, <3>6, <4>1 DEF SagasOK, At, Back, Reply, TicketId, NoSaga
    <3>9. InboxOK'
      BY <3>1, <3>5 DEF Inv, InboxOK, At, Back, Reply, TicketId, Cmd
    <3>10. WorkersOK'
      BY <1>0, <3>1 DEF Inv, WorkersOK, TaskOK, Busy
    <3> QED
      BY <3>7, <3>8, <3>9, <3>10 DEF Inv
  <2> QED
    BY <2>1, <2>2
<1>2. CASE HandleReply(t, o)
  BY <1>0, <1>2, ReplyIs, ProceedInv
<1> QED
  BY <1>1, <1>2

-----------------------------------------------------------------------------
(* A worker or a caller goes on *)

\* Only w's task is touched; it is k then.
Turns(w, k) == task' = [task EXCEPT ![w] = k]

LEMMA TurnsIs ==
  ASSUME Inv, NEW w \in Worker \cup Caller, NEW k, Turns(w, k)
  PROVE  /\ task' = [v \in Worker \cup Caller |-> task'[v]]
         /\ task'[w] = k /\ \A v \in (Worker \cup Caller) \ {w} : task'[v] = task[v]
BY DEF Inv, ShapesOK, Turns

\* It is one that w may have.
MayHave(w, k) ==
  /\ w \in Worker =>
       /\ k.cmd \in inbox
       /\ k.service = k.cmd.service /\ k.op = k.cmd.op
       /\ ~(k.op = "create" /\ k.pc \in {"publish", "done"}) => k.id = k.cmd.id
       /\ k.op = "create" /\ k.pc = "save" => k.copy.order = k.id
       /\ \A v \in Worker \ {w} : Busy(v) => task[v].cmd # k.cmd
  /\ w \in Caller => k.op \in CalledOps

\* Rows are changed, and tickets made, but none goes or passes to another order.
Grows ==
  /\ orders' = [o \in Order |-> orders'[o]] /\ \A o \in Order : orders'[o].state \in OrderState
  /\ tickets' \in Seq(Ticket) /\ \A i \in DOMAIN tickets' : Sane(tickets'[i])
  /\ DOMAIN tickets \subseteq DOMAIN tickets'
  /\ \A i \in DOMAIN tickets : tickets'[i].order = tickets[i].order

LEMMA TurnedInv ==
  ASSUME Inv, NEW w \in Worker \cup Caller, NEW k, Turns(w, k), Grows,
         TaskOK(k)', k.pc # "idle" => MayHave(w, k),
         UNCHANGED <<saga, inbox>>,
         calls' \in 0 .. MaxCalls, crashes' \in 0 .. MaxCrashes
  PROVE  Inv'
<1>1. /\ task' = [v \in Worker \cup Caller |-> task'[v]]
      /\ task'[w] = k /\ \A v \in (Worker \cup Caller) \ {w} : task'[v] = task[v]
  BY TurnsIs
<1>2. ShapesOK /\ SagasOK /\ InboxOK /\ WorkersOK
  BY DEF Inv
<1>3. ShapesOK'
  BY <1>1, <1>2 DEF ShapesOK, Grows
<1>4. SagasOK'
  <2>1. \A o \in Order : TicketId(o) \in {0} \cup DOMAIN tickets'
    BY <1>2 DEF SagasOK, Grows
  <2> HIDE DEF NoSaga
  <2> QED
    BY <1>2, <2>1 DEF SagasOK, At, Back, Reply, TicketId, NoSaga
<1>5. InboxOK'
  BY <1>2 DEF InboxOK, At, Back, Reply, TicketId, Cmd
<1>6. \A v \in Worker \cup Caller : TaskOK(task[v])'
  <2> SUFFICES ASSUME NEW v \in Worker \cup Caller PROVE TaskOK(task[v])'
    OBVIOUS
  <2>1. CASE v = w
    BY <1>1, <2>1 DEF TaskOK
  <2>2. CASE v # w
    <3>1. TaskOK(task[v]) /\ task'[v] = task[v]
      BY <1>1, <1>2, <2>2 DEF WorkersOK
    <3> QED
      BY <3>1 DEF TaskOK, Grows
  <2> QED
    BY <2>1, <2>2
<1>7. \A v \in Worker \cup Caller :
        Busy(v)' => IF v = w THEN MayHave(w, k) ELSE Busy(v) /\ task'[v] = task[v]
  BY <1>1 DEF Busy
<1>8. \A v \in Worker : Busy(v)' =>
        /\ task'[v].cmd \in inbox
        /\ task'[v].service = task'[v].cmd.service /\ task'[v].op = task'[v].cmd.op
        /\ ~(task'[v].op = "create" /\ task'[v].pc \in {"publish", "done"}) =>
             task'[v].id = task'[v].cmd.id
        /\ task'[v].op = "create" /\ task'[v].pc = "save" =>
             task'[v].copy.order = task'[v].id
  BY <1>1, <1>2, <1>7 DEF WorkersOK, MayHave
<1>9. \A v, x \in Worker : Busy(v)' /\ Busy(x)' /\ task'[v].cmd = task'[x].cmd => v = x
  BY <1>1, <1>2, <1>7 DEF WorkersOK, MayHave
<1>10. \A v \in Caller : Busy(v)' => task'[v].op \in CalledOps
  BY <1>1, <1>2, <1>7 DEF WorkersOK, MayHave
<1>11. WorkersOK'
  BY <1>6, <1>8, <1>9, <1>10 DEF WorkersOK
<1> QED
  BY <1>3, <1>4, <1>5, <1>11 DEF Inv

LEMMA TurnInv ==
  ASSUME Inv, NEW w \in Worker \cup Caller, NEW k, Turns(w, k),
         TaskOK(k), k.pc # "idle" => MayHave(w, k),
         UNCHANGED <<orders, tickets, saga, inbox>>,
         calls' \in 0 .. MaxCalls, crashes' \in 0 .. MaxCrashes
  PROVE  Inv'
<1>1. Grows
  BY DEF Grows, Inv, ShapesOK
<1>2. TaskOK(k)'
  BY DEF TaskOK
<1> QED
  BY <1>1, <1>2, TurnedInv

\* What a command that is received is for.
LEMMA ReceivedIs ==
  ASSUME Inv, NEW c \in inbox
  PROVE  /\ c.order \in Order /\ c = Cmd(c.order) /\ At(c.order) \in 0 .. 5
         /\ c.service = CASE At(c.order) \in {0, 5} -> "order" [] At(c.order) = 1 -> "customer"
                          [] At(c.order) = 3 -> "accounting" [] OTHER -> "kitchen"
         /\ c.op = CASE At(c.order) = 0 -> "reject" [] At(c.order) = 1 -> "validateOrder"
                     [] At(c.order) = 2 -> (IF Back(c.order) THEN "cancelCreate" ELSE "create")
                     [] At(c.order) = 3 -> "authorize" [] At(c.order) = 4 -> "confirmCreate"
                     [] OTHER -> "approve"
         /\ c.id = IF At(c.order) = 4 \/ (At(c.order) = 2 /\ Back(c.order))
                   THEN TicketId(c.order) ELSE c.order
         /\ At(c.order) \in IF Back(c.order) THEN {0, 2} ELSE 1 .. 5
<1> DEFINE o == c.order
<1>1. o \in Order /\ c = Cmd(o) /\ At(o) # -1
  BY DEF Inv, InboxOK
<1>2. Back(o) \in BOOLEAN /\ At(o) \in IF Back(o) THEN {0, 2} ELSE 1 .. 5
  <2>1. saga["create"][o] \in SagaRow
    BY <1>1 DEF Inv, ShapesOK, SagaType
  <2>2. Back(o) \in BOOLEAN
    BY <2>1 DEF SagaRow, State, Back
  <2>3. At(o) \in (IF Back(o) THEN {-1, 0, 2} ELSE {-1} \cup 1 .. 5)
    BY <1>1 DEF Inv, SagasOK
  <2> QED
    BY <1>1, <2>2, <2>3
<1> HIDE DEF o
<1>3. At(o) \in 0 .. 5 /\ IF Back(o) THEN At(o) \in {0, 2} ELSE At(o) # 0
  BY <1>2
<1>4. LET d == CommandOf("create", o, [step |-> At(o), compensating |-> Back(o)], TicketId(o)) IN
         /\ d.service = CASE At(o) \in {0, 5} -> "order" [] At(o) = 1 -> "customer"
                          [] At(o) = 3 -> "accounting" [] OTHER -> "kitchen"
         /\ d.op = CASE At(o) = 0 -> "reject" [] At(o) = 1 -> "validateOrder"
                     [] At(o) = 2 -> (IF Back(o) THEN "cancelCreate" ELSE "create")
                     [] At(o) = 3 -> "authorize" [] At(o) = 4 -> "confirmCreate"
                     [] OTHER -> "approve"
         /\ d.id = IF At(o) = 4 \/ (At(o) = 2 /\ Back(o)) THEN TicketId(o) ELSE o
  <2> DEFINE e == At(o)
             b == Back(o)
  <2>1. e \in 0 .. 5 /\ b \in BOOLEAN /\ IF b THEN e \in {0, 2} ELSE e # 0
    BY <1>2, <1>3
  <2> HIDE DEF e, b
  <2>2. LET d == CommandOf("create", o, [step |-> e, compensating |-> b], TicketId(o)) IN
         /\ d.service = CASE e \in {0, 5} -> "order" [] e = 1 -> "customer"
                          [] e = 3 -> "accounting" [] OTHER -> "kitchen"
         /\ d.op = CASE e = 0 -> "reject" [] e = 1 -> "validateOrder"
                     [] e = 2 -> (IF b THEN "cancelCreate" ELSE "create")
                     [] e = 3 -> "authorize" [] e = 4 -> "confirmCreate"
                     [] OTHER -> "approve"
         /\ d.id = IF e = 4 \/ (e = 2 /\ b) THEN TicketId(o) ELSE o
    BY <2>1, Commands
  <2> QED
    BY <2>2 DEF e, b
<1>5. c = CommandOf("create", o, [step |-> At(o), compensating |-> Back(o)], TicketId(o))
  BY <1>1 DEF Cmd
<1> QED
  BY <1>1, <1>2, <1>3, <1>4, <1>5 DEF o

LEMMA ReceiveIs ==
  ASSUME Inv, NEW w \in Worker, NEW c \in inbox, Receive(w, c)
  PROVE  \E k : /\ Turns(w, k) /\ TaskOK(k) /\ MayHave(w, k) /\ ~Busy(w)
                /\ k.pc \in {"save", "failed"} /\ k.cmd = c /\ k.id = c.id
                /\ k.service = c.service /\ k.op = c.op
                /\ \A v \in Worker : Busy(v) => task[v].cmd # c
                /\ \/ c.service = "kitchen" /\ c.op \in TicketHandlers
                      /\ k = TicketTask(c, c.op, c.id)
                   \/ c.service = "order" /\ c.op \in {"approve", "reject"}
                      /\ k = OrderTask(c, c.op, c.id, NoRevision)
<1>1. c.order \in Order /\ At(c.order) \in 0 .. 5
      /\ (c.op = "create" \/ c.service = "order" => c.id = c.order)
  BY ReceivedIs
<1>2. w \notin Caller
  BY FtgoAssumption
<1>3. ~Busy(w) /\ \A v \in Worker : Busy(v) => task[v].cmd # c
  BY DEF Receive
<1>4. CASE /\ c.service = "kitchen" /\ c.op \in TicketHandlers
           /\ task' = [task EXCEPT ![w] = TicketTask(c, c.op, c.id)]
  <2> DEFINE k == TicketTask(c, c.op, c.id)
  <2>1. /\ TaskOK(k) /\ k.pc \in {"save", "failed"}
        /\ k.cmd = c /\ k.service = "kitchen" /\ k.op = c.op /\ k.id = c.id
        /\ c.op = "create" => k.copy.order = c.id
    BY <1>1, <1>4, TicketTaskIs
  <2>2. Turns(w, k)
    BY <1>4 DEF Turns
  <2> HIDE DEF k
  <2>3. MayHave(w, k)
    BY <1>2, <1>3, <1>4, <2>1 DEF MayHave
  <2>4. k = TicketTask(c, c.op, c.id)
    BY DEF k
  <2> QED
    BY <1>3, <1>4, <2>1, <2>2, <2>3, <2>4
<1>5. CASE /\ c.service = "order" /\ c.op \in OrderCommandHandlers
           /\ task' = [task EXCEPT ![w] = OrderTask(c, c.op, c.id, NoRevision)]
  <2> DEFINE k == OrderTask(c, c.op, c.id, NoRevision)
  <2>0. c.op \in {"approve", "reject"} /\ c.op \in DOMAIN OrderFrom
    BY <1>5 DEF OrderCommandHandlers, OrderFrom
  <2>1. /\ TaskOK(k) /\ k.pc \in {"save", "failed"}
        /\ k.cmd = c /\ k.service = "order" /\ k.op = c.op /\ k.id = c.id
    BY <1>1, <1>5, <2>0, OrderTaskIs
  <2>2. Turns(w, k)
    BY <1>5 DEF Turns
  <2> HIDE DEF k
  <2>3. MayHave(w, k)
    BY <1>2, <1>3, <1>5, <2>0, <2>1 DEF MayHave
  <2>4. k = OrderTask(c, c.op, c.id, NoRevision)
    BY DEF k
  <2> QED
    BY <1>3, <1>5, <2>0, <2>1, <2>2, <2>3, <2>4
<1> QED
  BY <1>4, <1>5 DEF Receive

LEMMA CallIs ==
  ASSUME Inv, NEW k \in Caller, NEW op \in CalledOps, Call(k, op)
  PROVE  \E t : /\ Turns(k, t) /\ TaskOK(t) /\ MayHave(k, t) /\ ~Busy(k)
                /\ t.pc \in {"save", "failed"} /\ t.op = op
                /\ \E id \in Order :
                     \/ /\ t.service = "kitchen" /\ op \in TicketHandlers \cup {"accept"}
                        /\ t = TicketTask(NoCommand, op, id)
                     \/ /\ t.service = "order" /\ op \in DOMAIN OrderFrom
                        /\ \E rev \in Revision : t = OrderTask(NoCommand, op, id, rev)
<1>1. k \notin Worker /\ ~Busy(k)
  BY FtgoAssumption DEF Call
<1>2. ASSUME op \in TicketHandlers \cup {"accept"}, NEW id \in Order,
             task' = [task EXCEPT ![k] = TicketTask(NoCommand, op, id)]
      PROVE  LET t == TicketTask(NoCommand, op, id) IN
             /\ Turns(k, t) /\ TaskOK(t) /\ MayHave(k, t)
             /\ t.pc \in {"save", "failed"} /\ t.op = op /\ t.service = "kitchen"
  <2> DEFINE t == TicketTask(NoCommand, op, id)
  <2>1. TaskOK(t) /\ t.pc \in {"save", "failed"} /\ t.op = op /\ t.service = "kitchen"
    BY <1>2, TicketTaskIs
  <2>2. Turns(k, t)
    BY <1>2 DEF Turns
  <2> HIDE DEF t
  <2>3. MayHave(k, t)
    BY <1>1, <2>1 DEF MayHave
  <2> QED
    BY <2>1, <2>2, <2>3 DEF t
<1>3. ASSUME op \in DOMAIN OrderFrom, NEW id \in Order, NEW rev \in Revision,
             task' = [task EXCEPT ![k] = OrderTask(NoCommand, op, id, rev)]
      PROVE  LET t == OrderTask(NoCommand, op, id, rev) IN
             /\ Turns(k, t) /\ TaskOK(t) /\ MayHave(k, t)
             /\ t.pc \in {"save", "failed"} /\ t.op = op /\ t.service = "order"
  <2> DEFINE t == OrderTask(NoCommand, op, id, rev)
  <2>1. TaskOK(t) /\ t.pc \in {"save", "failed"} /\ t.op = op /\ t.service = "order"
    BY <1>3, OrderTaskIs
  <2>2. Turns(k, t)
    BY <1>3 DEF Turns
  <2> HIDE DEF t
  <2>3. MayHave(k, t)
    BY <1>1, <2>1 DEF MayHave
  <2> QED
    BY <2>1, <2>2, <2>3 DEF t
<1>4. CASE op \in TicketHandlers \cup {"accept"}
           /\ \E id \in Order : task' = [task EXCEPT ![k] = TicketTask(NoCommand, op, id)]
  <2>1. PICK id \in Order : task' = [task EXCEPT ![k] = TicketTask(NoCommand, op, id)]
    BY <1>4
  <2> QED
    BY <1>1, <1>2, <1>4, <2>1
<1>5. CASE op \in DOMAIN OrderFrom
           /\ \E id \in Order, rev \in Revision :
                task' = [task EXCEPT ![k] = OrderTask(NoCommand, op, id, rev)]
  <2>1. PICK id \in Order, rev \in Revision :
          task' = [task EXCEPT ![k] = OrderTask(NoCommand, op, id, rev)]
    BY <1>5
  <2> QED
    BY <1>1, <1>3, <1>5, <2>1
<1> QED
  BY <1>4, <1>5 DEF Call

\* What w's task is moved to.
LEMMA MovedIs ==
  ASSUME NEW k, NEW id, NEW pc
  PROVE  LET m == Moved(k, id, pc) IN
         /\ m.pc = pc /\ m.cmd = k.cmd /\ m.service = k.service /\ m.op = k.op
         /\ m.id = id /\ m.copy = k.copy /\ m.told = k.told
         /\ m = Task(m.cmd, m.service, m.op, m.id, m.pc, m.copy, m.told)
BY DEF Moved, Task

LEMMA PublishInv ==
  ASSUME Inv, NEW w \in Worker \cup Caller, Publish(w)
  PROVE  Inv' /\ Turns(w, Moved(task[w], task[w].id, "done"))
<1> DEFINE k == task[w]
           m == Moved(k, k.id, "done")
<1>1. /\ UNCHANGED <<orders, tickets, saga, inbox, calls, crashes>>
      /\ Turns(w, m) /\ k.pc = "publish"
  BY DEF Publish, Turns
<1>2. TaskOK(k) /\ Busy(w) /\ WorkersOK
  BY <1>1 DEF Inv, WorkersOK, Busy
<1>3. /\ m.pc = "done" /\ m.cmd = k.cmd /\ m.service = k.service /\ m.op = k.op
      /\ m.id = k.id
      /\ m = Task(m.cmd, m.service, m.op, m.id, m.pc, m.copy, m.told)
  BY MovedIs
<1> HIDE DEF m
<1>4. TaskOK(m)
  BY <1>1, <1>2, <1>3 DEF TaskOK, Pc
<1>5. MayHave(w, m)
  BY <1>1, <1>2, <1>3 DEF MayHave, WorkersOK
<1>6. calls' \in 0 .. MaxCalls /\ crashes' \in 0 .. MaxCrashes
  BY <1>1 DEF Inv, ShapesOK
<1>7. Inv'
  BY <1>1, <1>4, <1>5, <1>6, TurnInv
<1> QED
  BY <1>1, <1>7 DEF m

LEMMA IdleOK == TaskOK(Idle) /\ Idle.pc = "idle"
BY DEF TaskOK, Idle, Pc

LEMMA CrashInv ==
  ASSUME Inv, NEW w \in Worker \cup Caller, Crash(w)
  PROVE  Inv' /\ Turns(w, Idle)
<1>1. /\ UNCHANGED <<orders, tickets, saga, inbox, calls>>
      /\ Turns(w, Idle) /\ crashes' = crashes + 1 /\ crashes < MaxCrashes
  BY DEF Crash, Turns
<1>2. calls' \in 0 .. MaxCalls /\ crashes' \in 0 .. MaxCrashes
  BY <1>1, FtgoAssumption DEF Inv, ShapesOK
<1> QED
  BY <1>1, <1>2, IdleOK, TurnInv

\* A worker's answer: of which command, and with which ticket.
LEMMA ReturnIs ==
  ASSUME Inv, NEW w \in Worker \cup Caller, Return(w)
  PROVE  LET k == task[w]
             outcome == IF k.pc = "done" THEN "SUCCESS" ELSE "FAILURE" IN
         /\ Turns(w, Idle) /\ UNCHANGED <<orders, tickets, calls, crashes>>
         /\ k.pc \in {"done", "failed"} /\ Busy(w)
         /\ w \in Caller => UNCHANGED <<saga, inbox>>
         /\ w \in Worker => /\ Answer(k.cmd, outcome, k.id) /\ k.cmd \in inbox
                            /\ KeepsTicket(k.cmd, outcome) =>
                                 k.op = "create" /\ k.pc = "done" /\ k.id \in DOMAIN tickets
                            /\ k.id \in Nat
<1> DEFINE k == task[w]
           outcome == IF k.pc = "done" THEN "SUCCESS" ELSE "FAILURE"
<1>1. /\ Turns(w, Idle) /\ UNCHANGED <<orders, tickets, calls, crashes>>
      /\ k.pc \in {"done", "failed"} /\ Busy(w)
      /\ w \in Caller => UNCHANGED <<saga, inbox>>
      /\ w \notin Caller => Answer(k.cmd, outcome, k.id)
  BY DEF Return, Turns, Busy
<1>2. ASSUME w \in Worker
      PROVE  /\ Answer(k.cmd, outcome, k.id) /\ k.cmd \in inbox
             /\ KeepsTicket(k.cmd, outcome) =>
                  k.op = "create" /\ k.pc = "done" /\ k.id \in DOMAIN tickets
             /\ k.id \in Nat
  <2>1. k.cmd \in inbox /\ k.op = k.cmd.op /\ k.service = k.cmd.service /\ TaskOK(k)
    BY <1>1, <1>2 DEF Inv, WorkersOK
  <2>2. w \notin Caller
    BY <1>2, FtgoAssumption
  <2>3. k.op = "create" => k.service = "kitchen"
    <3> DEFINE c == k.cmd
    <3>1. /\ At(c.order) \in 0 .. 5
          /\ c.service = CASE At(c.order) \in {0, 5} -> "order" [] At(c.order) = 1 -> "customer"
                           [] At(c.order) = 3 -> "accounting" [] OTHER -> "kitchen"
          /\ c.op = CASE At(c.order) = 0 -> "reject" [] At(c.order) = 1 -> "validateOrder"
                      [] At(c.order) = 2 -> (IF Back(c.order) THEN "cancelCreate" ELSE "create")
                      [] At(c.order) = 3 -> "authorize" [] At(c.order) = 4 -> "confirmCreate"
                      [] OTHER -> "approve"
      BY <2>1, ReceivedIs
    <3> QED
      BY <2>1, <3>1
  <2>4. KeepsTicket(k.cmd, outcome) =>
          k.op = "create" /\ k.pc = "done" /\ k.id \in DOMAIN tickets
    BY <1>1, <2>1, <2>3 DEF KeepsTicket, TaskOK
  <2>5. k.id \in Nat
    <3>1. tickets \in Seq(Ticket) /\ DOMAIN tickets \subseteq Nat
      BY DEF Inv, ShapesOK
    <3>2. CASE k.op = "create" /\ k.pc = "done"
      BY <1>1, <2>1, <2>3, <3>1, <3>2 DEF TaskOK
    <3>3. CASE ~(k.op = "create" /\ k.pc = "done")
      <4>1. k.id = k.cmd.id
        BY <1>1, <1>2, <3>3 DEF Inv, WorkersOK
      <4>2. k.cmd.order \in Order /\ k.cmd.id \in {TicketId(k.cmd.order), k.cmd.order}
        BY <2>1, ReceivedIs
      <4>3. TicketId(k.cmd.order) \in Nat
        BY <4>2, <3>1 DEF Inv, SagasOK
      <4> QED
        BY <4>1, <4>2, <4>3 DEF Order
    <3> QED
      BY <3>2, <3>3
  <2> QED
    BY <1>1, <2>1, <2>2, <2>4, <2>5
<1> QED
  BY <1>1, <1>2

LEMMA ReturnInv ==
  ASSUME Inv, NEW w \in Worker \cup Caller, Return(w)
  PROVE  Inv'
<1> DEFINE k == task[w]
           outcome == IF k.pc = "done" THEN "SUCCESS" ELSE "FAILURE"
<1>1. /\ Turns(w, Idle) /\ UNCHANGED <<orders, tickets, calls, crashes>>
      /\ Busy(w) /\ (w \in Caller => UNCHANGED <<saga, inbox>>)
  BY ReturnIs
<1>2. /\ task' = [v \in Worker \cup Caller |-> task'[v]]
      /\ task'[w] = Idle /\ \A v \in (Worker \cup Caller) \ {w} : task'[v] = task[v]
  BY <1>1, TurnsIs
<1>3. CASE w \in Caller
  <2>1. calls' \in 0 .. MaxCalls /\ crashes' \in 0 .. MaxCrashes
    BY <1>1 DEF Inv, ShapesOK
  <2> QED
    BY <1>1, <1>3, <2>1, ReturnIs, IdleOK, TurnInv
<1>4. CASE w \in Worker
  <2>1. /\ Answer(k.cmd, outcome, k.id) /\ k.cmd \in inbox /\ k.id \in Nat
        /\ KeepsTicket(k.cmd, outcome) => k.id \in DOMAIN tickets
    BY <1>4, ReturnIs
  <2>2. outcome \in {"SUCCESS", "FAILURE"}
    OBVIOUS
  <2>3. \A v \in Worker : task'[v] # Idle => ~Busy(v) \/ task[v].cmd # k.cmd
    <3>1. \A v, x \in Worker : Busy(v) /\ Busy(x) /\ task[v].cmd = task[x].cmd => v = x
      BY DEF Inv, WorkersOK
    <3> QED
      BY <1>1, <1>2, <1>4, <3>1
  <2> HIDE DEF k, outcome
  <2> QED
    BY <1>1, <1>2, <2>1, <2>2, <2>3, AnsweredInv
<1> QED
  BY <1>3, <1>4

\* What a save does to the rows: to the order, to the new ticket, to the ticket.
LEMMA SaveIs ==
  ASSUME Inv, NEW w \in Worker \cup Caller, Save(w)
  PROVE  LET k == task[w] IN
         /\ k.pc = "save" /\ Busy(w) /\ TaskOK(k)
         /\ UNCHANGED <<events, saga, inbox, calls, crashes>>
         /\ \/ /\ k.service = "order" /\ k.op \in DOMAIN OrderFrom /\ k.id \in Order
               /\ k.copy.state = OrderTo[k.op]
               /\ Turns(w, Moved(k, k.id, "publish"))
               /\ orders' = [orders EXCEPT ![k.id] = k.copy] /\ UNCHANGED tickets
            \/ /\ k.service = "kitchen" /\ k.op = "create" /\ Sane(k.copy)
               /\ Turns(w, Moved(k, Len(tickets) + 1, "publish"))
               /\ tickets' = Append(tickets, k.copy) /\ UNCHANGED orders
            \/ /\ k.service = "kitchen" /\ k.op \in (TicketHandlers \cup {"accept"}) \ {"create"}
               /\ Sane(k.copy) /\ k.id \in DOMAIN tickets
               /\ k.copy.order = tickets[k.id].order
               /\ Turns(w, Moved(k, k.id, "publish"))
               /\ tickets' = [tickets EXCEPT ![k.id] = k.copy] /\ UNCHANGED orders
<1> DEFINE k == task[w]
           id == IF k.op = "create" THEN Len(tickets) + 1 ELSE k.id
<1>1. /\ k.pc = "save" /\ UNCHANGED <<events, saga, inbox, calls, crashes>>
      /\ Turns(w, Moved(k, id, "publish"))
  BY DEF Save, Turns
<1>2. TaskOK(k) /\ Busy(w)
  BY <1>1 DEF Inv, WorkersOK, Busy
<1>3. CASE k.service = "order"
  <2>1. k.op \in DOMAIN OrderFrom /\ k.id \in Order /\ k.copy.state = OrderTo[k.op]
    BY <1>1, <1>2, <1>3 DEF TaskOK
  <2>2. k.op # "create"
    BY <2>1 DEF OrderFrom
  <2>3. orders' = [orders EXCEPT ![k.id] = k.copy] /\ UNCHANGED tickets
    BY <1>3, <2>2 DEF Save
  <2> QED
    BY <1>1, <1>2, <1>3, <2>1, <2>2, <2>3
<1>4. CASE k.service # "order"
  <2>1. /\ k.service = "kitchen" /\ k.op \in TicketHandlers \cup {"accept"} /\ Sane(k.copy)
        /\ (k.op # "create" => k.id \in DOMAIN tickets /\ k.copy.order = tickets[k.id].order)
    BY <1>1, <1>2, <1>4 DEF TaskOK
  <2>2. CASE k.op = "create"
    <3>1. tickets' = Append(tickets, k.copy) /\ UNCHANGED orders
      BY <1>4, <2>2 DEF Save
    <3> QED
      BY <1>1, <1>2, <2>1, <2>2, <3>1
  <2>3. CASE k.op # "create"
    <3>1. tickets' = [tickets EXCEPT ![k.id] = k.copy] /\ UNCHANGED orders
      BY <1>4, <2>3 DEF Save
    <3> QED
      BY <1>1, <1>2, <2>1, <2>3, <3>1
  <2> QED
    BY <2>2, <2>3
<1> QED
  BY <1>3, <1>4

LEMMA SaveGrows ==
  ASSUME Inv, NEW w \in Worker \cup Caller, Save(w)
  PROVE  Grows
<1> DEFINE k == task[w]
<1>1. /\ orders = [o \in Order |-> orders[o]] /\ \A o \in Order : orders[o].state \in OrderState
      /\ tickets \in Seq(Ticket) /\ \A i \in DOMAIN tickets : Sane(tickets[i])
  BY DEF Inv, ShapesOK
<1>2. CASE /\ k.op \in DOMAIN OrderFrom /\ k.id \in Order /\ k.copy.state = OrderTo[k.op]
           /\ orders' = [orders EXCEPT ![k.id] = k.copy] /\ UNCHANGED tickets
  <2>1. k.copy.state \in OrderState
    BY <1>2, OrderToIs
  <2> QED
    BY <1>1, <1>2, <2>1 DEF Grows
<1>3. CASE Sane(k.copy) /\ tickets' = Append(tickets, k.copy) /\ UNCHANGED orders
  <2>1. k.copy \in Ticket
    BY <1>3 DEF Sane
  <2> HIDE DEF k
  <2> QED
    BY <1>1, <1>3, <2>1 DEF Grows
<1>4. CASE /\ Sane(k.copy) /\ k.id \in DOMAIN tickets /\ k.copy.order = tickets[k.id].order
           /\ tickets' = [tickets EXCEPT ![k.id] = k.copy] /\ UNCHANGED orders
  <2>1. k.copy \in Ticket
    BY <1>4 DEF Sane
  <2> HIDE DEF k
  <2>2. tickets' \in Seq(Ticket) /\ DOMAIN tickets' = DOMAIN tickets
    BY <1>1, <1>4, <2>1
  <2>3. \A i \in DOMAIN tickets : tickets'[i] = IF i = k.id THEN k.copy ELSE tickets[i]
    BY <1>1, <1>4
  <2> QED
    BY <1>1, <1>4, <2>2, <2>3 DEF Grows
<1> QED
  BY <1>2, <1>3, <1>4, SaveIs

LEMMA SaveInv ==
  ASSUME Inv, NEW w \in Worker \cup Caller, Save(w)
  PROVE  Inv'
<1> DEFINE k == task[w]
<1>1. /\ k.pc = "save" /\ Busy(w) /\ TaskOK(k) /\ Grows
      /\ UNCHANGED <<saga, inbox, calls, crashes>>
  BY SaveIs, SaveGrows
<1>2. PICK id : /\ Turns(w, Moved(k, id, "publish"))
                /\ k.op # "create" => id = k.id
                /\ k.service = "kitchen" => id \in DOMAIN tickets'
                /\ k.service = "order" => k.op # "create" /\ k.id \in Order
  <2>1. CASE /\ k.service = "order" /\ k.op \in DOMAIN OrderFrom /\ k.id \in Order
             /\ Turns(w, Moved(k, k.id, "publish"))
    BY <2>1 DEF OrderFrom
  <2>2. CASE /\ k.service = "kitchen" /\ k.op = "create"
             /\ Turns(w, Moved(k, Len(tickets) + 1, "publish"))
             /\ tickets' = Append(tickets, k.copy)
    <3>1. tickets \in Seq(Ticket)
      BY DEF Inv, ShapesOK
    <3>2. Len(tickets) + 1 \in DOMAIN tickets'
      BY <2>2, <3>1
    <3> QED
      BY <2>2, <3>2
  <2>3. CASE /\ k.service = "kitchen" /\ k.op # "create" /\ k.id \in DOMAIN tickets
             /\ Turns(w, Moved(k, k.id, "publish"))
    BY <1>1, <2>3 DEF Grows
  <2> QED
    BY <2>1, <2>2, <2>3, SaveIs
<1>8. PICK m : m = Moved(k, id, "publish")
  OBVIOUS
<1>3. /\ m.pc = "publish" /\ m.cmd = k.cmd /\ m.service = k.service /\ m.op = k.op
      /\ m.id = id
      /\ m = Task(m.cmd, m.service, m.op, m.id, m.pc, m.copy, m.told)
  BY <1>8, MovedIs
<1>4. Turns(w, m)
  BY <1>2, <1>8
<1>5. TaskOK(m)'
  BY <1>1, <1>2, <1>3 DEF TaskOK, Pc
<1>6. MayHave(w, m)
  BY <1>1, <1>2, <1>3 DEF MayHave, Inv, WorkersOK
<1>7. calls' \in 0 .. MaxCalls /\ crashes' \in 0 .. MaxCrashes
  BY <1>1 DEF Inv, ShapesOK
<1> QED
  BY <1>1, <1>4, <1>5, <1>6, <1>7, TurnedInv

-----------------------------------------------------------------------------
(* Every step *)

\* Customers and accounting only answer.
LEMMA OutsideInv ==
  ASSUME Inv, NEW c \in inbox, ValidateOrder(c) \/ Account(c)
  PROVE  /\ Inv' /\ UNCHANGED <<orders, tickets, events, task, calls, crashes>>
         /\ c.op \in {"validateOrder", "authorize"} /\ At(c.order) \in {1, 3}
         /\ \E outcome \in {"SUCCESS", "FAILURE"} :
              Answer(c, outcome, 0) /\ ~KeepsTicket(c, outcome)
<1>1. PICK outcome \in {"SUCCESS", "FAILURE"} : Answer(c, outcome, 0)
  BY DEF ValidateOrder, Account, NoTicket
<1>2. /\ c.service \in {"customer", "accounting"}
      /\ UNCHANGED <<orders, tickets, events, task, calls, crashes>>
  BY DEF ValidateOrder, Account
<1>3. c.op \in {"validateOrder", "authorize"} /\ At(c.order) \in {1, 3}
  <2>1. /\ At(c.order) \in 0 .. 5
        /\ c.service = CASE At(c.order) \in {0, 5} -> "order" [] At(c.order) = 1 -> "customer"
                         [] At(c.order) = 3 -> "accounting" [] OTHER -> "kitchen"
        /\ c.op = CASE At(c.order) = 0 -> "reject" [] At(c.order) = 1 -> "validateOrder"
                    [] At(c.order) = 2 -> (IF Back(c.order) THEN "cancelCreate" ELSE "create")
                    [] At(c.order) = 3 -> "authorize" [] At(c.order) = 4 -> "confirmCreate"
                    [] OTHER -> "approve"
    BY ReceivedIs
  <2> QED
    BY <1>2, <2>1
<1>4. ~KeepsTicket(c, outcome)
  BY <1>3 DEF KeepsTicket
<1>5. \A w \in Worker : Busy(w) => task[w].cmd # c
  <2> SUFFICES ASSUME NEW w \in Worker, Busy(w), task[w].cmd = c PROVE FALSE
    OBVIOUS
  <2>1. TaskOK(task[w]) /\ task[w].service = c.service
    BY DEF Inv, WorkersOK
  <2> QED
    BY <1>2, <2>1 DEF TaskOK, Busy
<1>6. task = [w \in Worker \cup Caller |-> task[w]]
  BY DEF Inv, ShapesOK
<1>7. Inv'
  BY <1>1, <1>2, <1>4, <1>5, <1>6, AnsweredInv
<1> QED
  BY <1>1, <1>2, <1>3, <1>4, <1>7

LEMMA TakeInv ==
  /\ \A w \in Worker, c \in inbox : Inv /\ Receive(w, c) => Inv'
  /\ \A k \in Caller, op \in CalledOps : Inv /\ Call(k, op) => Inv'
<1>1. ASSUME NEW w \in Worker, NEW c \in inbox, Inv, Receive(w, c) PROVE Inv'
  <2>1. UNCHANGED <<orders, tickets, saga, inbox, calls, crashes>>
    BY <1>1 DEF Receive
  <2>2. calls' \in 0 .. MaxCalls /\ crashes' \in 0 .. MaxCrashes
    BY <1>1, <2>1 DEF Inv, ShapesOK
  <2>3. PICK k : Turns(w, k) /\ TaskOK(k) /\ MayHave(w, k)
    BY <1>1, ReceiveIs
  <2> QED
    BY <1>1, <2>1, <2>2, <2>3, TurnInv
<1>2. ASSUME NEW k \in Caller, NEW op \in CalledOps, Inv, Call(k, op) PROVE Inv'
  <2>1. UNCHANGED <<orders, tickets, saga, inbox, crashes>>
        /\ calls < MaxCalls /\ calls' = calls + 1
    BY <1>2 DEF Call
  <2>2. calls' \in 0 .. MaxCalls /\ crashes' \in 0 .. MaxCrashes
    BY <1>2, <2>1, FtgoAssumption DEF Inv, ShapesOK
  <2>3. PICK t : Turns(k, t) /\ TaskOK(t) /\ MayHave(k, t)
    BY <1>2, CallIs
  <2> QED
    BY <1>2, <2>1, <2>2, <2>3, TurnInv
<1> QED
  BY <1>1, <1>2

LEMMA InitInv == Init => Inv
<1> SUFFICES ASSUME Init PROVE Inv
  OBVIOUS
<1>1. NoSaga \in SagaRow
      /\ NoSaga.st = [currentlyExecuting |-> -1, compensating |-> FALSE]
      /\ ~NoSaga.begun /\ NoSaga.reply = "none" /\ NoSaga.ticketId = 0
  BY DEF NoSaga, SagaRow, State, D!InitialState, D!NoStep, NoTicket
<1>2. \A t \in SagaType, o \in Order : saga[t][o] = NoSaga
  BY DEF Init
<1>3. ShapesOK
  <2>1. saga \in [SagaType -> [Order -> SagaRow]]
    <3> HIDE DEF NoSaga
    <3> QED
      BY <1>1 DEF Init
  <2>2. orders = [o \in Order |-> orders[o]] /\ \A o \in Order : orders[o].state \in OrderState
    BY DEF Init, OrderState
  <2>3. tickets \in Seq(Ticket) /\ DOMAIN tickets = {}
    BY DEF Init
  <2> QED
    BY <2>1, <2>2, <2>3, FtgoAssumption DEF ShapesOK, Init
<1>4. SagasOK
  <2>1. \A o \in Order : saga["create"][o] = NoSaga
    BY <1>2 DEF SagaType
  <2> HIDE DEF NoSaga
  <2> QED
    BY <1>1, <1>2, <2>1 DEF SagasOK, At, Back, Reply, TicketId, NoSaga
<1>5. InboxOK
  BY DEF Init, InboxOK
<1>6. WorkersOK
  BY IdleOK DEF Init, WorkersOK, Busy
<1> QED
  BY <1>3, <1>4, <1>5, <1>6 DEF Inv

LEMMA NextInv == Inv /\ [Next]_vars => Inv'
<1> SUFFICES ASSUME Inv, [Next]_vars PROVE Inv'
  OBVIOUS
<1>1. CASE \E t \in SagaType, o \in Order : StartSaga(t, o) \/ HandleReply(t, o)
  BY <1>1, SagaStepInv
<1>2. CASE \E c \in inbox : ValidateOrder(c) \/ Account(c)
  BY <1>2, OutsideInv
<1>3. CASE \E w \in Worker, c \in inbox : Receive(w, c)
  BY <1>3, TakeInv
<1>4. CASE \E k \in Caller, op \in CalledOps : Call(k, op)
  BY <1>4, TakeInv
<1>5. CASE \E w \in Worker \cup Caller : Serve(w) \/ Crash(w)
  BY <1>5, SaveInv, PublishInv, ReturnInv, CrashInv DEF Serve
<1>6. CASE UNCHANGED vars
  <2> HIDE DEF NoSaga
  <2> QED
    BY <1>6 DEF vars, Inv, ShapesOK, SagasOK, InboxOK, WorkersOK, TaskOK, Busy, At, Back,
                Reply, TicketId, Cmd, NoSaga
<1> QED
  BY <1>1, <1>2, <1>3, <1>4, <1>5, <1>6 DEF Next

\* Whatever crashes and whoever calls, every reply and every save leaves the
\* services, the sagas and the channels in shape: what is loaded is there, and a
\* suspended ticket knows the state to go back to.
THEOREM InvHolds == Spec => []Inv
<1> QED
  BY InitInv, NextInv, PTL DEF Spec

\* Whatever crashes and whoever calls: every row, saga and task has its shape, a
\* saga's ticket exists, and a suspended ticket has a state to be restored to.
THEOREM FtgoTyped == Spec => []FtgoTypeOK
<1>1. Inv => FtgoTypeOK
  <2> SUFFICES ASSUME Inv PROVE FtgoTypeOK
    OBVIOUS
  <2>1. \A o \in Order : orders[o].state \in OrderState
    BY DEF Inv, ShapesOK
  <2>2. \A i \in DOMAIN tickets :
          /\ tickets[i].state \in TicketState
          /\ tickets[i].state \in {"CANCEL_PENDING", "REVISION_PENDING"}
               => tickets[i].previousState \in Open
    BY DEF Inv, ShapesOK, Sane, Ticket
  <2>3. ASSUME NEW t \in SagaType, NEW o \in Order
        PROVE  /\ saga[t][o].st \in D(t)!ExecutionState
               /\ saga[t][o].ticketId \in {NoTicket} \cup DOMAIN tickets
               /\ saga[t][o].reply \in {"none", "SUCCESS", "FAILURE"}
    <3>1. saga[t][o] \in SagaRow
      BY <2>3 DEF Inv, ShapesOK
    <3>2. saga[t][o].reply \in {"none", "SUCCESS", "FAILURE"}
      BY <3>1 DEF SagaRow
    <3>3. saga[t][o].ticketId \in {NoTicket} \cup DOMAIN tickets
      BY <2>3 DEF Inv, SagasOK, TicketId, NoTicket, SagaType
    <3>4. saga[t][o].st \in D(t)!ExecutionState
      <4>1. CASE t = "create"
        <5>1. Len(Steps("create")) - 1 = 5
          BY CreateSteps
        <5>2. D("create")!Step = 0 .. 5
          BY <5>1 DEF D!Step
        <5>3. saga["create"][o].st \in State
          BY <3>1, <4>1 DEF SagaRow
        <5>4. D("create")!ExecutionState
                = [currentlyExecuting : D("create")!Step \cup {-1}, compensating : BOOLEAN]
          BY DEF D!ExecutionState, D!NoStep
        <5>5. -1 .. 5 = 0 .. 5 \cup {-1}
          OBVIOUS
        <5> QED
          BY <4>1, <5>2, <5>3, <5>4, <5>5 DEF State
      <4>2. CASE t # "create"
        <5>1. saga[t][o].st = NoSaga.st
          BY <2>3, <4>2 DEF Inv, SagasOK
        <5> QED
          BY <5>1 DEF NoSaga, D!InitialState, D!ExecutionState, D!NoStep
      <4> QED
        BY <4>1, <4>2
    <3> QED
      BY <3>2, <3>3, <3>4
  <2>4. \A c \in inbox : c.service \in Service
    <3> SUFFICES ASSUME NEW c \in inbox PROVE c.service \in Service
      OBVIOUS
    <3>1. c.service = CASE At(c.order) \in {0, 5} -> "order" [] At(c.order) = 1 -> "customer"
                        [] At(c.order) = 3 -> "accounting" [] OTHER -> "kitchen"
      BY ReceivedIs
    <3> QED
      BY <3>1 DEF Service
  <2>5. calls \in 0 .. MaxCalls /\ crashes \in 0 .. MaxCrashes
    BY DEF Inv, ShapesOK
  <2> QED
    BY <2>1, <2>2, <2>3, <2>4, <2>5 DEF FtgoTypeOK
<1> QED
  BY <1>1, InvHolds, PTL

-----------------------------------------------------------------------------
(* Commands and the workers that have them *)

\* Where the saga of o is tells its command from the others.
LEMMA CommandIs ==
  ASSUME Inv, NEW c \in inbox
  PROVE  LET o == c.order IN
         /\ o \in Order /\ Reply(o) = "none" /\ At(o) \in 0 .. 5
         /\ IF Back(o) THEN At(o) \in {0, 2} ELSE At(o) \in 1 .. 5
         /\ c.op = "create" <=> At(o) = 2 /\ ~Back(o)
         /\ c.op = "cancelCreate" <=> At(o) = 2 /\ Back(o)
         /\ c.op = "confirmCreate" <=> At(o) = 4
         /\ c.op = "approve" <=> At(o) = 5
         /\ c.op = "reject" <=> At(o) = 0
         /\ c.service = "kitchen" <=> At(o) \in {2, 4}
         /\ c.service = "order" <=> At(o) \in {0, 5}
         /\ c.service = "kitchen" /\ c.op # "create" => c.id = TicketId(o)
         /\ c.service = "order" \/ c.op = "create" => c.id = o
<1> DEFINE o == c.order
<1>1. /\ o \in Order /\ At(o) \in 0 .. 5
      /\ c.service = CASE At(o) \in {0, 5} -> "order" [] At(o) = 1 -> "customer"
                       [] At(o) = 3 -> "accounting" [] OTHER -> "kitchen"
      /\ c.op = CASE At(o) = 0 -> "reject" [] At(o) = 1 -> "validateOrder"
                  [] At(o) = 2 -> (IF Back(o) THEN "cancelCreate" ELSE "create")
                  [] At(o) = 3 -> "authorize" [] At(o) = 4 -> "confirmCreate"
                  [] OTHER -> "approve"
      /\ c.id = IF At(o) = 4 \/ (At(o) = 2 /\ Back(o)) THEN TicketId(o) ELSE o
      /\ At(o) \in IF Back(o) THEN {0, 2} ELSE 1 .. 5
  BY ReceivedIs
<1>2. Reply(o) = "none"
  BY DEF Inv, InboxOK
<1> DEFINE e == At(o)
           b == Back(o)
           id == TicketId(o)
<1>3. e \in {0, 1, 2, 3, 4, 5}
  BY <1>1
<1> HIDE DEF o, e, b, id
<1>4. /\ c.op = "create" <=> e = 2 /\ ~b
      /\ c.op = "cancelCreate" <=> e = 2 /\ b
      /\ c.op = "confirmCreate" <=> e = 4
      /\ c.op = "approve" <=> e = 5
      /\ c.op = "reject" <=> e = 0
      /\ c.service = "kitchen" <=> e \in {2, 4}
      /\ c.service = "order" <=> e \in {0, 5}
      /\ c.service = "kitchen" /\ c.op # "create" => c.id = id
      /\ c.service = "order" \/ c.op = "create" => c.id = o
  <2>1. c.service = CASE e \in {0, 5} -> "order" [] e = 1 -> "customer"
                       [] e = 3 -> "accounting" [] OTHER -> "kitchen"
    BY <1>1 DEF e
  <2>2. c.op = CASE e = 0 -> "reject" [] e = 1 -> "validateOrder"
                  [] e = 2 -> (IF b THEN "cancelCreate" ELSE "create")
                  [] e = 3 -> "authorize" [] e = 4 -> "confirmCreate"
                  [] OTHER -> "approve"
    BY <1>1 DEF e, b
  <2>3. c.id = IF e = 4 \/ (e = 2 /\ b) THEN id ELSE o
    BY <1>1 DEF e, b, id
  <2> QED
    BY <1>3, <2>1, <2>2, <2>3
<1> QED
  BY <1>1, <1>2, <1>4 DEF o, e, b, id

\* A worker's command is of a saga that waits for it.
LEMMA WorkerIs ==
  ASSUME Inv, NEW w \in Worker, Busy(w)
  PROVE  LET k == task[w]
             o == k.cmd.order IN
         /\ k.cmd \in inbox /\ o \in Order /\ Reply(o) = "none"
         /\ At(o) \in 0 .. 5 /\ IF Back(o) THEN At(o) \in {0, 2} ELSE At(o) \in 1 .. 5
         /\ k.service \in {"order", "kitchen"}
         /\ k.op = "create" <=> At(o) = 2 /\ ~Back(o)
         /\ k.op = "cancelCreate" <=> At(o) = 2 /\ Back(o)
         /\ k.op = "confirmCreate" <=> At(o) = 4
         /\ k.op = "approve" <=> At(o) = 5
         /\ k.op = "reject" <=> At(o) = 0
         /\ k.service = "kitchen" <=> At(o) \in {2, 4}
         /\ k.service = "order" <=> At(o) \in {0, 5}
         /\ k.service = "kitchen" /\ k.op # "create" => k.id = TicketId(o)
         /\ k.service = "order" => k.id = o
         /\ k.op = "create" /\ k.pc = "save" => k.copy.order = o
<1> DEFINE k == task[w]
           c == k.cmd
<1>1. /\ c \in inbox /\ k.service = c.service /\ k.op = c.op /\ TaskOK(k)
      /\ ~(k.op = "create" /\ k.pc \in {"publish", "done"}) => k.id = c.id
      /\ k.op = "create" /\ k.pc = "save" => k.copy.order = k.id
  BY DEF Inv, WorkersOK
<1>2. k.service \in {"order", "kitchen"}
  BY <1>1 DEF TaskOK, Busy
<1>3. LET o == c.order IN
         /\ o \in Order /\ Reply(o) = "none" /\ At(o) \in 0 .. 5
         /\ IF Back(o) THEN At(o) \in {0, 2} ELSE At(o) \in 1 .. 5
         /\ c.op = "create" <=> At(o) = 2 /\ ~Back(o)
         /\ c.op = "cancelCreate" <=> At(o) = 2 /\ Back(o)
         /\ c.op = "confirmCreate" <=> At(o) = 4
         /\ c.op = "approve" <=> At(o) = 5
         /\ c.op = "reject" <=> At(o) = 0
         /\ c.service = "kitchen" <=> At(o) \in {2, 4}
         /\ c.service = "order" <=> At(o) \in {0, 5}
         /\ c.service = "kitchen" /\ c.op # "create" => c.id = TicketId(o)
         /\ c.service = "order" \/ c.op = "create" => c.id = o
  BY <1>1, CommandIs
<1>4. c.service = "order" => k.op # "create"
  BY <1>1, <1>3
<1> HIDE DEF k, c
<1>5. /\ k.service = "kitchen" /\ k.op # "create" => k.id = TicketId(c.order)
      /\ k.service = "order" => k.id = c.order
      /\ k.op = "create" /\ k.pc = "save" => k.copy.order = c.order
  BY <1>1, <1>3, <1>4
<1> QED
  BY <1>1, <1>2, <1>3, <1>5 DEF k, c

\* Two workers have no commands of the same saga.
LEMMA SoleWorker ==
  ASSUME Inv, NEW v \in Worker, NEW w \in Worker, Busy(v), Busy(w),
         task[v].cmd.order = task[w].cmd.order
  PROVE  v = w
<1>1. task[v].cmd \in inbox /\ task[w].cmd \in inbox
  BY DEF Inv, WorkersOK
<1>2. task[v].cmd = task[w].cmd
  BY <1>1 DEF Inv, InboxOK
<1> QED
  BY <1>2 DEF Inv, WorkersOK

\* A saga that has its reply, or no command, has no worker.
LEMMA NoWorker ==
  ASSUME Inv, NEW o \in Order, \A c \in inbox : c.order # o
  PROVE  ~Past(o) /\ \A w \in Worker : Busy(w) => task[w].cmd.order # o
<1>1. \A w \in Worker : Busy(w) => task[w].cmd.order # o
  BY DEF Inv, WorkersOK
<1> QED
  BY <1>1 DEF Past, Busy

\* What the others may call: not what the create saga does.
LEMMA OthersCall ==
  ASSUME Inv, OnlySagas, NEW w \in Caller, Busy(w)
  PROVE  /\ task[w].op \notin SagaOps /\ w \notin Worker
BY FtgoAssumption DEF Inv, WorkersOK, OnlySagas

LEMMA TicketsNumbered ==
  ASSUME Inv
  PROVE  /\ DOMAIN tickets = 1 .. Len(tickets) /\ Len(tickets) \in Nat
         /\ \A o : IsFiniteSet(TicketsOf(o)) /\ Cardinality(TicketsOf(o)) \in Nat
<1>1. DOMAIN tickets = 1 .. Len(tickets) /\ Len(tickets) \in Nat
  BY DEF Inv, ShapesOK
<1>2. IsFiniteSet(1 .. Len(tickets))
  BY <1>1, FS_Interval
<1>3. ASSUME NEW o PROVE IsFiniteSet(TicketsOf(o))
  <2> DEFINE T == TicketsOf(o)
  <2>1. T \subseteq 1 .. Len(tickets)
    BY <1>1 DEF TicketsOf
  <2> HIDE DEF T
  <2>2. IsFiniteSet(T)
    BY <1>2, <2>1, FS_Subset
  <2> QED
    BY <2>2 DEF T
<1> QED
  BY <1>1, <1>3, FS_CardinalityType

-----------------------------------------------------------------------------
(* What a save does *)

\* An order is decided by its own saga, at its last steps.
OrderMoves(w, o) ==
  \/ orders'[o].state = orders[o].state
  \/ Decided(orders[o].state) /\ Decided(orders'[o].state)
  \/ /\ orders[o].state = "APPROVAL_PENDING" /\ w \in Worker /\ task[w].cmd.order = o
     /\ \/ At(o) = 5 /\ ~Back(o) /\ Decided(orders'[o].state)
        \/ At(o) = 0 /\ Back(o) /\ orders'[o].state = "REJECTED"

\* A ticket leaves its first state when its saga confirms it.
TicketMoves(w, i) ==
  /\ tickets'[i].order = tickets[i].order
  /\ \/ tickets'[i].state = "CREATE_PENDING" <=> tickets[i].state = "CREATE_PENDING"
     \/ /\ tickets[i].state = "CREATE_PENDING" /\ tickets'[i].state # "CREATE_PENDING"
        /\ w \in Worker /\ At(task[w].cmd.order) = 4 /\ i = TicketId(task[w].cmd.order)

\* A saga makes its ticket.
TicketsMade(w) ==
  /\ w \in Worker /\ task[w].op = "create" /\ task'[w].id = Len(tickets) + 1
  /\ DOMAIN tickets' = DOMAIN tickets \cup {Len(tickets) + 1}
  /\ tickets'[Len(tickets) + 1].order = task[w].cmd.order
  /\ tickets'[Len(tickets) + 1].state = "CREATE_PENDING"

LEMMA SaveMoves ==
  ASSUME Inv, OnlySagas, EntitiesOK, NEW w \in Worker \cup Caller, Save(w)
  PROVE  /\ \A o \in Order : OrderMoves(w, o)
         /\ \A i \in DOMAIN tickets : TicketMoves(w, i)
         /\ DOMAIN tickets' = DOMAIN tickets \/ TicketsMade(w)
<1> DEFINE k == task[w]
<1>1. k.pc = "save" /\ Busy(w) /\ EntityOK(k)
  BY SaveIs DEF EntitiesOK
<1>2. w \in Caller => k.op \notin SagaOps /\ w \notin Worker
  BY <1>1, OthersCall
<1>3. tickets \in Seq(Ticket) /\ orders = [o \in Order |-> orders[o]]
  BY DEF Inv, ShapesOK
<1>4. \A i \in DOMAIN tickets : tickets'[i].order = tickets[i].order
  BY SaveGrows DEF Grows
<1>5. CASE /\ k.service = "order" /\ k.op \in DOMAIN OrderFrom /\ k.id \in Order
           /\ k.copy.state = OrderTo[k.op]
           /\ orders' = [orders EXCEPT ![k.id] = k.copy] /\ UNCHANGED tickets
  <2>1. \A o \in Order : orders'[o] = IF o = k.id THEN k.copy ELSE orders[o]
    BY <1>3, <1>5
  <2>2. OrderTaskOK(k)
    BY <1>1, <1>5 DEF EntityOK
  <2>3. OrderMoves(w, k.id)
    <3>1. CASE w \in Worker
      <4>1. k.id = k.cmd.order /\ At(k.id) \in {0, 5}
            /\ (At(k.id) = 5 <=> k.op = "approve") /\ (At(k.id) = 0 <=> k.op = "reject")
            /\ (IF Back(k.id) THEN At(k.id) \in {0, 2} ELSE At(k.id) \in 1 .. 5)
        BY <1>1, <1>5, <3>1, WorkerIs
      <4>2. orders[k.id].state = "APPROVAL_PENDING"
        BY <1>1, <2>2, <4>1 DEF OrderTaskOK
      <4>3. orders'[k.id].state = OrderTo[k.op]
        BY <1>5, <2>1
      <4>4. CASE k.op = "approve"
        <5>1. Decided(orders'[k.id].state)
          BY <1>5, <4>3, <4>4, OrderToIs
        <5> HIDE DEF k
        <5> QED
          BY <3>1, <4>1, <4>2, <4>4, <5>1 DEF OrderMoves, k
      <4>5. CASE k.op = "reject"
        <5>1. orders'[k.id].state = "REJECTED"
          BY <1>5, <4>3, <4>5, OrderToIs
        <5> QED
          BY <3>1, <4>1, <4>2, <4>5, <5>1 DEF OrderMoves
      <4> QED
        BY <4>1, <4>4, <4>5
    <3>2. CASE w \in Caller
      <4>1. k.op \notin {"approve", "reject"}
        BY <1>2, <3>2 DEF SagaOps
      <4>2. Decided(orders[k.id].state)
        BY <1>1, <2>2, <4>1 DEF OrderTaskOK
      <4>3. Decided(orders'[k.id].state)
        BY <1>5, <2>1, <4>1, OrderToIs
      <4> QED
        BY <4>2, <4>3 DEF OrderMoves
    <3> QED
      BY <3>1, <3>2
  <2>4. \A o \in Order : OrderMoves(w, o)
    BY <2>1, <2>3 DEF OrderMoves
  <2>5. \A i \in DOMAIN tickets : TicketMoves(w, i)
    BY <1>5 DEF TicketMoves
  <2> QED
    BY <1>5, <2>4, <2>5
<1>6. CASE /\ k.service = "kitchen" /\ k.op = "create"
           /\ Turns(w, Moved(k, Len(tickets) + 1, "publish"))
           /\ tickets' = Append(tickets, k.copy) /\ UNCHANGED orders
  <2>1. w \in Worker
    BY <1>2, <1>6 DEF SagaOps
  <2>2. k.copy.state = "CREATE_PENDING"
    BY <1>1, <1>6 DEF EntityOK, TicketTaskOK
  <2>3. k.copy.order = k.cmd.order
    BY <1>1, <1>6, <2>1, WorkerIs
  <2>4. task'[w] = Moved(k, Len(tickets) + 1, "publish")
    BY <1>6, TurnsIs
  <2>5. task'[w].id = Len(tickets) + 1
    BY <2>4, MovedIs
  <2>6. /\ DOMAIN tickets' = DOMAIN tickets \cup {Len(tickets) + 1}
        /\ tickets'[Len(tickets) + 1] = k.copy
        /\ \A i \in DOMAIN tickets : tickets'[i] = tickets[i]
    <3> HIDE DEF k
    <3> QED
      BY <1>3, <1>6
  <2>7. TicketsMade(w)
    BY <1>6, <2>1, <2>2, <2>3, <2>5, <2>6 DEF TicketsMade
  <2> QED
    BY <1>6, <2>6, <2>7 DEF OrderMoves, TicketMoves
<1>7. CASE /\ k.service = "kitchen" /\ k.op # "create" /\ k.op \in TicketHandlers \cup {"accept"}
           /\ k.id \in DOMAIN tickets
           /\ tickets' = [tickets EXCEPT ![k.id] = k.copy] /\ UNCHANGED orders
  <2>1. /\ DOMAIN tickets' = DOMAIN tickets
        /\ \A i \in DOMAIN tickets : tickets'[i] = IF i = k.id THEN k.copy ELSE tickets[i]
    BY <1>3, <1>7
  <2>2. TicketTaskOK(k)
    BY <1>1, <1>7 DEF EntityOK
  <2>3. TicketMoves(w, k.id)
    <3>1. CASE k.op = "confirmCreate"
      <4>1. w \in Worker
        BY <1>2, <3>1 DEF SagaOps
      <4>2. At(k.cmd.order) = 4 /\ k.id = TicketId(k.cmd.order)
        BY <1>1, <1>7, <3>1, <4>1, WorkerIs
      <4>3. tickets[k.id].state = "CREATE_PENDING" /\ k.copy.state = "AWAITING_ACCEPTANCE"
        BY <1>1, <2>2, <3>1 DEF TicketTaskOK
      <4>4. tickets'[k.id].state = "AWAITING_ACCEPTANCE"
        BY <1>7, <2>1, <4>3
      <4> QED
        BY <1>4, <1>7, <4>1, <4>2, <4>3, <4>4 DEF TicketMoves
    <3>2. CASE k.op # "confirmCreate"
      <4>1. k.copy.state = "CREATE_PENDING" <=> tickets[k.id].state = "CREATE_PENDING"
        BY <1>1, <1>7, <2>2, <3>2 DEF TicketTaskOK
      <4> QED
        BY <1>4, <1>7, <2>1, <4>1 DEF TicketMoves
    <3> QED
      BY <3>1, <3>2
  <2>4. \A i \in DOMAIN tickets : TicketMoves(w, i)
    BY <1>4, <2>1, <2>3 DEF TicketMoves
  <2> QED
    BY <1>7, <2>1, <2>4 DEF OrderMoves
<1> QED
  BY <1>5, <1>6, <1>7, SaveIs

-----------------------------------------------------------------------------
(* Tasks and the rows they are about *)

LEMMA TurnEntities ==
  ASSUME Inv, EntitiesOK, NEW w \in Worker \cup Caller, NEW k, Turns(w, k),
         k.pc # "idle" => EntityOK(k) /\ (w \in Worker => OwnTicket(k)),
         UNCHANGED <<orders, tickets>>
  PROVE  EntitiesOK'
<1>1. task'[w] = k /\ \A v \in (Worker \cup Caller) \ {w} : task'[v] = task[v]
  BY TurnsIs
<1>2. \A t : (EntityOK(t) <=> EntityOK(t)') /\ (OwnTicket(t) <=> OwnTicket(t)')
  BY DEF EntityOK, OrderTaskOK, TicketTaskOK, OwnTicket, TicketsOf
<1>3. \A v \in Worker \cup Caller : Busy(v)' => EntityOK(task'[v])
  BY <1>1 DEF EntitiesOK, Busy
<1>4. \A v \in Worker : Busy(v)' => OwnTicket(task'[v])
  BY <1>1 DEF EntitiesOK, Busy
<1>5. \A v \in Worker \cup Caller : Busy(v)' => EntityOK(task[v])'
  BY <1>3 DEF EntityOK, OrderTaskOK, TicketTaskOK
<1>6. \A v \in Worker : Busy(v)' => OwnTicket(task[v])'
  BY <1>4 DEF OwnTicket, TicketsOf
<1> QED
  BY <1>5, <1>6 DEF EntitiesOK

\* What an operation on a ticket makes of it.
LEMMA TicketAfterIs ==
  ASSUME NEW t, Sane(t), NEW op \in (TicketHandlers \cup {"accept"}) \ {"create"},
         t.state \in TicketFrom[op]
  PROVE  LET s == TicketAfter(op, t).state IN
         CASE op = "confirmCreate" -> t.state = "CREATE_PENDING" /\ s = "AWAITING_ACCEPTANCE"
           [] op = "cancelCreate" -> s = t.state
           [] OTHER -> t.state # "CREATE_PENDING" /\ s # "CREATE_PENDING"
<1>1. CASE op \in {"confirmCreate", "cancelCreate"}
  BY <1>1 DEF TicketAfter, TicketFrom, TicketTo, Restoring
<1>2. CASE op \in Restoring
  BY <1>2 DEF TicketAfter, TicketFrom, Restoring, Sane, Open
<1>3. CASE op \in {"accept", "cancel", "confirmCancel", "beginReviseOrder"}
  BY <1>3 DEF TicketAfter, TicketFrom, TicketTo, Restoring, Open
<1> QED
  BY <1>1, <1>2, <1>3 DEF TicketHandlers, Restoring

LEMMA TicketTaskEntity ==
  ASSUME Inv, NEW c, NEW op \in TicketHandlers \cup {"accept"}, NEW id,
         op = "create" => id \in Order
  PROVE  EntityOK(TicketTask(c, op, id)) /\ OwnTicket(TicketTask(c, op, id))
<1> DEFINE k == TicketTask(c, op, id)
<1>1. /\ k.pc \in {"save", "failed"} /\ k.service = "kitchen" /\ k.op = op /\ k.id = id
      /\ op = "create" => k.copy.state = "CREATE_PENDING"
      /\ k.pc = "save" /\ op # "create" =>
           /\ id \in DOMAIN tickets /\ tickets[id].state \in TicketFrom[op]
           /\ k.copy = TicketAfter(op, tickets[id])
  BY TicketTaskIs
<1>2. ASSUME k.pc = "save", op # "create"
      PROVE  CASE op = "confirmCreate" -> tickets[id].state = "CREATE_PENDING"
                                          /\ k.copy.state = "AWAITING_ACCEPTANCE"
               [] op = "cancelCreate" -> k.copy.state = tickets[id].state
               [] OTHER -> tickets[id].state # "CREATE_PENDING"
                           /\ k.copy.state # "CREATE_PENDING"
  <2>1. Sane(tickets[id])
    BY <1>1, <1>2 DEF Inv, ShapesOK
  <2> HIDE DEF k
  <2>2. LET s == TicketAfter(op, tickets[id]).state IN
         CASE op = "confirmCreate" -> tickets[id].state = "CREATE_PENDING"
                                      /\ s = "AWAITING_ACCEPTANCE"
           [] op = "cancelCreate" -> s = tickets[id].state
           [] OTHER -> tickets[id].state # "CREATE_PENDING" /\ s # "CREATE_PENDING"
    BY <1>1, <1>2, <2>1, TicketAfterIs
  <2> QED
    BY <1>1, <1>2, <2>2
<1> HIDE DEF k
<1>3. TicketTaskOK(k)
  BY <1>1, <1>2 DEF TicketTaskOK
<1>4. EntityOK(k) /\ OwnTicket(k)
  BY <1>1, <1>3 DEF EntityOK, OwnTicket
<1> QED
  BY <1>4 DEF k

LEMMA OrderTaskEntity ==
  ASSUME Inv, NEW c, NEW op \in DOMAIN OrderFrom, NEW id \in Order, NEW rev
  PROVE  EntityOK(OrderTask(c, op, id, rev)) /\ OwnTicket(OrderTask(c, op, id, rev))
<1> DEFINE k == OrderTask(c, op, id, rev)
<1>1. /\ k.pc \in {"save", "failed"} /\ k.service = "order" /\ k.op = op /\ k.id = id
      /\ k.pc = "save" => orders[id].state = OrderFrom[op]
  BY OrderTaskIs
<1> HIDE DEF k
<1>2. OrderTaskOK(k)
  BY <1>1, OrderToIs DEF OrderTaskOK
<1>3. EntityOK(k) /\ OwnTicket(k)
  BY <1>1, <1>2 DEF EntityOK, OwnTicket
<1> QED
  BY <1>3 DEF k

\* A ticket is one saga's: the workers at it are one.
LEMMA SameTicket ==
  ASSUME Inv, ProgressOK, NEW v \in Worker, NEW w \in Worker, Busy(v), Busy(w),
         TicketId(task[v].cmd.order) = TicketId(task[w].cmd.order),
         TicketId(task[v].cmd.order) \in DOMAIN tickets
  PROVE  v = w
<1> DEFINE p == task[v].cmd.order
           q == task[w].cmd.order
<1>1. p \in Order /\ q \in Order
  BY WorkerIs
<1>2. TicketId(p) # 0
  BY TicketsNumbered
<1>3. HasTicket(p) /\ HasTicket(q)
  BY <1>1, <1>2 DEF ProgressOK, Progress
<1>4. p = q
  BY <1>3 DEF HasTicket, TicketsOf
<1> QED
  BY <1>4, SoleWorker

LEMMA SaveEntities ==
  ASSUME Inv, OnlySagas, EntitiesOK, ProgressOK, NEW w \in Worker \cup Caller, Save(w)
  PROVE  EntitiesOK'
<1> DEFINE k == task[w]
<1>1. /\ \A o \in Order : OrderMoves(w, o)
      /\ \A i \in DOMAIN tickets : TicketMoves(w, i)
      /\ DOMAIN tickets \subseteq DOMAIN tickets'
  BY SaveMoves, SaveGrows DEF Grows
<1>2. k.pc = "save" /\ Busy(w) /\ EntityOK(k)
  BY SaveIs DEF EntitiesOK
<1>3. PICK m : Turns(w, m) /\ m.pc = "publish" /\ m.service = k.service /\ m.op = k.op
               /\ m.cmd = k.cmd /\ (k.op # "create" => m.id = k.id)
  <2>1. \E id : Turns(w, Moved(k, id, "publish")) /\ (k.op # "create" => id = k.id)
    BY SaveIs DEF OrderFrom
  <2> QED
    BY <2>1, MovedIs
<1>4. task'[w] = m /\ \A v \in (Worker \cup Caller) \ {w} : task'[v] = task[v]
  BY <1>3, TurnsIs
<1>5. ASSUME NEW v \in Worker \cup Caller, Busy(v), v # w
      PROVE  EntityOK(task[v])'
  <2> DEFINE j == task[v]
  <2>1. EntityOK(j) /\ TaskOK(j)
    BY <1>5 DEF EntitiesOK, Inv, WorkersOK
  <2>2. task'[v] = j
    BY <1>4, <1>5
  <2>3. v \in Caller => j.op \notin SagaOps /\ v \notin Worker
    BY <1>5, OthersCall
  <2>4. CASE j.service = "order"
    <3>1. OrderTaskOK(j) /\ j.id \in Order
      BY <1>5, <2>1, <2>4 DEF EntityOK, TaskOK, Busy
    <3>2. OrderMoves(w, j.id)
      BY <1>1, <3>1
    <3>3. ASSUME j.pc = "save", j.op \in {"approve", "reject"}
          PROVE  orders'[j.id].state = "APPROVAL_PENDING"
      <4>1. v \in Worker
        BY <2>3, <3>3 DEF SagaOps
      <4>2. j.id = j.cmd.order
        BY <1>5, <2>4, <4>1, WorkerIs
      <4>3. orders[j.id].state = "APPROVAL_PENDING"
        BY <3>1, <3>3 DEF OrderTaskOK
      <4>4. ~(w \in Worker /\ k.cmd.order = j.id)
        BY <1>2, <1>5, <4>1, <4>2, SoleWorker
      <4> QED
        BY <3>2, <4>3, <4>4 DEF OrderMoves, Decided
    <3>4. Decided(orders[j.id].state) => Decided(orders'[j.id].state)
      BY <3>2 DEF OrderMoves, Decided
    <3>5. orders[j.id].state = "REJECTED" => orders'[j.id].state = "REJECTED"
      BY <3>2 DEF OrderMoves, Decided
    <3>6. OrderTaskOK(task[v])'
      BY <2>2, <3>1, <3>3, <3>4, <3>5 DEF OrderTaskOK
    <3> QED
      BY <2>2, <2>4, <3>6 DEF EntityOK
  <2>5. CASE j.service # "order"
    <3>1. /\ TicketTaskOK(j) /\ j.service = "kitchen"
          /\ (j.pc \notin {"save", "failed"} => j.id \in DOMAIN tickets)
          /\ (j.pc = "save" /\ j.op # "create" => j.id \in DOMAIN tickets)
      BY <1>5, <2>1, <2>5 DEF EntityOK, TaskOK, Busy
    <3>2. j.id \in DOMAIN tickets => TicketMoves(w, j.id)
      BY <1>1
    <3>3. ASSUME j.pc = "save", j.op \in {"confirmCreate", "cancelCreate"}
          PROVE  tickets'[j.id].state = "CREATE_PENDING"
                   <=> tickets[j.id].state = "CREATE_PENDING"
      <4>1. v \in Worker
        BY <2>3, <3>3 DEF SagaOps
      <4>2. j.id = TicketId(j.cmd.order) /\ j.id \in DOMAIN tickets
        BY <1>5, <3>1, <3>3, <4>1, WorkerIs
      <4>3. ~(w \in Worker /\ j.id = TicketId(k.cmd.order))
        BY <1>2, <1>5, <4>1, <4>2, SameTicket
      <4> QED
        BY <3>2, <4>2, <4>3 DEF TicketMoves
    <3>4. j.id \in DOMAIN tickets /\ tickets[j.id].state # "CREATE_PENDING"
            => tickets'[j.id].state # "CREATE_PENDING"
      BY <3>2 DEF TicketMoves
    <3>5. TicketTaskOK(task[v])'
      <4>1. j.pc = "save" =>
              CASE j.op = "create" -> j.copy.state = "CREATE_PENDING"
                [] j.op = "confirmCreate" ->
                     /\ tickets'[j.id].state = "CREATE_PENDING"
                     /\ j.copy.state = "AWAITING_ACCEPTANCE"
                [] j.op = "cancelCreate" ->
                     j.copy.state = "CREATE_PENDING" <=> tickets'[j.id].state = "CREATE_PENDING"
                [] OTHER -> /\ j.copy.state # "CREATE_PENDING"
                            /\ tickets'[j.id].state # "CREATE_PENDING"
        BY <3>1, <3>3, <3>4 DEF TicketTaskOK
      <4>2. j.pc \in {"publish", "done"} /\ j.op = "confirmCreate" =>
              tickets'[j.id].state # "CREATE_PENDING"
        BY <3>1, <3>4 DEF TicketTaskOK
      <4> QED
        BY <2>2, <4>1, <4>2 DEF TicketTaskOK
    <3> QED
      BY <2>2, <2>5, <3>5 DEF EntityOK
  <2> QED
    BY <2>4, <2>5
<1>6. EntityOK(task[w])'
  <2>1. m.op = "approve" /\ m.service = "order" => Decided(orders'[m.id].state)
    <3> SUFFICES ASSUME k.op = "approve", k.service = "order"
                 PROVE  Decided(orders'[k.id].state)
      BY <1>3
    <3>1. k.id \in Order /\ orders' = [orders EXCEPT ![k.id] = k.copy]
          /\ k.copy.state = OrderTo["approve"]
      BY SaveIs
    <3>2. orders'[k.id].state = "APPROVED"
      BY <3>1 DEF Inv, ShapesOK, OrderTo
    <3> QED
      BY <3>2 DEF Decided
  <2>2. m.op = "reject" /\ m.service = "order" => orders'[m.id].state = "REJECTED"
    <3> SUFFICES ASSUME k.op = "reject", k.service = "order"
                 PROVE  orders'[k.id].state = "REJECTED"
      BY <1>3
    <3>1. k.id \in Order /\ orders' = [orders EXCEPT ![k.id] = k.copy]
          /\ k.copy.state = OrderTo["reject"]
      BY SaveIs
    <3> QED
      BY <3>1 DEF Inv, ShapesOK, OrderTo
  <2>3. m.op = "confirmCreate" /\ m.service # "order" => tickets'[m.id].state # "CREATE_PENDING"
    <3> SUFFICES ASSUME k.op = "confirmCreate", k.service # "order"
                 PROVE  tickets'[k.id].state # "CREATE_PENDING"
      BY <1>3
    <3>1. k.id \in DOMAIN tickets /\ tickets' = [tickets EXCEPT ![k.id] = k.copy]
      BY SaveIs
    <3>2. k.copy.state = "AWAITING_ACCEPTANCE"
      BY <1>2 DEF EntityOK, TicketTaskOK
    <3>3. tickets'[k.id] = k.copy
      BY <3>1 DEF Inv, ShapesOK
    <3> QED
      BY <3>2, <3>3
  <2> QED
    BY <1>3, <1>4, <2>1, <2>2, <2>3 DEF EntityOK, OrderTaskOK, TicketTaskOK
<1>7. ASSUME NEW v \in Worker, Busy(v), v # w
      PROVE  OwnTicket(task[v])'
  <2>1. OwnTicket(task[v]) /\ task'[v] = task[v]
    BY <1>4, <1>7 DEF EntitiesOK
  <2> QED
    BY <1>1, <2>1 DEF OwnTicket, TicketsOf, TicketMoves
<1>8. w \in Worker => OwnTicket(task[w])'
  <2> SUFFICES ASSUME w \in Worker, k.op = "create"
               PROVE  task'[w].id \in TicketsOf(k.cmd.order)'
    BY <1>3, <1>4 DEF OwnTicket
  <2>1. /\ tickets' = Append(tickets, k.copy) /\ k.copy.order = k.cmd.order
        /\ Turns(w, Moved(k, Len(tickets) + 1, "publish"))
    BY <1>2, SaveIs, WorkerIs DEF OrderFrom
  <2>2. task'[w].id = Len(tickets) + 1
    BY <2>1, TurnsIs, MovedIs
  <2>3. Len(tickets) + 1 \in DOMAIN tickets' /\ tickets'[Len(tickets) + 1] = k.copy
    <3>1. tickets \in Seq(Ticket)
      BY DEF Inv, ShapesOK
    <3> HIDE DEF k
    <3> QED
      BY <2>1, <3>1
  <2> QED
    BY <1>3, <1>4, <2>1, <2>2, <2>3 DEF TicketsOf
<1>9. \A v \in Worker \cup Caller : Busy(v)' => v = w \/ Busy(v)
  BY <1>4 DEF Busy
<1> QED
  BY <1>5, <1>6, <1>7, <1>8, <1>9 DEF EntitiesOK

-----------------------------------------------------------------------------
(* Steps of the services *)

\* The sagas and the rows are as they were, and who is past its save still is.
LEMMA TurnStory ==
  ASSUME Inv, NEW w \in Worker \cup Caller, NEW k, Turns(w, k),
         UNCHANGED <<orders, tickets, saga, crashes>>,
         ProgressOK, SmoothOK, CountOK,
         w \in Worker /\ task[w].pc \in {"publish", "done"} =>
           k.pc \in {"publish", "done"} /\ k.cmd = task[w].cmd,
         w \in Worker /\ crashes = 0 /\ k.pc = "failed" => At(k.cmd.order) # 5
  PROVE  ProgressOK' /\ SmoothOK' /\ CountOK'
<1>1. task'[w] = k /\ \A v \in (Worker \cup Caller) \ {w} : task'[v] = task[v]
  BY TurnsIs
<1>2. \A o \in Order : Past(o) => Past(o)'
  <2> SUFFICES ASSUME NEW o \in Order, Past(o) PROVE Past(o)'
    OBVIOUS
  <2>1. PICK v \in Worker : task[v].pc \in {"publish", "done"} /\ task[v].cmd.order = o
    BY DEF Past
  <2>2. task'[v].pc \in {"publish", "done"} /\ task'[v].cmd.order = o
    BY <1>1, <2>1
  <2> QED
    BY <2>2 DEF Past
<1>3. ProgressOK'
  BY DEF ProgressOK, Progress, At, Back, Reply, TicketId, HasTicket, Confirmed, Finished, TicketsOf
<1>4. SmoothOK'
  <2> SUFFICES ASSUME crashes = 0, NEW o \in Order PROVE Smooth(o)'
    BY DEF SmoothOK
  <2>1. Smooth(o)
    BY DEF SmoothOK
  <2>2. At(o)' = At(o) /\ Back(o)' = Back(o) /\ Reply(o)' = Reply(o)
        /\ Finished(o)' = Finished(o) /\ Cooked(o)' = Cooked(o)
    BY DEF At, Back, Reply, Finished, Cooked, TicketsOf
  <2>3. At(o) = 5 => \A v \in Worker : Busy(v)' /\ task'[v].cmd.order = o =>
                       task'[v].pc # "failed" \/ (Busy(v) /\ task[v] = task'[v])
    BY <1>1 DEF Busy
  <2> QED
    BY <1>2, <2>1, <2>2, <2>3 DEF Smooth
<1>5. CountOK'
  <2> SUFFICES ASSUME NEW o \in Order PROVE Counted(o)'
    BY DEF CountOK
  <2>1. Fresh(o)' => Fresh(o)
    BY <1>2 DEF Fresh, At, Back, Reply, Finished
  <2>2. TicketsOf(o)' = TicketsOf(o)
    BY DEF TicketsOf
  <2> QED
    BY <2>1, <2>2 DEF CountOK, Counted
<1> QED
  BY <1>3, <1>4, <1>5

LEMMA EventsKept ==
  ASSUME EventsOK, UNCHANGED <<orders, tickets, events>>
  PROVE  EventsOK'
BY DEF EventsOK, IsTrue

\* The approval of an order is not refused, unless it was delivered before.
LEMMA ReceiveStory ==
  ASSUME Inv, Story, NEW w \in Worker, NEW c \in inbox, Receive(w, c)
  PROVE  Story'
<1>1. UNCHANGED <<orders, tickets, events, saga, inbox, crashes>>
  BY DEF Receive
<1>2. PICK k : /\ Turns(w, k) /\ ~Busy(w) /\ k.pc \in {"save", "failed"} /\ k.cmd = c
               /\ \A v \in Worker : Busy(v) => task[v].cmd # c
               /\ \/ c.service = "kitchen" /\ c.op \in TicketHandlers
                     /\ k = TicketTask(c, c.op, c.id)
                  \/ c.service = "order" /\ c.op \in {"approve", "reject"}
                     /\ k = OrderTask(c, c.op, c.id, NoRevision)
  BY ReceiveIs
<1> DEFINE o == c.order
<1>3. /\ o \in Order /\ Reply(o) = "none"
      /\ IF Back(o) THEN At(o) \in {0, 2} ELSE At(o) \in 1 .. 5
      /\ c.op = "create" <=> At(o) = 2 /\ ~Back(o)
      /\ c.op = "approve" <=> At(o) = 5
      /\ c.service = "kitchen" <=> At(o) \in {2, 4}
      /\ c.service = "order" \/ c.op = "create" => c.id = o
  BY CommandIs
<1>4. EntityOK(k) /\ OwnTicket(k)
  <2>1. CASE c.service = "kitchen" /\ c.op \in TicketHandlers /\ k = TicketTask(c, c.op, c.id)
    BY <1>3, <2>1, TicketTaskEntity
  <2>2. CASE c.service = "order" /\ c.op \in {"approve", "reject"}
             /\ k = OrderTask(c, c.op, c.id, NoRevision)
    <3>1. c.op \in DOMAIN OrderFrom
      BY <2>2 DEF OrderFrom
    <3> QED
      BY <1>3, <2>2, <3>1, OrderTaskEntity
  <2> QED
    BY <1>2, <2>1, <2>2
<1>5. ASSUME crashes = 0, k.pc = "failed", At(o) = 5 PROVE FALSE
  <2>1. ~Back(o) /\ c.op = "approve" /\ c.id = o /\ c.service # "kitchen"
    BY <1>2, <1>3, <1>5
  <2>2. Smooth(o)
    BY <1>3, <1>5 DEF Story, SmoothOK
  <2>3. ~Past(o)
    <3> SUFFICES ASSUME NEW v \in Worker, Busy(v), task[v].cmd.order = o PROVE FALSE
      BY DEF Past, Busy
    <3>1. task[v].cmd \in inbox
      BY DEF Inv, WorkersOK
    <3>2. task[v].cmd = c
      BY <3>1 DEF Inv, InboxOK
    <3> QED
      BY <1>2, <3>2
  <2>4. orders[o].state = "APPROVAL_PENDING"
    BY <1>3, <1>5, <2>1, <2>2, <2>3 DEF Smooth
  <2>5. Accepts("approve", orders[o].items, NoRevision)
    BY DEF Accepts
  <2>6. k = OrderTask(c, "approve", o, NoRevision)
    BY <1>2, <2>1
  <2>7. "approve" \in DOMAIN OrderFrom /\ OrderFrom["approve"] = "APPROVAL_PENDING"
    BY DEF OrderFrom
  <2> HIDE DEF o
  <2> QED
    BY <1>3, <1>5, <2>4, <2>5, <2>6, <2>7, OrderTaskIs
<1>6. EntitiesOK'
  BY <1>1, <1>2, <1>4, TurnEntities DEF Story
<1>7. ProgressOK' /\ SmoothOK' /\ CountOK'
  BY <1>1, <1>2, <1>5, TurnStory DEF Story, Busy
<1>8. EventsOK'
  BY <1>1, EventsKept DEF Story
<1> QED
  BY <1>6, <1>7, <1>8 DEF Story

LEMMA CallStory ==
  ASSUME Inv, Story, NEW w \in Caller, NEW op \in CalledOps, Call(w, op)
  PROVE  Story'
<1>1. UNCHANGED <<orders, tickets, events, saga, inbox, crashes>>
  BY DEF Call
<1>2. PICK t : /\ Turns(w, t)
               /\ \E id \in Order :
                     \/ /\ op \in TicketHandlers \cup {"accept"}
                        /\ t = TicketTask(NoCommand, op, id)
                     \/ /\ op \in DOMAIN OrderFrom
                        /\ \E rev \in Revision : t = OrderTask(NoCommand, op, id, rev)
  BY CallIs
<1>3. EntityOK(t)
  BY <1>2, TicketTaskEntity, OrderTaskEntity
<1>4. w \notin Worker
  BY FtgoAssumption
<1>5. EntitiesOK'
  BY <1>1, <1>2, <1>3, <1>4, TurnEntities DEF Story
<1>6. ProgressOK' /\ SmoothOK' /\ CountOK'
  BY <1>1, <1>2, <1>4, TurnStory DEF Story
<1>7. EventsOK'
  BY <1>1, EventsKept DEF Story
<1> QED
  BY <1>5, <1>6, <1>7 DEF Story

\* An event is published of what was saved.
LEMMA PublishStory ==
  ASSUME Inv, OnlySagas, Story, NEW w \in Worker \cup Caller, Publish(w)
  PROVE  Story'
<1> DEFINE k == task[w]
<1>1. /\ UNCHANGED <<orders, tickets, saga, inbox, crashes>>
      /\ events' = events \cup EventsOf(k) /\ k.pc = "publish" /\ Busy(w)
  BY DEF Publish, Busy
<1>2. PICK m : /\ Turns(w, m) /\ m.pc = "done" /\ m.service = k.service /\ m.op = k.op
               /\ m.cmd = k.cmd /\ m.id = k.id
  BY PublishInv, MovedIs
<1>3. EntityOK(k) /\ (w \in Worker => OwnTicket(k)) /\ TaskOK(k)
  BY <1>1 DEF Story, EntitiesOK, Inv, WorkersOK
<1>4. EntityOK(m) /\ (w \in Worker => OwnTicket(m))
  BY <1>1, <1>2, <1>3 DEF EntityOK, OrderTaskOK, TicketTaskOK, OwnTicket
<1>5. EntitiesOK'
  BY <1>1, <1>2, <1>4, TurnEntities DEF Story
<1>6. ProgressOK' /\ SmoothOK' /\ CountOK'
  BY <1>1, <1>2, TurnStory DEF Story
<1>7. \A e \in EventsOf(k) : IsTrue(e)
  <2> SUFFICES ASSUME NEW e \in EventsOf(k) PROVE IsTrue(e)
    OBVIOUS
  <2>1. CASE k.service = "order"
    <3>1. k.op \in DOMAIN OrderEvent /\ e.type = OrderEvent[k.op] /\ e.id = k.id
      BY <2>1 DEF EventsOf
    <3>2. k.id \in Order /\ OrderTaskOK(k)
      BY <1>1, <1>3, <2>1 DEF EntityOK, TaskOK, Busy
    <3>3. /\ e.type = "OrderAuthorized" => k.op = "approve"
          /\ e.type = "OrderRejected" => k.op = "reject"
          /\ e.type # "TicketCreated"
      BY <3>1 DEF OrderEvent
    <3> HIDE DEF k
    <3> QED
      BY <1>1, <3>1, <3>2, <3>3 DEF IsTrue, OrderTaskOK
  <2>2. CASE k.service # "order"
    <3>1. k.op \in DOMAIN TicketEvent /\ e.type = TicketEvent[k.op] /\ e.id = k.id
      BY <2>2 DEF EventsOf
    <3>2. k.id \in DOMAIN tickets /\ TicketTaskOK(k)
      BY <1>1, <1>3, <2>2 DEF EntityOK, TaskOK, Busy
    <3>3. /\ e.type \notin {"OrderAuthorized", "OrderRejected"}
          /\ e.type = "TicketCreated" => k.op = "confirmCreate"
      BY <3>1 DEF TicketEvent
    <3> HIDE DEF k
    <3> QED
      BY <1>1, <3>1, <3>2, <3>3 DEF IsTrue, TicketTaskOK
  <2> QED
    BY <2>1, <2>2
<1>8. EventsOK'
  BY <1>1, <1>7 DEF Story, EventsOK, IsTrue
<1> QED
  BY <1>5, <1>6, <1>8 DEF Story

LEMMA CrashStory ==
  ASSUME Inv, Story, NEW w \in Worker \cup Caller, Crash(w)
  PROVE  Story'
<1>1. /\ UNCHANGED <<orders, tickets, events, saga, inbox>>
      /\ Turns(w, Idle) /\ crashes' = crashes + 1 /\ crashes \in Nat
  BY DEF Crash, Turns, Inv, ShapesOK
<1>2. EntitiesOK'
  BY <1>1, IdleOK, TurnEntities DEF Story
<1>3. ProgressOK'
  BY <1>1 DEF Story, ProgressOK, Progress, At, Back, Reply, TicketId, HasTicket, Confirmed,
              Finished, TicketsOf
<1>4. SmoothOK'
  BY <1>1 DEF SmoothOK
<1>5. CountOK'
  <2> SUFFICES ASSUME NEW o \in Order PROVE Counted(o)'
    BY DEF CountOK
  <2>1. TicketsOf(o)' = TicketsOf(o)
    BY <1>1 DEF TicketsOf
  <2>2. Cardinality(TicketsOf(o)) <= 1 + crashes /\ Cardinality(TicketsOf(o)) \in Nat
    BY TicketsNumbered DEF Story, CountOK, Counted
  <2> QED
    BY <1>1, <2>1, <2>2 DEF Counted
<1>6. EventsOK'
  BY <1>1, EventsKept DEF Story
<1> QED
  BY <1>2, <1>3, <1>4, <1>5, <1>6 DEF Story

\* A save confirms, decides or makes what its saga is at, and undoes nothing.
LEMMA SaveStory ==
  ASSUME Inv, OnlySagas, Story, NEW w \in Worker \cup Caller, Save(w)
  PROVE  Story'
<1> DEFINE k == task[w]
           p == k.cmd.order
<1>1. /\ \A o \in Order : OrderMoves(w, o)
      /\ \A i \in DOMAIN tickets : TicketMoves(w, i)
      /\ DOMAIN tickets' = DOMAIN tickets \/ TicketsMade(w)
      /\ DOMAIN tickets \subseteq DOMAIN tickets'
  BY SaveMoves, SaveGrows DEF Story, Grows
<1>2. k.pc = "save" /\ Busy(w) /\ UNCHANGED <<events, saga, inbox, crashes>>
  BY SaveIs
<1>3. /\ task'[w].pc = "publish" /\ task'[w].cmd = k.cmd
      /\ \A v \in (Worker \cup Caller) \ {w} : task'[v] = task[v]
  <2>1. PICK m : Turns(w, m) /\ m.pc = "publish" /\ m.cmd = k.cmd
    BY SaveIs, MovedIs
  <2> QED
    BY <2>1, TurnsIs
<1>4. w \in Worker => /\ p \in Order /\ Reply(p) = "none"
                       /\ \A o \in Order : o = p => Past(o)'
  <2>1. w \in Worker => \A o \in Order : o = p => Past(o)'
    BY <1>3 DEF Past
  <2> QED
    BY <1>2, <2>1, WorkerIs
<1>5. ASSUME NEW o \in Order
      PROVE  /\ At(o)' = At(o) /\ Back(o)' = Back(o) /\ Reply(o)' = Reply(o)
             /\ TicketId(o)' = TicketId(o) /\ Finished(o)' = Finished(o)
             /\ HasTicket(o) => HasTicket(o)'
             /\ Confirmed(o) => Confirmed(o)'
             /\ Cooked(o) => Cooked(o)'
             /\ Past(o) => Past(o)'
  <2>1. /\ At(o)' = At(o) /\ Back(o)' = Back(o) /\ Reply(o)' = Reply(o)
        /\ TicketId(o)' = TicketId(o) /\ Finished(o)' = Finished(o)
    BY <1>2 DEF At, Back, Reply, TicketId, Finished
  <2>2. TicketsOf(o) \subseteq TicketsOf(o)'
    BY <1>1 DEF TicketsOf, TicketMoves
  <2>3. \A i \in TicketsOf(o) : tickets[i].state # "CREATE_PENDING"
                                  => tickets'[i].state # "CREATE_PENDING"
    BY <1>1 DEF TicketsOf, TicketMoves
  <2>4. Past(o) => Past(o)'
    BY <1>2, <1>3 DEF Past
  <2> QED
    BY <2>1, <2>2, <2>3, <2>4 DEF HasTicket, Confirmed, Cooked
<1>6. EntitiesOK'
  BY SaveEntities DEF Story
<1>7. ProgressOK'
  <2> SUFFICES ASSUME NEW o \in Order PROVE Progress(o)'
    BY DEF ProgressOK
  <2>1. Progress(o) /\ OrderMoves(w, o)
    BY <1>1 DEF Story, ProgressOK
  <2>2. orders'[o].state = "REJECTED" => Back(o)
    BY <2>1 DEF Progress, OrderMoves, Decided
  <2>3. Decided(orders'[o].state) => Confirmed(o)'
    BY <1>5, <2>1 DEF Progress, OrderMoves, Decided
  <2>4. Decided(orders[o].state) => Decided(orders'[o].state)
    BY <2>1 DEF OrderMoves, Decided
  <2>5. ~Back(o) /\ At(o) < 5 /\ ~Finished(o) => orders'[o].state = "APPROVAL_PENDING"
    BY <2>1 DEF Progress, OrderMoves, Decided
  <2> QED
    BY <1>5, <2>1, <2>2, <2>3, <2>4, <2>5 DEF Progress
<1>8. SmoothOK'
  <2> SUFFICES ASSUME crashes = 0, NEW o \in Order PROVE Smooth(o)'
    BY <1>2 DEF SmoothOK
  <2>1. Smooth(o) /\ OrderMoves(w, o)
    BY <1>1 DEF Story, SmoothOK
  <2>2. ASSUME Cooked(o)', ~Cooked(o)
        PROVE  At(o) = 4 /\ ~Back(o) /\ Reply(o) = "none" /\ Past(o)'
    <3>1. PICK i \in TicketsOf(o)' : tickets'[i].state # "CREATE_PENDING"
      BY <2>2 DEF Cooked
    <3>2. i \in DOMAIN tickets
      BY <1>1, <3>1 DEF TicketsMade, TicketsOf
    <3>3. i \in TicketsOf(o) /\ tickets[i].state = "CREATE_PENDING"
      BY <1>1, <2>2, <3>1, <3>2 DEF TicketsOf, TicketMoves, Cooked
    <3>4. w \in Worker /\ At(p) = 4 /\ i = TicketId(p)
      BY <1>1, <3>1, <3>2, <3>3 DEF TicketMoves
    <3>5. TicketId(p) # 0
      BY <3>2, <3>4, TicketsNumbered
    <3>6. HasTicket(p)
      BY <1>4, <3>4, <3>5 DEF Story, ProgressOK, Progress
    <3>7. p = o
      BY <3>3, <3>4, <3>6 DEF HasTicket, TicketsOf
    <3>8. ~Back(p)
      BY <1>2, <3>4, WorkerIs
    <3> QED
      BY <1>4, <3>4, <3>7, <3>8
  <2>3. orders[o].state = "APPROVAL_PENDING" =>
          orders'[o].state = "APPROVAL_PENDING" \/ Past(o)'
    BY <1>4, <2>1 DEF OrderMoves, Decided
  <2>4. \A v \in Worker : Busy(v)' /\ task'[v].cmd.order = o /\ task'[v].pc = "failed" =>
          Busy(v) /\ task[v].cmd.order = o /\ task[v].pc = "failed"
    BY <1>3 DEF Busy
  <2>5. Cooked(o)' => /\ ~Back(o)
                      /\ At(o) \in {4, 5} \/ Finished(o)
                      /\ At(o) = 4 => Reply(o) = "SUCCESS" \/ (Reply(o) = "none" /\ Past(o)')
    BY <1>5, <2>1, <2>2 DEF Smooth
  <2> QED
    BY <1>5, <2>1, <2>3, <2>4, <2>5 DEF Smooth
<1>9. CountOK'
  <2> SUFFICES ASSUME NEW o \in Order PROVE Counted(o)'
    BY DEF CountOK
  <2>1. Counted(o) /\ Cardinality(TicketsOf(o)) \in Nat /\ IsFiniteSet(TicketsOf(o))
        /\ crashes \in Nat
    BY TicketsNumbered DEF Story, CountOK, Inv, ShapesOK
  <2>2. Fresh(o)' => Fresh(o)
    BY <1>5 DEF Fresh
  <2>3. CASE TicketsOf(o)' = TicketsOf(o)
    BY <1>2, <2>1, <2>2, <2>3 DEF Counted
  <2>4. CASE TicketsOf(o)' # TicketsOf(o)
    <3>1. TicketsMade(w) /\ p = o /\ TicketsOf(o)' = TicketsOf(o) \cup {Len(tickets) + 1}
      BY <1>1, <2>4 DEF TicketsOf, TicketMoves, TicketsMade
    <3>2. w \in Worker /\ k.op = "create"
      BY <3>1 DEF TicketsMade
    <3>3. At(o) = 2 /\ ~Back(o) /\ Reply(o) = "none"
      BY <1>2, <3>1, <3>2, WorkerIs
    <3>4. ~Past(o)
      <4> SUFFICES ASSUME NEW v \in Worker, task[v].pc \in {"publish", "done"},
                          task[v].cmd.order = o
                   PROVE  FALSE
        BY DEF Past
      <4>1. v = w
        BY <1>2, <3>1, <3>2, SoleWorker DEF Busy
      <4> QED
        BY <1>2, <4>1
    <3>5. Fresh(o)
      BY <3>3, <3>4 DEF Fresh, Finished
    <3>6. Cardinality(TicketsOf(o)') <= Cardinality(TicketsOf(o)) + 1
          /\ Cardinality(TicketsOf(o)') \in Nat
      <4> DEFINE T == TicketsOf(o)
                 n == Len(tickets) + 1
      <4>1. IsFiniteSet(T) /\ TicketsOf(o)' = T \cup {n} /\ Cardinality(T) \in Nat
        BY <2>1, <3>1
      <4> HIDE DEF T, n
      <4>2. /\ Cardinality(T \cup {n}) = IF n \in T THEN Cardinality(T) ELSE Cardinality(T) + 1
        BY <4>1, FS_AddElement
      <4>3. Cardinality(T \cup {n}) <= Cardinality(T) + 1 /\ Cardinality(T \cup {n}) \in Nat
        BY <4>1, <4>2
      <4> QED
        BY <4>1, <4>3 DEF T
    <3>7. Past(o)' /\ ~Fresh(o)'
      BY <1>4, <1>5, <3>1, <3>2, <3>3 DEF Fresh
    <3> DEFINE c == Cardinality(TicketsOf(o))
               d == Cardinality(TicketsOf(o)')
    <3>8. c <= crashes /\ d <= c + 1 /\ c \in Nat /\ d \in Nat
      BY <2>1, <3>5, <3>6 DEF Counted
    <3>9. d <= 1 + crashes
      <4> HIDE DEF c, d
      <4> QED
        BY <2>1, <3>8
    <3> QED
      BY <1>2, <3>7, <3>9 DEF Counted
  <2> QED
    BY <2>3, <2>4
<1>10. EventsOK'
  <2> SUFFICES ASSUME NEW e \in events PROVE IsTrue(e)'
    BY <1>2 DEF EventsOK
  <2>1. IsTrue(e)
    BY DEF Story, EventsOK
  <2>2. \A o \in Order : /\ Decided(orders[o].state) => Decided(orders'[o].state)
                         /\ orders[o].state = "REJECTED" => orders'[o].state = "REJECTED"
    BY <1>1 DEF OrderMoves, Decided
  <2>3. \A i \in DOMAIN tickets : tickets[i].state # "CREATE_PENDING"
                                  => tickets'[i].state # "CREATE_PENDING"
    BY <1>1 DEF TicketMoves
  <2> QED
    BY <1>1, <2>1, <2>2, <2>3 DEF IsTrue
<1> QED
  BY <1>6, <1>7, <1>8, <1>9, <1>10 DEF Story

-----------------------------------------------------------------------------
(* Steps of the sagas *)

SameRow(n) ==
  /\ At(n)' = At(n) /\ Back(n)' = Back(n) /\ Reply(n)' = Reply(n)
  /\ TicketId(n)' = TicketId(n)
  /\ saga'["create"][n].begun = saga["create"][n].begun

\* Nothing of order n has moved.
LEMMA Apart ==
  ASSUME NEW n \in Order, SameRow(n), UNCHANGED <<orders, tickets, crashes>>,
         \A v \in Worker : \/ task'[v] = task[v]
                           \/ task'[v] = Idle /\ ~(Busy(v) /\ task[v].cmd.order = n),
         Progress(n), crashes = 0 => Smooth(n), Counted(n)
  PROVE  Progress(n)' /\ (crashes = 0 => Smooth(n)') /\ Counted(n)'
<1>1. /\ TicketsOf(n)' = TicketsOf(n) /\ HasTicket(n)' = HasTicket(n)
      /\ Confirmed(n)' = Confirmed(n) /\ Cooked(n)' = Cooked(n) /\ Finished(n)' = Finished(n)
  BY DEF SameRow, TicketsOf, HasTicket, Confirmed, Cooked, Finished
<1>2. Past(n) => Past(n)'
  BY DEF Past, Busy, Idle
<1>3. Progress(n)'
  BY <1>1 DEF Progress, SameRow
<1>4. crashes = 0 => Smooth(n)'
  <2>1. \A v \in Worker : Busy(v)' => task'[v] = task[v] /\ Busy(v)
    BY DEF Busy, Idle
  <2> QED
    BY <1>1, <1>2, <2>1 DEF Smooth, SameRow
<1>5. Counted(n)'
  BY <1>1, <1>2 DEF Counted, Fresh, SameRow
<1> QED
  BY <1>3, <1>4, <1>5

\* An answer to c that tells what became of the order and its ticket.
LEMMA AnsweredStory ==
  ASSUME Inv, Story, NEW c \in inbox, NEW outcome \in {"SUCCESS", "FAILURE"}, NEW id \in Nat,
         Answer(c, outcome, id), UNCHANGED <<orders, tickets, crashes>>,
         \A v \in Worker : \/ task'[v] = task[v] /\ (Busy(v) => task[v].cmd # c)
                           \/ task'[v] = Idle /\ Busy(v) /\ task[v].cmd = c,
         KeepsTicket(c, outcome) => id \in TicketsOf(c.order),
         outcome = "SUCCESS" /\ At(c.order) = 4 => Confirmed(c.order),
         outcome = "SUCCESS" /\ At(c.order) = 5 => Decided(orders[c.order].state),
         outcome = "FAILURE" /\ At(c.order) = 4 => ~Past(c.order),
         outcome = "FAILURE" /\ At(c.order) = 5 => crashes # 0
  PROVE  ProgressOK' /\ SmoothOK' /\ CountOK'
<1> DEFINE o == c.order
<1>1. /\ o \in Order /\ c = Cmd(o) /\ Elsewhere(o)
      /\ At(o)' = At(o) /\ Back(o)' = Back(o) /\ Reply(o)' = outcome
      /\ saga'["create"][o].begun = saga["create"][o].begun
      /\ TicketId(o)' = IF KeepsTicket(c, outcome) THEN id ELSE TicketId(o)
      /\ At(o) # -1 /\ Reply(o) = "none"
  BY Answered
<1>2. c.op = "create" <=> At(o) = 2 /\ ~Back(o)
  BY CommandIs
<1>3. KeepsTicket(c, outcome) <=> At(o) = 2 /\ ~Back(o) /\ outcome = "SUCCESS"
  BY <1>2 DEF KeepsTicket
<1>4. /\ KeepsTicket(c, outcome) => id \in TicketsOf(o)
      /\ outcome = "SUCCESS" /\ At(o) = 4 => Confirmed(o)
      /\ outcome = "SUCCESS" /\ At(o) = 5 => Decided(orders[o].state)
      /\ outcome = "FAILURE" /\ At(o) = 4 => ~Past(o)
      /\ outcome = "FAILURE" /\ At(o) = 5 => crashes # 0
  OBVIOUS
<1>5. \A v \in Worker : Busy(v)' =>
        task'[v] = task[v] /\ Busy(v) /\ task[v].cmd.order # o
  <2>1. \A v \in Worker : Busy(v) /\ task[v].cmd.order = o => task[v].cmd = c
    BY <1>1 DEF Inv, WorkersOK, InboxOK
  <2> QED
    BY <2>1 DEF Busy, Idle
<1> HIDE DEF o
<1>6. ASSUME NEW n \in Order, n # o
      PROVE  Progress(n)' /\ (crashes = 0 => Smooth(n)') /\ Counted(n)'
  <2>1. SameRow(n)
    BY <1>1, <1>6, OthersKept DEF SameRow
  <2>2. Progress(n) /\ (crashes = 0 => Smooth(n)) /\ Counted(n)
    BY DEF Story, ProgressOK, SmoothOK, CountOK
  <2>3. \A v \in Worker : \/ task'[v] = task[v]
                          \/ task'[v] = Idle /\ ~(Busy(v) /\ task[v].cmd.order = n)
    BY <1>6 DEF o
  <2> QED
    BY <2>1, <2>2, <2>3, Apart
<1>7. /\ TicketsOf(o)' = TicketsOf(o) /\ Cooked(o)' = Cooked(o) /\ Finished(o)' = Finished(o)
      /\ ~Finished(o)
      /\ KeepsTicket(c, outcome) => HasTicket(o)'
      /\ ~KeepsTicket(c, outcome) => /\ TicketId(o)' = TicketId(o)
                                     /\ HasTicket(o)' = HasTicket(o)
                                     /\ Confirmed(o)' = Confirmed(o)
  BY <1>1, <1>4 DEF TicketsOf, HasTicket, Confirmed, Cooked, Finished
<1>8. Progress(o) /\ (crashes = 0 => Smooth(o)) /\ Counted(o)
  BY <1>1 DEF Story, ProgressOK, SmoothOK, CountOK
<1>9. Progress(o)'
  <2>1. CASE KeepsTicket(c, outcome)
    <3>1. At(o) = 2 /\ ~Back(o)
      BY <1>3, <2>1
    <3>2. orders[o].state = "APPROVAL_PENDING"
      BY <1>7, <1>8, <3>1 DEF Progress
    <3> QED
      BY <1>1, <1>7, <2>1, <3>1, <3>2 DEF Progress, Decided
  <2>2. CASE ~KeepsTicket(c, outcome)
    <3>1. ~(At(o) = 2 /\ ~Back(o) /\ outcome = "SUCCESS")
      BY <1>3, <2>2
    <3> QED
      BY <1>1, <1>4, <1>7, <1>8, <2>2, <3>1 DEF Progress
  <2> QED
    BY <2>1, <2>2
<1>10. crashes = 0 => Smooth(o)'
  BY <1>1, <1>4, <1>5, <1>7, <1>8 DEF Smooth
<1>11. Counted(o)'
  <2>1. At(o) \in Int
    BY <1>1 DEF Inv, SagasOK
  <2>2. Fresh(o)' => Fresh(o)
    BY <1>1, <1>7, <2>1 DEF Fresh
  <2> QED
    BY <1>7, <1>8, <2>2 DEF Counted
<1> QED
  BY <1>6, <1>9, <1>10, <1>11 DEF ProgressOK, SmoothOK, CountOK

LEMMA OutsideStory ==
  ASSUME Inv, Story, NEW c \in inbox, ValidateOrder(c) \/ Account(c)
  PROVE  Story'
<1>1. /\ UNCHANGED <<orders, tickets, events, task, crashes>> /\ At(c.order) \in {1, 3}
      /\ c.op \in {"validateOrder", "authorize"}
  BY OutsideInv
<1>2. PICK outcome \in {"SUCCESS", "FAILURE"} : Answer(c, outcome, 0) /\ ~KeepsTicket(c, outcome)
  BY OutsideInv
<1>3. \A v \in Worker : Busy(v) => task[v].cmd # c
  <2> SUFFICES ASSUME NEW v \in Worker, Busy(v), task[v].cmd = c PROVE FALSE
    OBVIOUS
  <2>1. task[v].service \in {"order", "kitchen"}
        /\ (task[v].service = "kitchen" <=> At(c.order) \in {2, 4})
        /\ (task[v].service = "order" <=> At(c.order) \in {0, 5})
    BY WorkerIs
  <2> QED
    BY <1>1, <2>1
<1>4. ProgressOK' /\ SmoothOK' /\ CountOK'
  BY <1>1, <1>2, <1>3, AnsweredStory
<1>5. EntitiesOK'
  BY <1>1 DEF Story, EntitiesOK, EntityOK, OrderTaskOK, TicketTaskOK, OwnTicket, TicketsOf, Busy
<1>6. EventsOK'
  BY <1>1, EventsKept DEF Story
<1> QED
  BY <1>4, <1>5, <1>6 DEF Story

LEMMA ReturnStory ==
  ASSUME Inv, Story, NEW w \in Worker \cup Caller, Return(w)
  PROVE  Story'
<1> DEFINE k == task[w]
           outcome == IF k.pc = "done" THEN "SUCCESS" ELSE "FAILURE"
           o == k.cmd.order
<1>1. /\ Turns(w, Idle) /\ UNCHANGED <<orders, tickets, crashes>>
      /\ k.pc \in {"done", "failed"} /\ Busy(w)
      /\ (w \in Caller => UNCHANGED <<saga, inbox>>)
  BY ReturnIs
<1>2. UNCHANGED events
  BY DEF Return
<1>3. EntitiesOK'
  BY <1>1, IdleOK, TurnEntities DEF Story
<1>4. EventsOK'
  BY <1>1, <1>2, EventsKept DEF Story
<1>5. ProgressOK' /\ SmoothOK' /\ CountOK'
  <2>1. CASE w \in Caller
    <3>1. w \notin Worker
      BY <2>1, FtgoAssumption
    <3> QED
      BY <1>1, <2>1, <3>1, TurnStory DEF Story
  <2>2. CASE w \in Worker
    <3>1. /\ Answer(k.cmd, outcome, k.id) /\ k.cmd \in inbox /\ k.id \in Nat
          /\ KeepsTicket(k.cmd, outcome) => k.op = "create" /\ k.pc = "done"
      BY <2>2, ReturnIs
    <3>2. /\ o \in Order
          /\ IF Back(o) THEN At(o) \in {0, 2} ELSE At(o) \in 1 .. 5
          /\ k.service \in {"order", "kitchen"}
          /\ k.op = "confirmCreate" <=> At(o) = 4
          /\ k.op = "approve" <=> At(o) = 5
          /\ k.service = "kitchen" <=> At(o) \in {2, 4}
          /\ k.service = "kitchen" /\ k.op # "create" => k.id = TicketId(o)
          /\ k.service = "order" => k.id = o
      BY <1>1, <2>2, WorkerIs
    <3>3. EntityOK(k) /\ OwnTicket(k) /\ Progress(o) /\ (crashes = 0 => Smooth(o))
      BY <1>1, <2>2, <3>2 DEF Story, EntitiesOK, ProgressOK, SmoothOK
    <3>4. KeepsTicket(k.cmd, outcome) => k.id \in TicketsOf(o)
      BY <3>1, <3>3 DEF OwnTicket
    <3>5. outcome = "SUCCESS" /\ At(o) = 4 => Confirmed(o)
      <4> SUFFICES ASSUME k.pc = "done", At(o) = 4 PROVE Confirmed(o)
        BY <1>1
      <4>1. HasTicket(o)
        BY <3>2, <3>3 DEF Progress
      <4>2. k.service = "kitchen" /\ k.op = "confirmCreate" /\ k.id = TicketId(o)
        BY <3>2
      <4>3. tickets[k.id].state # "CREATE_PENDING"
        BY <3>3, <4>2 DEF EntityOK, TicketTaskOK
      <4> QED
        BY <4>1, <4>2, <4>3 DEF Confirmed
    <3>6. outcome = "SUCCESS" /\ At(o) = 5 => Decided(orders[o].state)
      <4> SUFFICES ASSUME k.pc = "done", At(o) = 5 PROVE Decided(orders[o].state)
        BY <1>1
      <4>1. k.service = "order" /\ k.op = "approve" /\ k.id = o
        BY <3>2
      <4> QED
        BY <3>3, <4>1 DEF EntityOK, OrderTaskOK
    <3>7. outcome = "FAILURE" /\ At(o) = 4 => ~Past(o)
      <4> SUFFICES ASSUME k.pc = "failed",
                          NEW v \in Worker, task[v].pc \in {"publish", "done"},
                          task[v].cmd.order = o
                   PROVE  FALSE
        BY <1>1 DEF Past
      <4>1. v = w
        BY <1>1, <2>2, SoleWorker DEF Busy
      <4> QED
        BY <4>1
    <3>8. outcome = "FAILURE" /\ At(o) = 5 => crashes # 0
      BY <1>1, <2>2, <3>2, <3>3 DEF Smooth
    <3>9. \A v \in Worker : \/ task'[v] = task[v] /\ (Busy(v) => task[v].cmd # k.cmd)
                            \/ task'[v] = Idle /\ Busy(v) /\ task[v].cmd = k.cmd
      <4>1. task'[w] = Idle /\ \A v \in (Worker \cup Caller) \ {w} : task'[v] = task[v]
        BY <1>1, TurnsIs
      <4>2. \A v, x \in Worker : Busy(v) /\ Busy(x) /\ task[v].cmd = task[x].cmd => v = x
        BY DEF Inv, WorkersOK
      <4> QED
        BY <1>1, <2>2, <4>1, <4>2
    <3>10. outcome \in {"SUCCESS", "FAILURE"}
      OBVIOUS
    <3> HIDE DEF k, outcome
    <3> QED
      BY <1>1, <3>1, <3>4, <3>5, <3>6, <3>7, <3>8, <3>9, <3>10, AnsweredStory
  <2> QED
    BY <2>1, <2>2
<1> QED
  BY <1>3, <1>4, <1>5 DEF Story

\* A saga knows of its next step what the last one has done.
LEMMA ProceedStory ==
  ASSUME Inv, Story, NEW o \in Order, NEW st \in State,
         st.compensating => st.currentlyExecuting # -1,
         Proceed("create", o, st, TicketId(o)),
         \A c \in inbox : c.order # o,
         \/ ~saga["create"][o].begun /\ st = NoSaga.st
         \/ /\ Reply(o) # "none" /\ At(o) # -1
            /\ st.currentlyExecuting = At(o)
            /\ st.compensating = (Back(o) \/ Reply(o) = "FAILURE"),
         UNCHANGED <<orders, tickets, events, task, crashes>>
  PROVE  Story'
<1>1. /\ Elsewhere(o)
      /\ At(o)' = NextStep(st) /\ Back(o)' = st.compensating /\ Reply(o)' = "none"
      /\ TicketId(o)' = TicketId(o) /\ saga'["create"][o].begun
  BY Proceeded
<1>2. ~Past(o) /\ \A w \in Worker : Busy(w) => task[w].cmd.order # o
  BY NoWorker
<1>3. ASSUME NEW n \in Order, n # o
      PROVE  Progress(n)' /\ (crashes = 0 => Smooth(n)') /\ Counted(n)'
  <2>1. SameRow(n)
    BY <1>1, <1>3, OthersKept DEF SameRow
  <2>2. Progress(n) /\ (crashes = 0 => Smooth(n)) /\ Counted(n)
    BY DEF Story, ProgressOK, SmoothOK, CountOK
  <2> QED
    BY <2>1, <2>2, Apart
<1>4. /\ TicketsOf(o)' = TicketsOf(o) /\ Cooked(o)' = Cooked(o)
      /\ HasTicket(o)' = HasTicket(o) /\ Confirmed(o)' = Confirmed(o)
  BY <1>1 DEF TicketsOf, HasTicket, Confirmed, Cooked
<1>5. Progress(o) /\ (crashes = 0 => Smooth(o)) /\ Counted(o)
  BY DEF Story, ProgressOK, SmoothOK, CountOK
<1>6. Progress(o)' /\ (crashes = 0 => Smooth(o)') /\ Counted(o)'
  <2>1. ASSUME ~saga["create"][o].begun, st = NoSaga.st
        PROVE  Progress(o)' /\ (crashes = 0 => Smooth(o)') /\ Counted(o)'
    <3>1. At(o) = -1 /\ ~Back(o) /\ ~Finished(o)
      BY <2>1 DEF Inv, SagasOK, Finished
    <3>2. At(o)' = 1 /\ ~Back(o)'
      BY <1>1, <2>1 DEF NoSaga, D!InitialState, D!NoStep, NextStep
    <3>3. ~Finished(o)' /\ Fresh(o)
      BY <3>1, <3>2 DEF Finished, Fresh
    <3>4. Progress(o)'
      BY <1>1, <1>4, <1>5, <3>1, <3>2, <3>3 DEF Progress, Decided
    <3>5. crashes = 0 => Smooth(o)'
      BY <1>1, <1>4, <1>5, <3>1, <3>2 DEF Smooth
    <3>6. Counted(o)'
      BY <1>4, <1>5, <3>3 DEF Counted
    <3> QED
      BY <3>4, <3>5, <3>6
  <2>2. ASSUME Reply(o) # "none", At(o) # -1, st.currentlyExecuting = At(o),
               st.compensating = (Back(o) \/ Reply(o) = "FAILURE")
        PROVE  Progress(o)' /\ (crashes = 0 => Smooth(o)') /\ Counted(o)'
    <3>1. Reply(o) \in {"SUCCESS", "FAILURE"} /\ Back(o) \in BOOLEAN
      <4>1. saga["create"][o] \in SagaRow
        BY DEF Inv, ShapesOK, SagaType
      <4> QED
        BY <2>2, <4>1 DEF SagaRow, State, Reply, Back
    <3>2. At(o) \in IF Back(o) THEN {0, 2} ELSE 1 .. 5
      BY <2>2 DEF Inv, SagasOK
    <3>3. ~Finished(o)
      BY <2>2 DEF Finished
    <3>4. CASE Back(o) \/ Reply(o) = "FAILURE"
      <4>1. Back(o)'
        BY <1>1, <2>2, <3>4
      <4>2. Progress(o)'
        BY <1>1, <1>4, <1>5, <4>1 DEF Progress, Finished
      <4>3. crashes = 0 => ~Cooked(o)
        BY <1>5, <2>2, <3>3, <3>4 DEF Smooth
      <4>4. crashes = 0 => Smooth(o)'
        BY <1>4, <4>1, <4>3 DEF Smooth
      <4>5. Counted(o)'
        BY <1>4, <1>5, <4>1 DEF Counted, Fresh
      <4> QED
        BY <4>2, <4>4, <4>5
    <3>5. CASE ~Back(o) /\ Reply(o) = "SUCCESS"
      <4>1. ~Back(o)' /\ At(o) \in 1 .. 5
        BY <1>1, <2>2, <3>2, <3>5
      <4>2. At(o)' = IF At(o) < 5 THEN At(o) + 1 ELSE -1
        BY <1>1, <2>2, <3>5, <4>1 DEF NextStep
      <4>3. Finished(o)' <=> At(o) = 5
        BY <1>1, <4>1, <4>2 DEF Finished
      <4>4. Progress(o)'
        <5>1. Confirmed(o) => HasTicket(o)
          BY DEF Confirmed
        <5>2. At(o)' \in 3 .. 5 => HasTicket(o)
          BY <1>5, <3>5, <4>1, <4>2 DEF Progress
        <5>3. At(o)' = 5 => Confirmed(o)
          BY <1>5, <3>5, <4>1, <4>2 DEF Progress
        <5>4. At(o) < 5 => orders[o].state = "APPROVAL_PENDING"
          BY <1>5, <3>3, <3>5 DEF Progress
        <5>5. At(o) = 5 => Decided(orders[o].state)
          BY <1>5, <3>5 DEF Progress
        <5>6. orders[o].state # "REJECTED"
          BY <1>5, <3>5 DEF Progress
        <5>7. /\ TicketId(o) # 0 => HasTicket(o)
              /\ Decided(orders[o].state) => Confirmed(o)
          BY <1>5 DEF Progress
        <5>8. At(o)' < 5 /\ ~Finished(o)' => At(o) < 5
          BY <4>1, <4>2, <4>3
        <5> QED
          BY <1>1, <1>4, <4>1, <4>3, <5>2, <5>3, <5>4, <5>5, <5>6, <5>7, <5>8 DEF Progress
      <4>5. crashes = 0 => Smooth(o)'
        <5> SUFFICES ASSUME crashes = 0 PROVE Smooth(o)'
          OBVIOUS
        <5>1. Cooked(o) => At(o) \in {4, 5}
          BY <1>5, <3>3 DEF Smooth
        <5>2. At(o) = 4 => Cooked(o) /\ orders[o].state = "APPROVAL_PENDING"
          <6>1. At(o) = 4 => Confirmed(o) /\ orders[o].state = "APPROVAL_PENDING"
            BY <1>5, <3>3, <3>5 DEF Progress
          <6> QED
            BY <6>1 DEF Confirmed, HasTicket, Cooked
        <5>3. At(o)' = 5 => At(o) = 4
          BY <4>1, <4>2
        <5>4. Cooked(o) => At(o)' = 5 \/ Finished(o)'
          BY <4>2, <4>3, <5>1
        <5>5. ~(At(o)' = 4 /\ Cooked(o))
          BY <4>1, <4>2, <5>1
        <5>6. \A w \in Worker : Busy(w)' => task'[w].cmd.order # o
          BY <1>2 DEF Busy
        <5> QED
          BY <1>1, <1>4, <4>1, <5>2, <5>3, <5>4, <5>5, <5>6 DEF Smooth
      <4>6. Counted(o)'
        <5>1. Fresh(o)' => Fresh(o)
          BY <3>3, <3>5, <4>1, <4>2, <4>3 DEF Fresh
        <5> QED
          BY <1>4, <1>5, <5>1 DEF Counted
      <4> QED
        BY <4>4, <4>5, <4>6
    <3> QED
      BY <3>1, <3>4, <3>5
  <2> QED
    BY <2>1, <2>2
<1>7. EntitiesOK'
  BY DEF Story, EntitiesOK, EntityOK, OrderTaskOK, TicketTaskOK, OwnTicket, TicketsOf, Busy
<1>8. EventsOK'
  BY EventsKept DEF Story
<1>9. ProgressOK' /\ SmoothOK' /\ CountOK'
  BY <1>3, <1>6 DEF ProgressOK, SmoothOK, CountOK
<1> QED
  BY <1>7, <1>8, <1>9 DEF Story

LEMMA SagaStepStory ==
  ASSUME Inv, Story, NEW t \in SagaType, NEW o \in Order, StartSaga(t, o) \/ HandleReply(t, o)
  PROVE  Story'
<1>1. UNCHANGED <<orders, tickets, events, task, crashes>>
  BY DEF StartSaga, HandleReply
<1>2. CASE StartSaga(t, o)
  <2>1. CASE t = "create"
    <3>1. /\ ~saga["create"][o].begun /\ NoSaga.st \in State
          /\ Proceed("create", o, NoSaga.st, TicketId(o)) /\ \A c \in inbox : c.order # o
      BY <1>2, <2>1, StartIs
    <3>2. ~NoSaga.st.compensating
      BY DEF NoSaga, D!InitialState
    <3> QED
      BY <1>1, <3>1, <3>2, ProceedStory
  <2>2. CASE t # "create"
    <3>1. saga' = [saga EXCEPT ![t][o].begun = TRUE]
      BY <1>2, <2>2, StartIs
    <3>2. saga'["create"] = saga["create"]
      BY <2>2, <3>1 DEF Inv, ShapesOK, SagaType
    <3>3. ASSUME NEW n \in Order
          PROVE  Progress(n)' /\ (crashes = 0 => Smooth(n)') /\ Counted(n)'
      <4>1. SameRow(n)
        BY <3>2 DEF SameRow, At, Back, Reply, TicketId
      <4>2. Progress(n) /\ (crashes = 0 => Smooth(n)) /\ Counted(n)
        BY DEF Story, ProgressOK, SmoothOK, CountOK
      <4> QED
        BY <1>1, <4>1, <4>2, Apart
    <3>4. EntitiesOK'
      BY <1>1 DEF Story, EntitiesOK, EntityOK, OrderTaskOK, TicketTaskOK, OwnTicket,
                  TicketsOf, Busy
    <3>5. EventsOK'
      BY <1>1, EventsKept DEF Story
    <3> QED
      BY <1>1, <3>3, <3>4, <3>5 DEF Story, ProgressOK, SmoothOK, CountOK
  <2> QED
    BY <2>1, <2>2
<1>3. CASE HandleReply(t, o)
  <2> DEFINE st == D("create")!AfterReply(saga["create"][o].st, Reply(o))
  <2>1. /\ Reply(o) # "none" /\ At(o) # -1
        /\ st \in State /\ st.currentlyExecuting = At(o)
        /\ st.compensating = (Back(o) \/ Reply(o) = "FAILURE")
        /\ Proceed("create", o, st, TicketId(o))
        /\ \A c \in inbox : c.order # o
    BY <1>3, ReplyIs
  <2> HIDE DEF st
  <2> QED
    BY <1>1, <2>1, ProceedStory
<1> QED
  BY <1>2, <1>3

LEMMA InitStory == Init => Story
<1> SUFFICES ASSUME Init PROVE Story
  OBVIOUS
<1>1. NoSaga.st = [currentlyExecuting |-> -1, compensating |-> FALSE]
      /\ ~NoSaga.begun /\ NoSaga.reply = "none" /\ NoSaga.ticketId = 0
  BY DEF NoSaga, D!InitialState, D!NoStep, NoTicket
<1>2. \A o \in Order : saga["create"][o] = NoSaga
  BY DEF Init, SagaType
<1>3. \A o \in Order :
        /\ At(o) = -1 /\ ~Back(o) /\ Reply(o) = "none" /\ TicketId(o) = 0 /\ ~Finished(o)
        /\ orders[o].state = "APPROVAL_PENDING" /\ TicketsOf(o) = {}
  BY <1>1, <1>2 DEF At, Back, Reply, TicketId, Finished, TicketsOf, Init
<1>4. EntitiesOK
  BY DEF Init, EntitiesOK, Busy, Idle
<1>5. ProgressOK
  BY <1>3 DEF ProgressOK, Progress, Decided
<1>6. SmoothOK
  BY <1>3 DEF SmoothOK, Smooth, Cooked
<1>7. CountOK
  BY <1>3, FS_EmptySet DEF CountOK, Counted, Init
<1>8. EventsOK
  BY DEF Init, EventsOK
<1> QED
  BY <1>4, <1>5, <1>6, <1>7, <1>8 DEF Story

LEMMA NextStory == Inv /\ OnlySagas /\ Story /\ [Next]_vars => Story'
<1> SUFFICES ASSUME Inv, OnlySagas, Story, [Next]_vars PROVE Story'
  OBVIOUS
<1>1. CASE \E t \in SagaType, o \in Order : StartSaga(t, o) \/ HandleReply(t, o)
  BY <1>1, SagaStepStory
<1>2. CASE \E c \in inbox : ValidateOrder(c) \/ Account(c)
  BY <1>2, OutsideStory
<1>3. CASE \E w \in Worker, c \in inbox : Receive(w, c)
  BY <1>3, ReceiveStory
<1>4. CASE \E k \in Caller, op \in CalledOps : Call(k, op)
  BY <1>4, CallStory
<1>5. CASE \E w \in Worker \cup Caller : Serve(w) \/ Crash(w)
  BY <1>5, SaveStory, PublishStory, ReturnStory, CrashStory DEF Serve
<1>6. CASE UNCHANGED vars
  <2>1. ASSUME NEW n \in Order
        PROVE  Progress(n)' /\ (crashes = 0 => Smooth(n)') /\ Counted(n)'
    <3>1. SameRow(n)
      BY <1>6 DEF vars, SameRow, At, Back, Reply, TicketId
    <3>2. Progress(n) /\ (crashes = 0 => Smooth(n)) /\ Counted(n)
      BY DEF Story, ProgressOK, SmoothOK, CountOK
    <3> QED
      BY <1>6, <3>1, <3>2, Apart DEF vars
  <2>2. EntitiesOK'
    BY <1>6 DEF vars, Story, EntitiesOK, EntityOK, OrderTaskOK, TicketTaskOK, OwnTicket,
                TicketsOf, Busy
  <2>3. EventsOK'
    BY <1>6, EventsKept DEF vars, Story
  <2> QED
    BY <1>6, <2>1, <2>2, <2>3 DEF vars, Story, ProgressOK, SmoothOK, CountOK
<1> QED
  BY <1>1, <1>2, <1>3, <1>4, <1>5, <1>6 DEF Next

\* When the steps of the create saga are its own, the order and its ticket are
\* where the saga has brought them, whatever is lost and delivered again.
THEOREM StoryHolds == OnlySagas => (Spec => []Story)
<1> SUFFICES ASSUME OnlySagas PROVE Spec => []Story
  OBVIOUS
<1>1. Init => Inv /\ Story
  BY InitInv, InitStory
<1>2. (Inv /\ Story) /\ [Next]_vars => (Inv /\ Story)'
  BY NextInv, NextStory
<1> QED
  BY <1>1, <1>2, PTL DEF Spec

\* However many orders, workers and crashes: an order that is approved, or was,
\* has a ticket of its own that confirmCreate has passed to the restaurant.
THEOREM ApprovedHasTicket == OnlySagas => (Spec => []ApprovedOrderHasTicket)
<1> SUFFICES ASSUME OnlySagas PROVE Spec => []ApprovedOrderHasTicket
  OBVIOUS
<1>1. Story => ApprovedOrderHasTicket
  BY DEF Story, ProgressOK, Progress, Confirmed, HasTicket, TicketId, Decided,
         ApprovedOrderHasTicket
<1> QED
  BY <1>1, StoryHolds, PTL

\* Until something crashes the saga does not fail once its ticket is confirmed,
\* so the tickets of a rejected order were never passed to the restaurant.
THEOREM RejectedNotCooked == OnlySagas => (Spec => []RejectedOrderIsNotCooked)
<1> SUFFICES ASSUME OnlySagas PROVE Spec => []RejectedOrderIsNotCooked
  OBVIOUS
<1>1. Story => RejectedOrderIsNotCooked
  <2> SUFFICES ASSUME Story, NEW o \in Order, orders[o].state = "REJECTED", crashes = 0
               PROVE  ~Cooked(o)
    BY DEF RejectedOrderIsNotCooked, Cooked
  <2>1. Back(o)
    BY DEF Story, ProgressOK, Progress
  <2> QED
    BY <2>1 DEF Story, SmoothOK, Smooth
<1> QED
  BY <1>1, StoryHolds, PTL

\* The saga's one create command makes one ticket, and one more for each crash
\* that has it delivered again.
THEOREM OneTicketPerDelivery == OnlySagas => (Spec => []TicketsPerDelivery)
<1> SUFFICES ASSUME OnlySagas PROVE Spec => []TicketsPerDelivery
  OBVIOUS
<1>1. Story => TicketsPerDelivery
  BY DEF Story, CountOK, Counted, TicketsPerDelivery
<1> QED
  BY <1>1, StoryHolds, PTL

\* What OrderAuthorized, OrderRejected and TicketCreated tell has been saved, and
\* no later save, of whoever loaded the row before, takes it back.
THEOREM AnnouncedIsTrue == OnlySagas => (Spec => []EventsAreTrue)
<1> SUFFICES ASSUME OnlySagas PROVE Spec => []EventsAreTrue
  OBVIOUS
<1>1. Story => EventsAreTrue
  <2> SUFFICES ASSUME Story PROVE EventsAreTrue
    OBVIOUS
  <2>1. \A e \in events : IsTrue(e)
    BY DEF Story, EventsOK
  <2>2. \A type, id : Announced(type, id) =>
          \E e \in events : e.type = type /\ e.id = id
    BY DEF Announced
  <2>3. ASSUME NEW o \in Order
        PROVE  /\ Announced("OrderAuthorized", o) => Decided(orders[o].state)
               /\ Announced("OrderRejected", o) => orders[o].state = "REJECTED"
    BY <2>1, <2>2 DEF IsTrue
  <2>4. ASSUME NEW i \in DOMAIN tickets, Announced("TicketCreated", i)
        PROVE  tickets[i].state # "CREATE_PENDING"
    BY <2>1, <2>2, <2>4 DEF IsTrue
  <2> QED
    BY <2>3, <2>4 DEF EventsAreTrue, Decided
<1> QED
  BY <1>1, StoryHolds, PTL

-----------------------------------------------------------------------------
(* Tickets move forward *)

\* Restaurants accept tickets; nobody calls anything else.
OnlyAccepts == CalledOps \subseteq {"accept"}

\* A ticket to be accepted is saved as accepted.
AcceptsOK ==
  \A w \in Worker \cup Caller :
    task[w].pc = "save" /\ task[w].op = "accept" => task[w].copy.state = "ACCEPTED"

LEMMA AcceptsKept ==
  ASSUME Inv, AcceptsOK, [Next]_vars
  PROVE  AcceptsOK'
<1>1. ASSUME NEW w \in Worker \cup Caller, NEW k, Turns(w, k),
             k.pc = "save" /\ k.op = "accept" => k.copy.state = "ACCEPTED"
      PROVE  AcceptsOK'
  <2>1. task'[w] = k /\ \A v \in (Worker \cup Caller) \ {w} : task'[v] = task[v]
    BY <1>1, TurnsIs
  <2> QED
    BY <1>1, <2>1 DEF AcceptsOK
<1>2. CASE UNCHANGED task
  BY <1>2 DEF AcceptsOK
<1>3. ASSUME NEW w \in Worker, NEW c \in inbox, Receive(w, c) PROVE AcceptsOK'
  <2>1. PICK k : /\ Turns(w, k) /\ k.op = c.op
                 /\ c.op \in TicketHandlers \/ c.op \in {"approve", "reject"}
    BY <1>3, ReceiveIs
  <2>2. k.op # "accept"
    BY <2>1 DEF TicketHandlers
  <2> QED
    BY <1>1, <2>1, <2>2
<1>4. ASSUME NEW k \in Caller, NEW op \in CalledOps, Call(k, op) PROVE AcceptsOK'
  <2>1. PICK t :
          /\ Turns(k, t) /\ t.op = op
          /\ \E id \in Order :
               \/ op \in TicketHandlers \cup {"accept"} /\ t = TicketTask(NoCommand, op, id)
               \/ op \in DOMAIN OrderFrom
    BY <1>4, CallIs
  <2>2. ASSUME t.pc = "save", op = "accept" PROVE t.copy.state = "ACCEPTED"
    <3>1. op \notin DOMAIN OrderFrom
      BY <2>2 DEF OrderFrom
    <3>2. PICK id : t = TicketTask(NoCommand, "accept", id)
      BY <2>1, <2>2, <3>1
    <3>3. t.copy = TicketAfter("accept", tickets[id])
      BY <2>2, <3>2, TicketTaskIs
    <3> QED
      BY <3>3 DEF TicketAfter, TicketTo, Restoring
  <2> QED
    BY <1>1, <2>1, <2>2
<1>5. ASSUME NEW w \in Worker \cup Caller, Serve(w) \/ Crash(w) PROVE AcceptsOK'
  <2>1. \E k : Turns(w, k) /\ k.pc # "save"
    <3>1. \A k, id, pc : Moved(k, id, pc).pc = pc
      BY MovedIs
    <3>2. Idle.pc # "save"
      BY DEF Idle
    <3> QED
      BY <1>5, <3>1, <3>2 DEF Serve, Save, Publish, Return, Crash, Turns
  <2> QED
    BY <1>1, <2>1
<1>6. CASE \E t \in SagaType, o \in Order : StartSaga(t, o) \/ HandleReply(t, o)
  BY <1>2, <1>6 DEF StartSaga, HandleReply
<1>7. CASE \E c \in inbox : ValidateOrder(c) \/ Account(c)
  BY <1>2, <1>7 DEF ValidateOrder, Account
<1>8. CASE UNCHANGED vars
  BY <1>2, <1>8 DEF vars
<1> QED
  BY <1>3, <1>4, <1>5, <1>6, <1>7, <1>8 DEF Next

LEMMA RankIs ==
  /\ \A s : Rank(s) \in 0 .. 2
  /\ Rank("CREATE_PENDING") = 0 /\ Rank("AWAITING_ACCEPTANCE") = 1
  /\ Rank("ACCEPTED") = 2
BY DEF Rank

\* Until something crashes, no save puts a ticket back: a cancelCreate is of a
\* saga that has not had its ticket confirmed.
LEMMA SaveForward ==
  ASSUME Inv, OnlyAccepts, Story, AcceptsOK, crashes = 0,
         NEW w \in Worker \cup Caller, Save(w), NEW i \in DOMAIN tickets
  PROVE  Rank(tickets'[i].state) >= Rank(tickets[i].state)
<1> DEFINE k == task[w]
<1>1. k.pc = "save" /\ Busy(w) /\ EntityOK(k)
  BY SaveIs DEF Story, EntitiesOK
<1>2. tickets \in Seq(Ticket)
  BY DEF Inv, ShapesOK
<1>3. CASE UNCHANGED tickets
  BY <1>3, RankIs
<1>4. CASE tickets' = Append(tickets, k.copy)
  <2>1. tickets'[i] = tickets[i]
    <3> HIDE DEF k
    <3> QED
      BY <1>2, <1>4
  <2> QED
    BY <2>1, RankIs
<1>5. CASE /\ k.service = "kitchen" /\ k.op \in (TicketHandlers \cup {"accept"}) \ {"create"}
           /\ k.id \in DOMAIN tickets
           /\ tickets' = [tickets EXCEPT ![k.id] = k.copy]
  <2>1. tickets'[i] = IF i = k.id THEN k.copy ELSE tickets[i]
    BY <1>2, <1>5
  <2>2. TicketTaskOK(k)
    BY <1>1, <1>5 DEF EntityOK
  <2>3. Rank(k.copy.state) >= Rank(tickets[k.id].state)
    <3>1. CASE k.op = "accept"
      <4>1. k.copy.state = "ACCEPTED"
        BY <1>1, <3>1 DEF AcceptsOK
      <4> QED
        BY <4>1, RankIs
    <3>2. CASE k.op # "accept"
      <4>1. w \in Worker
        <5>1. w \in Caller => k.op \in CalledOps
          BY <1>1 DEF Inv, WorkersOK
        <5> QED
          BY <3>2, <5>1 DEF OnlyAccepts
      <4>2. /\ k.cmd \in inbox /\ k.service = k.cmd.service /\ k.op = k.cmd.op
            /\ k.id = k.cmd.id
        BY <1>1, <1>5, <4>1 DEF Inv, WorkersOK
      <4> DEFINE o == k.cmd.order
      <4>3. /\ o \in Order /\ k.id = TicketId(o)
            /\ At(o) \in {2, 4}
            /\ k.op = "create" <=> At(o) = 2 /\ ~Back(o)
            /\ k.op = "cancelCreate" <=> At(o) = 2 /\ Back(o)
            /\ k.op = "confirmCreate" <=> At(o) = 4
        BY <1>5, <4>2, CommandIs
      <4>4. CASE k.op = "confirmCreate"
        <5>1. tickets[k.id].state = "CREATE_PENDING"
          BY <1>1, <2>2, <4>4 DEF TicketTaskOK
        <5> QED
          BY <5>1, RankIs
      <4>5. CASE k.op = "cancelCreate"
        <5>1. Back(o)
          BY <4>3, <4>5
        <5>2. k.id \in TicketsOf(o)
          <6>1. k.id # 0
            BY <1>2, <1>5
          <6>2. Progress(o)
            BY <4>3 DEF Story, ProgressOK
          <6> HIDE DEF k, o
          <6> QED
            BY <4>3, <6>1, <6>2 DEF Progress, HasTicket
        <5>3. ~Cooked(o)
          BY <4>3, <5>1 DEF Story, SmoothOK, Smooth
        <5>4. tickets[k.id].state = "CREATE_PENDING"
          BY <5>2, <5>3 DEF Cooked
        <5> QED
          BY <5>4, RankIs
      <4>6. k.op \in {"confirmCreate", "cancelCreate"}
        BY <1>5, <4>3
      <4> QED
        BY <4>4, <4>5, <4>6
    <3> QED
      BY <3>1, <3>2
  <2> QED
    BY <2>1, <2>3, RankIs
<1> QED
  BY <1>3, <1>4, <1>5, SaveIs

\* With restaurants that accept and nothing that crashes, no ticket goes back to a
\* state it has left, however many workers have loaded it before, for any number
\* of orders and create sagas.
THEOREM NoTicketGoesBack == OnlyAccepts => (Spec => TicketsMoveForward)
<1> SUFFICES ASSUME OnlyAccepts PROVE Spec => TicketsMoveForward
  OBVIOUS
<1> DEFINE Forward ==
      crashes = 0 =>
        \A i \in DOMAIN tickets : Rank(tickets'[i].state) >= Rank(tickets[i].state)
<1>1. OnlySagas
  BY DEF OnlySagas, OnlyAccepts, SagaOps
<1>2. Init => Inv /\ Story /\ AcceptsOK
  <2>1. Init => AcceptsOK
    BY DEF Init, AcceptsOK, Idle
  <2> QED
    BY <2>1, InitInv, InitStory
<1>3. (Inv /\ Story /\ AcceptsOK) /\ [Next]_vars => (Inv /\ Story /\ AcceptsOK)'
  BY <1>1, NextInv, NextStory, AcceptsKept
<1>4. (Inv /\ Story /\ AcceptsOK) /\ [Next]_vars => [Forward]_vars
  <2> SUFFICES ASSUME Inv, Story, AcceptsOK, Next, crashes = 0, NEW i \in DOMAIN tickets
               PROVE  Rank(tickets'[i].state) >= Rank(tickets[i].state)
    OBVIOUS
  <2>1. UNCHANGED tickets \/ \E w \in Worker \cup Caller : Save(w)
    BY DEF Next, StartSaga, HandleReply, ValidateOrder, Account, Receive, Call, Serve,
           Publish, Return, Crash
  <2>2. CASE UNCHANGED tickets
    BY <2>2, RankIs
  <2> QED
    BY <2>1, <2>2, SaveForward
<1> QED
  BY <1>2, <1>3, <1>4, PTL DEF Spec, TicketsMoveForward

-----------------------------------------------------------------------------
(* One request at a time *)

\* The services are called directly, each call after the other; no create saga.
OneCaller == (\E k : Caller = {k}) /\ "create" \notin Started

Quantities == [DOMAIN Ordered -> Int]

\* A ticket that was accepted, whatever it is suspended for.
Taken(t) ==
  /\ t.state \notin {"CREATE_PENDING", "AWAITING_ACCEPTANCE"}
  /\ t.state \in {"CANCEL_PENDING", "REVISION_PENDING"} =>
       t.previousState # "AWAITING_ACCEPTANCE"

\* What a call saves, it has made from the row as it is.
UpToDate(k) ==
  IF k.service = "order"
  THEN /\ k.copy.items \in Quantities
       /\ \/ k.copy.items = orders[k.id].items
          \/ k.op = "confirmRevision" /\ k.told = Total(k.copy.items)
  ELSE k.op # "create" => /\ tickets[k.id].state \in TicketFrom[k.op]
                          /\ k.copy = TicketAfter(k.op, tickets[k.id])

CallsOK ==
  /\ \A o \in Order : ~saga["create"][o].begun /\ orders[o].items \in Quantities
  /\ \A k \in Caller :
       /\ task[k].pc = "save" => UpToDate(task[k])
       /\ task[k].pc = "publish" /\ task[k].service = "kitchen" /\ task[k].op = "accept" =>
            Taken(tickets[task[k].id])
  /\ \A e \in events :
       e.type = "TicketAccepted" => e.id \in DOMAIN tickets /\ Taken(tickets[e.id])

LEMMA NothingToDo ==
  ASSUME Inv, CallsOK
  PROVE  inbox = {} /\ \A w \in Worker : ~Busy(w)
<1>1. \A o \in Order : At(o) = -1
  BY DEF Inv, SagasOK, CallsOK
<1>2. inbox = {}
  BY <1>1 DEF Inv, InboxOK
<1> QED
  BY <1>2 DEF Inv, WorkersOK

LEMMA TakenStays ==
  ASSUME NEW t, Sane(t), Taken(t), NEW op \in (TicketHandlers \cup {"accept"}) \ {"create"},
         t.state \in TicketFrom[op]
  PROVE  Taken(TicketAfter(op, t))
<1>1. t.state \in TicketState /\ t.previousState \in TicketState \cup {"none"}
  BY DEF Sane, Ticket
<1>2. CASE op \in Restoring
  <2>1. t.state \in {"CANCEL_PENDING", "REVISION_PENDING"}
    BY <1>2 DEF Restoring, TicketFrom
  <2>2. t.previousState = "ACCEPTED"
    BY <2>1 DEF Sane, Open, Taken
  <2> QED
    BY <1>2, <2>2 DEF TicketAfter, Taken, Restoring, Suspending
<1>3. CASE op \in Suspending
  <2>1. t.state = "ACCEPTED"
    BY <1>3 DEF Suspending, TicketFrom, Open, Taken
  <2> QED
    BY <1>3, <2>1 DEF TicketAfter, Taken, Restoring, Suspending, TicketTo
<1>4. CASE op = "confirmCreate"
  BY <1>4 DEF TicketFrom, Taken
<1>5. CASE op = "accept"
  BY <1>5 DEF TicketFrom, Taken
<1>6. CASE op = "cancelCreate"
  BY <1>6 DEF TicketAfter, Taken, Restoring, Suspending, TicketTo
<1>7. CASE op = "confirmCancel"
  BY <1>7 DEF TicketAfter, Taken, Restoring, Suspending, TicketTo
<1> QED
  BY <1>2, <1>3, <1>4, <1>5, <1>6, <1>7 DEF TicketHandlers, Restoring, Suspending

\* The sum of the changes and the new items agree.
LEMMA RevisedTotal ==
  ASSUME NEW items \in Quantities, NEW rev \in Quantities
  PROVE  NewOrderTotal(items, rev) = Total([i \in DOMAIN items |-> rev[i]])
<1> DEFINE N == DOMAIN Ordered
           diff == [i \in N |-> rev[i] - items[i]]
           u == [i \in N |-> Price[i] * items[i]]
           v == [i \in N |-> Price[i] * diff[i]]
           w == [i \in N |-> Price[i] * rev[i]]
<1>1. DOMAIN items = N /\ DOMAIN rev = N /\ rev = [i \in N |-> rev[i]]
  BY DEF Quantities
<1>2. Total(items) = SumFunctionOnSet(u, N)
  BY <1>1 DEF Total, SumFunction
<1>3. Total(rev) = SumFunctionOnSet(w, N)
  BY <1>1 DEF Total, SumFunction
<1>4. ChangeToOrderTotal(items, rev) = SumFunctionOnSet(v, N)
  <2>1. ChangeToOrderTotal(items, rev) = Total(diff)
    BY <1>1 DEF ChangeToOrderTotal
  <2>2. DOMAIN diff = N
    OBVIOUS
  <2> HIDE DEF diff
  <2> QED
    BY <2>1, <2>2 DEF Total, SumFunction
<1>5. \A x \in N : u[x] \in Int /\ v[x] \in Int /\ w[x] = u[x] + v[x]
  <2>1. \A a, b, c \in Int : a * b \in Int /\ a * (c - b) \in Int /\ a * c = a * b + a * (c - b)
    OBVIOUS
  <2>2. \A x \in N : Price[x] \in Int /\ items[x] \in Int /\ rev[x] \in Int
    BY QuantityAssumption DEF Quantities
  <2> QED
    BY <2>1, <2>2
<1>6. IsFiniteSet(N)
  BY QuantityAssumption
<1>7. SumFunctionOnSet(w, N) = SumFunctionOnSet(u, N) + SumFunctionOnSet(v, N)
  <2> HIDE DEF N, u, v, w
  <2> QED
    BY <1>5, <1>6, SumOfSums
<1> QED
  BY <1>1, <1>2, <1>3, <1>4, <1>7 DEF NewOrderTotal

\* A call finds its row in time.
LEMMA CallFindsRow ==
  ASSUME Inv, CallsOK, NEW k \in Caller, NEW op \in CalledOps, NEW t,
         \E id \in Order :
           \/ op \in TicketHandlers \cup {"accept"} /\ t = TicketTask(NoCommand, op, id)
           \/ op \in DOMAIN OrderFrom
              /\ \E rev \in Revision : t = OrderTask(NoCommand, op, id, rev)
  PROVE  t.pc \in {"save", "failed"} /\ (t.pc = "save" => UpToDate(t))
<1>1. PICK id \in Order :
        \/ op \in TicketHandlers \cup {"accept"} /\ t = TicketTask(NoCommand, op, id)
        \/ op \in DOMAIN OrderFrom
           /\ \E rev \in Revision : t = OrderTask(NoCommand, op, id, rev)
  OBVIOUS
<1>2. CASE op \in TicketHandlers \cup {"accept"} /\ t = TicketTask(NoCommand, op, id)
  <2>1. /\ t.pc \in {"save", "failed"} /\ t.service = "kitchen" /\ t.op = op /\ t.id = id
        /\ t.pc = "save" /\ op # "create" =>
             tickets[id].state \in TicketFrom[op] /\ t.copy = TicketAfter(op, tickets[id])
    BY <1>2, TicketTaskIs
  <2> QED
    BY <2>1 DEF UpToDate
<1>3. ASSUME op \in DOMAIN OrderFrom, NEW rev \in Revision,
             t = OrderTask(NoCommand, op, id, rev)
      PROVE  t.pc \in {"save", "failed"} /\ (t.pc = "save" => UpToDate(t))
  <2> DEFINE items == orders[id].items
  <2>1. /\ t.pc \in {"save", "failed"} /\ t.service = "order" /\ t.op = op /\ t.id = id
        /\ t.pc = "save" => /\ Accepts(op, items, rev)
                            /\ t.copy = OrderAfter(op, orders[id], rev)
                            /\ t.told = Told(op, orders[id], rev)
    BY <1>3, OrderTaskIs
  <2>2. items \in Quantities
    BY DEF CallsOK
  <2>3. CASE op # "confirmRevision"
    BY <2>1, <2>2, <2>3 DEF UpToDate, OrderAfter
  <2>4. CASE t.pc = "save" /\ op = "confirmRevision"
    <3>1. DOMAIN rev = DOMAIN items /\ DOMAIN items = DOMAIN Ordered
      BY <2>1, <2>2, <2>4 DEF Accepts, Quantities
    <3>2. rev \in Quantities
      BY <3>1, QuantityAssumption DEF Quantities
    <3>3. t.copy.items = [i \in DOMAIN items |-> rev[i]] /\ t.told = NewOrderTotal(items, rev)
      BY <2>1, <2>4 DEF OrderAfter, Told
    <3>4. t.copy.items \in Quantities
      BY <3>1, <3>2, <3>3 DEF Quantities
    <3>5. t.told = Total(t.copy.items)
      <4> HIDE DEF items
      <4> QED
        BY <2>2, <3>2, <3>3, RevisedTotal
    <3> QED
      BY <2>1, <2>4, <3>4, <3>5 DEF UpToDate
  <2> QED
    BY <2>1, <2>3, <2>4
<1> QED
  BY <1>1, <1>2, <1>3

\* What the only caller turns to, the rows being as they are.
LEMMA CallerTurns ==
  ASSUME Inv, CallsOK, NEW k, Caller = {k}, NEW t, Turns(k, t),
         UNCHANGED <<orders, tickets, saga>>,
         \A e \in events' \ events :
           e.type = "TicketAccepted" => e.id \in DOMAIN tickets /\ Taken(tickets[e.id]),
         t.pc = "save" => UpToDate(t), t.pc # "publish"
  PROVE  CallsOK'
<1>1. task'[k] = t
  BY TurnsIs
<1>2. UpToDate(t)' <=> UpToDate(t)
  BY DEF UpToDate
<1> QED
  BY <1>1, <1>2 DEF CallsOK, UpToDate

LEMMA CallsSave ==
  ASSUME Inv, CallsOK, NEW k, Caller = {k}, Save(k)
  PROVE  CallsOK'
<1> DEFINE t == task[k]
<1>1. /\ t.pc = "save" /\ UNCHANGED <<events, saga>> /\ UpToDate(t)
  BY SaveIs DEF CallsOK
<1>2. ASSUME NEW m, Turns(k, m), m.pc = "publish",
             \A o \in Order : orders'[o].items \in Quantities,
             m.service = "kitchen" /\ m.op = "accept" => Taken(tickets'[m.id]),
             \A i \in DOMAIN tickets :
               i \in DOMAIN tickets' /\ (Taken(tickets[i]) => Taken(tickets'[i]))
      PROVE  CallsOK'
  <2>1. task'[k] = m
    BY <1>2, TurnsIs
  <2>2. \A o \in Order : ~saga'["create"][o].begun
    BY <1>1 DEF CallsOK
  <2>3. \A e \in events' :
          e.type = "TicketAccepted" => e.id \in DOMAIN tickets' /\ Taken(tickets'[e.id])
    BY <1>1, <1>2 DEF CallsOK
  <2> QED
    BY <1>2, <2>1, <2>2, <2>3 DEF CallsOK
<1>3. orders = [o \in Order |-> orders[o]] /\ tickets \in Seq(Ticket)
      /\ \A o \in Order : orders[o].items \in Quantities
  BY DEF Inv, ShapesOK, CallsOK
<1>4. \A id : LET m == Moved(t, id, "publish") IN
              m.pc = "publish" /\ m.service = t.service /\ m.op = t.op /\ m.id = id
  BY MovedIs
<1>5. CASE /\ t.service = "order" /\ t.id \in Order
           /\ Turns(k, Moved(t, t.id, "publish"))
           /\ orders' = [orders EXCEPT ![t.id] = t.copy] /\ UNCHANGED tickets
  <2>1. t.copy.items \in Quantities
    BY <1>1, <1>3, <1>5 DEF UpToDate
  <2>2. \A o \in Order : orders'[o] = IF o = t.id THEN t.copy ELSE orders[o]
    BY <1>3, <1>5
  <2>3. \A o \in Order : orders'[o].items \in Quantities
    BY <1>3, <2>1, <2>2
  <2> HIDE DEF t
  <2> QED
    BY <1>2, <1>4, <1>5, <2>3
<1>6. CASE /\ t.service = "kitchen" /\ t.op = "create"
           /\ Turns(k, Moved(t, Len(tickets) + 1, "publish"))
           /\ tickets' = Append(tickets, t.copy) /\ UNCHANGED orders
  <2>1. \A i \in DOMAIN tickets : i \in DOMAIN tickets' /\ tickets'[i] = tickets[i]
    <3> HIDE DEF t
    <3> QED
      BY <1>3, <1>6
  <2> HIDE DEF t
  <2> QED
    BY <1>2, <1>3, <1>4, <1>6, <2>1
<1>7. CASE /\ t.service = "kitchen" /\ t.op \in (TicketHandlers \cup {"accept"}) \ {"create"}
           /\ t.id \in DOMAIN tickets
           /\ Turns(k, Moved(t, t.id, "publish"))
           /\ tickets' = [tickets EXCEPT ![t.id] = t.copy] /\ UNCHANGED orders
  <2> DEFINE old == tickets[t.id]
  <2>1. old.state \in TicketFrom[t.op] /\ t.copy = TicketAfter(t.op, old)
    BY <1>1, <1>7 DEF UpToDate
  <2>2. Sane(old)
    BY <1>7 DEF Inv, ShapesOK
  <2>3. Taken(old) => Taken(t.copy)
    <3> HIDE DEF old, t
    <3> QED
      BY <1>7, <2>1, <2>2, TakenStays
  <2>4. t.op = "accept" => Taken(t.copy)
    <3> HIDE DEF old
    <3> QED
      BY <2>1 DEF TicketAfter, TicketTo, Restoring, Taken
  <2>5. \A i \in DOMAIN tickets :
          i \in DOMAIN tickets' /\ tickets'[i] = IF i = t.id THEN t.copy ELSE tickets[i]
    <3> HIDE DEF t
    <3> QED
      BY <1>3, <1>7
  <2>6. orders' = orders /\ (t.op = "accept" => Taken(tickets'[t.id]))
        /\ \A i \in DOMAIN tickets :
             i \in DOMAIN tickets' /\ (Taken(tickets[i]) => Taken(tickets'[i]))
    BY <1>7, <2>3, <2>4, <2>5
  <2> HIDE DEF t, old
  <2> QED
    BY <1>2, <1>3, <1>4, <1>7, <2>6
<1> QED
  BY <1>5, <1>6, <1>7, SaveIs

LEMMA CallsKept ==
  ASSUME Inv, OneCaller, CallsOK, [Next]_vars
  PROVE  CallsOK'
<1>1. PICK k : Caller = {k}
  BY DEF OneCaller
<1>2. inbox = {} /\ \A w \in Worker : ~Busy(w)
  BY NothingToDo
<1>3. CASE UNCHANGED vars
  BY <1>3 DEF vars, CallsOK, UpToDate
<1>4. ASSUME NEW t \in SagaType, NEW o \in Order, StartSaga(t, o) PROVE CallsOK'
  <2>1. t # "create"
    BY <1>4 DEF StartSaga, OneCaller
  <2>2. saga' = [saga EXCEPT ![t][o].begun = TRUE]
    BY <1>4, <2>1, StartIs
  <2>3. saga'["create"] = saga["create"]
    BY <2>1, <2>2 DEF Inv, ShapesOK, SagaType
  <2> QED
    BY <1>4, <2>3 DEF StartSaga, CallsOK, UpToDate
<1>5. ASSUME NEW t \in SagaType, NEW o \in Order, HandleReply(t, o) PROVE FALSE
  <2>1. At(o) # -1
    BY <1>5, ReplyIs
  <2> QED
    BY <2>1 DEF Inv, SagasOK, CallsOK
<1>6. ASSUME NEW op \in CalledOps, Call(k, op) PROVE CallsOK'
  <2>1. PICK t : /\ Turns(k, t)
                 /\ \E id \in Order :
                      \/ /\ t.service = "kitchen" /\ op \in TicketHandlers \cup {"accept"}
                         /\ t = TicketTask(NoCommand, op, id)
                      \/ /\ t.service = "order" /\ op \in DOMAIN OrderFrom
                         /\ \E rev \in Revision : t = OrderTask(NoCommand, op, id, rev)
    BY <1>1, <1>6, CallIs
  <2>2. t.pc \in {"save", "failed"} /\ (t.pc = "save" => UpToDate(t))
    BY <1>1, <2>1, CallFindsRow
  <2> QED
    BY <1>1, <1>6, <2>1, <2>2, CallerTurns DEF Call
<1>7. CASE Save(k)
  BY <1>1, <1>7, CallsSave
<1>8. CASE Publish(k)
  <2> DEFINE t == task[k]
             m == Moved(t, t.id, "done")
  <2>1. Turns(k, m) /\ m.pc = "done"
    BY <1>1, <1>8, MovedIs, PublishInv
  <2>2. ASSUME NEW e \in events' \ events, e.type = "TicketAccepted"
        PROVE  e.id \in DOMAIN tickets /\ Taken(tickets[e.id])
    <3>1. TaskOK(t) /\ t.pc = "publish"
      BY <1>1, <1>8 DEF Publish, Inv, WorkersOK
    <3>2. e \in EventsOf(t)
      BY <1>8, <2>2 DEF Publish
    <3>3. e.id = t.id /\ t.service = "kitchen" /\ t.op = "accept"
      <4>1. e.id = t.id
        BY <3>2 DEF EventsOf
      <4>2. CASE t.service = "order"
        BY <2>2, <3>2, <4>2 DEF EventsOf, OrderEvent
      <4>3. CASE t.service # "order"
        <5>1. t.service = "kitchen"
          BY <3>1, <4>3 DEF TaskOK
        <5>2. t.op = "accept"
          BY <2>2, <3>2, <4>3 DEF EventsOf, TicketEvent
        <5> QED
          BY <4>1, <5>1, <5>2
      <4> QED
        BY <4>2, <4>3
    <3>4. t.id \in DOMAIN tickets
      BY <3>1, <3>3 DEF TaskOK
    <3> QED
      BY <1>1, <3>1, <3>3, <3>4 DEF CallsOK
  <2>3. UNCHANGED <<orders, tickets, saga>>
    BY <1>8 DEF Publish
  <2> HIDE DEF m
  <2> QED
    BY <1>1, <2>1, <2>2, <2>3, CallerTurns
<1>9. CASE Return(k) \/ Crash(k)
  <2>1. Turns(k, Idle) /\ UNCHANGED <<orders, tickets, saga, events>>
    BY <1>1, <1>9 DEF Return, Crash, Turns
  <2>2. Idle.pc = "idle"
    BY DEF Idle
  <2> QED
    BY <1>1, <2>1, <2>2, CallerTurns
<1>10. ASSUME NEW w \in Worker PROVE ~Serve(w) /\ ~Crash(w)
  <2>1. task[w].pc = "idle"
    BY <1>2 DEF Busy
  <2> QED
    BY <2>1 DEF Serve, Save, Publish, Return, Crash, Busy
<1> QED
  BY <1>1, <1>2, <1>3, <1>4, <1>5, <1>6, <1>7, <1>8, <1>9, <1>10 DEF Next, Serve

LEMMA CallsHold == OneCaller => (Spec => [](Inv /\ CallsOK))
<1> SUFFICES ASSUME OneCaller PROVE Spec => [](Inv /\ CallsOK)
  OBVIOUS
<1>1. Init => CallsOK
  <2> SUFFICES ASSUME Init PROVE CallsOK
    OBVIOUS
  <2>1. Ordered \in Quantities
    BY QuantityAssumption DEF Quantities
  <2>2. \A o \in Order : ~saga["create"][o].begun
    BY DEF Init, NoSaga, SagaType
  <2> QED
    BY <2>1, <2>2 DEF Init, CallsOK, Idle
<1>2. (Inv /\ CallsOK) /\ [Next]_vars => (Inv /\ CallsOK)'
  BY NextInv, CallsKept
<1> QED
  BY <1>1, <1>2, InitInv, PTL DEF Spec

\* However a ticket is suspended and restored by calls that follow one another, it
\* does not return to awaiting the acceptance that was announced.
THEOREM AcceptanceLasts == OneCaller => (Spec => []AcceptedStaysAccepted)
<1> SUFFICES ASSUME OneCaller PROVE Spec => []AcceptedStaysAccepted
  OBVIOUS
<1>1. CallsOK => AcceptedStaysAccepted
  BY DEF CallsOK, AcceptedStaysAccepted, Announced, Taken
<1> QED
  BY <1>1, CallsHold, PTL

\* For any items, prices and revisions: what OrderRevised tells of the total is
\* what the new items come to, and nothing else changes the items.
THEOREM RevisionsAddUp == OneCaller => (Spec => RevisedTotalAsTold)
<1> SUFFICES ASSUME OneCaller PROVE Spec => RevisedTotalAsTold
  OBVIOUS
<1> DEFINE AsTold ==
      \A o \in Order :
        orders'[o].items # orders[o].items =>
          \E w \in Worker \cup Caller :
            /\ Busy(w) /\ task[w].op = "confirmRevision" /\ task[w].id = o
            /\ task[w].told = Total(orders'[o].items)
<1>1. (Inv /\ CallsOK) /\ [Next]_vars => [AsTold]_vars
  <2> SUFFICES ASSUME Inv, CallsOK, Next, NEW o \in Order,
                      orders'[o].items # orders[o].items
               PROVE  \E w \in Worker \cup Caller :
                        /\ Busy(w) /\ task[w].op = "confirmRevision" /\ task[w].id = o
                        /\ task[w].told = Total(orders'[o].items)
    OBVIOUS
  <2>1. PICK w \in Worker \cup Caller : Save(w)
    BY DEF Next, StartSaga, HandleReply, ValidateOrder, Account, Receive, Call, Serve,
           Publish, Return, Crash
  <2> DEFINE k == task[w]
  <2>2. Busy(w) /\ k.pc = "save"
    BY <2>1, SaveIs
  <2>3. w \in Caller
    BY <2>2, NothingToDo
  <2>4. k.service = "order" /\ k.id \in Order /\ orders' = [orders EXCEPT ![k.id] = k.copy]
    BY <2>1, SaveIs
  <2>5. orders = [n \in Order |-> orders[n]]
    BY DEF Inv, ShapesOK
  <2>6. k.id = o /\ orders'[o] = k.copy
    <3> HIDE DEF k
    <3> QED
      BY <2>4, <2>5
  <2>7. UpToDate(k)
    BY <2>2, <2>3 DEF CallsOK
  <2>8. k.op = "confirmRevision" /\ k.told = Total(k.copy.items)
    BY <2>4, <2>6, <2>7 DEF UpToDate
  <2> QED
    BY <2>2, <2>6, <2>8
<1> QED
  BY <1>1, CallsHold, PTL DEF RevisedTotalAsTold, Spec
=============================================================================
