----------------------------- MODULE FtgoOrders -----------------------------
(***************************************************************************)
(* The food-to-go example: orders and kitchen tickets, the services that   *)
(* change them, and the sagas that drive the two.  A service loads an      *)
(* entity, changes it in memory, saves it and publishes its events: four   *)
(* awaits, with other requests and crashes in between.  The step machine   *)
(* of the sagas is SagaDefinition; that the saga manager runs it as        *)
(* SagaPattern says is shown there, so a saga here handles each reply once.*)
(*                                                                         *)
(* Orders are numbered, and so are tickets, in the order they are created. *)
(***************************************************************************)
EXTENDS Integers, Sequences, FiniteSets, Functions

CONSTANTS
  NumOrders,
  Price,       \* of each menu item on the orders
  Ordered,     \* the quantity of each item
  Revision,    \* order revisions: functions from menu items to quantities
  Minimum,     \* Order.minimum
  Balance,     \* of the customer, once for all orders
  Worker,      \* consumers of the order and kitchen command channels
  Caller,      \* requests that call a service directly
  CalledOps,   \* the service methods they call
  Started,     \* the types of the sagas that are started
  MaxCalls, MaxCrashes

Order == 1 .. NumOrders
SagaType == {"create", "cancel", "revise"}
Service == {"order", "kitchen", "customer", "accounting"}

ASSUME FtgoAssumption ==
  /\ NumOrders \in Nat /\ MaxCalls \in Nat /\ MaxCrashes \in Nat
  /\ Started \subseteq SagaType
  /\ Worker \cap Caller = {}

\* Quantities are numbers of finitely many items, and each item has its price.
ASSUME QuantityAssumption ==
  /\ IsFiniteSet(DOMAIN Ordered)
  /\ Ordered \in [DOMAIN Ordered -> Int]
  /\ \A i \in DOMAIN Ordered : Price[i] \in Int
  /\ \A rev \in Revision : rev \in [DOMAIN rev -> Int]

-----------------------------------------------------------------------------
(* Ticket *)

TicketState ==
  {"CREATE_PENDING", "AWAITING_ACCEPTANCE", "ACCEPTED", "PREPARING",
   "READY_FOR_PICKUP", "PICKED_UP", "CANCEL_PENDING", "CANCELLED",
   "REVISION_PENDING"}

Open == {"AWAITING_ACCEPTANCE", "ACCEPTED"}

\* The states an operation does not throw in.
TicketFrom ==
  [confirmCreate |-> {"CREATE_PENDING"}, cancelCreate |-> TicketState,
   accept |-> {"AWAITING_ACCEPTANCE"}, preparing |-> {"ACCEPTED"},
   readyForPickup |-> {"PREPARING"}, pickedUp |-> {"READY_FOR_PICKUP"},
   changeLineItemQuantity |-> {"AWAITING_ACCEPTANCE", "PREPARING"},
   cancel |-> Open, confirmCancel |-> {"CANCEL_PENDING"},
   undoCancel |-> {"CANCEL_PENDING"}, beginReviseOrder |-> Open,
   undoBeginReviseOrder |-> {"REVISION_PENDING"},
   confirmReviseTicket |-> {"REVISION_PENDING"}]

TicketTo ==
  [confirmCreate |-> "AWAITING_ACCEPTANCE", accept |-> "ACCEPTED",
   preparing |-> "PREPARING", readyForPickup |-> "READY_FOR_PICKUP",
   pickedUp |-> "PICKED_UP", cancel |-> "CANCEL_PENDING",
   confirmCancel |-> "CANCELLED", beginReviseOrder |-> "REVISION_PENDING"]

Suspending == {"cancel", "beginReviseOrder"}
Restoring == {"undoCancel", "undoBeginReviseOrder", "confirmReviseTicket"}

TicketEvent ==
  [confirmCreate |-> "TicketCreated", accept |-> "TicketAccepted",
   preparing |-> "TicketPreparationStarted",
   readyForPickup |-> "TicketPreparationCompleted",
   pickedUp |-> "TicketPickedUp", confirmCancel |-> "TicketCancelled",
   confirmReviseTicket |-> "TicketRevised"]

TicketAfter_FirstPrevious(op, t) ==
  [t EXCEPT !.state = IF op \in Restoring THEN t.previousState
                      ELSE IF op \in DOMAIN TicketTo THEN TicketTo[op] ELSE @,
            !.previousState =
               IF op \in Suspending /\ @ = "none" THEN t.state ELSE @]

TicketAfter(op, t) ==
  [order |-> t.order,
   state |-> IF op \in Restoring THEN t.previousState
             ELSE IF op \in DOMAIN TicketTo THEN TicketTo[op] ELSE t.state,
   previousState |-> IF op \in Suspending THEN t.state ELSE t.previousState]

-----------------------------------------------------------------------------
(* Order *)

OrderState ==
  {"APPROVAL_PENDING", "APPROVED", "REJECTED", "CANCEL_PENDING", "CANCELLED",
   "REVISION_PENDING"}

\* By the name of the OrderService method, noteCancelled having none.
OrderFrom ==
  [approve |-> "APPROVAL_PENDING", reject |-> "APPROVAL_PENDING",
   beginCancel |-> "APPROVED", undoCancel |-> "CANCEL_PENDING",
   noteCancelled |-> "CANCEL_PENDING", beginRevise |-> "APPROVED",
   undoPendingRevision |-> "REVISION_PENDING",
   confirmRevision |-> "REVISION_PENDING"]

OrderTo ==
  [approve |-> "APPROVED", reject |-> "REJECTED",
   beginCancel |-> "CANCEL_PENDING", undoCancel |-> "APPROVED",
   noteCancelled |-> "CANCELLED", beginRevise |-> "REVISION_PENDING",
   undoPendingRevision |-> "APPROVED", confirmRevision |-> "APPROVED"]

OrderEvent ==
  [approve |-> "OrderAuthorized", reject |-> "OrderRejected",
   noteCancelled |-> "OrderCancelled", beginRevise |-> "OrderRevisionProposed",
   confirmRevision |-> "OrderRevised"]

\* Money: the sum over items of price times quantity.
Total(quantity) ==
  SumFunction([i \in DOMAIN quantity |-> Price[i] * quantity[i]])

ChangeToOrderTotal_Absolute(items, rev) == Total(rev)

\* Every revised item must be on the order.
ChangeToOrderTotal(items, rev) ==
  Total([i \in DOMAIN rev |-> rev[i] - items[i]])

NewOrderTotal(items, rev) == Total(items) + ChangeToOrderTotal(items, rev)

\* A revision that reaches the minimum is refused.
Accepts(op, items, rev) ==
  /\ op \in {"beginRevise", "confirmRevision"} => DOMAIN rev \subseteq DOMAIN items
  /\ op = "beginRevise" => NewOrderTotal(items, rev) < Minimum
  /\ op = "confirmRevision" => DOMAIN items \subseteq DOMAIN rev

OrderAfter(op, o, rev) ==
  [state |-> OrderTo[op],
   items |-> IF op = "confirmRevision"
             THEN [i \in DOMAIN o.items |-> rev[i]] ELSE o.items]

\* What OrderRevised and OrderRevisionProposed tell about the new total.
Told(op, o, rev) ==
  IF op \in {"beginRevise", "confirmRevision"}
  THEN NewOrderTotal(o.items, rev) ELSE 0

-----------------------------------------------------------------------------
(* The sagas.  A step is a service, and its action and compensation there.  *)
(* The methods that the cancel and revise sagas invoke leave the service to *)
(* a decorator, which the step builder does not find.                       *)

None == "none"

S(service, action, compensation) ==
  [service |-> service, action |-> action, compensation |-> compensation]

Begin ==
  <<S("order", None, "reject"), S("customer", "validateOrder", None),
    S("kitchen", "create", "cancelCreate")>>

Authorize == S("accounting", "authorize", None)
Confirm == S("kitchen", "confirmCreate", None)
Approve == S("order", "approve", None)

CreateOrderSaga_ApprovesFirst == Begin \o <<Authorize, Approve, Confirm>>
CreateOrderSaga_ConfirmsEarly == Begin \o <<Confirm, Authorize, Approve>>

CreateOrderSaga == Begin \o <<Authorize, Confirm, Approve>>

CancelOrderSaga ==
  <<S(None, "beginCancel", "undoBeginCancel"), S(None, "cancel", "undoCancel"),
    S(None, "reverseAuthorization", None), S(None, "confirmCancel", None),
    S(None, "confirmCancelOrder", None)>>

ReviseOrderSaga ==
  <<S(None, "beginRevise", "undoBeginRevise"),
    S(None, "beginReviseOrder", "undoBeginReviseOrder"),
    S(None, "reverseAuthorization", None), S(None, "confirmReviseTicket", None),
    S(None, "confirmReviseOrder", None)>>

Steps(t) ==
  CASE t = "create" -> CreateOrderSaga
    [] t = "cancel" -> CancelOrderSaga
    [] t = "revise" -> ReviseOrderSaga

With(t, field) ==
  {j \in 0 .. Len(Steps(t)) - 1 : Steps(t)[j + 1][field] # None}

D(t) == INSTANCE SagaDefinition WITH
  NumSteps <- Len(Steps(t)), Local <- {}, LocalCompensation <- {}, Truthy <- {},
  Data <- {"any"}, Invocable <- [d \in {"any"} |-> With(t, "action")],
  Compensable <- [d \in {"any"} |-> With(t, "compensation")]

\* The command handlers: the order service has one for two of its commands, and
\* a command without one is delivered again and again.
OrderCommandHandlers_NoReject == {"approve"}

OrderCommandHandlers == {"approve", "reject"}
TicketHandlers ==
  {"create", "confirmCreate", "cancelCreate", "cancel", "confirmCancel",
   "undoCancel", "beginReviseOrder", "undoBeginReviseOrder",
   "confirmReviseTicket"}

-----------------------------------------------------------------------------

VARIABLES
  orders,   \* rows of the order service: state, and quantity of each item
  tickets,  \* rows of the kitchen service
  events,   \* domain events published
  saga,     \* of each type and order
  inbox,    \* commands sent and not yet committed
  task,     \* what each worker and caller is at
  calls, crashes

vars == <<orders, tickets, events, saga, inbox, task, calls, crashes>>

NoRevision == [i \in {} |-> 0]
NoTicket == 0
Idle == [pc |-> "idle"]
Busy(w) == task[w].pc # "idle"

NoSaga ==
  [begun |-> FALSE, st |-> D("create")!InitialState, ticketId |-> NoTicket,
   reply |-> "none"]

Init ==
  /\ orders = [o \in Order |-> [state |-> "APPROVAL_PENDING", items |-> Ordered]]
  /\ tickets = <<>>
  /\ events = {}
  /\ saga = [t \in SagaType |-> [o \in Order |-> NoSaga]]
  /\ inbox = {}
  /\ task = [w \in Worker \cup Caller |-> Idle]
  /\ calls = 0 /\ crashes = 0

-----------------------------------------------------------------------------
(* A saga: it sends the command of its next step, and takes its reply.      *)

\* Two commands name the ticket the create reply told of; the others name the
\* order, and the kitchen takes that for the ticket.
IdOf(op, o, ticketId) ==
  IF op \in {"confirmCreate", "cancelCreate"} THEN ticketId ELSE o

CommandOf(t, o, a, ticketId) ==
  LET step == Steps(t)[a.step + 1]
      op == IF a.compensating THEN step.compensation ELSE step.action
  IN  [saga |-> t, order |-> o, service |-> step.service, op |-> op,
       id |-> IdOf(op, o, ticketId)]

\* 'Missing @CommandDestination()'
Undirected(t, a) == a.kind = "remote" /\ Steps(t)[a.step + 1].service = None

\* The saga goes on from st, with what it knows of its ticket.
Proceed(t, o, st, ticketId) ==
  \E a \in D(t)!ExecuteNextStep(st, "any") :
    /\ ~Undirected(t, a)
    /\ saga' = [saga EXCEPT ![t][o] =
                  [begun |-> TRUE, st |-> D(t)!UpdatedState(a),
                   ticketId |-> ticketId, reply |-> "none"]]
    /\ inbox' = IF a.kind = "remote"
                THEN inbox \cup {CommandOf(t, o, a, ticketId)} ELSE inbox

\* create rejects when the first command has no destination, and leaves a row.
StartSaga(t, o) ==
  /\ t \in Started
  /\ ~saga[t][o].begun
  /\ \/ Proceed(t, o, D(t)!InitialState, NoTicket)
     \/ /\ \E a \in D(t)!ExecuteNextStep(D(t)!InitialState, "any") : Undirected(t, a)
        /\ saga' = [saga EXCEPT ![t][o].begun = TRUE] /\ UNCHANGED inbox
  /\ UNCHANGED <<orders, tickets, events, task, calls, crashes>>

HandleReply(t, o) ==
  LET s == saga[t][o] IN
  /\ s.reply # "none"
  /\ ~D(t)!HandleReplyThrows(s.st, s.reply)
  /\ Proceed(t, o, D(t)!AfterReply(s.st, s.reply), s.ticketId)
  /\ UNCHANGED <<orders, tickets, events, task, calls, crashes>>

\* The reply to c is sent and c is committed.  handleCreateTicketReply keeps the
\* ticket's id.
KeepsTicket(c, outcome) == c.op = "create" /\ outcome = "SUCCESS"

Answer(c, outcome, ticketId) ==
  /\ inbox' = inbox \ {c}
  /\ saga' = [saga EXCEPT ![c.saga][c.order] =
                [begun |-> @.begun, st |-> @.st, reply |-> outcome,
                 ticketId |-> IF KeepsTicket(c, outcome) THEN ticketId
                              ELSE @.ticketId]]

\* CustomerService.validateOrder reads the balance and changes nothing.
ValidateOrder(c) ==
  /\ c \in inbox /\ c.service = "customer"
  /\ Answer(c, IF Balance >= Total(Ordered) THEN "SUCCESS" ELSE "FAILURE", NoTicket)
  /\ UNCHANGED <<orders, tickets, events, task, calls, crashes>>

Account(c) ==
  /\ c \in inbox /\ c.service = "accounting"
  /\ \E outcome \in {"SUCCESS", "FAILURE"} : Answer(c, outcome, NoTicket)
  /\ UNCHANGED <<orders, tickets, events, task, calls, crashes>>

-----------------------------------------------------------------------------
(* The services.  A task holds the changed copy of the row it loaded.       *)

Task(c, service, op, id, pc, copy, told) ==
  [pc |-> pc, cmd |-> c, service |-> service, op |-> op, id |-> id,
   copy |-> copy, told |-> told]

Moved(k, id, pc) == Task(k.cmd, k.service, k.op, id, pc, k.copy, k.told)

\* An exception becomes a failure reply, a direct call just ends.
Failed(c, service, op, id) ==
  Task(c, service, op, id, "failed", Idle, 0)

\* findOrFail and the operation of the entity.
TicketTask(c, op, id) ==
  IF op = "create"
  THEN Task(c, "kitchen", op, id, "save",
            [order |-> id, state |-> "CREATE_PENDING", previousState |-> "none"], 0)
  ELSE IF id \in DOMAIN tickets /\ tickets[id].state \in TicketFrom[op]
  THEN Task(c, "kitchen", op, id, "save", TicketAfter(op, tickets[id]), 0)
  ELSE Failed(c, "kitchen", op, id)

OrderTask(c, op, id, rev) ==
  IF /\ orders[id].state = OrderFrom[op]
     /\ Accepts(op, orders[id].items, rev)
  THEN Task(c, "order", op, id, "save", OrderAfter(op, orders[id], rev),
            Told(op, orders[id], rev))
  ELSE Failed(c, "order", op, id)

Receive_Twice(w, c) ==
  /\ ~Busy(w)
  /\ c \in inbox
  /\ \/ /\ c.service = "kitchen" /\ c.op \in TicketHandlers
        /\ task' = [task EXCEPT ![w] = TicketTask(c, c.op, c.id)]
     \/ /\ c.service = "order" /\ c.op \in OrderCommandHandlers
        /\ task' = [task EXCEPT ![w] = OrderTask(c, c.op, c.id, NoRevision)]
  /\ UNCHANGED <<orders, tickets, events, saga, inbox, calls, crashes>>

Receive(w, c) ==
  /\ ~Busy(w)
  /\ c \in inbox /\ \A v \in Worker : Busy(v) => task[v].cmd # c
  /\ \/ /\ c.service = "kitchen" /\ c.op \in TicketHandlers
        /\ task' = [task EXCEPT ![w] = TicketTask(c, c.op, c.id)]
     \/ /\ c.service = "order" /\ c.op \in OrderCommandHandlers
        /\ task' = [task EXCEPT ![w] = OrderTask(c, c.op, c.id, NoRevision)]
  /\ UNCHANGED <<orders, tickets, events, saga, inbox, calls, crashes>>

NoCommand == "call"

Call(k, op) ==
  /\ calls < MaxCalls
  /\ ~Busy(k)
  /\ calls' = calls + 1
  /\ \/ /\ op \in TicketHandlers \cup {"accept"}
        /\ \E id \in Order : task' = [task EXCEPT ![k] = TicketTask(NoCommand, op, id)]
     \/ /\ op \in DOMAIN OrderFrom
        /\ \E id \in Order, rev \in Revision :
             task' = [task EXCEPT ![k] = OrderTask(NoCommand, op, id, rev)]
  /\ UNCHANGED <<orders, tickets, events, saga, inbox, crashes>>

\* repository.save; a new ticket gets the next id.
Save(w) ==
  LET k == task[w]
      id == IF k.op = "create" THEN Len(tickets) + 1 ELSE k.id IN
  /\ k.pc = "save"
  /\ task' = [task EXCEPT ![w] = Moved(k, id, "publish")]
  /\ CASE k.service = "order" ->
            /\ orders' = [orders EXCEPT ![id] = k.copy] /\ UNCHANGED tickets
       [] k.op = "create" -> tickets' = Append(tickets, k.copy) /\ UNCHANGED orders
       [] OTHER -> tickets' = [tickets EXCEPT ![id] = k.copy] /\ UNCHANGED orders
  /\ UNCHANGED <<events, saga, inbox, calls, crashes>>

EventsOf(k) ==
  LET E == IF k.service = "order" THEN OrderEvent ELSE TicketEvent
  IN  IF k.op \in DOMAIN E THEN {[type |-> E[k.op], id |-> k.id]} ELSE {}

Publish_Early(w) ==
  LET k == task[w] IN
  /\ k.pc \in {"save", "publish"}
  /\ events' = events \cup EventsOf(k)
  /\ task' = [task EXCEPT ![w].pc = IF @ = "save" THEN "save" ELSE "done"]
  /\ UNCHANGED <<orders, tickets, saga, inbox, calls, crashes>>

Publish(w) ==
  LET k == task[w] IN
  /\ k.pc = "publish"
  /\ events' = events \cup EventsOf(k)
  /\ task' = [task EXCEPT ![w] = Moved(k, k.id, "done")]
  /\ UNCHANGED <<orders, tickets, saga, inbox, calls, crashes>>

Return(w) ==
  LET k == task[w] IN
  /\ k.pc \in {"done", "failed"}
  /\ task' = [task EXCEPT ![w] = Idle]
  /\ IF w \in Caller THEN UNCHANGED <<saga, inbox>>
     ELSE Answer(k.cmd, IF k.pc = "done" THEN "SUCCESS" ELSE "FAILURE", k.id)
  /\ UNCHANGED <<orders, tickets, events, calls, crashes>>

\* The process dies; a command it had is delivered again.
Crash(w) ==
  /\ crashes < MaxCrashes
  /\ Busy(w)
  /\ crashes' = crashes + 1
  /\ task' = [task EXCEPT ![w] = Idle]
  /\ UNCHANGED <<orders, tickets, events, saga, inbox, calls>>

Serve(w) == Save(w) \/ Publish(w) \/ Return(w)

Next ==
  \/ \E t \in SagaType, o \in Order : StartSaga(t, o) \/ HandleReply(t, o)
  \/ \E c \in inbox : ValidateOrder(c) \/ Account(c)
  \/ \E w \in Worker, c \in inbox : Receive(w, c)
  \/ \E k \in Caller, op \in CalledOps : Call(k, op)
  \/ \E w \in Worker \cup Caller : Serve(w) \/ Crash(w)

Spec == Init /\ [][Next]_vars

\* Consumers and sagas go on; callers need not call, nothing need crash.
Fairness ==
  /\ \A t \in SagaType, o \in Order :
       WF_vars(StartSaga(t, o)) /\ WF_vars(HandleReply(t, o))
  /\ WF_vars(\E c \in inbox : ValidateOrder(c) \/ Account(c))
  /\ WF_vars(\E w \in Worker, c \in inbox : Receive(w, c))
  /\ \A w \in Worker \cup Caller : WF_vars(Serve(w))

FairSpec == Spec /\ Fairness

-----------------------------------------------------------------------------
(* Properties *)

\* Every row, saga and task has the shape the code gives it.
FtgoTypeOK ==
  /\ \A o \in Order : orders[o].state \in OrderState
  /\ \A i \in DOMAIN tickets :
       /\ tickets[i].state \in TicketState
       /\ tickets[i].state \in {"CANCEL_PENDING", "REVISION_PENDING"}
            => tickets[i].previousState \in Open
  /\ \A t \in SagaType, o \in Order :
       /\ saga[t][o].st \in D(t)!ExecutionState
       /\ saga[t][o].ticketId \in {NoTicket} \cup DOMAIN tickets
       /\ saga[t][o].reply \in {"none", "SUCCESS", "FAILURE"}
  /\ \A c \in inbox : c.service \in Service
  /\ calls \in 0 .. MaxCalls /\ crashes \in 0 .. MaxCrashes

TicketsOf(o) == {i \in DOMAIN tickets : tickets[i].order = o}

\* An order the create saga approved has a ticket of its own that the kitchen was
\* told to take on: confirmCreate came first, whatever was delivered again.
ApprovedOrderHasTicket ==
  \A o \in Order :
    orders[o].state \notin {"APPROVAL_PENDING", "REJECTED"} =>
      LET i == saga["create"][o].ticketId IN
      /\ i \in TicketsOf(o)
      /\ tickets[i].state # "CREATE_PENDING"

\* No kitchen works on a rejected order, though cancelCreate leaves its ticket as
\* it is: the ticket was never confirmed.  Not so once something has crashed: a
\* confirmCreate delivered again throws, and the saga rejects a confirmed order.
RejectedOrderIsNotCooked ==
  \A o \in Order :
    orders[o].state = "REJECTED" /\ crashes = 0 =>
      \A i \in TicketsOf(o) : tickets[i].state = "CREATE_PENDING"

\* createTicket makes one ticket for an order, and one more at most for each
\* crash that has it delivered again.
TicketsPerDelivery ==
  \A o \in Order : Cardinality(TicketsOf(o)) <= 1 + crashes

Announced(type, id) == [type |-> type, id |-> id] \in events

\* An event is published after the change it tells of, and the change is never
\* taken back: an order is not both authorized and rejected.
EventsAreTrue ==
  /\ \A o \in Order :
       /\ Announced("OrderAuthorized", o)
            => orders[o].state \notin {"APPROVAL_PENDING", "REJECTED"}
       /\ Announced("OrderRejected", o) => orders[o].state = "REJECTED"
  /\ \A i \in DOMAIN tickets :
       Announced("TicketCreated", i) => tickets[i].state # "CREATE_PENDING"

\* Whatever is cancelled, revised and undone in between, a ticket that the
\* kitchen has accepted does not await acceptance again.
AcceptedStaysAccepted ==
  \A i \in DOMAIN tickets :
    Announced("TicketAccepted", i) => tickets[i].state # "AWAITING_ACCEPTANCE"

\* No request that loaded a ticket earlier puts it back to a state it has left: a
\* cancelCreate, which saves what it loaded, never meets the accept of its ticket.
\* Not so once a crash has had confirmCreate delivered again: its failure has the
\* saga cancel a ticket that a restaurant is about to accept, and the accept is lost.
Rank(state) ==
  CASE state = "CREATE_PENDING" -> 0 [] state = "AWAITING_ACCEPTANCE" -> 1
    [] OTHER -> 2

TicketsMoveForward ==
  [][crashes = 0 =>
       \A i \in DOMAIN tickets : Rank(tickets'[i].state) >= Rank(tickets[i].state)]_vars

\* The items of an order change to a total that its revision was told of:
\* the sum of the changes and the new items agree.
RevisedTotalAsTold ==
  [][\A o \in Order :
       orders'[o].items # orders[o].items =>
         \E w \in Worker \cup Caller :
           /\ Busy(w) /\ task[w].op = "confirmRevision" /\ task[w].id = o
           /\ task[w].told = Total(orders'[o].items)]_vars

\* The create saga decides on every order, however the others fare, unless a crash
\* has an answered command handled again: the compensation may be refused then.
EveryOrderIsDecided ==
  \A o \in Order :
    <>(orders[o].state \in {"APPROVED", "REJECTED"} \/ crashes > 0)
=============================================================================
