--------------------------- MODULE CustomerOrders ---------------------------
(***************************************************************************)
(* The customers-and-orders example: the create order saga of the order    *)
(* service reserves credit at the customer service, a saga participant.    *)
(* That the saga manager drives the saga step by step is SagaManager's     *)
(* matter; here a saga is started, and moves on by one reply, at once.     *)
(***************************************************************************)
EXTENDS SagaParticipant, Functions

CONSTANTS
  Order,
  CustomerOf,     \* the ids of customers an order may name
  OrderTotal,
  CreditLimit     \* of the customers there are: a function

VARIABLES
  order,          \* the row of each order
  saga,           \* the state of its create order saga
  reservations,   \* credit_reservation: [id, order, customer]
  loaded,         \* the reservations of the customer a worker has loaded
  overlapped      \* customers that two workers have had loaded at once

coVars == <<spVars, order, saga, reservations, loaded, overlapped>>

Customer == DOMAIN CreditLimit
Reserve == "ReserveCreditCommand"
Detached == "null"     \* the customer of a reservation that was taken away

ASSUME OrdersAssumption ==
  /\ CustomerOf \in [Order -> SUBSET STRING]
  /\ OrderTotal \in [Order -> Nat] /\ CreditLimit \in [Customer -> Nat]
  /\ Detached \notin Customer

-----------------------------------------------------------------------------
(* CustomerService *)

OrderAt(w) == task[w].msg.order
Named(w) == order[OrderAt(w)].customer

ReservedBy(rows) ==
  SumFunction([r \in rows |-> OrderTotal[r.order]])

AvailableCredit(w) == CreditLimit[Named(w)] - ReservedBy(loaded[w])

CanReserve_AfterPush(w) == AvailableCredit(w) + OrderTotal[OrderAt(w)] >= 0

CanReserve(w) == AvailableCredit(w) >= OrderTotal[OrderAt(w)]

RowsOf(c) == {r \in reservations : r.customer = c}

Reserving(c) == {w \in Worker : task[w].pc = "reserving" /\ Named(w) = c}

participantRest == <<channel, received, replies, skipped>>

FindCustomer(w) ==
  /\ task[w].pc = "handling"
  /\ IF Named(w) \in Customer
     THEN /\ loaded' = [loaded EXCEPT ![w] = RowsOf(Named(w))]
          /\ Goto(w, "reserving")
          /\ overlapped' = IF Reserving(Named(w)) = {} THEN overlapped
                           ELSE overlapped \cup {Named(w)}
     ELSE /\ task' = Answered(w, "CustomerNotFound")
          /\ UNCHANGED <<loaded, overlapped>>
  /\ UNCHANGED <<participantRest, cutShort, trouble, order, saga,
                 reservations>>

\* The customer is saved with the reservations that were loaded and the new
\* one.  Its rows that are not among them lose their customer.
Saved(w, r) ==
  IF r.customer # Named(w) \/ r \in loaded[w] THEN r
  ELSE [r EXCEPT !.customer = Detached]

NewReservation(w) ==
  [id |-> Cardinality(reservations), order |-> OrderAt(w), customer |-> Named(w)]

SavedWith(w) == {Saved(w, r) : r \in reservations} \cup {NewReservation(w)}

ReserveCredit(w) ==
  /\ task[w].pc = "reserving"
  /\ IF CanReserve(w)
     THEN /\ reservations' = SavedWith(w)
          /\ task' = Answered(w, "CustomerCreditReserved")
     ELSE /\ task' = Answered(w, "CustomerCreditLimitExceeded")
          /\ UNCHANGED reservations
  /\ loaded' = [loaded EXCEPT ![w] = {}]
  /\ UNCHANGED <<participantRest, cutShort, trouble, order, saga, overlapped>>

\* A query fails, the save perhaps after it has had its effect: invoke
\* answers with a failure of another type.
HandlerFails(w) ==
  /\ task[w].pc \in {"handling", "reserving"}
  /\ Trouble
  /\ \/ UNCHANGED <<reservations, cutShort>>
     \/ /\ task[w].pc = "reserving" /\ CanReserve(w)
        /\ reservations' = SavedWith(w)
        /\ cutShort' = cutShort \cup {task[w].msg}
  /\ task' = Answered(w, "Error")
  /\ loaded' = [loaded EXCEPT ![w] = {}]
  /\ UNCHANGED <<participantRest, order, saga, overlapped>>

-----------------------------------------------------------------------------
(* CreateOrderSaga *)

Command(o, type) == [order |-> o, type |-> type]

\* The local step stores the order, and the command names its id.
Create(o, c) ==
  /\ saga[o] = "none"
  /\ order' = [order EXCEPT ![o].state = "PENDING", ![o].customer = c]
  /\ saga' = [saga EXCEPT ![o] = "reserving"]
  /\ channel' = channel \cup {Command(o, Reserve)}
  /\ UNCHANGED <<received, task, replies, skipped, cutShort, trouble,
                 reservations, loaded, overlapped>>

Approved(o) == [order EXCEPT ![o].state = "APPROVED"]

\* The compensation of the first step; the handlers of the two failures have
\* put the reason into the saga's data.
RejectionReason(outcome) ==
  CASE outcome = "CustomerNotFound" -> "UNKNOWN_CUSTOMER"
    [] outcome = "CustomerCreditLimitExceeded" -> "INSUFFICIENT_CREDIT"
    [] OTHER -> "null"

Rejected_ReasonOnly(o, outcome) ==
  [order EXCEPT ![o].rejectionReason = RejectionReason(outcome)]

Rejected(o, outcome) ==
  [order EXCEPT ![o].state = "REJECTED",
                ![o].rejectionReason = RejectionReason(outcome)]

IsSuccess_NotThatOne(outcome) == outcome # "CustomerCreditLimitExceeded"

IsSuccess(outcome) == outcome = "CustomerCreditReserved"

\* A reply for a saga that has ended is thrown out on every delivery.
HandleReply(reply) ==
  LET o == reply.to.order
  IN  /\ saga[o] = "reserving"
      /\ order' = IF IsSuccess(reply.outcome) THEN Approved(o)
                  ELSE Rejected(o, reply.outcome)
      /\ saga' = [saga EXCEPT ![o] = "ended"]
      /\ replies' = replies \ {reply}
      /\ channel' = IF reply.locked THEN channel \cup {Command(o, Unlock)}
                    ELSE channel
      /\ UNCHANGED <<received, task, skipped, cutShort, trouble,
                     reservations, loaded, overlapped>>

-----------------------------------------------------------------------------
Init ==
  /\ ParticipantInit
  /\ order = [o \in Order |-> [state |-> "none", customer |-> "none",
                             rejectionReason |-> "null"]]
  /\ saga = [o \in Order |-> "none"]
  /\ reservations = {} /\ overlapped = {}
  /\ loaded = [w \in Worker |-> {}]

exampleVars == <<order, saga, reservations, overlapped>>

\* What a worker has loaded goes with the task.
WithLoaded(w) ==
  /\ loaded' = [loaded EXCEPT ![w] = IF task'[w].pc = "idle" THEN {} ELSE @]
  /\ UNCHANGED exampleVars

Next ==
  \/ \E w \in Worker :
       \/ ParticipantStep(w) /\ WithLoaded(w)
       \/ FindCustomer(w) \/ ReserveCredit(w) \/ HandlerFails(w)
  \/ \E o \in Order : \E c \in CustomerOf[o] : Create(o, c)
  \/ \E reply \in replies : HandleReply(reply)

Spec == Init /\ [][Next]_coVars

\* A worker goes on with its message, each partition is polled again and
\* again, and so is the reply channel.
Fairness ==
  /\ \A w \in Worker :
       WF_coVars(\/ WorkerStep(w) /\ WithLoaded(w)
                 \/ FindCustomer(w) \/ ReserveCredit(w))
  /\ \A o \in Order :
       /\ SF_coVars(\E w \in Worker :
                      Fetch(w, Command(o, Reserve)) /\ WithLoaded(w))
       /\ SF_coVars(\E reply \in replies :
                      reply.to.order = o /\ HandleReply(reply))

FairSpec == Spec /\ Fairness

-----------------------------------------------------------------------------
(* Properties *)

\* Workers are at one of their steps, and a message they have is, or was, a
\* message of the channel; an order has a state its saga accounts for.
OrdersTypeOK ==
  /\ \A w \in Worker :
       /\ task[w].pc \in {"idle", "looking", "noting", "dispatching",
                          "handling", "reserving", "replying", "committing"}
       /\ task[w].pc # "idle" =>
            saga[task[w].msg.order] # "none" /\ loaded[w] \subseteq
              {[r EXCEPT !.customer = Named(w)] : r \in reservations}
  /\ \A o \in Order :
       /\ saga[o] = "reserving" <=> order[o].state = "PENDING"
       /\ saga[o] = "ended" <=> order[o].state \in {"APPROVED", "REJECTED"}
  /\ IsInjective([r \in reservations |-> r.id])

CreditRows(o) == {r \in reservations : r.order = o /\ r.customer # Detached}

\* Approved orders hold the credit they were approved for, and together they
\* stay within the customer's limit, unless two of the customer's commands
\* were between loading and saving the customer at once.
ApprovedOrdersAreCovered ==
  \A c \in Customer \ overlapped :
    LET approved == {o \in Order :
                       order[o].customer = c /\ order[o].state = "APPROVED"}
    IN  /\ \A o \in approved : CreditRows(o) # {}
        /\ SumFunctionOnSet(OrderTotal, approved) <= CreditLimit[c]

\* Only the command of an order whose handling was cut short after credit was
\* reserved can reserve it twice, or reserve it for an order that is then
\* rejected.
CreditIsReservedOnce ==
  \A o \in Order :
    Command(o, Reserve) \notin cutShort =>
      /\ Cardinality({r \in reservations : r.order = o}) <= 1
      /\ order[o].state = "REJECTED" => CreditRows(o) = {}

\* However many of its reservations are detached or doubled, what a customer
\* has reserved never exceeds the limit.
CreditWithinLimit ==
  \A c \in Customer : ReservedBy(RowsOf(c)) <= CreditLimit[c]

\* A pending order is decided in the end, unless its command was taken for
\* a duplicate.
EveryPendingOrderIsDecided ==
  \A o \in Order :
    order[o].state = "PENDING" ~>
      \/ order[o].state \in {"APPROVED", "REJECTED"}
      \/ Command(o, Reserve) \in skipped
=============================================================================
