----------------------- MODULE CustomerOrders_proofs ------------------------
(***************************************************************************)
(* What the customers-and-orders example keeps for every set of orders,    *)
(* customers, limits and workers, and whatever is redelivered or cut short. *)
(*                                                                         *)
(* A worker reserves credit against the reservations it has loaded, and    *)
(* detaches those it has not, so that what stays attached never exceeds    *)
(* the limit.  As long as no two workers have a customer loaded at once    *)
(* nothing is detached, and a message that was never cut short has one     *)
(* worker at most, whose answer is the only one there is.                  *)
(***************************************************************************)
EXTENDS CustomerOrders, SumTheorems

Pc == {"idle", "looking", "noting", "dispatching", "handling", "reserving",
       "replying", "committing"}

Message == [order : Order, type : {Reserve, Unlock}]

Outcome == {"none", "CustomerCreditReserved", "CustomerNotFound",
            "CustomerCreditLimitExceeded", "Error"}

Task == [pc : Pc, msg : Message \cup {NoMessage}, outcome : Outcome]

Reason == {"null", "UNKNOWN_CUSTOMER", "INSUFFICIENT_CREDIT"}

Reservation == [id : Nat, order : Order, customer : Customer \cup {Detached}]

EverNamed == UNION {CustomerOf[o] : o \in Order}

StateOK ==
  /\ channel \subseteq Message
  /\ task \in [Worker -> Task]
  /\ \A w \in Worker : task[w].pc # "idle" => task[w].msg \in Message
  /\ replies \subseteq [to : Message, outcome : Outcome, locked : BOOLEAN]
  /\ order \in [Order -> [state : {"none", "PENDING", "APPROVED", "REJECTED"},
                          customer : EverNamed \cup {"none"},
                          rejectionReason : Reason]]
  /\ saga \in [Order -> {"none", "reserving", "ended"}]
  /\ reservations \subseteq Reservation /\ IsFiniteSet(reservations)
  /\ loaded \in [Worker -> SUBSET Reservation]
  /\ \A w \in Worker : IsFiniteSet(loaded[w])

\* Messages, replies and reservations are of sagas that were started, and only
\* the reserve command comes to the handler.
StartedOK ==
  /\ \A m \in channel : saga[m.order] # "none"
  /\ \A w \in Worker : task[w].pc # "idle" => saga[task[w].msg.order] # "none"
  /\ \A y \in replies : saga[y.to.order] # "none" /\ y.to.type = Reserve
  /\ \A r \in reservations : saga[r.order] # "none"
  /\ \A w \in Worker :
       task[w].pc \in {"handling", "reserving", "replying"}
         => task[w].msg.type = Reserve
  /\ \A w \in Worker : task[w].pc = "reserving" => Named(w) \in Customer

SagaOK ==
  \A o \in Order :
    /\ saga[o] = "reserving" <=> order[o].state = "PENDING"
    /\ saga[o] = "ended" <=> order[o].state \in {"APPROVED", "REJECTED"}

\* Ids are counted up, and a reservation keeps its order's customer or none.
RowsOK ==
  /\ \A r \in reservations : r.id < Cardinality(reservations)
  /\ \A r, s \in reservations : r.id = s.id => r = s
  /\ \A r \in reservations : r.customer \in {order[r.order].customer, Detached}

\* What a worker has loaded are reservations of the customer it names.
LoadedOK ==
  \A w \in Worker :
    /\ task[w].pc # "reserving" => loaded[w] = {}
    /\ task[w].pc = "reserving" =>
         loaded[w] \subseteq
           {[r EXCEPT !.customer = Named(w)] : r \in reservations}

\* A customer that one worker at a time has loaded loses no reservation.
OverlapOK ==
  \A c \in Customer \ overlapped :
    /\ \A w, x \in Reserving(c) : w = x
    /\ \A w \in Reserving(c) : loaded[w] = RowsOf(c)
    /\ \A r \in reservations : order[r.order].customer = c => r.customer = c

RowsFor(o) == {r \in reservations : r.order = o}

\* Where credit is said to be reserved, there is a reservation.
GrantsOK ==
  /\ \A o \in Order : order[o].state = "APPROVED" => RowsFor(o) # {}
  /\ \A w \in Worker :
       task[w].pc = "replying" /\ IsSuccess(task[w].outcome)
         => RowsFor(OrderAt(w)) # {}
  /\ \A y \in replies : IsSuccess(y.outcome) => RowsFor(y.to.order) # {}

\* The message has been handled: nobody will handle it again.
Settled(m) ==
  /\ \A w \in Holders(m) : task[w].pc \in Written
  /\ Holders(m) = {} => m \notin channel

\* The reserve command of an order, while it has not been cut short: one worker
\* at most has it, and what that worker has done is done once.
OnceOK(o) ==
  LET m == Command(o, Reserve)
  IN  /\ \A w, x \in Holders(m) : w = x
      /\ \A r, s \in RowsFor(o) : r = s
      /\ \/ RowsFor(o) # {}
         \/ \E y \in replies : y.to = m
         \/ order[o].state \in {"APPROVED", "REJECTED"}
         => Settled(m)
      /\ \A w \in Holders(m) :
           task[w].pc = "replying" /\ ~IsSuccess(task[w].outcome)
             => RowsFor(o) = {}
      /\ \A y \in replies :
           y.to = m /\ ~IsSuccess(y.outcome) => RowsFor(o) = {}
      /\ order[o].state = "REJECTED" => RowsFor(o) = {}

AllOnce == \A o \in Order : Command(o, Reserve) \notin cutShort => OnceOK(o)

Inv ==
  /\ StateOK /\ StartedOK /\ SagaOK /\ RowsOK /\ LoadedOK /\ OverlapOK
  /\ GrantsOK /\ AllOnce /\ CreditWithinLimit

-----------------------------------------------------------------------------
(* The participant's steps: the tables are left alone *)

\* What the participant makes of a worker's task.
Takes(w, t) ==
  /\ task' = [task EXCEPT ![w] = t]
  /\ t \in Task /\ t.pc \notin {"reserving", "replying"}
  /\ t.pc # "idle" => t.msg \in Message /\ saga[t.msg.order] # "none"
  /\ t.pc = "handling" => t.msg.type = Reserve
  /\ loaded' = [loaded EXCEPT ![w] = {}]

Sends(w) ==
  \/ replies' = replies
  \/ task[w].pc = "replying" /\ replies' = replies \cup {ReplyTo(w)}

LEMMA TaskStep ==
  ASSUME Inv, NEW w \in Worker, NEW t, Takes(w, t), Sends(w),
         channel' \subseteq channel, UNCHANGED exampleVars
  PROVE  /\ StateOK' /\ StartedOK' /\ SagaOK' /\ RowsOK' /\ LoadedOK'
         /\ OverlapOK' /\ GrantsOK' /\ CreditWithinLimit'
<1>1. /\ UNCHANGED <<order, saga, reservations, overlapped>>
      /\ StateOK /\ StartedOK
  BY DEF exampleVars, Inv
<1>2. /\ task'[w] = t /\ \A v \in Worker \ {w} : task'[v] = task[v]
      /\ loaded'[w] = {} /\ \A v \in Worker \ {w} : loaded'[v] = loaded[v]
      /\ t \in Task
  BY <1>1 DEF Takes, StateOK
<1>3. task[w].pc = "replying" =>
        /\ ReplyTo(w) \in [to : Message, outcome : Outcome, locked : BOOLEAN]
        /\ ReplyTo(w).to = task[w].msg /\ ReplyTo(w).outcome = task[w].outcome
  BY <1>1 DEF ReplyTo, StateOK, Task, ClaimLock
<1>4. replies' \subseteq [to : Message, outcome : Outcome, locked : BOOLEAN]
  BY <1>1, <1>3 DEF Sends, StateOK
<1>5. StateOK'
  <2>1. task' \in [Worker -> Task] /\ loaded' \in [Worker -> SUBSET Reservation]
    BY <1>1, <1>2 DEF Takes, StateOK
  <2>2. \A v \in Worker : task'[v].pc # "idle" => task'[v].msg \in Message
    BY <1>1, <1>2 DEF Takes, StateOK
  <2>3. \A v \in Worker : IsFiniteSet(loaded'[v])
    BY <1>1, <1>2, FS_EmptySet DEF StateOK
  <2> QED BY <1>1, <1>4, <2>1, <2>2, <2>3 DEF StateOK
<1>6. StartedOK'
  <2>1. \A m \in channel' : saga[m.order] # "none"
    BY <1>1 DEF StartedOK
  <2>2. \A v \in Worker : task'[v].pc # "idle" => saga[task'[v].msg.order] # "none"
    BY <1>1, <1>2 DEF StartedOK, Takes
  <2>3. \A y \in replies' : saga[y.to.order] # "none" /\ y.to.type = Reserve
    BY <1>1, <1>3 DEF StartedOK, Sends
  <2>4. \A v \in Worker : task'[v].pc \in {"handling", "reserving", "replying"}
                            => task'[v].msg.type = Reserve
    BY <1>1, <1>2 DEF StartedOK, Takes
  <2>5. \A v \in Worker : task'[v].pc = "reserving" => Named(v)' \in Customer
    BY <1>1, <1>2 DEF StartedOK, Takes, Named, OrderAt
  <2> QED BY <1>1, <2>1, <2>2, <2>3, <2>4, <2>5 DEF StartedOK
<1>7. SagaOK' /\ RowsOK'
  BY <1>1 DEF Inv, SagaOK, RowsOK
<1>8. LoadedOK'
  BY <1>1, <1>2 DEF Inv, LoadedOK, Takes, Named, OrderAt
<1>9. OverlapOK'
  <2>1. \A c : Reserving(c)' \subseteq Reserving(c) \ {w}
    BY <1>1, <1>2 DEF Takes, Reserving, Named, OrderAt
  <2>2. \A c : RowsOf(c)' = RowsOf(c)
    BY <1>1 DEF RowsOf
  <2> QED BY <1>1, <1>2, <2>1, <2>2 DEF Inv, OverlapOK, Reserving
<1>10. GrantsOK'
  <2>1. \A o : RowsFor(o)' = RowsFor(o)
    BY <1>1 DEF RowsFor
  <2>2. \A v \in Worker : task'[v].pc = "replying" => task'[v] = task[v]
    BY <1>2 DEF Takes
  <2>3. \A y \in replies' : IsSuccess(y.outcome) => RowsFor(y.to.order) # {}
    BY <1>3 DEF Sends, Inv, GrantsOK, OrderAt
  <2> QED BY <1>1, <2>1, <2>2, <2>3 DEF Inv, GrantsOK, OrderAt
<1>11. CreditWithinLimit'
  BY <1>1 DEF Inv, CreditWithinLimit, ReservedBy, RowsOf
<1> QED BY <1>5, <1>6, <1>7, <1>8, <1>9, <1>10, <1>11

\* The worker goes on with its message.
LEMMA OnceAdvance ==
  ASSUME Inv, NEW w \in Worker, NEW t, Takes(w, t), Sends(w),
         UNCHANGED exampleVars, channel' = channel, cutShort \subseteq cutShort',
         task[w].pc # "idle", t.pc # "idle", t.msg = task[w].msg,
         task[w].pc \in Written => t.pc \in Written
  PROVE  AllOnce'
<1> SUFFICES ASSUME NEW o \in Order, Command(o, Reserve) \notin cutShort'
             PROVE  OnceOK(o)'
  BY DEF AllOnce, Command
<1> DEFINE m == Command(o, Reserve)
<1>1. /\ OnceOK(o) /\ order' = order /\ RowsFor(o)' = RowsFor(o) /\ StateOK
  BY DEF Inv, AllOnce, exampleVars, RowsFor
<1>2. task'[w] = t /\ \A v \in Worker \ {w} : task'[v] = task[v]
  BY <1>1 DEF Takes, StateOK
<1>3. Holders(m)' = Holders(m)
  BY <1>2 DEF Holders
<1>4. Settled(m) => Settled(m)'
  BY <1>2, <1>3 DEF Settled, Holders
<1>5. ASSUME NEW y \in replies' \ replies, y.to = m
      PROVE  Settled(m)' /\ (~IsSuccess(y.outcome) => RowsFor(o) = {})
  <2>1. /\ task[w].pc = "replying" /\ y.to = task[w].msg
        /\ y.outcome = task[w].outcome
    BY <1>5 DEF Sends, ReplyTo
  <2>2. w \in Holders(m) /\ \A v \in Holders(m) : v = w
    BY <1>1, <1>5, <2>1 DEF OnceOK, Holders
  <2>3. t.pc \in Written
    BY <2>1 DEF Written
  <2>4. Settled(m)'
    BY <1>2, <1>3, <2>2, <2>3 DEF Settled
  <2> QED BY <1>1, <2>1, <2>2, <2>4 DEF OnceOK
<1>6. \A v \in Holders(m) : task'[v].pc = "replying" => task'[v] = task[v]
  BY <1>2 DEF Takes, Holders
<1> HIDE DEF m
<1> QED BY <1>1, <1>3, <1>4, <1>5, <1>6 DEF OnceOK, m

\* The worker lets go of its message: it is fetched again, unless it is
\* committed.
LEMMA OnceRelease ==
  ASSUME Inv, NEW w \in Worker, NEW t, Takes(w, t), t.pc = "idle",
         UNCHANGED exampleVars, replies' = replies, cutShort \subseteq cutShort',
         task[w].pc # "idle",
         \/ /\ channel' = channel
            /\ task[w].pc \in Written => task[w].msg \in cutShort'
         \/ channel' = channel \ {task[w].msg}
  PROVE  AllOnce'
<1> SUFFICES ASSUME NEW o \in Order, Command(o, Reserve) \notin cutShort'
             PROVE  OnceOK(o)'
  BY DEF AllOnce, Command
<1> DEFINE m == Command(o, Reserve)
<1>1. /\ OnceOK(o) /\ order' = order /\ RowsFor(o)' = RowsFor(o) /\ StateOK
  BY DEF Inv, AllOnce, exampleVars, RowsFor
<1>2. task'[w] = t /\ \A v \in Worker \ {w} : task'[v] = task[v]
  BY <1>1 DEF Takes, StateOK
<1>3. Holders(m)' = Holders(m) \ {w}
  BY <1>2 DEF Holders
<1>4. ASSUME Settled(m) PROVE Settled(m)'
  <2>1. \A v \in Holders(m)' : task'[v].pc \in Written
    BY <1>2, <1>3, <1>4 DEF Settled, Holders
  <2>2. CASE w \in Holders(m)
    <3>1. task[w].pc \in Written /\ task[w].msg = m
      BY <1>4, <2>2 DEF Settled, Holders
    <3> QED BY <2>1, <3>1 DEF Settled
  <2>3. CASE w \notin Holders(m)
    <3>1. Holders(m)' = Holders(m) /\ channel' \subseteq channel
      BY <1>3, <2>3
    <3> QED BY <1>4, <2>1, <3>1 DEF Settled
  <2> QED BY <2>2, <2>3
<1>5. \A v \in Holders(m)' : v \in Holders(m) /\ task'[v] = task[v]
  BY <1>2, <1>3 DEF Holders
<1> HIDE DEF m
<1> QED BY <1>1, <1>3, <1>4, <1>5 DEF OnceOK, m

\* A message is fetched that nobody holds, or it is counted as cut short.
LEMMA OnceFetch ==
  ASSUME Inv, NEW w \in Worker, NEW t, Takes(w, t), t.msg \in channel,
         UNCHANGED exampleVars, UNCHANGED <<channel, replies>>,
         cutShort \subseteq cutShort', t.pc = "looking", task[w].pc = "idle",
         Holders(t.msg) = {} \/ t.msg \in cutShort'
  PROVE  AllOnce'
<1> SUFFICES ASSUME NEW o \in Order, Command(o, Reserve) \notin cutShort'
             PROVE  OnceOK(o)'
  BY DEF AllOnce, Command
<1> DEFINE m == Command(o, Reserve)
<1>1. /\ OnceOK(o) /\ order' = order /\ RowsFor(o)' = RowsFor(o) /\ StateOK
  BY DEF Inv, AllOnce, exampleVars, RowsFor
<1>2. task'[w] = t /\ \A v \in Worker \ {w} : task'[v] = task[v]
  BY <1>1 DEF Takes, StateOK
<1>3. CASE t.msg = m
  <2>1. Holders(m) = {} /\ ~Settled(m) /\ Holders(m)' = {w}
    BY <1>1, <1>2, <1>3 DEF Settled, Holders
  <2> HIDE DEF m
  <2> QED BY <1>1, <1>2, <2>1 DEF OnceOK, m
<1>4. CASE t.msg # m
  <2>1. Holders(m)' = Holders(m) /\ \A v \in Holders(m) : task'[v] = task[v]
    BY <1>2, <1>4 DEF Holders
  <2>2. Settled(m) => Settled(m)'
    BY <2>1 DEF Settled
  <2> HIDE DEF m
  <2> QED BY <1>1, <2>1, <2>2 DEF OnceOK, m
<1> QED BY <1>3, <1>4

LEMMA ParticipantKeeps ==
  ASSUME Inv, NEW w \in Worker, ParticipantStep(w), WithLoaded(w)
  PROVE  Inv'
<1>1. /\ StateOK /\ StartedOK /\ UNCHANGED exampleVars /\ task[w] \in Task
      /\ task[w].pc # "idle" =>
           task[w].msg \in Message /\ saga[task[w].msg.order] # "none"
  BY DEF Inv, StateOK, StartedOK, WithLoaded
<1>2. ASSUME NEW t \in Task, task' = [task EXCEPT ![w] = t],
             t.pc = "idle" \/ task[w].pc # "reserving"
      PROVE  loaded' = [loaded EXCEPT ![w] = {}]
  <2>1. task'[w] = t
    BY <1>1, <1>2 DEF StateOK
  <2>2. CASE t.pc = "idle"
    BY <2>1, <2>2 DEF WithLoaded
  <2>3. CASE t.pc # "idle"
    <3>1. loaded[w] = {}
      BY <1>2, <2>3 DEF Inv, LoadedOK
    <3> QED BY <1>1, <2>1, <2>3, <3>1 DEF WithLoaded, StateOK
  <2> QED BY <2>2, <2>3
<1>3. ASSUME NEW pc \in {"noting", "dispatching", "handling", "committing"},
             Goto(w, pc), task[w].pc \notin {"idle", "reserving"},
             task[w].pc \in Written => pc \in Written,
             pc = "handling" => task[w].msg.type = Reserve,
             channel' = channel, cutShort \subseteq cutShort', Sends(w)
      PROVE  Inv'
  <2> DEFINE t == [task[w] EXCEPT !.pc = pc]
  <2>1. /\ t \in Task /\ t.pc = pc /\ t.msg = task[w].msg
        /\ task' = [task EXCEPT ![w] = t]
    BY <1>1, <1>3 DEF Task, Pc, Goto, StateOK
  <2> HIDE DEF t
  <2>2. Takes(w, t)
    BY <1>1, <1>2, <1>3, <2>1 DEF Takes
  <2>3. AllOnce'
    BY <1>1, <1>3, <2>1, <2>2, OnceAdvance
  <2> QED BY <1>1, <1>3, <2>2, <2>3, TaskStep DEF Inv
<1>4. ASSUME task' = [task EXCEPT ![w] = IdleTask], task[w].pc # "idle",
             replies' = replies, cutShort \subseteq cutShort',
             \/ /\ channel' = channel
                /\ task[w].pc \in Written => task[w].msg \in cutShort'
             \/ channel' = channel \ {task[w].msg}
      PROVE  Inv'
  <2>1. IdleTask \in Task /\ IdleTask.pc = "idle"
    BY DEF IdleTask, Task, Pc, Outcome
  <2>2. Takes(w, IdleTask)
    BY <1>1, <1>2, <1>4, <2>1 DEF Takes
  <2>3. AllOnce'
    BY <1>1, <1>4, <2>1, <2>2, OnceRelease
  <2>4. channel' \subseteq channel /\ Sends(w)
    BY <1>4 DEF Sends
  <2> QED BY <1>1, <2>2, <2>3, <2>4, TaskStep DEF Inv
<1>5. ASSUME NEW m \in channel, Fetch(w, m) PROVE Inv'
  <2> DEFINE t == [IdleTask EXCEPT !.pc = "looking", !.msg = m]
  <2>1. /\ t \in Task /\ t.pc = "looking" /\ t.msg = m /\ m \in Message
        /\ saga[m.order] # "none"
    <3>1. m \in Message /\ saga[m.order] # "none"
      BY <1>1 DEF StateOK, StartedOK
    <3> QED BY <3>1 DEF IdleTask, Task, Pc, Outcome
  <2>2. /\ task' = [task EXCEPT ![w] = t] /\ task[w].pc = "idle"
        /\ UNCHANGED <<channel, replies>> /\ cutShort \subseteq cutShort'
        /\ Holders(m) = {} \/ m \in cutShort'
    BY <1>5 DEF Fetch
  <2> HIDE DEF t
  <2>3. Takes(w, t)
    BY <1>1, <1>2, <2>1, <2>2 DEF Takes
  <2>4. AllOnce'
    BY <1>1, <2>1, <2>2, <2>3, OnceFetch
  <2> QED BY <1>1, <2>2, <2>3, <2>4, TaskStep DEF Inv, Sends
<1>6. CASE LookUp(w)
  BY <1>3, <1>6 DEF LookUp, Sends, Written
<1>7. CASE Note(w) \/ DetectorFails(w)
  BY <1>3, <1>7 DEF Note, DetectorFails, Skip, Trouble, Sends, Written
<1>8. CASE Dispatch(w)
  <2>1. CASE Redeliver(w)
    BY <1>4, <1>8, <2>1 DEF Dispatch, Redeliver, Written
  <2>2. CASE Goto(w, "handling") /\ task[w].msg.type # Unlock
    <3>1. task[w].msg.type = Reserve
      BY <1>1, <1>8, <2>2 DEF Message, Dispatch
    <3> QED BY <1>3, <1>8, <2>2, <3>1 DEF Dispatch, Sends, Written
  <2> QED BY <1>8, <2>1, <2>2 DEF Dispatch, UnlockThrows
<1>9. CASE SendReplies(w)
  BY <1>3, <1>9 DEF SendReplies, Sends, Written
<1>10. CASE SendFails(w) \/ Crash(w) \/ Commit(w)
  BY <1>4, <1>10 DEF SendFails, Crash, Commit, Redeliver, Written
<1> QED BY <1>5, <1>6, <1>7, <1>8, <1>9, <1>10 DEF ParticipantStep, WorkerStep

-----------------------------------------------------------------------------
(* What is reserved, as a sum *)

LEMMA ReservedOfPart ==
  ASSUME NEW T, IsFiniteSet(T), T \subseteq Reservation, NEW S \in SUBSET T
  PROVE  ReservedBy(S) \in Nat /\ ReservedBy(S) <= ReservedBy(T)
<1> DEFINE v(X) == [r \in X |-> OrderTotal[r.order]]
<1>1. \A x \in T : OrderTotal[x.order] \in Nat
  BY OrdersAssumption DEF Reservation
<1>2. /\ \A x \in S : v(S)[x] \in Nat /\ v(S)[x] <= v(T)[x]
      /\ \A x \in T : v(T)[x] \in Nat
  BY <1>1
<1>3. DOMAIN v(S) = S /\ DOMAIN v(T) = T /\ IsFiniteSet(S)
  BY FS_Subset
<1>4. /\ ReservedBy(S) = SumFunctionOnSet(v(S), S)
      /\ ReservedBy(T) = SumFunctionOnSet(v(T), T)
  BY <1>3 DEF ReservedBy, SumFunction
<1> HIDE DEF v
<1>5. SumFunctionOnSet(v(S), S) \in Nat
  BY <1>2, <1>3, SumIsNat
<1>6. SumFunctionOnSet(v(S), S) <= SumFunctionOnSet(v(T), T)
  BY <1>2, SumOfPart
<1> QED BY <1>4, <1>5, <1>6

LEMMA ReservedWith ==
  ASSUME NEW S, IsFiniteSet(S), S \subseteq Reservation,
         NEW x \in Reservation
  PROVE  ReservedBy(S \cup {x}) <= ReservedBy(S) + OrderTotal[x.order]
<1> DEFINE T == S \cup {x}
           v(X) == [r \in X |-> OrderTotal[r.order]]
<1>1. \A r \in T : OrderTotal[r.order] \in Nat
  BY OrdersAssumption DEF Reservation
<1>2. /\ ReservedBy(S) \in Nat
      /\ ReservedBy(S) = SumFunctionOnSet(v(S), S)
      /\ ReservedBy(T) = SumFunctionOnSet(v(T), T)
  BY ReservedOfPart DEF ReservedBy, SumFunction
<1>3. CASE x \in S
  <2>1. S \cup {x} = S /\ OrderTotal[x.order] \in Nat
    BY <1>1, <1>3
  <2>2. ReservedBy(S \cup {x}) = ReservedBy(S)
    BY <2>1
  <2> HIDE DEF T, v
  <2> QED BY <1>2, <2>1, <2>2
<1>4. CASE x \notin S
  <2>1. /\ \A y \in T : v(T)[y] \in Nat
        /\ \A y \in S : v(S)[y] \in Nat /\ v(S)[y] = v(T)[y]
        /\ v(T)[x] = OrderTotal[x.order]
    BY <1>1
  <2> HIDE DEF v
  <2>2. SumFunctionOnSet(v(T), S \cup {x}) = SumFunctionOnSet(v(T), S) + v(T)[x]
    BY <1>4, <2>1, SumWith
  <2>3. SumFunctionOnSet(v(S), S) = SumFunctionOnSet(v(T), S)
    BY <2>1, SameSum
  <2> QED BY <1>1, <1>2, <2>1, <2>2, <2>3
<1> QED BY <1>3, <1>4

-----------------------------------------------------------------------------
(* The customer's steps *)

\* What saving the customer makes of the reservations.
LEMMA SavedRows ==
  ASSUME Inv, NEW w \in Worker, task[w].pc = "reserving",
         reservations' = SavedWith(w), order' = order
  PROVE  /\ reservations' \subseteq Reservation /\ IsFiniteSet(reservations')
         /\ RowsOK'
         /\ \A r \in reservations :
              /\ Saved(w, r) \in reservations' /\ Saved(w, r) \in Reservation
              /\ Saved(w, r).id = r.id /\ Saved(w, r).order = r.order
              /\ Saved(w, r).customer \in {r.customer, Detached}
         /\ NewReservation(w) \in Reservation
<1>1. /\ StateOK /\ RowsOK /\ task[w] \in Task /\ Named(w) \in Customer
      /\ task[w].msg \in Message /\ OrderAt(w) \in Order
      /\ reservations \subseteq Reservation /\ IsFiniteSet(reservations)
  BY DEF Inv, StateOK, StartedOK, Message, OrderAt
<1> DEFINE n == Cardinality(reservations)
           new == NewReservation(w)
           Old == {Saved(w, r) : r \in reservations}
           f == [r \in reservations |-> Saved(w, r)]
<1>2. n \in Nat
  BY <1>1, FS_CardinalityType
<1>3. /\ new \in Reservation /\ new.id = n /\ new.customer = Named(w)
      /\ new.order = OrderAt(w)
  BY <1>1, <1>2 DEF NewReservation, Reservation
<1>4. \A r \in reservations :
        /\ Saved(w, r) \in Reservation
        /\ Saved(w, r).id = r.id /\ Saved(w, r).order = r.order
        /\ Saved(w, r).customer \in {r.customer, Detached}
  BY <1>1 DEF Saved, Reservation
<1>5. reservations' = Old \cup {new}
  BY DEF SavedWith
<1>6. IsFiniteSet(Old) /\ Cardinality(Old) = n
  <2>1. f \in Bijection(reservations, Old)
    <3>1. \A r, s \in reservations : Saved(w, r) = Saved(w, s) => r = s
      BY <1>1, <1>4 DEF RowsOK
    <3> QED BY <3>1 DEF Bijection, Injection, Surjection, IsInjective
  <2>2. ExistsBijection(reservations, Old)
    BY <2>1 DEF ExistsBijection
  <2> QED BY <1>1, <2>2, FS_Bijection
<1>7. \A r \in Old : \E s \in reservations : r = Saved(w, s)
  OBVIOUS
<1>8. \A r \in Old : r.id < n /\ r.id \in Nat
  BY <1>1, <1>4 DEF RowsOK, Reservation
<1> HIDE DEF n, new, Old, f
<1>9. new \notin Old
  BY <1>2, <1>3, <1>8
<1>10. IsFiniteSet(reservations') /\ Cardinality(reservations') = n + 1
  BY <1>5, <1>6, <1>9, FS_AddElement
<1>11. RowsOK'
  <2>1. \A r \in reservations' : r.id < Cardinality(reservations')
    BY <1>2, <1>3, <1>5, <1>8, <1>10
  <2>2. \A r, s \in Old : r.id = s.id => r = s
    BY <1>1, <1>4, <1>7 DEF RowsOK
  <2>3. \A r, s \in reservations' : r.id = s.id => r = s
    BY <1>2, <1>3, <1>5, <1>8, <2>2
  <2>4. \A r \in Old : r.customer \in {order[r.order].customer, Detached}
    BY <1>1, <1>4, <1>7 DEF RowsOK
  <2>5. \A r \in reservations' : r.customer \in {order[r.order].customer, Detached}
    BY <1>3, <1>5, <2>4 DEF Named
  <2> QED BY <2>1, <2>3, <2>5 DEF RowsOK
<1> QED BY <1>1, <1>3, <1>4, <1>5, <1>7, <1>10, <1>11 DEF Old, new

LEMMA SavedLimit ==
  ASSUME Inv, NEW w \in Worker, task[w].pc = "reserving", CanReserve(w),
         reservations' = SavedWith(w), order' = order
  PROVE  CreditWithinLimit'
<1>1. /\ StateOK /\ LoadedOK /\ RowsOK /\ CreditWithinLimit
      /\ Named(w) \in Customer /\ OrderAt(w) \in Order
      /\ NewReservation(w) \in Reservation
      /\ \A r \in reservations : Saved(w, r).id = r.id
  BY SavedRows DEF Inv, StateOK, StartedOK, Message, OrderAt
<1> SUFFICES ASSUME NEW c \in Customer
             PROVE  ReservedBy(RowsOf(c)') <= CreditLimit[c]
  BY DEF CreditWithinLimit, ReservedBy
<1>2. CASE c # Named(w)
  <2>1. NewReservation(w).customer # c /\ c # Detached
    BY <1>1, <1>2, OrdersAssumption DEF NewReservation
  <2>2. \A r \in reservations :
          /\ r.customer = c => Saved(w, r) = r
          /\ Saved(w, r).customer = c => Saved(w, r) = r
    BY <1>1, <1>2, <2>1 DEF Saved, StateOK, Reservation
  <2>3. RowsOf(c)' = RowsOf(c)
    BY <2>1, <2>2 DEF RowsOf, SavedWith
  <2> QED BY <1>1, <2>3 DEF CreditWithinLimit
<1>3. CASE c = Named(w)
  <2> DEFINE L == loaded[w]
             new == NewReservation(w)
  <2>1. IsFiniteSet(L) /\ L \subseteq Reservation
    BY <1>1 DEF StateOK
  <2>2. \A r \in reservations : Saved(w, r).customer = c => Saved(w, r) \in L
    BY <1>1, <1>3, OrdersAssumption DEF Saved, StateOK, Reservation
  <2>3. RowsOf(c)' \subseteq L \cup {new}
    BY <2>2 DEF RowsOf, SavedWith
  <2>4. IsFiniteSet(L \cup {new}) /\ L \cup {new} \subseteq Reservation
    BY <1>1, <2>1, FS_AddElement
  <2>5. new.order = OrderAt(w)
    BY DEF NewReservation
  <2> HIDE DEF L, new
  <2>6. /\ ReservedBy(RowsOf(c)') <= ReservedBy(L \cup {new})
        /\ ReservedBy(RowsOf(c)') \in Nat
    BY <2>3, <2>4, ReservedOfPart
  <2>7. ReservedBy(L) \in Nat /\ ReservedBy(L \cup {new}) \in Nat
    BY <2>1, <2>4, ReservedOfPart
  <2>8. ReservedBy(L \cup {new}) <= ReservedBy(L) + OrderTotal[OrderAt(w)]
    BY <1>1, <2>1, <2>5, ReservedWith DEF new
  <2>9. /\ CreditLimit[c] - ReservedBy(L) >= OrderTotal[OrderAt(w)]
        /\ CreditLimit[c] \in Nat /\ OrderTotal[OrderAt(w)] \in Nat
    BY <1>1, <1>3, OrdersAssumption DEF CanReserve, AvailableCredit, L
  <2> QED BY <2>6, <2>7, <2>8, <2>9
<1> QED BY <1>2, <1>3

LEMMA AnswerKeeps ==
  ASSUME Inv, NEW w \in Worker, task[w].pc \in {"handling", "reserving"},
         NEW outcome \in Outcome, task' = Answered(w, outcome),
         loaded' = [loaded EXCEPT ![w] = {}],
         UNCHANGED <<channel, replies, order, saga, overlapped>>,
         cutShort \subseteq cutShort',
         \/ reservations' = reservations /\ ~IsSuccess(outcome)
         \/ /\ task[w].pc = "reserving" /\ CanReserve(w)
            /\ reservations' = SavedWith(w)
            /\ IsSuccess(outcome) \/ task[w].msg \in cutShort'
  PROVE  Inv'
<1>1. /\ StateOK /\ StartedOK /\ LoadedOK /\ RowsOK /\ SagaOK /\ OverlapOK
      /\ GrantsOK /\ AllOnce /\ CreditWithinLimit
      /\ task[w] \in Task /\ task[w].msg \in Message
      /\ task[w].msg.type = Reserve
  BY DEF Inv, StateOK, StartedOK
<1> DEFINE saves == /\ task[w].pc = "reserving" /\ CanReserve(w)
                    /\ reservations' = SavedWith(w)
                    /\ IsSuccess(outcome) \/ task[w].msg \in cutShort'
<1>2. /\ \A v \in Worker \ {w} : task'[v] = task[v]
      /\ loaded'[w] = {} /\ \A v \in Worker \ {w} : loaded'[v] = loaded[v]
  BY <1>1 DEF Answered, StateOK
<1>3. /\ task'[w] \in Task /\ task'[w].pc = "replying"
      /\ task'[w].msg = task[w].msg /\ task'[w].outcome = outcome
  <2>1. task'[w] = [task[w] EXCEPT !.pc = "replying", !.outcome = outcome]
    BY <1>1 DEF Answered, StateOK
  <2> QED BY <1>1, <2>1 DEF Task, Pc
<1>4. OrderAt(w) \in Order /\ task[w].msg = Command(OrderAt(w), Reserve)
  BY <1>1 DEF OrderAt, Message, Command
<1>5. \A v \in Worker : OrderAt(v)' = OrderAt(v) /\ Named(v)' = Named(v)
  BY <1>2, <1>3 DEF OrderAt, Named
<1>6. ASSUME NEW m PROVE Holders(m)' = Holders(m)
  <2>1. \A v \in Worker : /\ task'[v].pc = "idle" <=> task[v].pc = "idle"
                         /\ task'[v].msg = task[v].msg
    BY <1>2, <1>3
  <2> QED BY <2>1 DEF Holders
<1>7. saves \/ (reservations' = reservations /\ ~IsSuccess(outcome))
  OBVIOUS
<1>8. ASSUME saves
      PROVE  /\ reservations' \subseteq Reservation /\ IsFiniteSet(reservations')
             /\ RowsOK'
             /\ \A r \in reservations :
                  /\ Saved(w, r) \in reservations' /\ Saved(w, r) \in Reservation
                  /\ Saved(w, r).id = r.id /\ Saved(w, r).order = r.order
                  /\ Saved(w, r).customer \in {r.customer, Detached}
             /\ NewReservation(w) \in Reservation
             /\ reservations' =
                  {Saved(w, r) : r \in reservations} \cup {NewReservation(w)}
             /\ Named(w) \in Customer
             /\ NewReservation(w).order = OrderAt(w)
             /\ NewReservation(w).customer = Named(w)
  BY <1>1, <1>8, SavedRows DEF SavedWith, StartedOK, NewReservation
<1>9. StateOK'
  <2>1. task' \in [Worker -> Task] /\ loaded' \in [Worker -> SUBSET Reservation]
    BY <1>1, <1>2, <1>3 DEF StateOK, Answered
  <2>2. \A v \in Worker : task'[v].pc # "idle" => task'[v].msg \in Message
    BY <1>1, <1>2, <1>3 DEF StateOK
  <2>3. \A v \in Worker : IsFiniteSet(loaded'[v])
    BY <1>1, <1>2, FS_EmptySet DEF StateOK
  <2>4. reservations' \subseteq Reservation /\ IsFiniteSet(reservations')
    BY <1>1, <1>7, <1>8 DEF StateOK
  <2> QED BY <1>1, <2>1, <2>2, <2>3, <2>4 DEF StateOK
<1>10. StartedOK'
  <2>1. \A r \in reservations' : saga[r.order] # "none"
    <3>1. CASE saves
      BY <1>1, <1>8, <3>1 DEF StartedOK, OrderAt
    <3>2. CASE reservations' = reservations
      BY <1>1, <3>2 DEF StartedOK
    <3> QED BY <1>7, <3>1, <3>2
  <2>2. \A v \in Worker : task'[v].pc # "idle" => saga[task'[v].msg.order] # "none"
    BY <1>1, <1>2, <1>3 DEF StartedOK
  <2>3. ASSUME NEW v \in Worker,
               task'[v].pc \in {"handling", "reserving", "replying"}
        PROVE  task'[v].msg.type = Reserve
    <3>1. CASE v = w
      BY <1>1, <1>3, <3>1
    <3>2. CASE v # w
      <4>1. task'[v] = task[v]
        BY <1>2, <3>2
      <4> QED BY <1>1, <2>3, <4>1 DEF StartedOK
    <3> QED BY <3>1, <3>2
  <2>4. \A v \in Worker : task'[v].pc = "reserving" => Named(v)' \in Customer
    BY <1>1, <1>2, <1>3, <1>5 DEF StartedOK
  <2> QED BY <1>1, <2>1, <2>2, <2>3, <2>4 DEF StartedOK
<1>11. SagaOK' /\ RowsOK'
  BY <1>1, <1>7, <1>8 DEF SagaOK, RowsOK
<1>12. LoadedOK'
  <2>1. \A v \in Worker : task'[v].pc # "reserving" => loaded'[v] = {}
    BY <1>1, <1>2, <1>3 DEF LoadedOK
  <2>2. ASSUME NEW v \in Worker, task'[v].pc = "reserving", NEW r \in loaded'[v]
        PROVE  \E s \in reservations' : r = [s EXCEPT !.customer = Named(v)']
    <3>1. PICK s \in reservations : r = [s EXCEPT !.customer = Named(v)]
      BY <1>1, <1>2, <1>3, <2>2 DEF LoadedOK
    <3>2. CASE saves
      <4>1. /\ Saved(w, s) \in reservations' /\ s \in Reservation
            /\ Saved(w, s) \in Reservation
            /\ Saved(w, s).id = s.id /\ Saved(w, s).order = s.order
        BY <1>1, <1>8, <3>2 DEF StateOK
      <4>2. [Saved(w, s) EXCEPT !.customer = Named(v)]
              = [s EXCEPT !.customer = Named(v)]
        BY <4>1 DEF Reservation
      <4> QED BY <1>5, <3>1, <4>1, <4>2
    <3>3. CASE reservations' = reservations
      BY <1>5, <3>1, <3>3
    <3> QED BY <1>7, <3>2, <3>3
  <2> QED BY <2>1, <2>2 DEF LoadedOK
<1>13. OverlapOK'
  <2> SUFFICES ASSUME NEW c \in Customer \ overlapped
               PROVE  /\ \A v, x \in Reserving(c)' : v = x
                      /\ \A v \in Reserving(c)' : loaded'[v] = RowsOf(c)'
                      /\ \A r \in reservations' :
                           order[r.order].customer = c => r.customer = c
    BY DEF OverlapOK
  <2>1. Reserving(c)' = Reserving(c) \ {w} /\ Reserving(c) \subseteq Worker
    <3>1. \A v \in Worker : task'[v].pc = "reserving"
                             <=> v # w /\ task[v].pc = "reserving"
      BY <1>2, <1>3
    <3> QED BY <1>5, <3>1 DEF Reserving
  <2>2. \A v, x \in Reserving(c)' : v = x
    BY <1>1, <2>1 DEF OverlapOK
  <2>3. CASE reservations' = reservations
    BY <1>1, <1>2, <2>1, <2>2, <2>3 DEF OverlapOK, RowsOf
  <2>4. CASE saves /\ c = Named(w)
    <3>1. w \in Reserving(c)
      BY <2>4 DEF Reserving
    <3>2. Reserving(c)' = {} /\ loaded[w] = RowsOf(c)
      BY <1>1, <2>1, <3>1 DEF OverlapOK
    <3>3. \A r \in reservations : Saved(w, r) = r
      BY <2>4, <3>2 DEF Saved, RowsOf
    <3>4. \A r \in reservations : order[r.order].customer = c => r.customer = c
      BY <1>1 DEF OverlapOK
    <3> QED BY <1>8, <2>4, <3>2, <3>3, <3>4
  <2>5. CASE saves /\ c # Named(w)
    <3>1. c # Detached
      BY OrdersAssumption
    <3>2. \A r \in reservations :
            /\ r.customer = c => Saved(w, r) = r
            /\ Saved(w, r).customer = c => Saved(w, r) = r
      BY <1>1, <2>5, <3>1 DEF Saved, StateOK, Reservation
    <3>3. RowsOf(c)' = RowsOf(c)
      BY <1>8, <2>5, <3>2 DEF RowsOf
    <3>4. \A r \in reservations : order[r.order].customer = c => r.customer = c
      BY <1>1 DEF OverlapOK
    <3>5. order[OrderAt(w)].customer # c
      BY <2>5 DEF Named
    <3>6. \A r \in reservations' : order[r.order].customer = c => r.customer = c
      BY <1>8, <2>5, <3>2, <3>4, <3>5
    <3>7. \A v \in Reserving(c)' : loaded'[v] = RowsOf(c)
      BY <1>1, <1>2, <2>1 DEF OverlapOK
    <3> QED BY <2>2, <3>3, <3>6, <3>7
  <2> QED BY <1>7, <2>3, <2>4, <2>5
<1>14. /\ \A o : RowsFor(o) # {} => {r \in reservations' : r.order = o} # {}
       /\ saves => {r \in reservations' : r.order = OrderAt(w)} # {}
  <2>1. ASSUME NEW o, RowsFor(o) # {}
        PROVE  {r \in reservations' : r.order = o} # {}
    <3>1. PICK r \in reservations : r.order = o
      BY <2>1 DEF RowsFor
    <3>2. saves => Saved(w, r) \in reservations' /\ Saved(w, r).order = o
      BY <1>8, <3>1
    <3> QED BY <1>7, <3>1, <3>2
  <2>2. ASSUME saves PROVE {r \in reservations' : r.order = OrderAt(w)} # {}
    <3>1. NewReservation(w) \in reservations' /\ NewReservation(w).order = OrderAt(w)
      BY <1>8, <2>2
    <3> QED BY <3>1
  <2> QED BY <2>1, <2>2
<1>15. GrantsOK'
  <2>1. ASSUME NEW v \in Worker, task'[v].pc = "replying", IsSuccess(task'[v].outcome)
        PROVE  {r \in reservations' : r.order = OrderAt(v)} # {}
    <3>1. CASE v = w
      BY <1>3, <1>7, <1>14, <2>1, <3>1 DEF IsSuccess, RowsFor
    <3>2. CASE v # w
      <4>1. RowsFor(OrderAt(v)) # {}
        BY <1>1, <1>2, <2>1, <3>2 DEF GrantsOK
      <4> QED BY <1>14, <4>1 DEF RowsFor
    <3> QED BY <3>1, <3>2
  <2>2. \A v \in Worker : task'[v].pc = "replying" /\ IsSuccess(task'[v].outcome)
                           => {r \in reservations' : r.order = OrderAt(v)'} # {}
    BY <1>5, <2>1
  <2>3. \A y \in replies : IsSuccess(y.outcome)
                             => {r \in reservations' : r.order = y.to.order} # {}
    BY <1>1, <1>14 DEF GrantsOK
  <2>4. \A o \in Order : order[o].state = "APPROVED"
                           => {r \in reservations' : r.order = o} # {}
    BY <1>1, <1>14 DEF GrantsOK
  <2>5. UNCHANGED <<order, replies>>
    OBVIOUS
  <2> QED BY <2>2, <2>3, <2>4, <2>5 DEF GrantsOK, RowsFor, IsSuccess
<1>16. CreditWithinLimit'
  <2>1. CASE saves
    BY <2>1, SavedLimit
  <2>2. CASE reservations' = reservations
    BY <1>1, <2>2 DEF CreditWithinLimit, RowsOf
  <2> QED BY <1>7, <2>1, <2>2
<1>17. AllOnce'
  <2> SUFFICES ASSUME NEW o \in Order, Command(o, Reserve) \notin cutShort'
               PROVE  OnceOK(o)'
    BY DEF AllOnce, Command
  <2> DEFINE m == Command(o, Reserve)
  <2>1. OnceOK(o)
    BY <1>1 DEF AllOnce
  <2>2. CASE o # OrderAt(w)
    <3>1. w \notin Holders(m) /\ Holders(m) \subseteq Worker
      BY <1>4, <2>2 DEF Holders, Command
    <3>2. \A v \in Holders(m) : task'[v] = task[v]
      BY <1>2, <3>1
    <3>3. /\ RowsFor(o) = {} => RowsFor(o)' = {}
          /\ \A r, s \in RowsFor(o)' : r = s
      <4>1. CASE saves
        <5>1. \A r \in RowsFor(o)' : \E s \in RowsFor(o) : r = Saved(w, s)
          BY <1>8, <2>2, <4>1 DEF RowsFor
        <5> QED BY <2>1, <5>1 DEF OnceOK
      <4>2. CASE reservations' = reservations
        BY <2>1, <4>2 DEF OnceOK, RowsFor
      <4> QED BY <1>7, <4>1, <4>2
    <3>4. Settled(m) => Settled(m)'
      BY <1>6, <3>2 DEF Settled
    <3> HIDE DEF m
    <3> QED BY <1>6, <2>1, <3>2, <3>3, <3>4, <1>14 DEF OnceOK, m
  <2>3. CASE o = OrderAt(w)
    <3>1. w \in Holders(m) /\ \A v \in Holders(m) : v = w
      BY <1>4, <2>1, <2>3 DEF Holders, OnceOK
    <3>2. task[w].pc \notin Written
      BY DEF Written
    <3>3. ~Settled(m)
      BY <3>1, <3>2 DEF Settled
    <3>4. /\ RowsFor(o) = {} /\ ~ \E y \in replies : y.to = m
          /\ order[o].state \notin {"APPROVED", "REJECTED"}
      BY <2>1, <3>3 DEF OnceOK
    <3>5. Settled(m)'
      BY <1>3, <1>6, <3>1 DEF Settled, Written
    <3>6. /\ \A r, s \in RowsFor(o)' : r = s
          /\ ~IsSuccess(outcome) => RowsFor(o)' = {}
      <4>1. CASE saves
        <5>1. \A r \in RowsFor(o)' : r = NewReservation(w)
          BY <1>8, <3>4, <4>1 DEF RowsFor
        <5> QED BY <1>4, <2>3, <4>1, <5>1
      <4>2. CASE reservations' = reservations
        BY <3>4, <4>2 DEF RowsFor
      <4> QED BY <1>7, <4>1, <4>2
    <3> HIDE DEF m
    <3> QED BY <1>3, <1>6, <3>1, <3>4, <3>5, <3>6 DEF OnceOK, m
  <2> QED BY <2>2, <2>3
<1> QED BY <1>9, <1>10, <1>11, <1>12, <1>13, <1>15, <1>16, <1>17 DEF Inv

LEMMA LoadKeeps ==
  ASSUME Inv, NEW w \in Worker, task[w].pc = "handling", FindCustomer(w),
         Named(w) \in Customer
  PROVE  Inv'
<1>1. /\ StateOK /\ StartedOK /\ LoadedOK /\ RowsOK /\ SagaOK /\ OverlapOK
      /\ GrantsOK /\ AllOnce /\ CreditWithinLimit
      /\ task[w] \in Task /\ task[w].msg \in Message
      /\ task[w].msg.type = Reserve
  BY DEF Inv, StateOK, StartedOK
<1>2. /\ UNCHANGED <<participantRest, cutShort, trouble, order, saga, reservations>>
      /\ loaded' = [loaded EXCEPT ![w] = RowsOf(Named(w))]
      /\ task' = [task EXCEPT ![w].pc = "reserving"]
      /\ overlapped' = IF Reserving(Named(w)) = {} THEN overlapped
                       ELSE overlapped \cup {Named(w)}
  BY DEF FindCustomer, Goto
<1>3. /\ \A v \in Worker \ {w} : task'[v] = task[v] /\ loaded'[v] = loaded[v]
      /\ loaded'[w] = RowsOf(Named(w))
      /\ task'[w] \in Task /\ task'[w].pc = "reserving"
      /\ task'[w].msg = task[w].msg
  <2>1. task'[w] = [task[w] EXCEPT !.pc = "reserving"]
    BY <1>1, <1>2 DEF StateOK
  <2>2. task'[w] \in Task /\ task'[w].pc = "reserving" /\ task'[w].msg = task[w].msg
    BY <1>1, <2>1 DEF Task, Pc
  <2> QED BY <1>1, <1>2, <2>2 DEF StateOK
<1>4. UNCHANGED <<channel, replies, order, saga, reservations, cutShort>>
  BY <1>2 DEF participantRest
<1>5. ASSUME NEW v \in Worker PROVE OrderAt(v)' = OrderAt(v) /\ Named(v)' = Named(v)
  BY <1>3, <1>4 DEF OrderAt, Named
<1>6. RowsOf(Named(w)) \subseteq Reservation /\ IsFiniteSet(RowsOf(Named(w)))
  BY <1>1, FS_Subset DEF RowsOf, StateOK
<1>7. StateOK'
  <2>1. task' \in [Worker -> Task] /\ loaded' \in [Worker -> SUBSET Reservation]
    BY <1>1, <1>2, <1>3, <1>6 DEF StateOK
  <2>2. \A v \in Worker : task'[v].pc # "idle" => task'[v].msg \in Message
    BY <1>1, <1>3 DEF StateOK
  <2>3. \A v \in Worker : IsFiniteSet(loaded'[v])
    BY <1>1, <1>3, <1>6 DEF StateOK
  <2> QED BY <1>1, <1>4, <2>1, <2>2, <2>3 DEF StateOK
<1>8. StartedOK'
  <2>1. \A v \in Worker : task'[v].pc # "idle" => saga[task'[v].msg.order] # "none"
    BY <1>1, <1>3 DEF StartedOK
  <2>2. \A v \in Worker : task'[v].pc \in {"handling", "reserving", "replying"}
                            => task'[v].msg.type = Reserve
    BY <1>1, <1>3 DEF StartedOK
  <2>3. \A v \in Worker : task'[v].pc = "reserving" => Named(v)' \in Customer
    BY <1>1, <1>3, <1>5 DEF StartedOK
  <2> QED BY <1>1, <1>4, <2>1, <2>2, <2>3 DEF StartedOK
<1>9. SagaOK' /\ RowsOK' /\ CreditWithinLimit'
  BY <1>1, <1>4 DEF SagaOK, RowsOK, CreditWithinLimit, RowsOf
<1>10. LoadedOK'
  <2>1. \A v \in Worker : task'[v].pc # "reserving" => loaded'[v] = {}
    BY <1>1, <1>3 DEF LoadedOK
  <2>2. ASSUME NEW v \in Worker, task'[v].pc = "reserving", NEW r \in loaded'[v]
        PROVE  \E s \in reservations' : r = [s EXCEPT !.customer = Named(v)']
    <3>1. CASE v = w
      <4>1. r \in reservations /\ r.customer = Named(w) /\ r \in Reservation
        BY <1>1, <1>3, <2>2, <3>1 DEF RowsOf, StateOK
      <4>2. r = [r EXCEPT !.customer = Named(w)]
        BY <4>1 DEF Reservation
      <4> QED BY <1>4, <1>5, <3>1, <4>1, <4>2
    <3>2. CASE v # w
      <4>1. PICK s \in reservations : r = [s EXCEPT !.customer = Named(v)]
        BY <1>1, <1>3, <2>2, <3>2 DEF LoadedOK
      <4> QED BY <1>4, <1>5, <4>1
    <3> QED BY <3>1, <3>2
  <2> QED BY <2>1, <2>2 DEF LoadedOK
<1>11. OverlapOK'
  <2> SUFFICES ASSUME NEW c \in Customer, c \notin overlapped'
               PROVE  /\ \A v, x \in Reserving(c)' : v = x
                      /\ \A v \in Reserving(c)' : loaded'[v] = RowsOf(c)'
                      /\ \A r \in reservations' :
                           order'[r.order].customer = c => r.customer = c
    BY DEF OverlapOK
  <2>1. \A v \in Worker : task'[v].pc = "reserving"
                          <=> v = w \/ task[v].pc = "reserving"
    BY <1>3
  <2>2. /\ \A r \in reservations' : order'[r.order].customer = c => r.customer = c
        /\ c \notin overlapped /\ RowsOf(c)' = RowsOf(c)
    BY <1>1, <1>2, <1>4 DEF OverlapOK, RowsOf
  <2>3. CASE c = Named(w)
    <3>1. Reserving(c) = {}
      BY <1>2, <2>3
    <3>2. Reserving(c)' = {w}
      BY <1>5, <2>1, <2>3, <3>1 DEF Reserving
    <3> QED BY <1>3, <2>2, <2>3, <3>2
  <2>4. CASE c # Named(w)
    <3>1. Reserving(c)' = Reserving(c) /\ w \notin Reserving(c)'
      BY <1>5, <2>1, <2>4 DEF Reserving
    <3>2. \A v \in Reserving(c) : loaded'[v] = RowsOf(c)
      BY <1>1, <1>3, <2>2, <3>1 DEF OverlapOK, Reserving
    <3> QED BY <1>1, <2>2, <3>1, <3>2 DEF OverlapOK
  <2> QED BY <2>3, <2>4
<1>12. GrantsOK'
  <2>1. ASSUME NEW o PROVE RowsFor(o)' = RowsFor(o)
    BY <1>4 DEF RowsFor
  <2>2. \A v \in Worker : task'[v].pc = "replying" => task'[v] = task[v]
    BY <1>3
  <2> QED BY <1>1, <1>4, <2>1, <2>2 DEF GrantsOK, OrderAt, RowsFor
<1>13. AllOnce'
  <2> SUFFICES ASSUME NEW o \in Order, Command(o, Reserve) \notin cutShort'
               PROVE  OnceOK(o)'
    BY DEF AllOnce, Command
  <2> DEFINE m == Command(o, Reserve)
  <2>1. OnceOK(o) /\ RowsFor(o)' = RowsFor(o)
    BY <1>1, <1>4 DEF AllOnce, RowsFor
  <2>2. /\ \A v \in Worker : (task'[v].pc = "idle") = (task[v].pc = "idle")
        /\ \A v \in Worker : task[v].pc \in Written => task'[v].pc \in Written
        /\ \A v \in Worker : task'[v].msg = task[v].msg
        /\ \A v \in Worker : task'[v].pc = "replying" => task'[v] = task[v]
    <3>1. ASSUME NEW v \in Worker, v # w PROVE task'[v] = task[v]
      BY <1>3, <3>1
    <3>2. task[w].pc \notin Written
      BY DEF Written
    <3> QED BY <1>3, <3>1, <3>2
  <2>3. Holders(m)' = Holders(m) /\ Holders(m) \subseteq Worker
    BY <2>2 DEF Holders
  <2>4. Settled(m) => Settled(m)'
    BY <1>4, <2>2, <2>3 DEF Settled
  <2> HIDE DEF m
  <2> QED BY <1>4, <2>1, <2>2, <2>3, <2>4 DEF OnceOK, m
<1> QED BY <1>7, <1>8, <1>9, <1>10, <1>11, <1>12, <1>13 DEF Inv

LEMMA CustomerKeeps ==
  ASSUME Inv, NEW w \in Worker,
         FindCustomer(w) \/ ReserveCredit(w) \/ HandlerFails(w)
  PROVE  Inv'
<1>1. ASSUME task[w].pc = "handling" PROVE loaded = [loaded EXCEPT ![w] = {}]
  <2>1. loaded[w] = {} /\ loaded \in [Worker -> SUBSET Reservation]
    BY <1>1 DEF Inv, LoadedOK, StateOK
  <2> QED BY <2>1
<1>2. CASE FindCustomer(w)
  <2>1. CASE Named(w) \in Customer
    BY <1>2, <2>1, LoadKeeps DEF FindCustomer
  <2>2. CASE Named(w) \notin Customer
    <3> DEFINE outcome == "CustomerNotFound"
    <3>1. outcome \in Outcome /\ ~IsSuccess(outcome)
      BY DEF Outcome, IsSuccess
    <3>2. /\ task' = Answered(w, outcome) /\ loaded' = [loaded EXCEPT ![w] = {}]
          /\ UNCHANGED <<channel, replies, order, saga, overlapped, reservations,
                         cutShort>>
          /\ task[w].pc = "handling"
      BY <1>1, <1>2, <2>2 DEF FindCustomer, participantRest
    <3> HIDE DEF outcome
    <3> QED BY <3>1, <3>2, AnswerKeeps
  <2> QED BY <2>1, <2>2
<1>3. CASE ReserveCredit(w)
  <2> DEFINE outcome == IF CanReserve(w) THEN "CustomerCreditReserved"
                        ELSE "CustomerCreditLimitExceeded"
  <2>1. outcome \in Outcome /\ (IsSuccess(outcome) <=> CanReserve(w))
    BY DEF Outcome, IsSuccess
  <2>2. /\ task' = Answered(w, outcome) /\ loaded' = [loaded EXCEPT ![w] = {}]
        /\ UNCHANGED <<channel, replies, order, saga, overlapped, cutShort>>
        /\ task[w].pc = "reserving"
        /\ IF CanReserve(w) THEN reservations' = SavedWith(w)
           ELSE UNCHANGED reservations
    BY <1>3 DEF ReserveCredit, participantRest
  <2> HIDE DEF outcome
  <2> QED BY <2>1, <2>2, AnswerKeeps
<1>4. CASE HandlerFails(w)
  <2> DEFINE outcome == "Error"
  <2>1. outcome \in Outcome /\ ~IsSuccess(outcome)
    BY DEF Outcome, IsSuccess
  <2>2. /\ task' = Answered(w, outcome) /\ loaded' = [loaded EXCEPT ![w] = {}]
        /\ UNCHANGED <<channel, replies, order, saga, overlapped>>
        /\ task[w].pc \in {"handling", "reserving"}
        /\ cutShort \subseteq cutShort'
        /\ \/ UNCHANGED reservations
           \/ /\ task[w].pc = "reserving" /\ CanReserve(w)
              /\ reservations' = SavedWith(w)
              /\ task[w].msg \in cutShort'
    BY <1>4 DEF HandlerFails, participantRest
  <2> HIDE DEF outcome
  <2> QED BY <2>1, <2>2, AnswerKeeps
<1> QED BY <1>2, <1>3, <1>4

-----------------------------------------------------------------------------
(* The saga's steps *)

\* A row of the order table changes, and perhaps a message is sent.
LEMMA SagaStep ==
  ASSUME Inv, NEW o \in Order, NEW row, NEW s \in {"reserving", "ended"},
         row \in [state : {"PENDING", "APPROVED", "REJECTED"},
                 customer : EverNamed \cup {"none"},
                 rejectionReason : Reason],
         saga[o] = "none" \/ row.customer = order[o].customer,
         s = "reserving" <=> row.state = "PENDING",
         row.state = "APPROVED" => RowsFor(o) # {},
         order' = [order EXCEPT ![o] = row], saga' = [saga EXCEPT ![o] = s],
         channel \subseteq channel',
         \A m \in channel' \ channel : m \in Message /\ m.order = o,
         replies' \subseteq replies,
         UNCHANGED <<task, reservations, loaded, overlapped, cutShort>>
  PROVE  /\ StateOK' /\ StartedOK' /\ SagaOK' /\ RowsOK' /\ LoadedOK'
         /\ OverlapOK' /\ GrantsOK' /\ CreditWithinLimit'
<1>1. /\ StateOK /\ StartedOK /\ SagaOK /\ RowsOK /\ LoadedOK /\ OverlapOK
      /\ GrantsOK /\ CreditWithinLimit
  BY DEF Inv
<1>2. /\ order'[o] = row /\ \A p \in Order \ {o} : order'[p] = order[p]
      /\ saga'[o] = s /\ \A p \in Order \ {o} : saga'[p] = saga[p]
  BY <1>1 DEF StateOK
<1>3. \A p \in Order : saga[p] # "none" => /\ saga'[p] # "none"
                                         /\ order'[p].customer = order[p].customer
  BY <1>2
<1>4. \A w \in Worker : task[w].pc # "idle" =>
        OrderAt(w) \in Order /\ saga[OrderAt(w)] # "none"
  BY <1>1 DEF StateOK, StartedOK, OrderAt, Message
<1>5. \A w \in Worker : task[w].pc # "idle" => Named(w)' = Named(w)
  BY <1>3, <1>4 DEF Named, OrderAt
<1>6. \A r \in reservations : /\ r.order \in Order /\ saga[r.order] # "none"
                             /\ order'[r.order].customer = order[r.order].customer
  BY <1>1, <1>3 DEF StateOK, StartedOK, Reservation
<1>7. StateOK'
  <2>1. order' \in [Order ->
          [state : {"none", "PENDING", "APPROVED", "REJECTED"},
           customer : EverNamed \cup {"none"},
           rejectionReason : Reason]]
    BY <1>1 DEF StateOK
  <2>2. saga' \in [Order -> {"none", "reserving", "ended"}]
    BY <1>1 DEF StateOK
  <2>3. channel' \subseteq Message
    BY <1>1 DEF StateOK
  <2> QED BY <1>1, <2>1, <2>2, <2>3 DEF StateOK
<1>8. StartedOK'
  <2>1. \A m \in channel' : saga'[m.order] # "none"
    BY <1>1, <1>2, <1>3 DEF StateOK, StartedOK, Message
  <2>2. \A w \in Worker : task[w].pc # "idle" => saga'[task[w].msg.order] # "none"
    BY <1>1, <1>3 DEF StateOK, StartedOK, Message
  <2>3. \A y \in replies' : saga'[y.to.order] # "none" /\ y.to.type = Reserve
    BY <1>1, <1>3 DEF StateOK, StartedOK, Message
  <2>4. \A r \in reservations : saga'[r.order] # "none"
    BY <1>3, <1>6
  <2>5. \A w \in Worker : task[w].pc = "reserving" => Named(w)' \in Customer
    BY <1>1, <1>5 DEF StartedOK
  <2> QED BY <1>1, <2>1, <2>2, <2>3, <2>4, <2>5 DEF StartedOK
<1>9. SagaOK'
  BY <1>1, <1>2 DEF SagaOK
<1>10. RowsOK'
  BY <1>1, <1>6 DEF RowsOK
<1>11. LoadedOK'
  BY <1>1, <1>5 DEF LoadedOK
<1>12. OverlapOK'
  <2>1. ASSUME NEW c PROVE Reserving(c)' = Reserving(c) /\ RowsOf(c)' = RowsOf(c)
    BY <1>5 DEF Reserving, RowsOf
  <2>2. \A c \in Customer \ overlapped : \A r \in reservations :
          order'[r.order].customer = c => r.customer = c
    BY <1>1, <1>6 DEF OverlapOK
  <2> QED BY <1>1, <2>1, <2>2 DEF OverlapOK
<1>13. GrantsOK'
  <2>1. \A p \in Order : order'[p].state = "APPROVED" => RowsFor(p) # {}
    BY <1>1, <1>2 DEF GrantsOK
  <2> QED BY <1>1, <2>1 DEF GrantsOK, RowsFor, OrderAt
<1>14. CreditWithinLimit'
  BY <1>1 DEF CreditWithinLimit, RowsOf
<1> QED BY <1>7, <1>8, <1>9, <1>10, <1>11, <1>12, <1>13, <1>14

LEMMA CreateKeeps ==
  ASSUME Inv, NEW o \in Order, NEW c \in CustomerOf[o], Create(o, c)
  PROVE  Inv'
<1> DEFINE row == [order[o] EXCEPT !.state = "PENDING", !.customer = c]
<1>1. /\ StateOK /\ StartedOK /\ AllOnce /\ SagaOK
      /\ saga[o] = "none" /\ saga' = [saga EXCEPT ![o] = "reserving"]
      /\ channel' = channel \cup {Command(o, Reserve)}
      /\ UNCHANGED <<task, replies, reservations, loaded, overlapped, cutShort>>
      /\ order' = [order EXCEPT ![o] = row]
  BY DEF Inv, Create, StateOK
<1>2. /\ row \in [state : {"PENDING", "APPROVED", "REJECTED"},
                  customer : EverNamed \cup {"none"},
                  rejectionReason : Reason]
      /\ row.state = "PENDING"
  <2>1. c \in EverNamed
    BY DEF EverNamed
  <2> QED BY <1>1, <2>1 DEF StateOK
<1>3. Command(o, Reserve) \in Message /\ Command(o, Reserve).order = o
  BY DEF Command, Message
<1> HIDE DEF row
<1>4. /\ StateOK' /\ StartedOK' /\ SagaOK' /\ RowsOK' /\ LoadedOK'
      /\ OverlapOK' /\ GrantsOK' /\ CreditWithinLimit'
  BY <1>1, <1>2, <1>3, SagaStep
<1>5. AllOnce'
  <2> SUFFICES ASSUME NEW p \in Order, Command(p, Reserve) \notin cutShort'
               PROVE  OnceOK(p)'
    BY DEF AllOnce, Command
  <2> DEFINE m == Command(p, Reserve)
  <2>1. OnceOK(p) /\ RowsFor(p)' = RowsFor(p) /\ Holders(m)' = Holders(m)
    BY <1>1 DEF AllOnce, RowsFor, Holders
  <2>2. CASE p = o
    <3>1. /\ Holders(m) = {} /\ RowsFor(p) = {} /\ ~ \E y \in replies : y.to = m
      BY <1>1, <2>2 DEF StartedOK, Holders, RowsFor, Command
    <3>2. order'[p].state = "PENDING"
      BY <1>1, <1>2, <2>2 DEF StateOK
    <3> HIDE DEF m
    <3> QED BY <1>1, <2>1, <3>1, <3>2 DEF OnceOK, m
  <2>3. CASE p # o
    <3>1. order'[p] = order[p]
      BY <1>1, <2>3 DEF StateOK
    <3>2. Command(o, Reserve) # m
      BY <2>3 DEF Command
    <3>3. Settled(m) => Settled(m)'
      BY <1>1, <2>1, <3>2 DEF Settled
    <3> HIDE DEF m
    <3> QED BY <1>1, <2>1, <3>1, <3>3 DEF OnceOK, m
  <2> QED BY <2>2, <2>3
<1> QED BY <1>4, <1>5 DEF Inv

LEMMA ReplyKeeps ==
  ASSUME Inv, NEW reply \in replies, HandleReply(reply)
  PROVE  Inv'
<1> DEFINE o == reply.to.order
           row == IF IsSuccess(reply.outcome)
                  THEN [order[o] EXCEPT !.state = "APPROVED"]
                  ELSE [order[o] EXCEPT !.state = "REJECTED",
                          !.rejectionReason = RejectionReason(reply.outcome)]
<1>1. /\ StateOK /\ StartedOK /\ AllOnce /\ SagaOK /\ GrantsOK
      /\ reply.to \in Message /\ o \in Order /\ reply.to.type = Reserve
  BY DEF Inv, StateOK, StartedOK, Message
<1>2. /\ saga[o] = "reserving" /\ saga' = [saga EXCEPT ![o] = "ended"]
      /\ channel' \subseteq channel \cup {Command(o, Unlock)}
      /\ channel \subseteq channel' /\ replies' = replies \ {reply}
      /\ UNCHANGED <<task, reservations, loaded, overlapped, cutShort>>
      /\ order' = [order EXCEPT ![o] = row]
  BY <1>1 DEF HandleReply, Approved, Rejected, StateOK
<1>3. /\ row \in [state : {"PENDING", "APPROVED", "REJECTED"},
                  customer : EverNamed \cup {"none"},
                  rejectionReason : Reason]
      /\ row.state = IF IsSuccess(reply.outcome) THEN "APPROVED" ELSE "REJECTED"
      /\ row.customer = order[o].customer
  <2>1. RejectionReason(reply.outcome) \in Reason
    BY DEF RejectionReason, Reason
  <2>2. order[o] \in [state : {"none", "PENDING", "APPROVED", "REJECTED"},
                      customer : EverNamed \cup {"none"},
                      rejectionReason : Reason]
    BY <1>1 DEF StateOK
  <2>3. CASE IsSuccess(reply.outcome)
    BY <2>2, <2>3
  <2>4. CASE ~IsSuccess(reply.outcome)
    BY <2>1, <2>2, <2>4
  <2> QED BY <2>3, <2>4
<1>4. Command(o, Unlock) \in Message /\ Command(o, Unlock).order = o
  BY <1>1 DEF Command, Message
<1>5. reply.to = Command(o, Reserve)
  BY <1>1 DEF Command, Message
<1> HIDE DEF row
<1>6. row.state = "APPROVED" => RowsFor(o) # {}
  BY <1>1, <1>3 DEF GrantsOK
<1>7. /\ StateOK' /\ StartedOK' /\ SagaOK' /\ RowsOK' /\ LoadedOK'
      /\ OverlapOK' /\ GrantsOK' /\ CreditWithinLimit'
  <2>1. "ended" = "reserving" <=> row.state = "PENDING"
    BY <1>3
  <2> QED BY <1>1, <1>2, <1>3, <1>4, <1>6, <2>1, SagaStep
<1>8. AllOnce'
  <2> SUFFICES ASSUME NEW p \in Order, Command(p, Reserve) \notin cutShort'
               PROVE  OnceOK(p)'
    BY DEF AllOnce, Command
  <2> DEFINE m == Command(p, Reserve)
  <2>1. OnceOK(p) /\ RowsFor(p)' = RowsFor(p) /\ Holders(m)' = Holders(m)
    BY <1>1, <1>2 DEF AllOnce, RowsFor, Holders
  <2>2. Command(o, Unlock) # m
    BY DEF Command, Unlock, Reserve
  <2>3. Settled(m) => Settled(m)'
    BY <1>2, <2>1, <2>2 DEF Settled
  <2>4. CASE p = o
    <3>1. order'[p] = row
      BY <1>1, <1>2, <2>4 DEF StateOK
    <3>2. Settled(m) /\ (~IsSuccess(reply.outcome) => RowsFor(p) = {})
      BY <1>5, <2>1, <2>4 DEF OnceOK
    <3> HIDE DEF m
    <3> QED BY <1>2, <1>3, <2>1, <2>3, <3>1, <3>2 DEF OnceOK, m
  <2>5. CASE p # o
    <3>1. order'[p] = order[p]
      BY <1>1, <1>2, <2>5 DEF StateOK
    <3> HIDE DEF m
    <3> QED BY <1>2, <2>1, <2>3, <3>1 DEF OnceOK, m
  <2> QED BY <2>4, <2>5
<1> QED BY <1>7, <1>8 DEF Inv

-----------------------------------------------------------------------------
(* The theorems *)

LEMMA InitInv ==
  ASSUME Init PROVE Inv
<1>1. /\ task = [w \in Worker |-> IdleTask] /\ channel = {} /\ replies = {}
      /\ saga = [o \in Order |-> "none"]
      /\ order = [o \in Order |-> [state |-> "none", customer |-> "none",
                                  rejectionReason |-> "null"]]
      /\ reservations = {} /\ overlapped = {}
      /\ loaded = [w \in Worker |-> {}]
  BY DEF Init, ParticipantInit
<1>2. /\ IdleTask \in Task /\ IdleTask.pc = "idle"
      /\ \A w \in Worker : task[w] = IdleTask
  BY <1>1 DEF IdleTask, Task, Pc, Outcome
<1>3. StateOK
  <2>1. IsFiniteSet({})
    BY FS_EmptySet
  <2>2. task \in [Worker -> Task] /\ loaded \in [Worker -> SUBSET Reservation]
    BY <1>1, <1>2
  <2>3. order \in [Order -> [state : {"none", "PENDING", "APPROVED", "REJECTED"},
                            customer : EverNamed \cup {"none"},
                            rejectionReason : Reason]]
    <3>1. "none" \in EverNamed \cup {"none"} /\ "null" \in Reason
      BY DEF Reason
    <3> QED BY <1>1, <3>1
  <2> QED BY <1>1, <1>2, <2>1, <2>2, <2>3 DEF StateOK
<1>4. StartedOK
  BY <1>1, <1>2 DEF StartedOK
<1>5. SagaOK /\ RowsOK
  BY <1>1 DEF SagaOK, RowsOK
<1>6. LoadedOK
  BY <1>1, <1>2 DEF LoadedOK
<1>7. OverlapOK
  BY <1>1, <1>2 DEF OverlapOK, Reserving
<1>8. GrantsOK
  BY <1>1, <1>2 DEF GrantsOK
<1>9. AllOnce
  <2>1. \A m : Holders(m) = {}
    BY <1>2 DEF Holders
  <2>2. \A o : RowsFor(o) = {}
    BY <1>1 DEF RowsFor
  <2> QED BY <1>1, <2>1, <2>2 DEF AllOnce, OnceOK
<1>10. CreditWithinLimit
  <2>1. \A c : RowsOf(c) = {}
    BY <1>1 DEF RowsOf
  <2>2. ReservedBy({}) = 0
    BY SumOfNothing DEF ReservedBy, SumFunction
  <2> QED BY <2>1, <2>2, OrdersAssumption DEF CreditWithinLimit
<1> QED BY <1>3, <1>4, <1>5, <1>6, <1>7, <1>8, <1>9, <1>10 DEF Inv

LEMMA StutterKeeps ==
  ASSUME Inv, UNCHANGED coVars
  PROVE  Inv'
<1>1. UNCHANGED <<channel, task, replies, cutShort, order, saga, reservations,
                  loaded, overlapped>>
  BY DEF coVars, spVars
<1>2. \A m : Holders(m)' = Holders(m)
  BY <1>1 DEF Holders
<1>3. \A o : RowsFor(o)' = RowsFor(o)
  BY <1>1 DEF RowsFor
<1>4. \A c : RowsOf(c)' = RowsOf(c) /\ Reserving(c)' = Reserving(c)
  BY <1>1 DEF RowsOf, Reserving, Named, OrderAt
<1>5. StateOK' /\ StartedOK' /\ SagaOK' /\ RowsOK' /\ LoadedOK'
  BY <1>1 DEF Inv, StateOK, StartedOK, SagaOK, RowsOK, LoadedOK, Named, OrderAt
<1>6. OverlapOK' /\ CreditWithinLimit'
  BY <1>1, <1>4 DEF Inv, OverlapOK, CreditWithinLimit
<1>7. GrantsOK'
  BY <1>1, <1>3 DEF Inv, GrantsOK, OrderAt
<1>8. AllOnce'
  BY <1>1, <1>2, <1>3 DEF Inv, AllOnce, OnceOK, Settled
<1> QED BY <1>5, <1>6, <1>7, <1>8 DEF Inv

LEMMA InvHolds == Spec => []Inv
<1>1. Init => Inv
  BY InitInv
<1>2. Inv /\ [Next]_coVars => Inv'
  <2> SUFFICES ASSUME Inv, [Next]_coVars PROVE Inv'
    OBVIOUS
  <2>1. CASE \E w \in Worker : ParticipantStep(w) /\ WithLoaded(w)
    BY <2>1, ParticipantKeeps
  <2>2. CASE \E w \in Worker : FindCustomer(w) \/ ReserveCredit(w) \/ HandlerFails(w)
    BY <2>2, CustomerKeeps
  <2>3. CASE \E o \in Order : \E c \in CustomerOf[o] : Create(o, c)
    BY <2>3, CreateKeeps
  <2>4. CASE \E reply \in replies : HandleReply(reply)
    BY <2>4, ReplyKeeps
  <2>5. CASE UNCHANGED coVars
    BY <2>5, StutterKeeps
  <2> QED BY <2>1, <2>2, <2>3, <2>4, <2>5 DEF Next
<1> QED BY <1>1, <1>2, PTL DEF Spec

\* Workers are at steps of theirs with messages of sagas that were started,
\* an order's state is its saga's, and reservations have ids of their own.
THEOREM OrdersTyped == Spec => []OrdersTypeOK
<1>1. Inv => OrdersTypeOK
  <2> SUFFICES ASSUME Inv PROVE OrdersTypeOK
    OBVIOUS
  <2>1. ASSUME NEW w \in Worker
        PROVE  /\ task[w].pc \in Pc
               /\ task[w].pc # "idle" =>
                    saga[task[w].msg.order] # "none" /\ loaded[w] \subseteq
                      {[r EXCEPT !.customer = Named(w)] : r \in reservations}
    <3>1. task[w] \in Task
      BY DEF Inv, StateOK
    <3> QED BY <3>1 DEF Inv, StartedOK, LoadedOK, Task
  <2>2. \A o \in Order :
          /\ saga[o] = "reserving" <=> order[o].state = "PENDING"
          /\ saga[o] = "ended" <=> order[o].state \in {"APPROVED", "REJECTED"}
    BY DEF Inv, SagaOK
  <2>3. IsInjective([r \in reservations |-> r.id])
    BY DEF Inv, RowsOK, IsInjective
  <2> QED BY <2>1, <2>2, <2>3 DEF OrdersTypeOK, Pc
<1> QED BY <1>1, InvHolds, PTL

\* What a customer has reserved never exceeds the limit, whatever two workers
\* do at once and whatever is delivered again: ReserveCredit saves what it
\* has counted.
THEOREM LimitHolds == Spec => []CreditWithinLimit
<1>1. Inv => CreditWithinLimit
  BY DEF Inv
<1> QED BY <1>1, InvHolds, PTL

\* Unless its command was cut short after the credit was reserved, an order
\* has at most one reservation, and none once it is rejected.
THEOREM CreditOnce == Spec => []CreditIsReservedOnce
<1>1. Inv => CreditIsReservedOnce
  <2> SUFFICES ASSUME Inv, NEW o \in Order, Command(o, Reserve) \notin cutShort
               PROVE  /\ Cardinality(RowsFor(o)) <= 1
                      /\ order[o].state = "REJECTED" => CreditRows(o) = {}
    BY DEF CreditIsReservedOnce, RowsFor
  <2>1. OnceOK(o)
    BY DEF Inv, AllOnce
  <2>2. order[o].state = "REJECTED" => CreditRows(o) = {}
    BY <2>1 DEF OnceOK, CreditRows, RowsFor
  <2>3. CASE RowsFor(o) = {}
    BY <2>2, <2>3, FS_EmptySet
  <2>4. CASE RowsFor(o) # {}
    <3>1. PICK r : RowsFor(o) = {r}
      BY <2>1, <2>4 DEF OnceOK
    <3>2. Cardinality({r}) = 1
      BY FS_Singleton
    <3> QED BY <2>2, <3>1, <3>2
  <2> QED BY <2>3, <2>4
<1> QED BY <1>1, InvHolds, PTL

\* The orders approved for a customer that never had two of its commands
\* between loading and saving at once hold reservations of its own, one each,
\* and are together within the limit.
THEOREM ApprovedAreCovered == Spec => []ApprovedOrdersAreCovered
<1>1. Inv => ApprovedOrdersAreCovered
  <2> SUFFICES ASSUME Inv, NEW c \in Customer, c \notin overlapped
               PROVE  LET approved == {o \in Order : /\ order[o].customer = c
                                                    /\ order[o].state = "APPROVED"}
                      IN  /\ \A o \in approved : CreditRows(o) # {}
                          /\ SumFunctionOnSet(OrderTotal, approved) <= CreditLimit[c]
    BY DEF ApprovedOrdersAreCovered
  <2> DEFINE approved == {o \in Order : /\ order[o].customer = c
                                       /\ order[o].state = "APPROVED"}
             row == [o \in approved |-> CHOOSE r \in RowsFor(o) : TRUE]
             rows == RowsOf(c)
             price == [r \in rows |-> OrderTotal[r.order]]
  <2>1. ASSUME NEW o \in approved
        PROVE  row[o] \in rows /\ row[o].order = o /\ row[o] \in RowsFor(o)
    <3>1. RowsFor(o) # {}
      BY DEF Inv, GrantsOK
    <3>2. row[o] \in RowsFor(o)
      BY <3>1
    <3>3. row[o] \in reservations /\ row[o].order = o
      BY <3>2 DEF RowsFor
    <3>4. order[o].customer = c
      OBVIOUS
    <3> HIDE DEF row, approved
    <3>5. row[o].customer = c
      BY <3>3, <3>4 DEF Inv, OverlapOK
    <3> QED BY <3>2, <3>3, <3>5 DEF RowsOf
  <2>2. /\ rows \subseteq Reservation /\ IsFiniteSet(rows)
        /\ approved \subseteq Order
    BY FS_Subset DEF Inv, StateOK, RowsOf
  <2>3. /\ \A r \in rows : price[r] = OrderTotal[r.order] /\ price[r] \in Nat
        /\ DOMAIN price = rows
    BY <2>2, OrdersAssumption DEF Reservation
  <2>4. /\ row \in [approved -> rows]
        /\ \A o, p \in approved : row[o] = row[p] => o = p
    <3>1. row \in [approved -> rows]
      BY <2>1
    <3> HIDE DEF row, approved, rows
    <3> QED BY <2>1, <3>1
  <2>5. \A o \in approved : c # Detached /\ CreditRows(o) # {}
    <3> SUFFICES ASSUME NEW o \in approved PROVE CreditRows(o) # {}
      BY OrdersAssumption
    <3>1. row[o] \in reservations /\ row[o].customer = c /\ row[o].order = o
      BY <2>1 DEF RowsOf
    <3> HIDE DEF row, approved
    <3> QED BY <3>1, OrdersAssumption DEF CreditRows
  <2> HIDE DEF approved, row, price, rows
  <2>6. row \in Injection(approved, rows)
    BY <2>4 DEF Injection, IsInjective
  <2>7. IsFiniteSet(approved)
    BY <2>2, <2>6, FS_Injection
  <2>8. /\ \A o \in approved : OrderTotal[o] \in Nat
        /\ \A o \in approved : OrderTotal[o] <= price[row[o]]
    BY <2>1, <2>2, <2>3, OrdersAssumption
  <2>9. SumFunctionOnSet(OrderTotal, approved) <= SumFunctionOnSet(price, rows)
    BY <2>2, <2>3, <2>4, <2>7, <2>8, SumInto
  <2>10. SumFunctionOnSet(price, rows) = ReservedBy(RowsOf(c))
    BY <2>3 DEF ReservedBy, SumFunction, price, rows
  <2>11. /\ SumFunctionOnSet(OrderTotal, approved) \in Nat
         /\ ReservedBy(RowsOf(c)) \in Nat
    BY <2>2, <2>7, <2>8, SumIsNat, ReservedOfPart DEF rows
  <2>12. ReservedBy(RowsOf(c)) <= CreditLimit[c] /\ CreditLimit[c] \in Nat
    BY OrdersAssumption DEF Inv, CreditWithinLimit
  <2>13. SumFunctionOnSet(OrderTotal, approved) <= CreditLimit[c]
    BY <2>9, <2>10, <2>11, <2>12
  <2> QED BY <2>5, <2>13 DEF approved
<1> QED BY <1>1, InvHolds, PTL
=============================================================================
