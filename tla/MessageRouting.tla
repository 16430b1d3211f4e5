--------------------------- MODULE MessageRouting ---------------------------
(***************************************************************************)
(* From a send to the handlers: how the classes with handlers come to be   *)
(* subscribed, what the producer tells the sender, and how often a message *)
(* is handled.  The broker is the in-memory one, Kafka, or the outbox      *)
(* table with Kafka behind it; the in-memory one handles a message inside  *)
(* of the send that carries it.                                            *)
(*                                                                         *)
(* A class is subscribed to its channel once for each of its methods, and  *)
(* each of these entries is given a copy of every delivery.                *)
(***************************************************************************)
EXTENDS Integers, Sequences, FiniteSets

CONSTANTS
  Class,        \* classes with handlers
  Decorators,   \* the class decorators of each, in the order they apply
  NumMethods,   \* how many of its methods are handlers
  ChannelOf,
  HandlesOf,    \* the types of messages they are for
  Message, MessageChannel, MessageType,
  OfSaga,       \* the messages that are the first command of a saga
  Event,        \* the messages that tell of an aggregate
  Broker,
  MaxSends,
  MaxTrouble    \* awaits that fail

VARIABLES
  broker,
  stage,        \* of the application: "init", "running", "closing"
  entries,      \* per channel: the handlers added to it
  send,         \* per message: what its sender is at
  outbox, log,  \* stored, or published and not committed
  copies,       \* copies of deliveries that are being handled
  received,     \* rows of the duplicate detector: [subscriber, message]
  replies,      \* replies published for the saga
  row,          \* of the saga that sent the message: '????' until it is told
  deliveries,   \* per message, how often it was dispatched
  runs,         \* per message and class, how often a handler ran
  late,         \* messages that were looked up when they had a row
  lost,         \* messages that could not be noted, or that an entry never heard of
  trouble

state == <<broker, stage, entries, send, outbox, log, copies, received,
           replies, row, deliveries, runs, late, lost, trouble>>

ASSUME RoutingAssumption ==
  /\ \A c \in Class :
       Decorators[c] \in Seq({"CommandHandlers", "SagaCommandHandlers",
                              "DomainEventHandlers"})
  /\ NumMethods \in [Class -> Nat \ {0}] /\ MaxSends \in Nat /\ MaxTrouble \in Nat
  /\ OfSaga \subseteq Message /\ Broker \subseteq {"memory", "kafka", "outbox"}
  /\ Event \subseteq Message \ OfSaga

Channel == {ChannelOf[c] : c \in Class} \cup {MessageChannel[m] : m \in Message}

-----------------------------------------------------------------------------
(* The decorators, and the dispatchers InitializerService makes of them *)

Applied(c, d) == {i \in DOMAIN Decorators[c] : Decorators[c][i] = d}

\* SagaCommandHandlers marks a class as one with command handlers only if some
\* decorator has been there before it; CommandHandlers alone marks nothing.
HasCommandHandler(c) ==
  \E i \in Applied(c, "SagaCommandHandlers") :
    \E j \in Applied(c, "CommandHandlers") \cup Applied(c, "SagaCommandHandlers") :
      j < i

Dispatchers(c) ==
  {k \in {"command", "saga", "event"} :
     CASE k = "command" -> HasCommandHandler(c)
       [] k = "saga" -> Applied(c, "SagaCommandHandlers") # {}
       [] k = "event" -> Applied(c, "DomainEventHandlers") # {}}

\* One channel for each handler, whether or not it is the same one.
MethodTypes(c) == 1 .. NumMethods[c]
GetChannels(c) == [i \in MethodTypes(c) |-> ChannelOf[c]]

Entry(c, k) ==
  {[class |-> c, kind |-> k, number |-> i] : i \in DOMAIN GetChannels(c)}

Subscription ==
  {s \in Class \X {"command", "saga", "event"} : s[2] \in Dispatchers(s[1])}

Subscribed(c, k) == Entry(c, k) \subseteq entries[ChannelOf[c]]

Subscribe(c, k) ==
  /\ stage = "init"
  /\ <<c, k>> \in Subscription /\ ~Subscribed(c, k)
  /\ entries' = [entries EXCEPT ![ChannelOf[c]] = @ \cup Entry(c, k)]
  /\ UNCHANGED <<broker, stage, send, outbox, log, copies, received, replies,
                 row, deliveries, runs, late, lost, trouble>>

\* onApplicationBootstrap follows when every onModuleInit has resolved.
Bootstrap ==
  /\ stage = "init"
  /\ \A s \in Subscription : Subscribed(s[1], s[2])
  /\ stage' = "running"
  /\ UNCHANGED <<broker, entries, send, outbox, log, copies, received, replies,
                 row, deliveries, runs, late, lost, trouble>>

\* Closing a subscription of the in-memory consumer clears every channel, and
\* one of Kafka's takes the processor of its channel away.
WithoutAny == [ch \in Channel |-> {}]
WithoutProcessor(c) == [entries EXCEPT ![ChannelOf[c]] = {}]

Close(c, k) ==
  /\ stage # "init"
  /\ <<c, k>> \in Subscription
  /\ entries' = IF broker = "memory" THEN WithoutAny ELSE WithoutProcessor(c)
  /\ stage' = "closing"
  /\ UNCHANGED <<broker, send, outbox, log, copies, received, replies,
                 row, deliveries, runs, late, lost, trouble>>

-----------------------------------------------------------------------------
(* ConvoyMessageProducer.send *)

Destination(m) == MessageChannel[m]

Trouble == trouble < MaxTrouble /\ trouble' = trouble + 1

At(m, pc) == send' = [send EXCEPT ![m] = pc]

Ended == {"resolved", "rejected"}

\* A saga is stored as '????' before its command is sent.
Prepare(m) ==
  /\ send[m] = "unsent"
  /\ Cardinality({n \in Message : send[n] # "unsent"}) < MaxSends
  /\ row' = IF m \in OfSaga THEN [row EXCEPT ![m] = "????"] ELSE row
  /\ \/ At(m, "sending") /\ UNCHANGED trouble
     \/ At(m, "rejected") /\ Trouble       \* preSend of an interceptor
  /\ UNCHANGED <<broker, stage, entries, outbox, log, copies, received, replies,
                 deliveries, runs, late, lost>>

\* The classes that are for a message, once they are subscribed.
Heard(m) ==
  {c \in Class : /\ ChannelOf[c] = Destination(m)
                 /\ MessageType[m] \in HandlesOf[c]
                 /\ Dispatchers(c) # {}}

AllHear(m) == \A c \in Heard(m) : \A k \in Dispatchers(c) : Subscribed(c, k)

CopyOf(m, e) == [message |-> m, entry |-> e, delivery |-> deliveries[m]]

Started(m) ==
  [c \in {CopyOf(m, e) : e \in entries[Destination(m)]} |-> "looking"]

\* Copies of a delivery that has failed may still be at it.
Running(m) ==
  {c \in DOMAIN copies : c.message # m \/ copies[c] \notin {"done", "failed"}}

\* The handlers of the channel at this moment, which may be none.
DispatchMessage(m) ==
  /\ copies' = [c \in Running(m) \cup DOMAIN Started(m) |->
                  IF c \in Running(m) THEN copies[c] ELSE Started(m)[c]]
  /\ deliveries' = [deliveries EXCEPT ![m] = @ + 1]
  /\ lost' = IF AllHear(m) THEN lost ELSE lost \cup {m}

TargetSend(m) ==
  /\ send[m] = "sending"
  /\ \/ /\ broker = "memory" /\ DispatchMessage(m) /\ At(m, "waiting")
        /\ UNCHANGED <<log, outbox, trouble>>
     \/ /\ broker = "kafka" /\ log' = log \cup {m} /\ At(m, "sent")
        /\ UNCHANGED <<copies, deliveries, lost, outbox, trouble>>
     \/ /\ broker = "outbox" /\ outbox' = outbox \cup {m} /\ At(m, "sent")
        /\ UNCHANGED <<copies, deliveries, lost, log, trouble>>
     \/ /\ broker # "memory" /\ At(m, "rejected") /\ Trouble
        /\ UNCHANGED <<copies, deliveries, lost, log, outbox>>
  /\ UNCHANGED <<broker, stage, entries, received, replies, row, runs, late>>

CopiesOf(m, d) == {c \in DOMAIN copies : c.message = m /\ c.delivery = d}

\* Promise.all: it resolves with the last, and rejects with the first failure.
AllDone_Settled(m, d) ==
  \A c \in CopiesOf(m, d) : copies[c] \in {"done", "failed"}

AllDone(m, d) == \A c \in CopiesOf(m, d) : copies[c] = "done"
OneFailed(m, d) == \E c \in CopiesOf(m, d) : copies[c] = "failed"

Awaited(m) ==
  /\ send[m] = "waiting"
  /\ \/ AllDone(m, deliveries[m] - 1) /\ At(m, "sent")
     \/ OneFailed(m, deliveries[m] - 1) /\ At(m, "rejected")
  /\ UNCHANGED <<broker, stage, entries, outbox, log, copies, received, replies,
                 row, deliveries, runs, late, lost, trouble>>

\* updateState and update of the saga manager follow its send.
Told(m) == IF m \in OfSaga THEN [row EXCEPT ![m] = "told"] ELSE row

PostSend(m) ==
  /\ send[m] = "sent"
  /\ \/ At(m, "resolved") /\ row' = Told(m) /\ UNCHANGED trouble
     \/ At(m, "rejected") /\ Trouble /\ UNCHANGED row
  /\ UNCHANGED <<broker, stage, entries, outbox, log, copies, received, replies,
                 deliveries, runs, late, lost>>

-----------------------------------------------------------------------------
(* Kafka, and the outbox that is published to it *)

Relay(m) ==
  /\ m \in outbox
  /\ outbox' = outbox \ {m} /\ log' = log \cup {m}
  /\ UNCHANGED <<broker, stage, entries, send, copies, received, replies, row,
                 deliveries, runs, late, lost, trouble>>

\* The message is fetched once, and again when a handler has thrown; one that
\* is always refused is fetched MaxTrouble + 1 times here.
Deliver_Once(m) ==
  /\ stage # "init" /\ m \in log
  /\ entries[Destination(m)] # {} /\ deliveries[m] = 0
  /\ DispatchMessage(m)
  /\ UNCHANGED <<broker, stage, entries, send, outbox, log, received, replies,
                 row, runs, late, trouble>>

Deliver_Unready(m) ==
  /\ m \in log
  /\ entries[Destination(m)] # {} /\ deliveries[m] = 0
  /\ DispatchMessage(m)
  /\ UNCHANGED <<broker, stage, entries, send, outbox, log, received, replies,
                 row, runs, late, trouble>>

Deliver(m) ==
  /\ stage # "init" /\ m \in log
  /\ entries[Destination(m)] # {}
  /\ \/ deliveries[m] = 0
     \/ OneFailed(m, deliveries[m] - 1) /\ deliveries[m] <= MaxTrouble
  /\ DispatchMessage(m)
  /\ UNCHANGED <<broker, stage, entries, send, outbox, log, received, replies,
                 row, runs, late, trouble>>

Commit(m) ==
  /\ m \in log /\ deliveries[m] > 0
  /\ AllDone(m, deliveries[m] - 1)
  /\ log' = log \ {m}
  /\ UNCHANGED <<broker, stage, entries, send, outbox, copies, received,
                 replies, row, deliveries, runs, late, lost, trouble>>

-----------------------------------------------------------------------------
(* A copy of a delivery: the duplicate detector and the dispatcher *)

Goto(c, pc) == copies' = [copies EXCEPT ![c] = pc]

\* Both dispatchers of a class subscribe under its name.
Key(c) == <<c.entry.class, c.message>>

\* The in-memory broker is registered with the detector that detects nothing.
\* save of the other finds a row, or goes on to insert one.
LookUp(c) ==
  /\ copies[c] = "looking"
  /\ Goto(c, IF broker = "memory" \/ Key(c) \in received THEN "handling"
             ELSE "noting")
  /\ late' = IF Key(c) \in received THEN late \cup {c.message} ELSE late
  /\ UNCHANGED <<broker, stage, entries, send, outbox, log, received, replies,
                 row, deliveries, runs, lost, trouble>>

Note_Upsert(c) ==
  /\ copies[c] = "noting"
  /\ received' = received \cup {Key(c)}
  /\ Goto(c, "handling")
  /\ UNCHANGED <<broker, stage, entries, send, outbox, log, replies, row,
                 deliveries, runs, late, lost, trouble>>

Note(c) ==
  /\ copies[c] = "noting"
  /\ received' = received \cup {Key(c)}
  /\ Goto(c, IF Key(c) \in received THEN "done" ELSE "handling")
  /\ UNCHANGED <<broker, stage, entries, send, outbox, log, replies, row,
                 deliveries, runs, late, lost, trouble>>

\* Any error of the save has the message taken for a duplicate.
NoteFails(c) ==
  /\ copies[c] = "noting" /\ Trouble
  /\ Goto(c, "done")
  /\ lost' = lost \cup {c.message}
  /\ UNCHANGED <<broker, stage, entries, send, outbox, log, received, replies,
                 row, deliveries, runs, late>>

FindTargetMethod(c) == MessageType[c.message] \in HandlesOf[c.entry.class]

\* A saga's dispatcher wants the headers of a saga, one for events those of an
\* aggregate.
Refused(c) ==
  \/ c.entry.kind = "saga" /\ c.message \notin OfSaga
  \/ c.entry.kind = "event" /\ c.message \notin Event
  \/ c.entry.kind # "event" /\ ~FindTargetMethod(c)

Ran(c) == runs' = [runs EXCEPT ![c.message][c.entry.class] = @ + 1]

\* An exception of a command's handler is answered like a result; an event's
\* is thrown on; an event without a handler is left alone.
HandleMessage(c) ==
  /\ copies[c] = "handling"
  /\ \/ Refused(c) /\ Goto(c, "failed") /\ UNCHANGED <<runs, trouble>>
     \/ /\ ~Refused(c) /\ c.entry.kind # "event"
        /\ Ran(c) /\ Goto(c, "replying") /\ UNCHANGED trouble
     \/ /\ ~Refused(c) /\ c.entry.kind = "event"
        /\ \/ /\ Goto(c, "done") /\ UNCHANGED trouble
              /\ IF FindTargetMethod(c) THEN Ran(c) ELSE UNCHANGED runs
           \/ /\ FindTargetMethod(c) /\ Trouble
              /\ Goto(c, "failed") /\ UNCHANGED runs
  /\ UNCHANGED <<broker, stage, entries, send, outbox, log, received, replies,
                 row, deliveries, late, lost>>

\* The saga has a step for the reply only while it is at one.
ReplyFits(m) == row[m] = "told"

\* In memory the saga manager handles the reply inside of its send, and what it
\* throws comes back to the dispatcher.
SendReplies(c) ==
  LET m == c.message IN
  /\ copies[c] = "replying"
  /\ \/ /\ broker = "memory" /\ UNCHANGED <<replies, trouble>>
        /\ IF m \notin OfSaga THEN Goto(c, "done") /\ UNCHANGED row
           ELSE IF ReplyFits(m) THEN Goto(c, "done") /\ row' = [row EXCEPT ![m] = "ended"]
           ELSE Goto(c, "failed") /\ UNCHANGED row
     \/ /\ broker # "memory" /\ UNCHANGED <<row, trouble>>
        /\ replies' = IF m \in OfSaga THEN replies \cup {m} ELSE replies
        /\ Goto(c, "done")
     \/ /\ broker # "memory" /\ Trouble
        /\ Goto(c, "failed") /\ UNCHANGED <<replies, row>>
  /\ UNCHANGED <<broker, stage, entries, send, outbox, log, received,
                 deliveries, runs, late, lost>>

HandleReply(m) ==
  /\ m \in replies /\ ReplyFits(m)
  /\ replies' = replies \ {m}
  /\ row' = [row EXCEPT ![m] = "ended"]
  /\ UNCHANGED <<broker, stage, entries, send, outbox, log, copies, received,
                 deliveries, runs, late, lost, trouble>>

-----------------------------------------------------------------------------
Init ==
  /\ broker \in Broker /\ stage = "init"
  /\ entries = [ch \in Channel |-> {}]
  /\ send = [m \in Message |-> "unsent"]
  /\ outbox = {} /\ log = {} /\ replies = {} /\ received = {}
  /\ copies = [c \in {} |-> "done"]
  /\ row = [m \in Message |-> "none"]
  /\ deliveries = [m \in Message |-> 0]
  /\ runs = [m \in Message |-> [c \in Class |-> 0]]
  /\ late = {} /\ lost = {} /\ trouble = 0

Sending(m) == TargetSend(m) \/ Awaited(m) \/ PostSend(m)

Step(c) == LookUp(c) \/ Note(c) \/ HandleMessage(c) \/ SendReplies(c)

Next ==
  \/ \E c \in Class, k \in {"command", "saga", "event"} :
       Subscribe(c, k) \/ Close(c, k)
  \/ Bootstrap
  \/ \E m \in Message :
       \/ Prepare(m) \/ Sending(m) \/ Relay(m) \/ Deliver(m) \/ Commit(m)
       \/ HandleReply(m)
  \/ \E c \in DOMAIN copies : Step(c) \/ NoteFails(c)

Spec == Init /\ [][Next]_state

\* The application starts, and every promise settles in the end; no message
\* need be sent.
Fairness ==
  /\ WF_state(\E c \in Class, k \in {"command", "saga", "event"} : Subscribe(c, k))
  /\ WF_state(Bootstrap)
  /\ WF_state(\E c \in DOMAIN copies : Step(c))
  /\ \A m \in Message :
       /\ WF_state(Sending(m)) /\ WF_state(Relay(m)) /\ WF_state(Deliver(m))
       /\ WF_state(Commit(m)) /\ WF_state(HandleReply(m))

FairSpec == Spec /\ Fairness

-----------------------------------------------------------------------------
(* Properties *)

\* Copies are of deliveries that took place, which before the application runs
\* are those of the in-memory broker; the row of a saga and its replies have a
\* handler behind them.
RoutingTypeOK ==
  /\ \A c \in DOMAIN copies :
       /\ c.delivery \in 0 .. deliveries[c.message] - 1
       /\ copies[c] \in {"looking", "noting", "handling", "replying", "done", "failed"}
       /\ stage = "init" => broker = "memory"
  /\ \A m \in Message :
       /\ row[m] \in {"none", "????", "told", "ended"} /\ (row[m] # "none" => m \in OfSaga)
       /\ row[m] = "ended" \/ m \in replies => \E c \in Class : runs[m][c] > 0

\* However many entries a class has, the database detector lets a message run
\* once, as long as no copy looks it up after another has noted it.  The
\* in-memory broker has it run once for each entry before its send resolves.
RunsPerMessage ==
  \A m \in Message, c \in Class :
    /\ broker # "memory" /\ m \notin late => runs[m][c] <= 1
    /\ broker = "memory" /\ send[m] = "resolved" /\ m \notin lost /\ c \in Heard(m) =>
         runs[m][c] = NumMethods[c] * Cardinality(Dispatchers(c))

\* In memory a send that resolves has had no handler throw.  So a saga is never
\* created whose first command is answered: the reply always meets a row that
\* says '????', and create rejects after the participant has done its work.
SendTells ==
  \A m \in Message :
    broker = "memory" =>
      /\ send[m] = "resolved" => \A c \in DOMAIN copies : c.message = m => copies[c] = "done"
      /\ m \in OfSaga /\ send[m] = "resolved" => \A c \in Class : runs[m][c] = 0
      /\ row[m] # "ended"

\* Every class on the channel takes whatever comes there.
Welcome(m) ==
  \A c \in Class : ChannelOf[c] = MessageChannel[m] =>
    /\ "saga" \in Dispatchers(c) => m \in OfSaga
    /\ "event" \in Dispatchers(c) => m \in Event
    /\ Dispatchers(c) \cap {"command", "saga"} # {} => c \in Heard(m)

\* What Kafka or the outbox has accepted is handled by every class that hears it,
\* unless a class on its channel refuses it, the detector fails, or the
\* application closes.
SentIsHandled ==
  \A m \in Message :
    Welcome(m) =>
      (m \in log \cup outbox ~>
         \/ \A c \in Heard(m) : runs[m][c] > 0
         \/ m \in lost \/ stage = "closing")
=============================================================================
