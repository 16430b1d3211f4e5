------------------------ MODULE MessageRouting_proofs ------------------------
(***************************************************************************)
(* What the routing of messages keeps for any classes, decorators, channels *)
(* and messages, on each of the brokers.                                   *)
(*                                                                         *)
(* In memory a message has one delivery, whose copies are counted; with a  *)
(* broker behind it the duplicate detector lets one copy of each class     *)
(* through, until a copy looks for a row that is there already.            *)
(***************************************************************************)
EXTENDS MessageRouting, FiniteSetTheorems, TLAPS

Kind == {"command", "saga", "event"}

Handler == [class : Class, kind : Kind, number : Nat]

Copy == [message : Message, entry : Handler, delivery : Nat]

CopyState == {"looking", "noting", "handling", "replying", "done", "failed"}

SendState == {"unsent", "sending", "waiting", "sent", "resolved", "rejected"}

ShapesOK ==
  /\ broker \in {"memory", "kafka", "outbox"}
  /\ stage \in {"init", "running", "closing"}
  /\ entries \in [Channel -> SUBSET Handler]
  /\ send \in [Message -> SendState]
  /\ outbox \subseteq Message /\ log \subseteq Message /\ replies \subseteq OfSaga
  /\ copies \in [DOMAIN copies -> CopyState]
  /\ DOMAIN copies \subseteq Copy
  /\ received \subseteq Class \X Message
  /\ row \in [Message -> {"none", "????", "told", "ended"}]
  /\ deliveries \in [Message -> Nat]
  /\ runs \in [Message -> [Class -> Nat]]

\* An entry is one its class and its dispatcher have added.
ByClass(e) ==
  /\ e.kind \in Dispatchers(e.class)
  /\ e \in Entry(e.class, e.kind)

EntriesOK ==
  \A ch \in Channel : \A e \in entries[ch] : ByClass(e) /\ ChannelOf[e.class] = ch

\* A copy is of a delivery that took place, to an entry of the channel.
CopyOK(x) ==
  /\ x.delivery \in 0 .. deliveries[x.message] - 1
  /\ ByClass(x.entry) /\ ChannelOf[x.entry.class] = Destination(x.message)
  /\ stage = "init" => broker = "memory"
  /\ copies[x] = "replying" => runs[x.message][x.entry.class] > 0

CopiesOK == \A x \in DOMAIN copies : CopyOK(x)

SagasOK ==
  \A m \in Message :
    /\ row[m] # "none" => m \in OfSaga
    /\ row[m] = "ended" \/ m \in replies => \E c \in Class : runs[m][c] > 0
    /\ row[m] = "told" => send[m] = "resolved"

-----------------------------------------------------------------------------
(* With a broker: what the duplicate detector has let through *)

Through(m, c) ==
  {x \in DOMAIN copies : /\ x.message = m /\ x.entry.class = c
                         /\ copies[x] = "handling"}

DetectorOK ==
  broker # "memory" =>
    \A m \in Message \ late : \A c \in Class :
      /\ \A x, y \in Through(m, c) : x = y
      /\ Through(m, c) # {} => <<c, m>> \in received /\ runs[m][c] = 0
      /\ runs[m][c] > 0 => <<c, m>> \in received
      /\ runs[m][c] <= 1

-----------------------------------------------------------------------------
(* In memory: the copies of the only delivery *)

ForClass(m, c) == {x \in DOMAIN copies : x.message = m /\ x.entry.class = c}

Run(m, c) == {x \in ForClass(m, c) : copies[x] \in {"replying", "done"}}

InHand == {"waiting", "sent", "resolved"}

Unfailed(m) == \A x \in DOMAIN copies : x.message = m => copies[x] # "failed"

EntriesOf(c) == UNION {Entry(c, k) : k \in Dispatchers(c)}

CopyAt(m, e) == [message |-> m, entry |-> e, delivery |-> 0]

MemoryOK ==
  broker = "memory" =>
    /\ log = {} /\ outbox = {} /\ replies = {} /\ received = {}
    /\ \A x \in DOMAIN copies : x.delivery = 0 /\ copies[x] # "noting"
    /\ \A m \in Message :
         /\ send[m] \in {"unsent", "sending"} =>
              deliveries[m] = 0 /\ \A c \in Class : runs[m][c] = 0
         /\ send[m] = "waiting" => deliveries[m] = 1
         /\ send[m] \in {"sent", "resolved"} =>
              \A x \in DOMAIN copies : x.message = m => copies[x] = "done"
         /\ row[m] # "ended"

\* Nobody gets done with a saga's first command.
FirstOK ==
  broker = "memory" =>
    \A m \in OfSaga :
      /\ \A x \in DOMAIN copies : x.message = m => copies[x] # "done"
      /\ \A c \in Class : runs[m][c] > 0 =>
           \E x \in DOMAIN copies : x.message = m /\ x.entry.class = c

\* Every entry has a copy if the message was not lost, and every copy ran once.
CountsOK ==
  broker = "memory" =>
    \A m \in Message : \A c \in Heard(m) :
      /\ send[m] \in InHand /\ m \notin lost =>
           ForClass(m, c) = {CopyAt(m, e) : e \in EntriesOf(c)}
      /\ Unfailed(m) => runs[m][c] = Cardinality(Run(m, c))

Inv ==
  /\ ShapesOK /\ EntriesOK /\ CopiesOK /\ SagasOK
  /\ DetectorOK /\ MemoryOK /\ FirstOK /\ CountsOK

-----------------------------------------------------------------------------
(* Entries and their copies *)

LEMMA SubscriptionType ==
  /\ \A s \in Subscription : s = <<s[1], s[2]>> /\ s[1] \in Class /\ s[2] \in Kind
  /\ \A c \in Class : \A k \in Dispatchers(c) : k \in Kind /\ <<c, k>> \in Subscription
<1>1. \A c : Dispatchers(c) \subseteq Kind
  BY DEF Dispatchers, Kind
<1>2. \A s : s \in Subscription <=> s \in Class \X Kind /\ s[2] \in Dispatchers(s[1])
  BY DEF Subscription, Kind
<1> QED
  BY <1>1, <1>2

LEMMA EntryOfClass ==
  ASSUME NEW c \in Class, NEW k \in Dispatchers(c)
  PROVE  \A e \in Entry(c, k) : e \in Handler /\ e.class = c /\ e.kind = k /\ ByClass(e)
<1>1. k \in Kind
  BY SubscriptionType
<1>2. DOMAIN GetChannels(c) = 1 .. NumMethods[c]
  BY DEF GetChannels, MethodTypes
<1>3. NumMethods[c] \in Nat
  BY RoutingAssumption
<1> QED
  BY <1>1, <1>2, <1>3 DEF Entry, Handler, ByClass

\* One entry for each method and each dispatcher of a class.
LEMMA EntriesCount ==
  ASSUME NEW c \in Class
  PROVE  /\ IsFiniteSet(EntriesOf(c))
         /\ Cardinality(EntriesOf(c)) = NumMethods[c] * Cardinality(Dispatchers(c))
<1> DEFINE N == NumMethods[c]
           K == Dispatchers(c)
           f == [p \in K \X (1 .. N) |-> [class |-> c, kind |-> p[1], number |-> p[2]]]
<1>1. N \in Nat
  BY RoutingAssumption
<1>2. IsFiniteSet(1 .. N) /\ Cardinality(1 .. N) = N
  BY <1>1, FS_Interval
<1>3. IsFiniteSet(Kind)
  <2>1. IsFiniteSet({"command"}) /\ IsFiniteSet({"saga"}) /\ IsFiniteSet({"event"})
    BY FS_Singleton
  <2>2. IsFiniteSet({"command"} \cup {"saga"})
    BY <2>1, FS_Union
  <2>3. IsFiniteSet(({"command"} \cup {"saga"}) \cup {"event"})
    BY <2>1, <2>2, FS_Union
  <2>4. Kind = ({"command"} \cup {"saga"}) \cup {"event"}
    BY DEF Kind
  <2> QED
    BY <2>3, <2>4
<1>4. IsFiniteSet(K)
  BY <1>3, SubscriptionType, K \subseteq Kind, FS_Subset
<1>5. /\ IsFiniteSet(K \X (1 .. N))
      /\ Cardinality(K \X (1 .. N)) = Cardinality(K) * N
  BY <1>2, <1>4, FS_Product
<1>6. DOMAIN GetChannels(c) = 1 .. N
  BY DEF GetChannels, MethodTypes
<1>7. \A e : e \in EntriesOf(c) <=>
        \E k \in K : \E i \in 1 .. N : e = [class |-> c, kind |-> k, number |-> i]
  BY <1>6 DEF EntriesOf, Entry
<1>8. f \in [K \X (1 .. N) -> EntriesOf(c)]
  BY <1>7
<1>9. f \in Injection(K \X (1 .. N), EntriesOf(c))
  <2>1. ASSUME NEW p \in K \X (1 .. N), NEW q \in K \X (1 .. N), f[p] = f[q]
        PROVE  p = q
    <3>1. f[p].kind = p[1] /\ f[p].number = p[2] /\ f[q].kind = q[1] /\ f[q].number = q[2]
      OBVIOUS
    <3>2. p = <<p[1], p[2]>> /\ q = <<q[1], q[2]>>
      OBVIOUS
    <3> QED
      BY <2>1, <3>1, <3>2
  <2> HIDE DEF f
  <2> QED
    BY <1>8, <2>1 DEF Injection, IsInjective
<1>10. f \in Surjection(K \X (1 .. N), EntriesOf(c))
  <2>1. ASSUME NEW e \in EntriesOf(c)
        PROVE  \E p \in K \X (1 .. N) : f[p] = e
    <3>1. PICK k \in K : \E i \in 1 .. N : e = [class |-> c, kind |-> k, number |-> i]
      BY <1>7
    <3>2. PICK i \in 1 .. N : e = [class |-> c, kind |-> k, number |-> i]
      BY <3>1
    <3>3. <<k, i>> \in K \X (1 .. N) /\ f[<<k, i>>] = e
      BY <3>2
    <3> QED
      BY <3>3
  <2> QED
    BY <1>8, <2>1 DEF Surjection
<1>11. ExistsBijection(K \X (1 .. N), EntriesOf(c))
  BY <1>9, <1>10 DEF ExistsBijection, Bijection
<1>12. /\ IsFiniteSet(EntriesOf(c))
       /\ Cardinality(EntriesOf(c)) = Cardinality(K) * N
  BY <1>5, <1>11, FS_Bijection
<1>13. Cardinality(K) \in Nat
  BY <1>4, FS_CardinalityType
<1> HIDE DEF N, K
<1>14. Cardinality(K) * N = N * Cardinality(K)
  BY <1>1, <1>13
<1> QED
  BY <1>12, <1>14 DEF N, K

LEMMA CopiesCount ==
  ASSUME NEW c \in Class, NEW m
  PROVE  /\ IsFiniteSet({CopyAt(m, e) : e \in EntriesOf(c)})
         /\ Cardinality({CopyAt(m, e) : e \in EntriesOf(c)})
              = NumMethods[c] * Cardinality(Dispatchers(c))
<1> DEFINE E == EntriesOf(c)
           T == {CopyAt(m, e) : e \in E}
           f == [e \in E |-> CopyAt(m, e)]
<1>1. f \in [E -> T]
  OBVIOUS
<1>2. f \in Injection(E, T)
  <2>1. \A d, e \in E : f[d] = CopyAt(m, d) /\ (CopyAt(m, d) = CopyAt(m, e) => d = e)
    BY DEF CopyAt
  <2> HIDE DEF f, E
  <2>2. \A d, e \in E : f[d] = f[e] => d = e
    BY <2>1
  <2> QED
    BY <1>1, <2>2 DEF Injection, IsInjective
<1>3. f \in Surjection(E, T)
  BY <1>1 DEF Surjection
<1>4. ExistsBijection(E, T)
  BY <1>2, <1>3 DEF ExistsBijection, Bijection
<1>5. IsFiniteSet(E) /\ Cardinality(E) = NumMethods[c] * Cardinality(Dispatchers(c))
  BY EntriesCount
<1> HIDE DEF E, T, f
<1>6. IsFiniteSet(T) /\ Cardinality(T) = Cardinality(E)
  BY <1>4, <1>5, FS_Bijection
<1> QED
  BY <1>5, <1>6 DEF E, T

\* In memory a class has its copies of a message among those of its entries.
LEMMA RunFinite ==
  ASSUME Inv, broker = "memory", NEW m \in Message, NEW c \in Class
  PROVE  /\ ForClass(m, c) \subseteq {CopyAt(m, e) : e \in EntriesOf(c)}
         /\ IsFiniteSet(ForClass(m, c)) /\ IsFiniteSet(Run(m, c))
<1>1. ASSUME NEW x \in ForClass(m, c)
      PROVE  x \in {CopyAt(m, e) : e \in EntriesOf(c)}
  <2>1. x \in Copy /\ x.message = m /\ x.entry.class = c /\ x.delivery = 0
        /\ CopyOK(x)
    BY <1>1 DEF ForClass, Inv, ShapesOK, MemoryOK, CopiesOK
  <2>2. x = CopyAt(m, x.entry)
    BY <2>1 DEF Copy, CopyAt
  <2>3. x.entry \in EntriesOf(c)
    BY <2>1 DEF CopyOK, ByClass, EntriesOf
  <2> QED
    BY <2>2, <2>3
<1>2. IsFiniteSet(ForClass(m, c))
  <2> DEFINE T == {CopyAt(m, e) : e \in EntriesOf(c)}
  <2>1. IsFiniteSet(T) /\ ForClass(m, c) \subseteq T
    BY <1>1, CopiesCount
  <2> HIDE DEF T
  <2> QED
    BY <2>1, FS_Subset
<1>3. Run(m, c) \subseteq ForClass(m, c)
  BY DEF Run
<1> QED
  <2>1. IsFiniteSet(Run(m, c))
    BY <1>2, <1>3, FS_Subset
  <2> QED
    BY <1>1, <1>2, <2>1

-----------------------------------------------------------------------------
(* Steps that leave the copies as they are *)

\* The sender of a message does not come to have it in hand in memory.
NotSent ==
  broker = "memory" => \A m \in Message : send'[m] \in InHand => send[m] \in InHand

LEMMA CopiesKept ==
  ASSUME Inv, UNCHANGED <<broker, copies, deliveries, runs, received, late, lost>>,
         stage' = "init" => stage = "init", NotSent
  PROVE  CopiesOK' /\ DetectorOK' /\ FirstOK' /\ CountsOK'
<1>1. CopiesOK'
  BY DEF Inv, CopiesOK, CopyOK
<1>2. DetectorOK'
  <2>1. ASSUME NEW m, NEW c
        PROVE  Through(m, c)' = Through(m, c)
    BY DEF Through
  <2>2. DetectorOK
    BY DEF Inv
  <2> QED
    BY <2>1, <2>2 DEF DetectorOK
<1>3. FirstOK'
  BY DEF Inv, FirstOK
<1>4. CountsOK'
  BY DEF Inv, CountsOK, ForClass, Run, Unfailed, NotSent
<1> QED
  BY <1>1, <1>2, <1>3, <1>4

\* Subscribing, starting, and closing.
LEMMA EntriesStep ==
  ASSUME Inv,
         \/ \E c \in Class, k \in {"command", "saga", "event"} :
              Subscribe(c, k) \/ Close(c, k)
         \/ Bootstrap
  PROVE  Inv'
<1>1. /\ UNCHANGED <<broker, send, outbox, log, copies, received, replies,
                     row, deliveries, runs, late, lost>>
      /\ stage' \in {"init", "running", "closing"} /\ (stage' = "init" => stage = "init")
  BY DEF Subscribe, Close, Bootstrap, Inv, ShapesOK
<1>2. entries' \in [Channel -> SUBSET Handler] /\ EntriesOK'
  <2>1. CASE Bootstrap
    BY <2>1 DEF Bootstrap, Inv, ShapesOK, EntriesOK
  <2>2. ASSUME NEW c \in Class, NEW k \in {"command", "saga", "event"}, Subscribe(c, k)
        PROVE  entries' \in [Channel -> SUBSET Handler] /\ EntriesOK'
    <3>1. k \in Dispatchers(c)
      BY <2>2 DEF Subscribe, Subscription
    <3>2. \A e \in Entry(c, k) : e \in Handler /\ e.class = c /\ ByClass(e)
      BY <3>1, EntryOfClass
    <3>3. entries' = [entries EXCEPT ![ChannelOf[c]] = @ \cup Entry(c, k)]
      BY <2>2 DEF Subscribe
    <3>4. entries \in [Channel -> SUBSET Handler] /\ EntriesOK
      BY DEF Inv, ShapesOK
    <3>5. ASSUME NEW ch \in Channel
          PROVE  \/ entries'[ch] = entries[ch]
                 \/ ch = ChannelOf[c] /\ entries'[ch] = entries[ch] \cup Entry(c, k)
      <4>1. CASE ch = ChannelOf[c]
        BY <3>3, <3>4, <4>1
      <4>2. CASE ch # ChannelOf[c]
        BY <3>3, <3>4, <4>2
      <4> QED
        BY <4>1, <4>2
    <3>6. entries' \in [Channel -> SUBSET Handler]
      BY <3>2, <3>3, <3>4
    <3>7. EntriesOK'
      BY <3>2, <3>4, <3>5 DEF EntriesOK
    <3> QED
      BY <3>6, <3>7
  <2>3. ASSUME NEW c \in Class, NEW k \in {"command", "saga", "event"}, Close(c, k)
        PROVE  entries' \in [Channel -> SUBSET Handler] /\ EntriesOK'
    <3>1. entries \in [Channel -> SUBSET Handler] /\ EntriesOK
      BY DEF Inv, ShapesOK
    <3>2. entries' = WithoutAny \/ entries' = WithoutProcessor(c)
      BY <2>3 DEF Close
    <3>3. entries' \in [Channel -> SUBSET Handler]
          /\ \A ch \in Channel : entries'[ch] = {} \/ entries'[ch] = entries[ch]
      BY <3>1, <3>2 DEF WithoutAny, WithoutProcessor
    <3> QED
      BY <3>1, <3>3 DEF EntriesOK
  <2> QED
    BY <2>1, <2>2, <2>3
<1>3. CopiesOK' /\ DetectorOK' /\ FirstOK' /\ CountsOK'
  BY <1>1, CopiesKept DEF NotSent
<1>4. ShapesOK'
  BY <1>1, <1>2 DEF Inv, ShapesOK
<1>5. SagasOK' /\ MemoryOK'
  BY <1>1 DEF Inv, SagasOK, MemoryOK
<1> QED
  BY <1>2, <1>3, <1>4, <1>5 DEF Inv

\* The sender's steps, the relay, the commit, and a reply that is handled.
LEMMA SendStep ==
  ASSUME Inv, NEW m \in Message,
         \/ Prepare(m) \/ Awaited(m) \/ PostSend(m) \/ Relay(m) \/ Commit(m)
         \/ HandleReply(m)
         \/ TargetSend(m) /\ broker # "memory"
  PROVE  Inv'
<1>1. /\ UNCHANGED <<broker, stage, entries, copies, received, deliveries, runs, late, lost>>
      /\ ShapesOK /\ SagasOK /\ MemoryOK
  BY DEF Prepare, Awaited, PostSend, Relay, Commit, HandleReply, TargetSend, Inv
<1>2. /\ send' \in [Message -> SendState]
      /\ \A n \in Message \ {m} : send'[n] = send[n]
      /\ \/ send'[m] = send[m]
         \/ send[m] = "unsent" /\ send'[m] \in {"sending", "rejected"}
         \/ send[m] = "sending" /\ send'[m] \in {"sent", "rejected"} /\ broker # "memory"
         \/ /\ send[m] = "waiting" /\ send'[m] \in {"sent", "rejected"}
            /\ send'[m] = "sent" => AllDone(m, deliveries[m] - 1)
         \/ send[m] = "sent" /\ send'[m] \in {"resolved", "rejected"}
  BY <1>1 DEF Prepare, Awaited, PostSend, Relay, Commit, HandleReply, TargetSend,
              At, ShapesOK, SendState
<1>3. /\ row' \in [Message -> {"none", "????", "told", "ended"}]
      /\ \A n \in Message \ {m} : row'[n] = row[n]
      /\ \/ row'[m] = row[m] /\ (row[m] = "told" => send'[m] = "resolved")
         \/ m \in OfSaga /\ row'[m] = "????"
         \/ m \in OfSaga /\ row'[m] = "told" /\ send'[m] = "resolved"
         \/ m \in replies /\ row'[m] = "ended"
  BY <1>1, <1>2 DEF Prepare, Awaited, PostSend, Relay, Commit, HandleReply, TargetSend,
              Told, At, ShapesOK, SagasOK
<1>4. replies' \subseteq replies
  BY DEF Prepare, Awaited, PostSend, Relay, Commit, HandleReply, TargetSend
<1>5. /\ outbox' \subseteq Message /\ log' \subseteq Message
      /\ broker = "memory" => outbox' = {} /\ log' = {}
  BY <1>1 DEF Prepare, Awaited, PostSend, Relay, Commit, HandleReply, TargetSend,
              ShapesOK, MemoryOK
<1>6. NotSent
  BY <1>2 DEF NotSent, InHand
<1>7. CopiesOK' /\ DetectorOK' /\ FirstOK' /\ CountsOK'
  BY <1>1, <1>6, CopiesKept
<1>8. ShapesOK'
  BY <1>1, <1>2, <1>3, <1>4, <1>5 DEF ShapesOK
<1>9. SagasOK'
  BY <1>1, <1>2, <1>3, <1>4 DEF SagasOK, ShapesOK
<1>10. MemoryOK'
  <2> SUFFICES ASSUME broker = "memory" PROVE MemoryOK'
    BY <1>1 DEF MemoryOK
  <2>1. row'[m] # "ended"
    BY <1>1, <1>3 DEF MemoryOK
  <2>2. send'[m] = "sent" /\ send[m] = "waiting" =>
          \A x \in DOMAIN copies : x.message = m => copies[x] = "done"
    <3> SUFFICES ASSUME send'[m] = "sent", send[m] = "waiting",
                        NEW x \in DOMAIN copies, x.message = m
                 PROVE  copies[x] = "done"
      OBVIOUS
    <3>1. deliveries[m] = 1 /\ x.delivery = 0
      BY <1>1 DEF MemoryOK
    <3>2. x \in CopiesOf(m, deliveries[m] - 1)
      BY <3>1 DEF CopiesOf
    <3> QED
      BY <1>2, <3>2 DEF AllDone
  <2>3. \A n \in Message :
          /\ send'[n] \in {"unsent", "sending"} =>
              deliveries[n] = 0 /\ \A c \in Class : runs[n][c] = 0
          /\ send'[n] = "waiting" => deliveries[n] = 1
          /\ send'[n] \in {"sent", "resolved"} =>
              \A x \in DOMAIN copies : x.message = n => copies[x] = "done"
          /\ row'[n] # "ended"
    BY <1>1, <1>2, <1>3, <2>1, <2>2 DEF MemoryOK
  <2> QED
    BY <1>1, <1>4, <1>5, <2>3 DEF MemoryOK
<1>11. EntriesOK'
  BY <1>1 DEF Inv, EntriesOK
<1> QED
  BY <1>7, <1>8, <1>9, <1>10, <1>11 DEF Inv

-----------------------------------------------------------------------------
(* A delivery *)

New(m) == {CopyOf(m, e) : e \in entries[Destination(m)]}

LEMMA Dispatched ==
  ASSUME Inv, NEW m \in Message, DispatchMessage(m)
  PROVE  /\ DOMAIN copies' = Running(m) \cup New(m)
         /\ copies' \in [DOMAIN copies' -> CopyState] /\ DOMAIN copies' \subseteq Copy
         /\ deliveries' \in [Message -> Nat]
         /\ deliveries'[m] = deliveries[m] + 1
         /\ \A n \in Message \ {m} : deliveries'[n] = deliveries[n]
         /\ \A x \in Running(m) : x \in DOMAIN copies /\ copies'[x] = copies[x]
         /\ \A x \in DOMAIN copies' \ Running(m) : copies'[x] = "looking"
         /\ \A e \in entries[Destination(m)] :
              e \in Handler /\ ByClass(e) /\ ChannelOf[e.class] = Destination(m)
         /\ \A x \in New(m) : x \notin DOMAIN copies /\ x.message = m
<1>1. ShapesOK /\ EntriesOK /\ CopiesOK
  BY DEF Inv
<1>2. Destination(m) \in Channel
  BY DEF Destination, Channel
<1>3. \A e \in entries[Destination(m)] :
        e \in Handler /\ ByClass(e) /\ ChannelOf[e.class] = Destination(m)
  BY <1>1, <1>2 DEF ShapesOK, EntriesOK
<1>4. \A x \in New(m) : x \in Copy /\ x.message = m /\ x.delivery = deliveries[m]
  BY <1>1, <1>3 DEF New, CopyOf, Copy, ShapesOK
<1>5. \A x \in New(m) : x \notin DOMAIN copies
  <2> SUFFICES ASSUME NEW x \in New(m), x \in DOMAIN copies PROVE FALSE
    OBVIOUS
  <2>1. CopyOK(x) /\ x.message = m /\ x.delivery = deliveries[m] /\ deliveries[m] \in Nat
    BY <1>1, <1>4 DEF CopiesOK, ShapesOK
  <2> QED
    BY <2>1 DEF CopyOK
<1>6. /\ DOMAIN Started(m) = New(m)
      /\ \A x \in New(m) : Started(m)[x] = "looking"
  BY DEF Started, New
<1>7. copies' = [x \in Running(m) \cup New(m) |->
                   IF x \in Running(m) THEN copies[x] ELSE Started(m)[x]]
  BY <1>6 DEF DispatchMessage
<1>8. \A x \in Running(m) : x \in DOMAIN copies
  BY DEF Running
<1>9. \A x \in DOMAIN copies : x \in Copy /\ copies[x] \in CopyState
  BY <1>1 DEF ShapesOK
<1>10. /\ DOMAIN copies' = Running(m) \cup New(m)
       /\ \A x \in Running(m) : x \in DOMAIN copies /\ copies'[x] = copies[x]
       /\ \A x \in DOMAIN copies' \ Running(m) : copies'[x] = "looking"
  BY <1>6, <1>7, <1>8
<1>11. copies' \in [DOMAIN copies' -> CopyState] /\ DOMAIN copies' \subseteq Copy
  <2>1. \A x \in DOMAIN copies' : copies'[x] \in CopyState /\ x \in Copy
    BY <1>4, <1>9, <1>10 DEF CopyState
  <2>2. copies' = [x \in DOMAIN copies' |-> copies'[x]]
    BY <1>7
  <2> QED
    BY <2>1, <2>2
<1>12. /\ deliveries' \in [Message -> Nat]
       /\ deliveries'[m] = deliveries[m] + 1
       /\ \A n \in Message \ {m} : deliveries'[n] = deliveries[n]
  BY <1>1 DEF DispatchMessage, ShapesOK
<1> QED
  BY <1>3, <1>4, <1>5, <1>10, <1>11, <1>12

\* The new copies are of a delivery that takes place.
LEMMA DispatchedCopies ==
  ASSUME Inv, NEW m \in Message, DispatchMessage(m),
         UNCHANGED <<broker, stage, runs>>, stage = "init" => broker = "memory"
  PROVE  CopiesOK'
<1> SUFFICES ASSUME NEW x \in DOMAIN copies' PROVE CopyOK(x)'
  BY DEF CopiesOK
<1>1. CASE x \in Running(m)
  <2>1. CopyOK(x) /\ copies'[x] = copies[x] /\ x \in DOMAIN copies
    BY <1>1, Dispatched DEF Inv, CopiesOK
  <2>2. x.message \in Message /\ deliveries[x.message] \in Nat
    BY <2>1 DEF Inv, ShapesOK, Copy
  <2>3. deliveries'[x.message] \in {deliveries[x.message], deliveries[x.message] + 1}
    BY <2>2, Dispatched
  <2>4. x.delivery \in 0 .. deliveries'[x.message] - 1
    BY <2>1, <2>2, <2>3 DEF CopyOK
  <2> QED
    BY <2>1, <2>4 DEF CopyOK, ByClass, Destination
<1>2. CASE x \notin Running(m)
  <2>1. DOMAIN copies' = Running(m) \cup New(m)
        /\ \A y \in DOMAIN copies' \ Running(m) : copies'[y] = "looking"
    BY Dispatched
  <2>2. x \in New(m) /\ copies'[x] = "looking"
    BY <1>2, <2>1
  <2>3. PICK e \in entries[Destination(m)] : x = CopyOf(m, e)
    BY <2>2 DEF New
  <2>4. x.message = m /\ x.entry = e /\ x.delivery = deliveries[m]
    BY <2>3 DEF CopyOf
  <2>5. ByClass(e) /\ ChannelOf[e.class] = Destination(m)
    BY Dispatched
  <2>6. deliveries'[m] = deliveries[m] + 1 /\ deliveries[m] \in Nat
    BY Dispatched DEF Inv, ShapesOK
  <2>7. x.delivery \in 0 .. deliveries'[x.message] - 1
    BY <2>4, <2>6
  <2> QED
    BY <2>2, <2>4, <2>5, <2>7 DEF CopyOK, ByClass, Destination
<1> QED
  BY <1>1, <1>2

LEMMA DeliverStep ==
  ASSUME Inv, NEW m \in Message, Deliver(m)
  PROVE  Inv'
<1>1. /\ UNCHANGED <<broker, stage, entries, send, outbox, log, received, replies,
                     row, runs, late, trouble>>
      /\ DispatchMessage(m) /\ m \in log /\ stage # "init"
  BY DEF Deliver
<1>2. broker # "memory"
  BY <1>1 DEF Inv, MemoryOK
<1>3. CopiesOK'
  BY <1>1, DispatchedCopies
<1>4. ShapesOK'
  BY <1>1, Dispatched DEF Inv, ShapesOK
<1>5. DetectorOK'
  <2>1. ASSUME NEW n \in Message, NEW c \in Class
        PROVE  Through(n, c)' \subseteq Through(n, c)
    <3> SUFFICES ASSUME NEW x \in DOMAIN copies', x.message = n, x.entry.class = c,
                        copies'[x] = "handling"
                 PROVE  x \in Through(n, c)
      BY DEF Through
    <3>1. x \in Running(m)
      BY Dispatched, <1>1
    <3>2. x \in DOMAIN copies /\ copies'[x] = copies[x]
      BY <3>1, Dispatched, <1>1
    <3> QED
      BY <3>2 DEF Through
  <2>2. DetectorOK
    BY DEF Inv
  <2>3. ASSUME NEW n \in Message \ late', NEW c \in Class, broker' # "memory"
        PROVE  /\ \A x, y \in Through(n, c)' : x = y
               /\ Through(n, c)' # {} => <<c, n>> \in received' /\ runs'[n][c] = 0
               /\ runs'[n][c] > 0 => <<c, n>> \in received'
               /\ runs'[n][c] <= 1
    <3>1. n \in Message \ late /\ Through(n, c)' \subseteq Through(n, c)
          /\ received' = received /\ runs' = runs
      BY <1>1, <2>1, <2>3
    <3> QED
      BY <1>2, <2>2, <3>1 DEF DetectorOK
  <2> QED
    BY <2>3 DEF DetectorOK
<1>6. EntriesOK' /\ SagasOK'
  BY <1>1 DEF Inv, EntriesOK, SagasOK
<1>7. MemoryOK' /\ FirstOK' /\ CountsOK'
  BY <1>1, <1>2 DEF MemoryOK, FirstOK, CountsOK
<1> QED
  BY <1>3, <1>4, <1>5, <1>6, <1>7 DEF Inv

\* The in-memory broker delivers inside of the send.
LEMMA MemorySendStep ==
  ASSUME Inv, NEW m \in Message, TargetSend(m), broker = "memory"
  PROVE  Inv'
<1>1. /\ UNCHANGED <<broker, stage, entries, outbox, log, received, replies,
                     row, runs, late, trouble>>
      /\ DispatchMessage(m) /\ At(m, "waiting") /\ send[m] = "sending"
      /\ lost' = IF AllHear(m) THEN lost ELSE lost \cup {m}
  BY DEF TargetSend, DispatchMessage
<1>2. /\ ShapesOK /\ MemoryOK /\ FirstOK /\ CountsOK /\ SagasOK
      /\ deliveries[m] = 0 /\ \A c \in Class : runs[m][c] = 0
  BY <1>1 DEF Inv, MemoryOK
<1>3. /\ send' \in [Message -> SendState] /\ send'[m] = "waiting"
      /\ \A n \in Message \ {m} : send'[n] = send[n]
  BY <1>1, <1>2 DEF At, ShapesOK, SendState
<1>4. \A x \in DOMAIN copies : x.message # m
  BY <1>2 DEF Inv, CopiesOK, CopyOK
<1>5. Running(m) = DOMAIN copies
  BY <1>4 DEF Running
<1>6. CopiesOK'
  BY <1>1, DispatchedCopies
<1>7. ShapesOK'
  BY <1>1, <1>3, Dispatched DEF Inv, ShapesOK
<1>8. EntriesOK' /\ DetectorOK'
  BY <1>1 DEF Inv, EntriesOK, DetectorOK
<1>9. SagasOK'
  BY <1>1, <1>3 DEF Inv, SagasOK
\* Copies of other messages are as they were, and those of this one are new.
<1>10. /\ \A x \in DOMAIN copies' :
            \/ x \in DOMAIN copies /\ copies'[x] = copies[x] /\ x.message # m
            \/ x \in New(m) /\ x.message = m /\ copies'[x] = "looking"
       /\ DOMAIN copies \subseteq DOMAIN copies' /\ New(m) \subseteq DOMAIN copies'
  <2>1. DOMAIN copies' = DOMAIN copies \cup New(m)
    BY <1>1, <1>5, Dispatched
  <2>2. \A x \in DOMAIN copies : copies'[x] = copies[x]
    BY <1>1, <1>5, Dispatched
  <2>3. \A x \in DOMAIN copies' \ DOMAIN copies : copies'[x] = "looking"
    BY <1>1, <1>5, Dispatched
  <2>4. \A x \in New(m) : x \notin DOMAIN copies /\ x.message = m
    BY <1>1, Dispatched
  <2> QED
    BY <1>4, <2>1, <2>2, <2>3, <2>4
<1>11. MemoryOK'
  <2>1. \A x \in DOMAIN copies' : x.delivery = 0 /\ copies'[x] # "noting"
    BY <1>2, <1>10 DEF MemoryOK, New, CopyOf
  <2>2. deliveries'[m] = 1
    <3>1. deliveries'[m] = deliveries[m] + 1
      BY <1>1, Dispatched
    <3> QED
      BY <1>2, <3>1
  <2>3. \A n \in Message \ {m} : deliveries'[n] = deliveries[n]
    BY <1>1, Dispatched
  <2>4. \A n \in Message :
         /\ send'[n] \in {"unsent", "sending"} =>
              deliveries'[n] = 0 /\ \A c \in Class : runs[n][c] = 0
         /\ send'[n] = "waiting" => deliveries'[n] = 1
         /\ send'[n] \in {"sent", "resolved"} =>
              \A x \in DOMAIN copies' : x.message = n => copies'[x] = "done"
         /\ row[n] # "ended"
    BY <1>2, <1>3, <1>10, <2>2, <2>3 DEF MemoryOK
  <2> QED
    BY <1>1, <1>2, <2>1, <2>4 DEF MemoryOK
<1>12. FirstOK'
  <2>1. OfSaga \subseteq Message
    BY RoutingAssumption
  <2> QED
    BY <1>1, <1>2, <1>10, <2>1 DEF FirstOK
<1>13. CountsOK'
  <2> SUFFICES ASSUME NEW n \in Message, NEW c \in Heard(n)
               PROVE  /\ send'[n] \in InHand /\ n \notin lost' =>
                           ForClass(n, c)' = {CopyAt(n, e) : e \in EntriesOf(c)}
                      /\ Unfailed(n)' => runs'[n][c] = Cardinality(Run(n, c)')
    BY DEF CountsOK
  <2>1. CASE n # m
    <3>1. ForClass(n, c)' = ForClass(n, c)
      BY <1>10, <2>1 DEF ForClass
    <3>2. Run(n, c)' = Run(n, c)
      BY <1>10, <2>1, <3>1 DEF Run, ForClass
    <3>3. Unfailed(n)' => Unfailed(n)
      BY <1>10, <2>1 DEF Unfailed
    <3>4. n \notin lost' => n \notin lost
      BY <1>1
    <3> QED
      BY <1>1, <1>2, <1>3, <2>1, <3>1, <3>2, <3>3, <3>4 DEF CountsOK
  <2>2. CASE n = m
    <3>1. c \in Class /\ ChannelOf[c] = Destination(m)
      BY <2>2 DEF Heard
    <3>2. Run(n, c)' = {}
      BY <1>10, <2>2 DEF Run, ForClass
    <3>3. runs'[n][c] = Cardinality(Run(n, c)')
      BY <1>1, <1>2, <2>2, <3>1, <3>2, FS_EmptySet
    <3>4. ASSUME n \notin lost'
          PROVE  ForClass(n, c)' = {CopyAt(n, e) : e \in EntriesOf(c)}
      <4>1. \A k \in Dispatchers(c) : Entry(c, k) \subseteq entries[Destination(m)]
        BY <1>1, <2>2, <3>1, <3>4 DEF AllHear, Subscribed
      <4>2. ASSUME NEW x \in ForClass(n, c)'
            PROVE  x \in {CopyAt(n, e) : e \in EntriesOf(c)}
        <5>1. x \in DOMAIN copies' /\ x.message = m /\ x.entry.class = c
          BY <2>2, <4>2 DEF ForClass
        <5>2. PICK e \in entries[Destination(m)] : x = CopyOf(m, e)
          BY <1>10, <5>1 DEF New
        <5>3. x = CopyAt(m, e) /\ e.class = c
          BY <1>2, <5>1, <5>2 DEF CopyOf, CopyAt
        <5>4. ByClass(e)
          BY <1>1, Dispatched
        <5>5. e \in EntriesOf(c)
          BY <5>3, <5>4 DEF ByClass, EntriesOf
        <5> QED
          BY <2>2, <5>3, <5>5
      <4>3. ASSUME NEW e \in EntriesOf(c)
            PROVE  CopyAt(n, e) \in ForClass(n, c)'
        <5>1. PICK k \in Dispatchers(c) : e \in Entry(c, k)
          BY DEF EntriesOf
        <5>2. e.class = c /\ e \in entries[Destination(m)]
          BY <3>1, <4>1, <5>1, EntryOfClass
        <5>3. CopyOf(m, e) = CopyAt(n, e) /\ CopyOf(m, e) \in New(m)
          BY <1>2, <2>2, <5>2 DEF CopyOf, CopyAt, New
        <5>4. CopyAt(n, e).message = n /\ CopyAt(n, e).entry.class = c
          BY <5>2 DEF CopyAt
        <5> QED
          BY <1>10, <5>3, <5>4 DEF ForClass
      <4> QED
        BY <4>2, <4>3
    <3> QED
      BY <3>3, <3>4
  <2> QED
    BY <2>1, <2>2
<1> QED
  BY <1>6, <1>7, <1>8, <1>9, <1>11, <1>12, <1>13 DEF Inv

-----------------------------------------------------------------------------
(* A copy goes on *)

LEMMA Gone ==
  ASSUME Inv, NEW x \in DOMAIN copies, NEW pc \in CopyState, Goto(x, pc)
  PROVE  /\ DOMAIN copies' = DOMAIN copies /\ copies'[x] = pc
         /\ copies' \in [DOMAIN copies' -> CopyState] /\ DOMAIN copies' \subseteq Copy
         /\ \A y \in DOMAIN copies \ {x} : copies'[y] = copies[y]
         /\ x.message \in Message /\ x.entry.class \in Class
BY DEF Inv, ShapesOK, Goto, Copy, Handler

\* What every step of a copy has in common.
Goes(x, pc) ==
  /\ UNCHANGED <<broker, stage, entries, send, outbox, log, deliveries>>
  /\ Goto(x, pc) /\ pc \in CopyState
  /\ late \subseteq late' /\ lost \subseteq lost'
  /\ received \subseteq received' /\ received' \subseteq received \cup {Key(x)}
  /\ runs' = runs \/ Ran(x)

\* No handler's run is taken back.
LEMMA RunsGrow ==
  ASSUME Inv, NEW x \in DOMAIN copies, NEW pc, Goes(x, pc)
  PROVE  /\ runs' \in [Message -> [Class -> Nat]]
         /\ \A n \in Message : \A d \in Class : runs'[n][d] >= runs[n][d]
         /\ \A n \in Message : \A d \in Class :
              n # x.message \/ d # x.entry.class => runs'[n][d] = runs[n][d]
         /\ Ran(x) => runs'[x.message][x.entry.class]
                        = runs[x.message][x.entry.class] + 1
<1>1. /\ runs \in [Message -> [Class -> Nat]] /\ Goto(x, pc) /\ pc \in CopyState
      /\ runs' = runs \/ Ran(x)
  BY DEF Goes, Inv, ShapesOK
<1>2. x.message \in Message /\ x.entry.class \in Class
  BY <1>1, Gone
<1>3. CASE runs' = runs
  <2>1. Ran(x) => runs'[x.message][x.entry.class]
                    = runs[x.message][x.entry.class] + 1
    BY <1>1, <1>2 DEF Ran
  <2> QED
    BY <1>1, <1>3, <2>1
<1>4. CASE Ran(x)
  <2>1. runs' \in [Message -> [Class -> Nat]]
    BY <1>1, <1>2, <1>4 DEF Ran
  <2>2. runs'[x.message][x.entry.class] = runs[x.message][x.entry.class] + 1
    BY <1>1, <1>2, <1>4 DEF Ran
  <2>3. ASSUME NEW n \in Message, NEW d \in Class, n # x.message \/ d # x.entry.class
        PROVE  runs'[n][d] = runs[n][d]
    BY <1>1, <1>2, <1>4, <2>3 DEF Ran
  <2>4. ASSUME NEW n \in Message, NEW d \in Class
        PROVE  runs'[n][d] >= runs[n][d]
    <3>1. runs[n][d] \in Nat
      BY <1>1
    <3> QED
      BY <2>2, <2>3, <3>1
  <2> QED
    BY <2>1, <2>2, <2>3, <2>4
<1> QED
  BY <1>1, <1>3, <1>4

\* Where each step of a copy takes it.
LEMMA CopyMoves ==
  ASSUME Inv, NEW x \in DOMAIN copies, Step(x) \/ NoteFails(x)
  PROVE  \E pc : Goes(x, pc)
<1>1. CASE LookUp(x)
  <2> DEFINE pc == IF broker = "memory" \/ Key(x) \in received THEN "handling"
                   ELSE "noting"
  <2>1. Goes(x, pc)
    BY <1>1 DEF LookUp, Goes, CopyState
  <2> QED
    BY <2>1
<1>2. CASE Note(x)
  <2> DEFINE pc == IF Key(x) \in received THEN "done" ELSE "handling"
  <2>1. Goes(x, pc)
    BY <1>2 DEF Note, Goes, CopyState
  <2> QED
    BY <2>1
<1>3. CASE NoteFails(x)
  <2>1. Goes(x, "done")
    BY <1>3 DEF NoteFails, Goes, CopyState
  <2> QED
    BY <2>1
<1>4. CASE HandleMessage(x)
  <2>1. Goes(x, "done") \/ Goes(x, "failed") \/ Goes(x, "replying")
    BY <1>4 DEF HandleMessage, Goes, CopyState
  <2> QED
    BY <2>1
<1>5. CASE SendReplies(x)
  <2>1. Goes(x, "done") \/ Goes(x, "failed")
    BY <1>5 DEF SendReplies, Goes, CopyState
  <2> QED
    BY <2>1
<1> QED
  BY <1>1, <1>2, <1>3, <1>4, <1>5 DEF Step

LEMMA CopyShapes ==
  ASSUME Inv, NEW x \in DOMAIN copies, Step(x) \/ NoteFails(x)
  PROVE  ShapesOK' /\ EntriesOK' /\ CopiesOK' /\ SagasOK'
<1>1. PICK pc : Goes(x, pc)
  BY CopyMoves
<1>2. Goto(x, pc) /\ pc \in CopyState
      /\ UNCHANGED <<broker, stage, entries, send, outbox, log, deliveries>>
  BY <1>1 DEF Goes
<1>3. ShapesOK /\ EntriesOK /\ CopiesOK /\ SagasOK /\ CopyOK(x)
  BY DEF Inv, CopiesOK
<1>4. /\ DOMAIN copies' = DOMAIN copies /\ copies'[x] = pc
      /\ copies' \in [DOMAIN copies' -> CopyState] /\ DOMAIN copies' \subseteq Copy
      /\ \A y \in DOMAIN copies \ {x} : copies'[y] = copies[y]
      /\ x.message \in Message /\ x.entry.class \in Class
  BY <1>2, Gone
<1>5. /\ runs' \in [Message -> [Class -> Nat]]
      /\ \A n \in Message : \A d \in Class : runs'[n][d] >= runs[n][d]
  BY <1>1, RunsGrow
<1>6. /\ \/ row' = row
         \/ /\ copies[x] = "replying" /\ x.message \in OfSaga
            /\ row' = [row EXCEPT ![x.message] = "ended"]
      /\ \/ replies' = replies
         \/ /\ copies[x] = "replying" /\ x.message \in OfSaga
            /\ replies' = replies \cup {x.message}
  <2>1. CASE SendReplies(x)
    <3>1. copies[x] = "replying"
      BY <2>1 DEF SendReplies
    <3>2. \/ row' = row
          \/ x.message \in OfSaga /\ row' = [row EXCEPT ![x.message] = "ended"]
      BY <2>1 DEF SendReplies
    <3>3. \/ replies' = replies
          \/ x.message \in OfSaga /\ replies' = replies \cup {x.message}
      BY <2>1 DEF SendReplies
    <3> QED
      BY <3>1, <3>2, <3>3
  <2>2. CASE ~SendReplies(x)
    BY <2>2 DEF Step, LookUp, Note, HandleMessage, NoteFails
  <2> QED
    BY <2>1, <2>2
<1>7. received' \subseteq Class \X Message
  BY <1>1, <1>3, <1>4 DEF Goes, Key, ShapesOK
<1>8. ShapesOK'
  <2>1. row' \in [Message -> {"none", "????", "told", "ended"}] /\ replies' \subseteq OfSaga
    BY <1>3, <1>6 DEF ShapesOK
  <2> QED
    BY <1>2, <1>3, <1>4, <1>5, <1>7, <2>1 DEF ShapesOK
<1>9. EntriesOK'
  BY <1>2, <1>3 DEF EntriesOK
<1>10. copies'[x] = "replying" => runs'[x.message][x.entry.class] > 0
  <2>1. SUFFICES ASSUME copies'[x] = "replying"
                 PROVE  runs'[x.message][x.entry.class] > 0
    OBVIOUS
  <2>2. Ran(x)
    BY <1>2, <1>4, <2>1 DEF Step, LookUp, Note, HandleMessage, SendReplies, NoteFails, Goto
  <2>3. runs[x.message][x.entry.class] \in Nat
    BY <1>3, <1>4 DEF ShapesOK
  <2> QED
    BY <1>1, <2>2, <2>3, RunsGrow
<1>11. CopiesOK'
  <2> SUFFICES ASSUME NEW y \in DOMAIN copies PROVE CopyOK(y)'
    BY <1>4 DEF CopiesOK
  <2>1. CopyOK(y) /\ y.message \in Message /\ y.entry.class \in Class
    BY <1>3 DEF CopiesOK, ShapesOK, Copy, Handler
  <2>2. copies'[y] = "replying" => runs'[y.message][y.entry.class] > 0
    <3>1. CASE y = x
      BY <1>10, <3>1
    <3>2. CASE y # x
      <4>1. runs[y.message][y.entry.class] \in Nat /\ runs'[y.message][y.entry.class] \in Nat
        BY <1>3, <1>5, <2>1 DEF ShapesOK
      <4>2. copies'[y] = "replying" => runs[y.message][y.entry.class] > 0
        BY <1>4, <2>1, <3>2 DEF CopyOK
      <4> QED
        BY <1>5, <2>1, <4>1, <4>2
    <3> QED
      BY <3>1, <3>2
  <2> QED
    BY <1>2, <2>1, <2>2 DEF CopyOK, ByClass, Destination
<1>12. SagasOK'
  <2>1. copies[x] = "replying" => runs[x.message][x.entry.class] > 0
    BY <1>3 DEF CopyOK
  <2>2. ASSUME NEW n \in Message, row'[n] = "ended" \/ n \in replies'
        PROVE  \E c \in Class : runs[n][c] > 0
    BY <1>3, <1>4, <1>6, <2>1, <2>2 DEF SagasOK, ShapesOK
  <2>3. ASSUME NEW n \in Message, row'[n] = "ended" \/ n \in replies'
        PROVE  \E c \in Class : runs'[n][c] > 0
    <3>1. PICK c \in Class : runs[n][c] > 0
      BY <2>2, <2>3
    <3>2. runs[n][c] \in Nat /\ runs'[n][c] \in Nat /\ runs'[n][c] >= runs[n][c]
      BY <1>3, <1>5 DEF ShapesOK
    <3>3. runs'[n][c] > 0
      BY <3>1, <3>2
    <3> QED
      BY <3>3
  <2>4. \A n \in Message : row'[n] = row[n] \/ (n \in OfSaga /\ row'[n] = "ended")
    <3> SUFFICES ASSUME NEW n \in Message, row'[n] # row[n]
                 PROVE  n \in OfSaga /\ row'[n] = "ended"
      OBVIOUS
    <3>1. x.message \in OfSaga /\ row' = [row EXCEPT ![x.message] = "ended"]
      BY <1>6
    <3>2. n = x.message
      BY <1>3, <3>1 DEF ShapesOK
    <3> QED
      BY <1>3, <3>1, <3>2 DEF ShapesOK
  <2>5. \A n \in Message : /\ row'[n] # "none" => n \in OfSaga
                           /\ row'[n] = "told" => send'[n] = "resolved"
    BY <1>2, <1>3, <2>4 DEF SagasOK
  <2> QED
    BY <2>3, <2>5 DEF SagasOK
<1> QED
  BY <1>8, <1>9, <1>11, <1>12

\* With a broker: a copy is let through when its row is not there, and runs once.
LEMMA CopyDetected ==
  ASSUME Inv, NEW x \in DOMAIN copies, Step(x) \/ NoteFails(x)
  PROVE  DetectorOK'
<1>1. PICK pc : Goes(x, pc)
  BY CopyMoves
<1>2. Goto(x, pc) /\ pc \in CopyState /\ broker' = broker
      /\ late \subseteq late' /\ received \subseteq received'
  BY <1>1 DEF Goes
<1>3. ShapesOK /\ DetectorOK
  BY DEF Inv
<1>4. /\ DOMAIN copies' = DOMAIN copies /\ copies'[x] = pc
      /\ \A y \in DOMAIN copies \ {x} : copies'[y] = copies[y]
      /\ x.message \in Message /\ x.entry.class \in Class
  BY <1>2, Gone
<1> SUFFICES ASSUME NEW n \in Message \ late', NEW c \in Class, broker # "memory"
             PROVE  /\ \A y, z \in Through(n, c)' : y = z
                    /\ Through(n, c)' # {} => <<c, n>> \in received' /\ runs'[n][c] = 0
                    /\ runs'[n][c] > 0 => <<c, n>> \in received'
                    /\ runs'[n][c] <= 1
  BY <1>2 DEF DetectorOK
<1>5. /\ \A y, z \in Through(n, c) : y = z
      /\ Through(n, c) # {} => <<c, n>> \in received /\ runs[n][c] = 0
      /\ runs[n][c] > 0 => <<c, n>> \in received
      /\ runs[n][c] <= 1 /\ runs[n][c] \in Nat
  BY <1>2, <1>3 DEF DetectorOK, ShapesOK
<1>6. CASE n # x.message \/ c # x.entry.class
  <2>1. Through(n, c)' = Through(n, c)
    BY <1>4, <1>6 DEF Through
  <2>2. runs'[n][c] = runs[n][c]
    BY <1>1, <1>6, RunsGrow
  <2> QED
    BY <1>2, <1>5, <2>1, <2>2
<1>7. CASE n = x.message /\ c = x.entry.class
  <2>1. x \in Through(n, c) <=> copies[x] = "handling"
    BY <1>7 DEF Through
  <2>2. \A y : y # x => (y \in Through(n, c)' <=> y \in Through(n, c))
    BY <1>4 DEF Through
  <2>3. x \in Through(n, c)' <=> pc = "handling"
    BY <1>4, <1>7 DEF Through
  <2>4. Key(x) = <<c, n>>
    BY <1>7 DEF Key
  <2>5. CASE pc # "handling" /\ runs' = runs
    <3>1. Through(n, c)' \subseteq Through(n, c)
      BY <2>2, <2>3, <2>5
    <3> QED
      BY <1>2, <1>5, <2>5, <3>1
  <2>6. CASE LookUp(x)
    <3>1. pc # "handling" /\ runs' = runs
      <4>1. pc = IF broker = "memory" \/ Key(x) \in received THEN "handling" ELSE "noting"
        BY <1>2, <1>4, <2>6, Gone DEF LookUp, Goto
      <4>2. Key(x) \notin received
        BY <1>7, <2>6 DEF LookUp
      <4> QED
        BY <2>6, <4>1, <4>2 DEF LookUp
    <3> QED
      BY <2>5, <3>1
  <2>7. CASE Note(x)
    <3>1. /\ copies[x] = "noting" /\ received' = received \cup {<<c, n>>}
          /\ pc = (IF <<c, n>> \in received THEN "done" ELSE "handling")
          /\ runs' = runs
      BY <1>2, <1>4, <2>4, <2>7 DEF Note, Goto
    <3>2. CASE <<c, n>> \in received
      BY <2>5, <3>1, <3>2
    <3>3. CASE <<c, n>> \notin received
      <4>1. Through(n, c) = {} /\ runs[n][c] = 0
        BY <1>5, <3>3
      <4>2. Through(n, c)' \subseteq {x}
        BY <2>2, <4>1
      <4> QED
        BY <3>1, <4>1, <4>2
    <3> QED
      BY <3>2, <3>3
  <2>8. CASE HandleMessage(x)
    <3>1. copies[x] = "handling" /\ pc # "handling"
      BY <1>2, <1>4, <2>8 DEF HandleMessage, Goto
    <3>2. Through(n, c)' = {} /\ <<c, n>> \in received /\ runs[n][c] = 0
      BY <1>5, <2>1, <2>2, <2>3, <3>1
    <3>3. runs' = runs \/ runs'[n][c] = runs[n][c] + 1
      BY <1>1, <1>7, RunsGrow DEF Goes
    <3>4. runs'[n][c] \in {0, 1}
      BY <3>2, <3>3
    <3> QED
      BY <1>2, <3>2, <3>4
  <2>9. CASE SendReplies(x) \/ NoteFails(x)
    <3>1. pc # "handling" /\ runs' = runs
      BY <1>2, <1>4, <2>9 DEF SendReplies, NoteFails, Goto
    <3> QED
      BY <2>5, <3>1
  <2> QED
    BY <2>6, <2>7, <2>8, <2>9 DEF Step
<1> QED
  BY <1>6, <1>7

\* In memory: nothing that is not handled is done with.
LEMMA CopyInMemory ==
  ASSUME Inv, NEW x \in DOMAIN copies, Step(x) \/ NoteFails(x)
  PROVE  MemoryOK' /\ FirstOK'
<1>1. PICK pc : Goes(x, pc)
  BY CopyMoves
<1>2. Goto(x, pc) /\ pc \in CopyState
      /\ UNCHANGED <<broker, send, outbox, log, deliveries>>
  BY <1>1 DEF Goes
<1>3. ShapesOK /\ MemoryOK /\ FirstOK /\ SagasOK /\ CopyOK(x)
  BY DEF Inv, CopiesOK
<1>4. /\ DOMAIN copies' = DOMAIN copies /\ copies'[x] = pc
      /\ \A y \in DOMAIN copies \ {x} : copies'[y] = copies[y]
      /\ x.message \in Message /\ x.entry.class \in Class
  BY <1>2, Gone
<1> SUFFICES ASSUME broker = "memory" PROVE MemoryOK' /\ FirstOK'
  BY <1>2 DEF MemoryOK, FirstOK
<1>5. copies[x] \in {"looking", "handling", "replying"}
  BY <1>3 DEF Step, LookUp, Note, HandleMessage, SendReplies, NoteFails, MemoryOK
<1>6. send[x.message] \notin {"unsent", "sending", "sent", "resolved"}
  <2>1. deliveries[x.message] # 0
    BY <1>3 DEF CopyOK
  <2> QED
    BY <1>3, <1>4, <1>5, <2>1 DEF MemoryOK
<1>7. row[x.message] # "told"
  BY <1>3, <1>4, <1>6 DEF SagasOK
<1>8. received' = {} /\ replies' = {} /\ row' = row /\ pc # "noting"
  <2>1. CASE LookUp(x)
    BY <1>2, <1>3, <1>4, <2>1 DEF LookUp, Goto, MemoryOK
  <2>2. CASE HandleMessage(x)
    BY <1>2, <1>3, <1>4, <2>2 DEF HandleMessage, Goto, MemoryOK
  <2>3. CASE SendReplies(x)
    BY <1>2, <1>3, <1>4, <1>7, <2>3 DEF SendReplies, Goto, MemoryOK, ReplyFits
  <2> QED
    BY <1>5, <2>1, <2>2, <2>3 DEF Step, Note, NoteFails
<1>9. pc = "done" => x.message \notin OfSaga
  <2> SUFFICES ASSUME pc = "done", x.message \in OfSaga PROVE FALSE
    OBVIOUS
  <2>1. ~LookUp(x)
    BY <1>4 DEF LookUp, Goto
  <2>2. ~HandleMessage(x)
    <3>1. x.message \notin Event
      BY RoutingAssumption
    <3> QED
      BY <1>4, <3>1 DEF HandleMessage, Goto, Refused
  <2>3. ~SendReplies(x)
    BY <1>4, <1>7 DEF SendReplies, Goto, ReplyFits
  <2> QED
    BY <1>5, <2>1, <2>2, <2>3 DEF Step, Note, NoteFails
<1>10. MemoryOK'
  <2>1. \A y \in DOMAIN copies' : y.delivery = 0 /\ copies'[y] # "noting"
    BY <1>3, <1>4, <1>8 DEF MemoryOK
  <2>2. ASSUME NEW n \in Message
        PROVE  /\ send'[n] \in {"unsent", "sending"} =>
                    deliveries'[n] = 0 /\ \A c \in Class : runs'[n][c] = 0
               /\ send'[n] = "waiting" => deliveries'[n] = 1
               /\ send'[n] \in {"sent", "resolved"} =>
                    \A y \in DOMAIN copies' : y.message = n => copies'[y] = "done"
               /\ row'[n] # "ended"
    <3>1. CASE n = x.message
      BY <1>2, <1>3, <1>6, <1>8, <3>1 DEF MemoryOK
    <3>2. CASE n # x.message
      <4>1. \A c \in Class : runs'[n][c] = runs[n][c]
        BY <1>1, <3>2, RunsGrow
      <4> QED
        BY <1>2, <1>3, <1>4, <1>8, <3>2, <4>1 DEF MemoryOK
    <3> QED
      BY <3>1, <3>2
  <2> QED
    BY <1>2, <1>3, <1>8, <2>1, <2>2 DEF MemoryOK
<1>11. FirstOK'
  <2> SUFFICES ASSUME NEW m \in OfSaga
               PROVE  /\ \A y \in DOMAIN copies' : y.message = m => copies'[y] # "done"
                      /\ \A c \in Class : runs'[m][c] > 0 =>
                           \E y \in DOMAIN copies' : y.message = m /\ y.entry.class = c
    BY DEF FirstOK
  <2>1. m \in Message
    BY RoutingAssumption
  <2>2. \A y \in DOMAIN copies' : y.message = m => copies'[y] # "done"
    BY <1>3, <1>4, <1>9 DEF FirstOK
  <2>3. ASSUME NEW c \in Class, runs'[m][c] > 0
        PROVE  \E y \in DOMAIN copies' : y.message = m /\ y.entry.class = c
    <3>1. CASE m = x.message /\ c = x.entry.class
      BY <1>4, <3>1
    <3>2. CASE m # x.message \/ c # x.entry.class
      <4>1. runs'[m][c] = runs[m][c]
        BY <1>1, <2>1, <3>2, RunsGrow
      <4> QED
        BY <1>3, <1>4, <2>3, <4>1 DEF FirstOK
    <3> QED
      BY <3>1, <3>2
  <2> QED
    BY <2>2, <2>3
<1> QED
  BY <1>10, <1>11

\* In memory: a copy that goes to its handler is counted there.
LEMMA CopyCounted ==
  ASSUME Inv, NEW x \in DOMAIN copies, Step(x) \/ NoteFails(x)
  PROVE  CountsOK'
<1>1. PICK pc : Goes(x, pc)
  BY CopyMoves
<1>2. Goto(x, pc) /\ pc \in CopyState /\ broker' = broker /\ send' = send
      /\ lost \subseteq lost'
  BY <1>1 DEF Goes
<1>3. ShapesOK /\ MemoryOK /\ CountsOK
  BY DEF Inv
<1>4. /\ DOMAIN copies' = DOMAIN copies /\ copies'[x] = pc
      /\ \A y \in DOMAIN copies \ {x} : copies'[y] = copies[y]
      /\ x.message \in Message /\ x.entry.class \in Class
  BY <1>2, Gone
<1> SUFFICES ASSUME broker = "memory", NEW m \in Message, NEW c \in Heard(m)
             PROVE  /\ send'[m] \in InHand /\ m \notin lost' =>
                         ForClass(m, c)' = {CopyAt(m, e) : e \in EntriesOf(c)}
                    /\ Unfailed(m)' => runs'[m][c] = Cardinality(Run(m, c)')
  BY <1>2 DEF CountsOK
<1>5. copies[x] \in {"looking", "handling", "replying"}
  BY <1>3 DEF Step, LookUp, Note, HandleMessage, SendReplies, NoteFails, MemoryOK
<1>6. c \in Class /\ MessageType[m] \in HandlesOf[c]
  BY DEF Heard
<1>7. ForClass(m, c)' = ForClass(m, c)
  BY <1>4 DEF ForClass
<1>8. send'[m] \in InHand /\ m \notin lost' =>
        ForClass(m, c)' = {CopyAt(m, e) : e \in EntriesOf(c)}
  BY <1>2, <1>3, <1>7 DEF CountsOK
<1>9. ASSUME Unfailed(m)'
      PROVE  runs'[m][c] = Cardinality(Run(m, c)')
  <2>1. Unfailed(m)
    BY <1>4, <1>5, <1>9 DEF Unfailed
  <2>2. runs[m][c] = Cardinality(Run(m, c))
    BY <1>3, <2>1 DEF CountsOK
  <2>3. CASE m # x.message \/ c # x.entry.class
    <3>1. runs'[m][c] = runs[m][c]
      BY <1>1, <1>6, <2>3, RunsGrow
    <3>2. Run(m, c)' = Run(m, c)
      BY <1>4, <2>3 DEF Run, ForClass
    <3> QED
      BY <2>2, <3>1, <3>2
  <2>4. CASE m = x.message /\ c = x.entry.class
    <3>1. \A y : y # x => (y \in Run(m, c)' <=> y \in Run(m, c))
      BY <1>4 DEF Run, ForClass
    <3>2. /\ x \in Run(m, c) <=> copies[x] \in {"replying", "done"}
          /\ x \in Run(m, c)' <=> pc \in {"replying", "done"}
      BY <1>4, <2>4 DEF Run, ForClass
    <3>3. pc # "failed"
      BY <1>4, <1>9, <2>4 DEF Unfailed
    <3>4. CASE LookUp(x)
      <4>1. copies[x] = "looking" /\ pc = "handling" /\ runs' = runs
        BY <1>2, <1>4, <3>4 DEF LookUp, Goto
      <4>2. Run(m, c)' = Run(m, c)
        BY <3>1, <3>2, <4>1
      <4> QED
        BY <2>2, <4>1, <4>2
    <3>5. CASE HandleMessage(x)
      <4>1. FindTargetMethod(x)
        BY <1>6, <2>4 DEF FindTargetMethod
      <4>2. copies[x] = "handling" /\ pc \in {"replying", "done"} /\ Ran(x)
        BY <1>2, <1>4, <3>3, <3>5, <4>1 DEF HandleMessage, Goto
      <4>3. runs'[m][c] = runs[m][c] + 1
        BY <1>1, <2>4, <4>2, RunsGrow
      <4>4. Run(m, c)' = Run(m, c) \cup {x} /\ x \notin Run(m, c)
        BY <3>1, <3>2, <4>2
      <4>5. IsFiniteSet(Run(m, c))
        BY <1>6, RunFinite
      <4>6. Cardinality(Run(m, c)') = Cardinality(Run(m, c)) + 1
        BY <4>4, <4>5, FS_AddElement
      <4> QED
        BY <2>2, <4>3, <4>6
    <3>6. CASE SendReplies(x)
      <4>1. copies[x] = "replying" /\ pc = "done" /\ runs' = runs
        BY <1>2, <1>4, <3>3, <3>6 DEF SendReplies, Goto
      <4>2. Run(m, c)' = Run(m, c)
        BY <3>1, <3>2, <4>1
      <4> QED
        BY <2>2, <4>1, <4>2
    <3> QED
      BY <1>5, <3>4, <3>5, <3>6 DEF Step, Note, NoteFails
  <2> QED
    BY <2>3, <2>4
<1> QED
  BY <1>8, <1>9

-----------------------------------------------------------------------------
(* The theorems *)

LEMMA InvHolds == Spec => []Inv
<1>1. Init => Inv
  <2> SUFFICES ASSUME Init PROVE Inv
    OBVIOUS
  <2>1. DOMAIN copies = {} /\ copies \in [DOMAIN copies -> CopyState]
    BY DEF Init
  <2>2. broker \in {"memory", "kafka", "outbox"}
    BY RoutingAssumption DEF Init
  <2>3. ShapesOK
    BY <2>1, <2>2 DEF Init, ShapesOK, SendState
  <2>4. EntriesOK /\ CopiesOK
    BY <2>1 DEF Init, EntriesOK, CopiesOK
  <2>5. SagasOK /\ MemoryOK /\ FirstOK
    BY <2>1, RoutingAssumption DEF Init, SagasOK, MemoryOK, FirstOK
  <2>6. DetectorOK
    BY <2>1 DEF Init, DetectorOK, Through
  <2>7. CountsOK
    <3> SUFFICES ASSUME NEW m \in Message, NEW c \in Heard(m)
                 PROVE  send[m] \notin InHand /\ runs[m][c] = Cardinality(Run(m, c))
      BY DEF CountsOK
    <3>1. c \in Class /\ Run(m, c) = {}
      BY <2>1 DEF Heard, Run, ForClass
    <3> QED
      BY <3>1, FS_EmptySet DEF Init, InHand
  <2> QED
    BY <2>3, <2>4, <2>5, <2>6, <2>7 DEF Inv
<1>2. Inv /\ [Next]_state => Inv'
  <2> SUFFICES ASSUME Inv, [Next]_state PROVE Inv'
    OBVIOUS
  <2>1. CASE UNCHANGED state
    <3>1. UNCHANGED <<broker, stage, entries, send, outbox, log, copies, received,
                      replies, row, deliveries, runs, late, lost>>
      BY <2>1 DEF state
    <3>2. CopiesOK' /\ DetectorOK' /\ FirstOK' /\ CountsOK'
      BY <3>1, CopiesKept DEF NotSent
    <3>3. ShapesOK' /\ EntriesOK' /\ SagasOK' /\ MemoryOK'
      BY <3>1 DEF Inv, ShapesOK, EntriesOK, SagasOK, MemoryOK
    <3> QED
      BY <3>2, <3>3 DEF Inv
  <2>2. ASSUME NEW m \in Message, TargetSend(m)
        PROVE  Inv'
    BY <2>2, SendStep, MemorySendStep
  <2>3. ASSUME NEW m \in Message,
               \/ Prepare(m) \/ Awaited(m) \/ PostSend(m) \/ Relay(m) \/ Commit(m)
               \/ HandleReply(m)
        PROVE  Inv'
    BY <2>3, SendStep
  <2>4. ASSUME NEW m \in Message, Deliver(m)
        PROVE  Inv'
    BY <2>4, DeliverStep
  <2>5. ASSUME NEW x \in DOMAIN copies, Step(x) \/ NoteFails(x)
        PROVE  Inv'
    BY <2>5, CopyShapes, CopyDetected, CopyInMemory, CopyCounted DEF Inv
  <2>6. CASE \/ \E c \in Class, k \in {"command", "saga", "event"} :
                  Subscribe(c, k) \/ Close(c, k)
             \/ Bootstrap
    BY <2>6, EntriesStep
  <2> QED
    BY <2>1, <2>2, <2>3, <2>4, <2>5, <2>6 DEF Next, Sending
<1> QED
  BY <1>1, <1>2, PTL DEF Spec

\* RoutingTypeOK: copies are of deliveries that took place, and behind the row of
\* a saga that has ended, and behind each reply, there is a handler that ran.
THEOREM RoutingTyped == Spec => []RoutingTypeOK
<1>1. Inv => RoutingTypeOK
  <2> SUFFICES ASSUME Inv PROVE RoutingTypeOK
    OBVIOUS
  <2>1. \A x \in DOMAIN copies : copies[x] \in CopyState /\ CopyOK(x)
    BY DEF Inv, ShapesOK, CopiesOK
  <2>2. \A m \in Message :
          /\ row[m] \in {"none", "????", "told", "ended"} /\ (row[m] # "none" => m \in OfSaga)
          /\ row[m] = "ended" \/ m \in replies => \E c \in Class : runs[m][c] > 0
    BY DEF Inv, ShapesOK, SagasOK
  <2> QED
    BY <2>1, <2>2 DEF RoutingTypeOK, CopyOK, CopyState
<1> QED
  BY <1>1, InvHolds, PTL

\* RunsPerMessage: the detector lets a class handle a message once, and without
\* one each entry of a class handles it, as ConvoyMessageConsumer.subscribe has
\* one handler called for every channel it is given.
THEOREM RunsCounted == Spec => []RunsPerMessage
<1>1. Inv => RunsPerMessage
  <2> SUFFICES ASSUME Inv, NEW m \in Message, NEW c \in Class
               PROVE  /\ broker # "memory" /\ m \notin late => runs[m][c] <= 1
                      /\ broker = "memory" /\ send[m] = "resolved" /\ m \notin lost
                           /\ c \in Heard(m)
                         => runs[m][c] = NumMethods[c] * Cardinality(Dispatchers(c))
    BY DEF RunsPerMessage
  <2>1. broker # "memory" /\ m \notin late => runs[m][c] <= 1
    BY DEF Inv, DetectorOK
  <2>2. ASSUME broker = "memory", send[m] = "resolved", m \notin lost, c \in Heard(m)
        PROVE  runs[m][c] = NumMethods[c] * Cardinality(Dispatchers(c))
    <3>1. \A x \in DOMAIN copies : x.message = m => copies[x] = "done"
      BY <2>2 DEF Inv, MemoryOK
    <3>2. Unfailed(m) /\ Run(m, c) = ForClass(m, c)
      BY <3>1 DEF Unfailed, Run, ForClass
    <3>3. ForClass(m, c) = {CopyAt(m, e) : e \in EntriesOf(c)}
      BY <2>2 DEF Inv, CountsOK, InHand
    <3>4. runs[m][c] = Cardinality(Run(m, c))
      BY <2>2, <3>2 DEF Inv, CountsOK
    <3> QED
      BY <3>2, <3>3, <3>4, CopiesCount
  <2> QED
    BY <2>1, <2>2
<1> QED
  BY <1>1, InvHolds, PTL

\* SendTells: in memory a send that resolves has had every handler return, and no
\* saga is created whose first command a handler answers.
THEOREM SendIsTold == Spec => []SendTells
<1>1. Inv => SendTells
  <2> SUFFICES ASSUME Inv, NEW m \in Message, broker = "memory"
               PROVE  /\ send[m] = "resolved" =>
                           \A x \in DOMAIN copies : x.message = m => copies[x] = "done"
                      /\ m \in OfSaga /\ send[m] = "resolved" =>
                           \A c \in Class : runs[m][c] = 0
                      /\ row[m] # "ended"
    BY DEF SendTells
  <2>1. /\ send[m] = "resolved" =>
             \A x \in DOMAIN copies : x.message = m => copies[x] = "done"
        /\ row[m] # "ended"
    BY DEF Inv, MemoryOK
  <2>2. ASSUME m \in OfSaga, send[m] = "resolved", NEW c \in Class
        PROVE  runs[m][c] = 0
    <3>1. \A x \in DOMAIN copies : x.message # m
      BY <2>1, <2>2 DEF Inv, FirstOK
    <3>2. ~(runs[m][c] > 0)
      BY <2>2, <3>1 DEF Inv, FirstOK
    <3>3. runs[m][c] \in Nat
      BY DEF Inv, ShapesOK
    <3> QED
      BY <3>2, <3>3
  <2> QED
    BY <2>1, <2>2
<1> QED
  BY <1>1, InvHolds, PTL
=============================================================================
