------------------------ MODULE KafkaConsumer_proofs ------------------------
(***************************************************************************)
(* Proofs about KafkaConsumer, for every group, every number of partitions, *)
(* messages and handlers, and any faults: what is committed was handled by *)
(* every handler, and messages are handled in their order.  And for a      *)
(* member that is alone and never evicted: its commits never go back.      *)
(***************************************************************************)
EXTENDS KafkaConsumer, SumTheorems

\* Every handler is through with the first k messages of partition p.
Before(p, k) == \A i \in 0 .. k - 1 : handled[p][i] = Handler

\* The types the proof needs; unprocessed is not among them, as a commit takes
\* of it only what is in processed.
ShapesOK ==
  /\ committed \in [Partition -> 0 .. LastOffset + 1]
  /\ position \in [Member -> [Partition -> 0 .. LastOffset + 1]]
  /\ pc \in [Member -> {"idle", "handling", "commit"}]
  /\ current \in [Member -> Message]
  /\ waiting \in [Member -> SUBSET Handler]
  /\ stray \subseteq Run
  /\ processed \in [Member -> [Partition -> SUBSET Offset]]
  /\ handled \in [Partition -> [Offset -> SUBSET Handler]]

\* Nobody is further than what has been handled: neither the group, nor a
\* member, nor a tracker, nor a handler that was left running.
OffsetsOK ==
  /\ \A p \in Partition : Before(p, committed[p])
  /\ \A m \in Member : \A p \in Partition : Before(p, position[m][p])

TrackersOK ==
  \A m \in Member : \A p \in Partition :
    \A k \in processed[m][p] : Before(p, k + 1)

StrayOK == \A x \in stray : Before(x.message.partition, x.message.offset)

\* The handlers a member does not wait for any more have handled its message.
MemberOK(m) ==
  /\ pc[m] # "idle" => Before(current[m].partition, current[m].offset)
  /\ pc[m] = "handling" =>
       Handler \ waiting[m]
         \subseteq handled[current[m].partition][current[m].offset]
  /\ pc[m] = "commit" =>
       handled[current[m].partition][current[m].offset] = Handler

MembersOK == \A m \in Member : MemberOK(m)

\* The inductive invariant.
KafkaInv ==
  /\ ShapesOK
  /\ OffsetsOK
  /\ TrackersOK
  /\ StrayOK
  /\ MembersOK
  /\ HandledInOrder

-----------------------------------------------------------------------------
(* The history *)

\* No handler's success is forgotten in a step.
Grows ==
  \A p \in Partition : \A k \in Offset : handled[p][k] \subseteq handled'[p][k]

\* What has been handled stays handled.
LEMMA BeforeKept ==
  ASSUME ShapesOK, handled' \in [Partition -> [Offset -> SUBSET Handler]], Grows
  PROVE  \A p \in Partition : \A k \in 0 .. LastOffset + 1 :
           Before(p, k) => Before(p, k)'
<1> USE ConsumerAssumption
<1> SUFFICES ASSUME NEW p \in Partition, NEW k \in 0 .. LastOffset + 1,
                    Before(p, k), NEW i \in 0 .. k - 1
             PROVE  handled'[p][i] = Handler
  BY DEF Before
<1>1. i \in Offset
  BY DEF Offset
<1>2. handled[p][i] = Handler
  BY DEF Before
<1>3. handled'[p][i] \subseteq Handler
  BY <1>1
<1>4. handled[p][i] \subseteq handled'[p][i]
  BY <1>1 DEF Grows
<1> QED
  BY <1>2, <1>3, <1>4

\* One message more.
LEMMA BeforeNext ==
  ASSUME NEW p \in Partition, NEW k \in Offset, Before(p, k),
         handled[p][k] = Handler
  PROVE  Before(p, k + 1)
<1> USE ConsumerAssumption
<1> SUFFICES ASSUME NEW i \in 0 .. k PROVE handled[p][i] = Handler
  BY DEF Before, Offset
<1> QED
  BY DEF Before, Offset

\* A handler that returns: the history grows by one entry, in order.
LEMMA ReturnedKeeps ==
  ASSUME KafkaInv, NEW x \in Message, NEW h \in Handler,
         Before(x.partition, x.offset), handled' = Returned(x, h)
  PROVE  /\ handled' \in [Partition -> [Offset -> SUBSET Handler]]
         /\ Grows
         /\ h \in handled'[x.partition][x.offset]
         /\ HandledInOrder'
<1> USE ConsumerAssumption
<1>1. x.partition \in Partition /\ x.offset \in Offset
  BY DEF Message
<1> DEFINE q == x.partition
           o == x.offset
<1>2. handled \in [Partition -> [Offset -> SUBSET Handler]]
  BY DEF KafkaInv, ShapesOK
<1>3. handled' = [handled EXCEPT ![q] =
                    [handled[q] EXCEPT ![o] = handled[q][o] \cup {h}]]
  BY DEF Returned
<1>4. q \in Partition /\ o \in Offset
  BY <1>1
<1> HIDE DEF q, o
<1>5. /\ handled' \in [Partition -> [Offset -> SUBSET Handler]]
      /\ handled'[q][o] = handled[q][o] \cup {h}
      /\ \A p \in Partition : \A k \in Offset :
           ~(p = q /\ k = o) => handled'[p][k] = handled[p][k]
  <2>1. handled[q] \in [Offset -> SUBSET Handler]
    BY <1>2, <1>4
  <2>2. [handled[q] EXCEPT ![o] = handled[q][o] \cup {h}]
          \in [Offset -> SUBSET Handler]
    BY <1>4, <2>1
  <2> QED
    BY <1>2, <1>3, <1>4, <2>1, <2>2
<1>6. Grows
  BY <1>5 DEF Grows
<1>7. HandledInOrder'
  <2> SUFFICES ASSUME NEW p \in Partition, NEW k \in Offset,
                      handled'[p][k] # {}
               PROVE  Before(p, k)'
    BY DEF HandledInOrder, Before
  <2>1. Before(p, k)
    <3>1. CASE p = q /\ k = o
      BY <3>1 DEF q, o
    <3>2. CASE ~(p = q /\ k = o)
      BY <3>2, <1>5 DEF KafkaInv, HandledInOrder, Before
    <3> QED
      BY <3>1, <3>2
  <2> QED
    BY <2>1, <1>5, <1>6, BeforeKept DEF KafkaInv, Offset
<1> QED
  BY <1>5, <1>6, <1>7 DEF q, o

\* The parts of the invariant that a step leaves alone hold on.
LEMMA KafkaFrame ==
  ASSUME KafkaInv, handled' \in [Partition -> [Offset -> SUBSET Handler]], Grows
  PROVE  /\ committed' = committed /\ position' = position => OffsetsOK'
         /\ processed' = processed => TrackersOK'
         /\ stray' \subseteq stray => StrayOK'
         /\ \A m \in Member :
              pc'[m] = pc[m] /\ current'[m] = current[m] /\ waiting'[m] = waiting[m]
                => MemberOK(m)'
<1> USE ConsumerAssumption
<1>1. \A p \in Partition : \A k \in 0 .. LastOffset + 1 :
        Before(p, k) => Before(p, k)'
  BY BeforeKept DEF KafkaInv
<1>2. ASSUME committed' = committed, position' = position PROVE OffsetsOK'
  BY <1>1, <1>2 DEF KafkaInv, OffsetsOK, ShapesOK
<1>3. ASSUME processed' = processed PROVE TrackersOK'
  <2> SUFFICES ASSUME NEW m \in Member, NEW p \in Partition,
                      NEW k \in processed[m][p]
               PROVE  Before(p, k + 1)'
    BY <1>3 DEF TrackersOK
  <2>1. k \in Offset
    BY DEF KafkaInv, ShapesOK
  <2> QED
    BY <1>1, <2>1 DEF KafkaInv, TrackersOK, Offset
<1>4. ASSUME stray' \subseteq stray PROVE StrayOK'
  <2> SUFFICES ASSUME NEW x \in stray
               PROVE  Before(x.message.partition, x.message.offset)'
    BY <1>4 DEF StrayOK
  <2>1. x.message.partition \in Partition /\ x.message.offset \in Offset
    BY DEF KafkaInv, ShapesOK, Run, Message
  <2> QED
    BY <1>1, <2>1 DEF KafkaInv, StrayOK, Offset
<1>5. ASSUME NEW m \in Member, pc'[m] = pc[m], current'[m] = current[m],
             waiting'[m] = waiting[m]
      PROVE  MemberOK(m)'
  <2>1. PICK p \in Partition, k \in Offset :
          p = current[m].partition /\ k = current[m].offset
    BY DEF KafkaInv, ShapesOK, Message
  <2>2. /\ pc[m] # "idle" => Before(p, k)
        /\ pc[m] = "handling" => Handler \ waiting[m] \subseteq handled[p][k]
        /\ pc[m] = "commit" => handled[p][k] = Handler
    BY <2>1 DEF KafkaInv, MembersOK, MemberOK
  <2>3. handled[p][k] \subseteq handled'[p][k] /\ handled'[p][k] \subseteq Handler
    BY DEF Grows
  <2>4. pc[m] # "idle" => Before(p, k)'
    BY <1>1, <2>2 DEF Offset
  <2>5. /\ pc[m] = "handling" => Handler \ waiting[m] \subseteq handled'[p][k]
        /\ pc[m] = "commit" => handled'[p][k] = Handler
    BY <2>2, <2>3
  <2> QED
    BY <1>5, <2>1, <2>4, <2>5 DEF MemberOK
<1> QED
  BY <1>2, <1>3, <1>4, <1>5

\* While no handler returns, the history stays as it is.
LEMMA HistoryKept ==
  ASSUME KafkaInv, handled' = handled
  PROVE  /\ handled' \in [Partition -> [Offset -> SUBSET Handler]]
         /\ Grows
         /\ HandledInOrder'
         /\ \A p, k : Before(p, k)' <=> Before(p, k)
  BY DEF KafkaInv, ShapesOK, Grows, HandledInOrder, Before

-----------------------------------------------------------------------------
(* Every step keeps the invariant *)

\* Nothing has been handled, and nobody claims that it has.
LEMMA KafkaInit == Init => KafkaInv
<1> USE ConsumerAssumption
<1> SUFFICES ASSUME Init PROVE KafkaInv
  OBVIOUS
<1>1. NoMessage \in Message
  <2>1. (CHOOSE p \in Partition : TRUE) \in Partition
    OBVIOUS
  <2> QED
    BY <2>1 DEF NoMessage, Message, Offset
<1>2. ShapesOK
  BY <1>1 DEF Init, ShapesOK
<1>3. \A p \in Partition : Before(p, 0)
  BY DEF Before
<1>4. OffsetsOK /\ TrackersOK /\ StrayOK /\ MembersOK
  BY <1>3 DEF Init, OffsetsOK, TrackersOK, StrayOK, MembersOK, MemberOK
<1>5. HandledInOrder
  BY DEF Init, HandledInOrder
<1> QED
  BY <1>2, <1>4, <1>5 DEF KafkaInv

\* Members start from what is committed.
LEMMA RebalanceKeeps ==
  ASSUME KafkaInv, Rebalance
  PROVE  KafkaInv'
<1> DEFINE idle == {m \in Member : pc[m] = "idle"}
<1>1. /\ position' = [m \in Member |-> IF m \in idle
                                       THEN [p \in Partition |-> committed[p]]
                                       ELSE position[m]]
      /\ UNCHANGED <<committed, pc, current, waiting, stray, processed, handled>>
  BY DEF Rebalance, StartOffset
<1> HIDE DEF idle
<1>2. ShapesOK'
  BY <1>1 DEF KafkaInv, ShapesOK
<1>3. /\ handled' \in [Partition -> [Offset -> SUBSET Handler]] /\ Grows
      /\ HandledInOrder' /\ \A p, k : Before(p, k)' <=> Before(p, k)
  BY <1>1, HistoryKept
<1>4. OffsetsOK'
  <2>1. \A p \in Partition : Before(p, committed[p])'
    BY <1>1, <1>3 DEF KafkaInv, OffsetsOK
  <2>2. ASSUME NEW m \in Member, NEW p \in Partition
        PROVE  Before(p, position[m][p])'
    <3>1. PICK k : k = position'[m][p]
      OBVIOUS
    <3>2. k = committed[p] \/ k = position[m][p]
      BY <1>1, <3>1
    <3>3. Before(p, k)
      BY <3>2 DEF KafkaInv, OffsetsOK
    <3> QED
      BY <1>3, <3>1, <3>3
  <2> QED
    BY <2>1, <2>2 DEF OffsetsOK
<1>5. TrackersOK' /\ StrayOK' /\ MembersOK'
  BY <1>1, <1>3, KafkaFrame DEF MembersOK
<1> QED
  BY <1>2, <1>3, <1>4, <1>5 DEF KafkaInv

\* A process that starts again has noted nothing.
LEMMA CrashKeeps ==
  ASSUME KafkaInv, NEW m \in Member, Crash(m)
  PROVE  KafkaInv'
<1>1. /\ pc' = [pc EXCEPT ![m] = "idle"]
      /\ waiting' = [waiting EXCEPT ![m] = {}]
      /\ stray' \subseteq stray
      /\ processed' = [processed EXCEPT ![m] = [p \in Partition |-> {}]]
      /\ UNCHANGED <<committed, position, current, handled>>
  BY DEF Crash, Goto
<1>2. ShapesOK'
  BY <1>1 DEF KafkaInv, ShapesOK
<1>3. /\ handled' \in [Partition -> [Offset -> SUBSET Handler]] /\ Grows
      /\ HandledInOrder' /\ \A p, k : Before(p, k)' <=> Before(p, k)
  BY <1>1, HistoryKept
<1>4. TrackersOK'
  BY <1>1, <1>3 DEF KafkaInv, TrackersOK, ShapesOK
<1>5. OffsetsOK' /\ StrayOK'
  BY <1>1, <1>3, KafkaFrame
<1>6. MembersOK'
  <2> SUFFICES ASSUME NEW n \in Member PROVE MemberOK(n)'
    BY DEF MembersOK
  <2>1. CASE n = m
    BY <1>1, <2>1 DEF MemberOK, KafkaInv, ShapesOK
  <2>2. CASE n # m
    BY <1>1, <1>3, <2>2, KafkaFrame DEF KafkaInv, ShapesOK
  <2> QED
    BY <2>1, <2>2
<1> QED
  BY <1>2, <1>3, <1>4, <1>5, <1>6 DEF KafkaInv

\* The message delivered is the one at the member's position.
LEMMA DeliverKeeps ==
  ASSUME KafkaInv, NEW m \in Member, NEW p \in Partition, Deliver(m, p)
  PROVE  KafkaInv'
<1> USE ConsumerAssumption
<1>1. /\ position[m][p] <= LastOffset
      /\ current' = [current EXCEPT ![m] =
           [partition |-> p, offset |-> position[m][p]]]
      /\ waiting' = [waiting EXCEPT ![m] = Handler]
      /\ pc' = [pc EXCEPT ![m] = "handling"]
      /\ UNCHANGED <<committed, position, stray, processed, handled>>
  BY DEF Deliver, Goto
<1>2. /\ position[m][p] \in Offset
      /\ [partition |-> p, offset |-> position[m][p]] \in Message
  BY <1>1 DEF KafkaInv, ShapesOK, Offset, Message
<1>3. ShapesOK'
  BY <1>1, <1>2 DEF KafkaInv, ShapesOK
<1>4. /\ handled' \in [Partition -> [Offset -> SUBSET Handler]] /\ Grows
      /\ HandledInOrder' /\ \A q, k : Before(q, k)' <=> Before(q, k)
  BY <1>1, HistoryKept
<1>5. OffsetsOK' /\ StrayOK' /\ TrackersOK'
  BY <1>1, <1>4, KafkaFrame
<1>6. MembersOK'
  <2> SUFFICES ASSUME NEW n \in Member PROVE MemberOK(n)'
    BY DEF MembersOK
  <2>1. CASE n = m
    <3>1. Before(p, position[m][p])
      BY DEF KafkaInv, OffsetsOK
    <3> QED
      BY <1>1, <1>4, <2>1, <3>1 DEF MemberOK, KafkaInv, ShapesOK
  <2>2. CASE n # m
    BY <1>1, <1>4, <2>2, KafkaFrame DEF KafkaInv, ShapesOK
  <2> QED
    BY <2>1, <2>2
<1> QED
  BY <1>3, <1>4, <1>5, <1>6 DEF KafkaInv

\* A handler was given a message that comes after what has been handled.
LEMMA HandlerReturnsKeeps ==
  ASSUME KafkaInv, NEW m \in Member, NEW h \in Handler, HandlerReturns(m, h)
  PROVE  KafkaInv'
<1>1. /\ pc[m] = "handling" /\ h \in waiting[m]
      /\ handled' = Returned(current[m], h)
      /\ waiting' = [waiting EXCEPT ![m] = waiting[m] \ {h}]
      /\ UNCHANGED <<committed, position, pc, current, stray, processed>>
  BY DEF HandlerReturns
<1>2. PICK x \in Message : x = current[m]
  BY DEF KafkaInv, ShapesOK
<1>3. PICK p \in Partition, k \in Offset : p = x.partition /\ k = x.offset
  BY DEF Message
<1>4. Before(p, k) /\ Handler \ waiting[m] \subseteq handled[p][k]
  BY <1>1, <1>2, <1>3 DEF KafkaInv, MembersOK, MemberOK
<1>5. /\ handled' \in [Partition -> [Offset -> SUBSET Handler]] /\ Grows
      /\ h \in handled'[p][k] /\ HandledInOrder'
  BY <1>1, <1>2, <1>3, <1>4, ReturnedKeeps
<1>6. ShapesOK'
  BY <1>1, <1>5 DEF KafkaInv, ShapesOK
<1>7. OffsetsOK' /\ StrayOK' /\ TrackersOK'
  BY <1>1, <1>5, KafkaFrame
<1>8. MembersOK'
  <2> SUFFICES ASSUME NEW n \in Member PROVE MemberOK(n)'
    BY DEF MembersOK
  <2>1. CASE n = m
    <3>1. Before(p, k)'
      <4>1. k \in 0 .. LastOffset + 1
        BY ConsumerAssumption DEF Offset
      <4> QED
        BY <1>4, <1>5, <4>1, BeforeKept DEF KafkaInv
    <3>2. Handler \ waiting'[m] \subseteq handled'[p][k]
      <4>1. waiting'[m] = waiting[m] \ {h}
        BY <1>1 DEF KafkaInv, ShapesOK
      <4>2. handled[p][k] \subseteq handled'[p][k]
        BY <1>5 DEF Grows
      <4> QED
        BY <1>4, <1>5, <4>1, <4>2
    <3>3. pc'[m] = "handling" /\ current'[m].partition = p /\ current'[m].offset = k
      BY <1>1, <1>2, <1>3
    <3> QED
      BY <2>1, <3>1, <3>2, <3>3 DEF MemberOK
  <2>2. CASE n # m
    BY <1>1, <1>5, <2>2, KafkaFrame DEF KafkaInv, ShapesOK
  <2> QED
    BY <2>1, <2>2
<1> QED
  BY <1>5, <1>6, <1>7, <1>8 DEF KafkaInv

\* The handlers left running have a message of which the same is true.
LEMMA HandlerThrowsKeeps ==
  ASSUME KafkaInv, NEW m \in Member, NEW h \in Handler, HandlerThrows(m, h)
  PROVE  KafkaInv'
<1>1. /\ pc[m] = "handling"
      /\ stray' = stray \cup
           [member : {m}, message : {current[m]}, handler : waiting[m] \ {h}]
      /\ waiting' = [waiting EXCEPT ![m] = {}]
      /\ position' = [position EXCEPT ![m] =
           [position[m] EXCEPT ![current[m].partition] = current[m].offset]]
      /\ pc' = [pc EXCEPT ![m] = "idle"]
      /\ UNCHANGED <<committed, current, processed, handled>>
  BY DEF HandlerThrows, Goto, AfterThrow
<1>2. PICK p \in Partition, k \in Offset :
        p = current[m].partition /\ k = current[m].offset
  BY DEF KafkaInv, ShapesOK, Message
<1>3. Before(p, k)
  BY <1>1, <1>2 DEF KafkaInv, MembersOK, MemberOK
<1>4. /\ handled' \in [Partition -> [Offset -> SUBSET Handler]] /\ Grows
      /\ HandledInOrder' /\ \A q, i : Before(q, i)' <=> Before(q, i)
  BY <1>1, HistoryKept
<1>5. \A x \in stray' : x \in stray \/
        (x \in Run /\ x.message.partition = p /\ x.message.offset = k)
  BY <1>1, <1>2 DEF KafkaInv, ShapesOK, Run
<1>6. position'[m] = [position[m] EXCEPT ![p] = k]
      /\ position' \in [Member -> [Partition -> 0 .. LastOffset + 1]]
      /\ \A n \in Member : n # m => position'[n] = position[n]
  <2>1. k \in 0 .. LastOffset + 1
    BY ConsumerAssumption DEF Offset
  <2>2. [position[m] EXCEPT ![p] = k] \in [Partition -> 0 .. LastOffset + 1]
    BY <2>1 DEF KafkaInv, ShapesOK
  <2>3. position' = [position EXCEPT ![m] = [position[m] EXCEPT ![p] = k]]
    BY <1>1, <1>2
  <2>4. position \in [Member -> [Partition -> 0 .. LastOffset + 1]]
    BY DEF KafkaInv, ShapesOK
  <2> QED
    BY <2>2, <2>3, <2>4
<1>7. ShapesOK'
  <2>1. stray' \subseteq Run
    BY <1>5 DEF KafkaInv, ShapesOK
  <2> QED
    BY <1>1, <1>6, <2>1 DEF KafkaInv, ShapesOK
<1>8. OffsetsOK'
  <2>1. \A q \in Partition : Before(q, committed[q])'
    BY <1>1, <1>4 DEF KafkaInv, OffsetsOK
  <2>2. ASSUME NEW n \in Member, NEW q \in Partition
        PROVE  Before(q, position[n][q])'
    <3>1. PICK i : i = position'[n][q]
      OBVIOUS
    <3>2. i = position[n][q] \/ (q = p /\ i = k)
      BY <1>6, <3>1 DEF KafkaInv, ShapesOK
    <3>3. Before(q, i)
      BY <1>3, <3>2 DEF KafkaInv, OffsetsOK
    <3> QED
      BY <1>4, <3>1, <3>3
  <2> QED
    BY <2>1, <2>2 DEF OffsetsOK
<1>9. TrackersOK'
  BY <1>1, <1>4, KafkaFrame
<1>10. StrayOK'
  BY <1>3, <1>4, <1>5 DEF KafkaInv, StrayOK
<1>11. MembersOK'
  <2> SUFFICES ASSUME NEW n \in Member PROVE MemberOK(n)'
    BY DEF MembersOK
  <2>1. CASE n = m
    BY <1>1, <2>1 DEF MemberOK, KafkaInv, ShapesOK
  <2>2. CASE n # m
    BY <1>1, <1>4, <2>2, KafkaFrame DEF KafkaInv, ShapesOK
  <2> QED
    BY <2>1, <2>2
<1> QED
  BY <1>4, <1>7, <1>8, <1>9, <1>10, <1>11 DEF KafkaInv

\* A stray handler returns in order too.
LEMMA StrayKeeps ==
  ASSUME KafkaInv, NEW x \in stray, StrayReturns(x) \/ StrayThrows(x)
  PROVE  KafkaInv'
<1>1. /\ stray' \subseteq stray
      /\ handled' = Returned(x.message, x.handler) \/ handled' = handled
      /\ UNCHANGED <<committed, position, pc, current, waiting, processed>>
  BY DEF StrayReturns, StrayThrows
<1>2. PICK y \in Message, h \in Handler : y = x.message /\ h = x.handler
  BY DEF KafkaInv, ShapesOK, Run
<1>3. Before(y.partition, y.offset)
  BY <1>2 DEF KafkaInv, StrayOK
<1>4. /\ handled' \in [Partition -> [Offset -> SUBSET Handler]] /\ Grows
      /\ HandledInOrder'
  BY <1>1, <1>2, <1>3, ReturnedKeeps, HistoryKept
<1>5. ShapesOK'
  BY <1>1, <1>4 DEF KafkaInv, ShapesOK
<1>6. OffsetsOK' /\ StrayOK' /\ TrackersOK' /\ MembersOK'
  BY <1>1, <1>4, KafkaFrame DEF MembersOK
<1> QED
  BY <1>4, <1>5, <1>6 DEF KafkaInv

\* What the tracker notes as processed, every handler has returned from.
LEMMA NoteProcessedKeeps ==
  ASSUME KafkaInv, NEW m \in Member, NoteProcessed(m)
  PROVE  KafkaInv'
<1>1. /\ pc[m] = "handling" /\ waiting[m] = {}
      /\ processed' = [processed EXCEPT ![m] =
           [processed[m] EXCEPT ![current[m].partition] =
              processed[m][current[m].partition] \cup {current[m].offset}]]
      /\ pc' = [pc EXCEPT ![m] = "commit"]
      /\ UNCHANGED <<committed, position, current, waiting, stray, handled>>
  BY DEF NoteProcessed, HandlersDone, Goto
<1>2. PICK p \in Partition, k \in Offset :
        p = current[m].partition /\ k = current[m].offset
  BY DEF KafkaInv, ShapesOK, Message
<1>3. Before(p, k) /\ handled[p][k] = Handler
  <2>1. Before(p, k) /\ Handler \ waiting[m] \subseteq handled[p][k]
    BY <1>1, <1>2 DEF KafkaInv, MembersOK, MemberOK
  <2>2. handled[p][k] \subseteq Handler
    BY DEF KafkaInv, ShapesOK
  <2> QED
    BY <1>1, <2>1, <2>2
<1>4. /\ handled' \in [Partition -> [Offset -> SUBSET Handler]] /\ Grows
      /\ HandledInOrder' /\ \A q, i : Before(q, i)' <=> Before(q, i)
  BY <1>1, HistoryKept
<1>5. /\ processed' \in [Member -> [Partition -> SUBSET Offset]]
      /\ \A n \in Member : \A q \in Partition : \A i \in processed'[n][q] :
           i \in processed[n][q] \/ (q = p /\ i = k)
  <2>1. processed' = [processed EXCEPT ![m] =
          [processed[m] EXCEPT ![p] = processed[m][p] \cup {k}]]
    BY <1>1, <1>2
  <2>2. processed \in [Member -> [Partition -> SUBSET Offset]]
    BY DEF KafkaInv, ShapesOK
  <2>3. [processed[m] EXCEPT ![p] = processed[m][p] \cup {k}]
          \in [Partition -> SUBSET Offset]
    BY <2>2
  <2> QED
    BY <2>1, <2>2, <2>3
<1>6. ShapesOK'
  BY <1>1, <1>4, <1>5 DEF KafkaInv, ShapesOK
<1>7. OffsetsOK' /\ StrayOK'
  BY <1>1, <1>4, KafkaFrame
<1>8. TrackersOK'
  <2>1. Before(p, k + 1)
    BY <1>3, BeforeNext
  <2> SUFFICES ASSUME NEW n \in Member, NEW q \in Partition,
                      NEW i \in processed'[n][q]
               PROVE  Before(q, i + 1)'
    BY DEF TrackersOK
  <2>2. Before(q, i + 1)
    BY <1>5, <2>1 DEF KafkaInv, TrackersOK
  <2> QED
    BY <1>4, <2>2
<1>9. MembersOK'
  <2> SUFFICES ASSUME NEW n \in Member PROVE MemberOK(n)'
    BY DEF MembersOK
  <2>1. CASE n = m
    BY <1>1, <1>2, <1>3, <1>4, <2>1 DEF MemberOK, KafkaInv, ShapesOK
  <2>2. CASE n # m
    BY <1>1, <1>4, <2>2, KafkaFrame DEF KafkaInv, ShapesOK
  <2> QED
    BY <2>1, <2>2
<1> QED
  BY <1>4, <1>6, <1>7, <1>8, <1>9 DEF KafkaInv

\* What a member commits is what its tracker says has been processed.
LEMMA CommittedSound ==
  ASSUME KafkaInv, NEW m \in Member
  PROVE  /\ OffsetsCommitted(m) \in [Partition -> 0 .. LastOffset + 1]
         /\ \A p \in Partition : Before(p, OffsetsCommitted(m)[p])
<1> USE ConsumerAssumption
<1> SUFFICES ASSUME NEW p \in Partition
             PROVE  /\ OffsetsCommitted(m)[p] \in 0 .. LastOffset + 1
                    /\ Before(p, OffsetsCommitted(m)[p])
  BY DEF OffsetsCommitted
<1>1. CASE ToCommit(m, p) = {}
  BY <1>1 DEF OffsetsCommitted, KafkaInv, ShapesOK, OffsetsOK
<1>2. CASE ToCommit(m, p) # {}
  <2>1. OffsetsCommitted(m)[p] \in ToCommit(m, p)
    BY <1>2 DEF OffsetsCommitted
  <2>2. PICK k \in processed[m][p] : OffsetsCommitted(m)[p] = k + 1
    BY <2>1 DEF ToCommit, FirstProcessed
  <2>3. k \in Offset /\ Before(p, k + 1)
    BY DEF KafkaInv, ShapesOK, TrackersOK
  <2> QED
    BY <2>2, <2>3 DEF Offset
<1> QED
  BY <1>1, <1>2

\* The end of eachMessage, with or without a commit.
LEMMA CommitKeeps ==
  ASSUME KafkaInv, NEW m \in Member, CommitOffsets(m) \/ CommitFails(m)
  PROVE  KafkaInv'
<1> USE ConsumerAssumption
<1>1. PICK p \in Partition, k \in Offset :
        p = current[m].partition /\ k = current[m].offset
  BY DEF KafkaInv, ShapesOK, Message
<1>2. PICK next \in {k, k + 1} :
        /\ pc[m] = "commit" /\ pc' = [pc EXCEPT ![m] = "idle"]
        /\ committed' \in {committed, OffsetsCommitted(m)}
        /\ position' = [position EXCEPT ![m] =
                          [position[m] EXCEPT ![p] = next]]
        /\ UNCHANGED <<current, waiting, stray, handled>>
  BY <1>1 DEF CommitOffsets, CommitFails, Goto, AfterThrow
<1>3. Before(p, next) /\ next \in 0 .. LastOffset + 1
  <2>1. Before(p, k) /\ handled[p][k] = Handler
    BY <1>1, <1>2 DEF KafkaInv, MembersOK, MemberOK
  <2>2. Before(p, k + 1)
    BY <2>1, BeforeNext
  <2> QED
    BY <2>1, <2>2 DEF Offset
<1>4. /\ handled' \in [Partition -> [Offset -> SUBSET Handler]] /\ Grows
      /\ HandledInOrder' /\ \A q, i : Before(q, i)' <=> Before(q, i)
  BY <1>2, HistoryKept
<1>5. /\ processed' \in [Member -> [Partition -> SUBSET Offset]]
      /\ \A n \in Member : \A q \in Partition :
           processed'[n][q] \subseteq processed[n][q]
  <2>1. processed \in [Member -> [Partition -> SUBSET Offset]]
    BY DEF KafkaInv, ShapesOK
  <2>2. CASE processed' = processed
    BY <2>1, <2>2
  <2>3. CASE CommitOffsets(m)
    <3>1. processed' = [processed EXCEPT ![m] = [q \in Partition |->
             {i \in processed[m][q] : NotCommitted(m, q, i)}]]
      BY <2>3 DEF CommitOffsets
    <3>2. [q \in Partition |-> {i \in processed[m][q] : NotCommitted(m, q, i)}]
            \in [Partition -> SUBSET Offset]
      BY <2>1
    <3> QED
      BY <2>1, <3>1, <3>2
  <2> QED
    BY <2>2, <2>3 DEF CommitFails
<1>6. /\ position' \in [Member -> [Partition -> 0 .. LastOffset + 1]]
      /\ \A n \in Member : \A q \in Partition :
           position'[n][q] = position[n][q] \/ (q = p /\ position'[n][q] = next)
  <2>1. position \in [Member -> [Partition -> 0 .. LastOffset + 1]]
    BY DEF KafkaInv, ShapesOK
  <2>2. [position[m] EXCEPT ![p] = next] \in [Partition -> 0 .. LastOffset + 1]
    BY <1>3, <2>1
  <2> QED
    BY <1>2, <2>1, <2>2
<1>7. ShapesOK'
  <2>1. committed' \in [Partition -> 0 .. LastOffset + 1]
    BY <1>2, CommittedSound DEF KafkaInv, ShapesOK
  <2> QED
    BY <1>2, <1>4, <1>5, <1>6, <2>1 DEF KafkaInv, ShapesOK
<1>8. OffsetsOK'
  <2>1. ASSUME NEW q \in Partition PROVE Before(q, committed[q])'
    <3>1. PICK i : i = committed'[q]
      OBVIOUS
    <3>2. i = committed[q] \/ i = OffsetsCommitted(m)[q]
      BY <1>2, <3>1
    <3>3. Before(q, i)
      BY <3>2, CommittedSound DEF KafkaInv, OffsetsOK
    <3> QED
      BY <1>4, <3>1, <3>3
  <2>2. ASSUME NEW n \in Member, NEW q \in Partition
        PROVE  Before(q, position[n][q])'
    <3>1. PICK i : i = position'[n][q]
      OBVIOUS
    <3>2. i = position[n][q] \/ (q = p /\ i = next)
      BY <1>6, <3>1
    <3>3. Before(q, i)
      BY <1>3, <3>2 DEF KafkaInv, OffsetsOK
    <3> QED
      BY <1>4, <3>1, <3>3
  <2> QED
    BY <2>1, <2>2 DEF OffsetsOK
<1>9. TrackersOK'
  <2> SUFFICES ASSUME NEW n \in Member, NEW q \in Partition,
                      NEW i \in processed'[n][q]
               PROVE  Before(q, i + 1)'
    BY DEF TrackersOK
  <2>1. Before(q, i + 1)
    BY <1>5 DEF KafkaInv, TrackersOK
  <2> QED
    BY <1>4, <2>1
<1>10. StrayOK'
  BY <1>2, <1>4, KafkaFrame
<1>11. MembersOK'
  <2> SUFFICES ASSUME NEW n \in Member PROVE MemberOK(n)'
    BY DEF MembersOK
  <2>1. CASE n = m
    BY <1>2, <2>1 DEF MemberOK, KafkaInv, ShapesOK
  <2>2. CASE n # m
    BY <1>2, <1>4, <2>2, KafkaFrame DEF KafkaInv, ShapesOK
  <2> QED
    BY <2>1, <2>2
<1> QED
  BY <1>4, <1>7, <1>8, <1>9, <1>10, <1>11 DEF KafkaInv

\* Steps that touch nothing the invariant speaks of.
LEMMA KafkaStutter ==
  ASSUME KafkaInv,
         UNCHANGED <<committed, position, pc, current, waiting, stray,
                     processed, handled>>
  PROVE  KafkaInv'
<1>1. ShapesOK'
  BY DEF KafkaInv, ShapesOK
<1>2. OffsetsOK' /\ TrackersOK'
  BY DEF KafkaInv, OffsetsOK, TrackersOK, Before
<1>3. StrayOK'
  BY DEF KafkaInv, StrayOK, Before
<1>4. MembersOK'
  BY DEF KafkaInv, MembersOK, MemberOK, Before
<1>5. HandledInOrder'
  BY DEF KafkaInv, HandledInOrder
<1> QED
  BY <1>1, <1>2, <1>3, <1>4, <1>5 DEF KafkaInv

-----------------------------------------------------------------------------
(* Theorems *)

\* The invariant holds in every state of the consumers.
THEOREM KafkaInvariance == Spec => []KafkaInv
<1>1. KafkaInv /\ [Next]_vars => KafkaInv'
  <2> SUFFICES ASSUME KafkaInv, [Next]_vars
               PROVE  KafkaInv'
    OBVIOUS
  <2>1. CASE Rebalance
    BY <2>1, RebalanceKeeps
  <2>2. ASSUME NEW m \in Member, EachMessage(m) PROVE KafkaInv'
    BY <2>2, DeliverKeeps, HandlerReturnsKeeps, NoteProcessedKeeps, CommitKeeps
       DEF EachMessage
  <2>3. ASSUME NEW m \in Member, Evict(m) PROVE KafkaInv'
    BY <2>3, KafkaStutter DEF Evict
  <2>4. ASSUME NEW m \in Member, Crash(m) PROVE KafkaInv'
    BY <2>4, CrashKeeps
  <2>5. ASSUME NEW m \in Member, NEW h \in Handler, HandlerThrows(m, h)
        PROVE  KafkaInv'
    BY <2>5, HandlerThrowsKeeps
  <2>6. ASSUME NEW x \in stray, StrayReturns(x) \/ StrayThrows(x)
        PROVE  KafkaInv'
    BY <2>6, StrayKeeps
  <2>7. CASE UNCHANGED vars
    BY <2>7, KafkaStutter DEF vars
  <2> QED
    BY <2>1, <2>2, <2>3, <2>4, <2>5, <2>6, <2>7 DEF Next, Terminated
<1> QED
  BY <1>1, KafkaInit, PTL DEF Spec

\* No message is lost: what a group has committed, all its handlers have dealt
\* with, whatever throws, crashes, is refused or is evicted.
THEOREM NoMessageIsLost == Spec => []HandledBeforeCommitted
<1>1. KafkaInv => HandledBeforeCommitted
  <2> SUFFICES ASSUME KafkaInv, NEW p \in Partition, NEW k \in Offset,
                      k < committed[p]
               PROVE  handled[p][k] = Handler
    BY DEF HandledBeforeCommitted
  <2>1. committed[p] \in 0 .. LastOffset + 1 /\ Before(p, committed[p])
    BY DEF KafkaInv, ShapesOK, OffsetsOK
  <2>2. k \in 0 .. committed[p] - 1
    BY <2>1, ConsumerAssumption DEF Offset
  <2> QED
    BY <2>1, <2>2 DEF Before
<1> QED
  BY <1>1, KafkaInvariance, PTL

\* No message overtakes another one of its partition, not even when its
\* partition moves to another member or a handler runs on after a failure.
THEOREM MessagesStayInOrder == Spec => []HandledInOrder
<1>1. KafkaInv => HandledInOrder
  BY DEF KafkaInv
<1> QED
  BY <1>1, KafkaInvariance, PTL

-----------------------------------------------------------------------------
(* The types *)

\* What Array.filter leaves of a sequence consists of elements of it.
LEMMA FilteredTyped ==
  ASSUME NEW R, NEW s \in Seq(R), NEW S
  PROVE  Filtered(s, S) \in Seq(R)
<1> DEFINE n == Len(s)
           To(f, i) == IF i = 0 THEN <<>>
                       ELSE IF s[i] \in S THEN Append(f[i - 1], s[i]) ELSE f[i - 1]
           IsKept(f) == f = [i \in 0 .. n |-> To(f, i)]
           kept == CHOOSE f : IsKept(f)
<1>1. Filtered(s, S) = kept[n]
  BY DEF Filtered
<1>2. n \in Nat /\ \A i \in 1 .. n : s[i] \in R
  OBVIOUS
<1>3. \E f : IsKept(f)
  <2> DEFINE T == {m \in Nat : m <= n =>
                     \E g \in [0 .. m -> Seq(R)] : \A i \in 0 .. m : g[i] = To(g, i)}
  <2>1. 0 \in T
    <3> DEFINE g == [i \in 0 .. 0 |-> <<>>]
    <3>1. g \in [0 .. 0 -> Seq(R)] /\ \A i \in 0 .. 0 : i = 0 /\ g[i] = <<>>
      OBVIOUS
    <3> HIDE DEF g
    <3>2. \A i \in 0 .. 0 : g[i] = To(g, i)
      BY <3>1 DEF To
    <3> HIDE DEF To
    <3> QED
      BY <3>1, <3>2
  <2>2. ASSUME NEW m \in Nat, m \in T PROVE m + 1 \in T
    <3> SUFFICES ASSUME m + 1 <= n
                 PROVE  \E h \in [0 .. m + 1 -> Seq(R)] : \A i \in 0 .. m + 1 : h[i] = To(h, i)
      <4>1. m + 1 \in Nat
        OBVIOUS
      <4> HIDE DEF To
      <4> QED
        BY <4>1
    <3>0. m <= n
      BY <1>2
    <3>1. PICK g \in [0 .. m -> Seq(R)] : \A i \in 0 .. m : g[i] = To(g, i)
      <4> HIDE DEF To
      <4> QED
        BY <2>2, <3>0
    <3> DEFINE last == IF s[m + 1] \in S THEN Append(g[m], s[m + 1]) ELSE g[m]
               h == [i \in 0 .. m + 1 |-> IF i <= m THEN g[i] ELSE last]
    <3>2. last \in Seq(R)
      <4>1. g[m] \in Seq(R) /\ s[m + 1] \in R
        BY <1>2, <3>1
      <4> QED
        BY <4>1
    <3> HIDE DEF last
    <3>3. h \in [0 .. m + 1 -> Seq(R)]
      BY <3>1, <3>2
    <3>4. ASSUME NEW i \in 0 .. m + 1 PROVE h[i] = To(h, i)
      <4>1. CASE i = 0
        BY <3>1, <4>1
      <4>2. CASE i \in 1 .. m
        <5>1. h[i] = g[i] /\ h[i - 1] = g[i - 1]
          BY <4>2
        <5>2. g[i] = To(g, i)
          <6> HIDE DEF To
          <6> QED
            BY <3>1, <4>2
        <5> HIDE DEF h
        <5> QED
          BY <4>2, <5>1, <5>2
      <4>3. CASE i = m + 1
        <5>1. h[i] = last /\ h[i - 1] = g[m] /\ i # 0
          BY <4>3
        <5> HIDE DEF h
        <5> QED
          BY <4>3, <5>1 DEF last
      <4> QED
        BY <4>1, <4>2, <4>3
    <3> HIDE DEF h, To
    <3> QED
      BY <3>3, <3>4
  <2> HIDE DEF T
  <2>3. n \in T
    BY <1>2, <2>1, <2>2, NumbersByInduction
  <2>4. PICK g \in [0 .. n -> Seq(R)] : \A i \in 0 .. n : g[i] = To(g, i)
    BY <1>2, <2>3 DEF T
  <2> HIDE DEF To
  <2>5. g = [i \in 0 .. n |-> To(g, i)]
    BY <2>4
  <2> QED
    BY <2>5
<1>4. IsKept(kept)
  <2> HIDE DEF IsKept
  <2> QED
    BY <1>3
<1> HIDE DEF kept
<1>5. \A i \in 0 .. n : kept[i] = To(kept, i)
  <2> HIDE DEF To
  <2> QED
    BY <1>4
<1> DEFINE T == {i \in Nat : i <= n => kept[i] \in Seq(R)}
<1>6. 0 \in T
  <2>1. kept[0] = <<>>
    BY <1>2, <1>5
  <2>2. <<>> \in Seq(R) /\ 0 \in Nat
    OBVIOUS
  <2>3. kept[0] \in Seq(R)
    BY <2>1, <2>2
  <2> QED
    BY <2>2, <2>3
<1>7. ASSUME NEW i \in Nat, i \in T PROVE i + 1 \in T
  <2> SUFFICES ASSUME i + 1 <= n PROVE kept[i + 1] \in Seq(R)
    OBVIOUS
  <2>1. kept[i] \in Seq(R) /\ s[i + 1] \in R
    BY <1>2, <1>7
  <2>2. kept[i + 1] = IF s[i + 1] \in S THEN Append(kept[i], s[i + 1]) ELSE kept[i]
    <3>1. i + 1 \in 0 .. n /\ i + 1 # 0 /\ (i + 1) - 1 = i
      BY <1>2
    <3> QED
      BY <1>5, <3>1
  <2> QED
    BY <2>1, <2>2
<1> HIDE DEF T
<1>8. n \in T
  BY <1>2, <1>6, <1>7, NumbersByInduction
<1> QED
  BY <1>1, <1>2, <1>8 DEF T

\* What ShapesOK leaves out of the type invariant.
TrackerShapesOK ==
  /\ owner \in [Partition -> Member]
  /\ joined \subseteq Member
  /\ unprocessed \in [Member -> [Partition -> Seq(Offset)]]
  /\ faults \in 0 .. MaxFaults

\* A tracker only ever loses offsets, or gets the one that is delivered.
LEMMA TrackerShapesKept ==
  ASSUME KafkaInv, TrackerShapesOK, [Next]_vars
  PROVE  TrackerShapesOK'
<1> USE ConsumerAssumption
<1>1. \/ unprocessed' = unprocessed
      \/ \E m \in Member : Crash(m)
      \/ \E m \in Member : \E p \in Partition : Deliver(m, p)
      \/ \E m \in Member : CommitOffsets(m)
  BY DEF Next, EachMessage, vars, Terminated, Rebalance, Evict, HandlerReturns,
         HandlerThrows, StrayReturns, StrayThrows, NoteProcessed, CommitFails
<1>2. unprocessed' \in [Member -> [Partition -> Seq(Offset)]]
  <2>1. CASE unprocessed' = unprocessed
    BY <2>1 DEF TrackerShapesOK
  <2>2. ASSUME NEW m \in Member, Crash(m)
        PROVE  unprocessed' \in [Member -> [Partition -> Seq(Offset)]]
    <3>1. [p \in Partition |-> <<>>] \in [Partition -> Seq(Offset)]
      OBVIOUS
    <3> QED
      BY <2>2, <3>1 DEF Crash, TrackerShapesOK
  <2>3. ASSUME NEW m \in Member, NEW p \in Partition, Deliver(m, p)
        PROVE  unprocessed' \in [Member -> [Partition -> Seq(Offset)]]
    <3>1. position[m][p] \in Offset
      BY <2>3 DEF Deliver, KafkaInv, ShapesOK, Offset
    <3>2. Append(unprocessed[m][p], position[m][p]) \in Seq(Offset)
      BY <3>1 DEF TrackerShapesOK
    <3>3. unprocessed' = [unprocessed EXCEPT ![m] = [unprocessed[m] EXCEPT
             ![p] = Append(unprocessed[m][p], position[m][p])]]
      BY <2>3 DEF Deliver
    <3> QED
      BY <3>2, <3>3 DEF TrackerShapesOK
  <2>4. ASSUME NEW m \in Member, CommitOffsets(m)
        PROVE  unprocessed' \in [Member -> [Partition -> Seq(Offset)]]
    <3> DEFINE Left == [p \in Partition |->
                 Filtered(unprocessed[m][p], {k \in Offset : NotCommitted(m, p, k)})]
    <3>1. Left \in [Partition -> Seq(Offset)]
      BY FilteredTyped DEF TrackerShapesOK
    <3>2. unprocessed' = [unprocessed EXCEPT ![m] = Left]
      BY <2>4 DEF CommitOffsets
    <3> HIDE DEF Left
    <3> QED
      BY <3>1, <3>2 DEF TrackerShapesOK
  <2> QED
    BY <1>1, <2>1, <2>2, <2>3, <2>4
<1>3. owner' \in [Partition -> Member] /\ joined' \subseteq Member
  <2>1. CASE Rebalance
    BY <2>1 DEF Rebalance
  <2>2. CASE UNCHANGED owner /\ joined' \subseteq joined
    BY <2>2 DEF TrackerShapesOK
  <2>3. Rebalance \/ (UNCHANGED owner /\ joined' \subseteq joined)
    BY DEF Next, EachMessage, vars, Terminated, Evict, Crash, Deliver,
           HandlerReturns, HandlerThrows, StrayReturns, StrayThrows,
           NoteProcessed, CommitOffsets, CommitFails
  <2> QED
    BY <2>1, <2>2, <2>3
<1>4. faults' \in 0 .. MaxFaults
  <2>1. UNCHANGED faults \/ \E kind \in FaultKind : Happens(kind)
    BY DEF Next, EachMessage, vars, Terminated, Rebalance, Evict, Crash, Deliver,
           HandlerReturns, HandlerThrows, StrayReturns, StrayThrows,
           NoteProcessed, CommitOffsets, CommitFails, FaultKind
  <2> QED
    BY <2>1 DEF Happens, TrackerShapesOK
<1> QED
  BY <1>2, <1>3, <1>4 DEF TrackerShapesOK

\* Offsets stay offsets, in the broker, at the members and in their trackers,
\* and no more faults happen than the bound allows.
THEOREM KafkaTyped == Spec => []KafkaTypeOK
<1>1. Init => TrackerShapesOK
  BY ConsumerAssumption DEF Init, TrackerShapesOK
<1>2. KafkaInv /\ TrackerShapesOK /\ [Next]_vars => TrackerShapesOK'
  BY TrackerShapesKept
<1>3. KafkaInv /\ TrackerShapesOK => KafkaTypeOK
  BY DEF KafkaInv, ShapesOK, TrackerShapesOK, KafkaTypeOK
<1> QED
  BY <1>1, <1>2, <1>3, KafkaInvariance, PTL DEF Spec

-----------------------------------------------------------------------------
(* Commits only go forward *)

\* One consumer, that its broker never takes for dead.  With several, a member
\* that has lost a partition and got it back commits what it still has noted
\* (see CommitsForward); with one, a session that times out does the same.
Steady == (\E m : Member = {m}) /\ "eviction" \notin Fault

\* A member is at what the group has committed, or one behind when the answer
\* to its commit was lost; and only the message it is at can be processed and
\* not yet committed.
AtCommitted(m) ==
  \A p \in Partition :
    /\ committed[p] \in {position[m][p], position[m][p] + 1}
    /\ processed[m][p] \subseteq {position[m][p]}

\* What a member works at is the message it is at, and its tracker knows.
AtCurrent(m) ==
  LET p == current[m].partition
      k == current[m].offset
  IN  /\ pc[m] # "idle" =>
           /\ m \in joined
           /\ k = position[m][p]
           /\ \E i \in DOMAIN unprocessed[m][p] : unprocessed[m][p][i] = k
      /\ pc[m] = "commit" => k \in processed[m][p]

\* A member that is outside the group has just been started.
AtStart(m) == m \notin joined => \A p \in Partition : processed[m][p] = {}

SteadyInv == \A m \in Member : AtCommitted(m) /\ AtCurrent(m) /\ AtStart(m)

\* The facts about one member's types, with its message given names.
LEMMA CurrentIsMessage ==
  ASSUME KafkaInv, NEW m \in Member
  PROVE  current[m].partition \in Partition /\ current[m].offset \in Offset
BY DEF KafkaInv, ShapesOK, Message

\* A commit takes the group to the message that was processed, and nowhere
\* back: its tracker offers that message and no other.
LEMMA CommitsWhatItHas ==
  ASSUME KafkaInv, TrackerShapesOK, SteadyInv, NEW m \in Member, pc[m] = "commit"
  PROVE  /\ \A p \in Partition : ToCommit(m, p) \subseteq {position[m][p] + 1}
         /\ ToCommit(m, current[m].partition) # {}
<1>1. \A p \in Partition : ToCommit(m, p) \subseteq {position[m][p] + 1}
  BY DEF SteadyInv, AtCommitted, ToCommit, FirstProcessed
<1>2. PICK q \in Partition, k \in Offset :
        q = current[m].partition /\ k = current[m].offset
  BY CurrentIsMessage
<1>3. /\ k \in processed[m][q]
      /\ \E i \in DOMAIN unprocessed[m][q] : unprocessed[m][q][i] = k
  BY <1>2 DEF SteadyInv, AtCurrent
<1> DEFINE s == unprocessed[m][q]
           I == {i \in DOMAIN s : s[i] \in processed[m][q]}
<1>4. s \in Seq(Offset)
  BY DEF TrackerShapesOK
<1>5. I # {} /\ I \subseteq Nat
  BY <1>3, <1>4
<1>6. PICK i \in I : \A j \in I : i <= j
  <2> HIDE DEF I
  <2> QED
    BY <1>5, LeastNumber
<1>7. i \in FirstProcessed(m, q)
  <2>1. i \in DOMAIN s /\ i \in 1 .. Len(s) /\ s[i] \in processed[m][q]
    BY <1>4, <1>6
  <2>2. ASSUME NEW j \in 1 .. i - 1 PROVE s[j] \notin processed[m][q]
    <3>1. j \in DOMAIN s /\ ~(i <= j)
      BY <1>4, <2>1
    <3> QED
      BY <1>6, <3>1
  <2> QED
    BY <2>1, <2>2 DEF FirstProcessed
<1>8. ToCommit(m, q) # {}
  BY <1>7 DEF ToCommit
<1> QED
  BY <1>1, <1>2, <1>8

\* So the group's offsets stay between the member's position and the next one.
LEMMA OffsetsCommittedSteady ==
  ASSUME KafkaInv, TrackerShapesOK, SteadyInv, NEW m \in Member, pc[m] = "commit"
  PROVE  /\ \A p \in Partition :
              OffsetsCommitted(m)[p] \in {committed[p], position[m][p] + 1}
         /\ \A p \in Partition : p = current[m].partition =>
              OffsetsCommitted(m)[p] = position[m][p] + 1
<1> SUFFICES ASSUME NEW p \in Partition
             PROVE  /\ OffsetsCommitted(m)[p] \in {committed[p], position[m][p] + 1}
                    /\ p = current[m].partition =>
                         OffsetsCommitted(m)[p] = position[m][p] + 1
  OBVIOUS
<1>1. /\ ToCommit(m, p) \subseteq {position[m][p] + 1}
      /\ p = current[m].partition => ToCommit(m, p) # {}
  BY CommitsWhatItHas
<1>2. OffsetsCommitted(m)[p] = IF ToCommit(m, p) = {} THEN committed[p]
                               ELSE CHOOSE k \in ToCommit(m, p) : TRUE
  BY DEF OffsetsCommitted
<1> QED
  BY <1>1, <1>2

\* The group's offsets do not go back in a step.
NoStepBack == \A p \in Partition : committed'[p] >= committed[p]

\* A step that moves no offset keeps the invariant, unless it takes up or goes
\* on with a message.
LEMMA SteadyFrame ==
  ASSUME KafkaInv, SteadyInv, NEW m \in Member, Member = {m},
         UNCHANGED <<committed, position>>, joined \subseteq joined',
         processed' = processed
  PROVE  /\ NoStepBack
         /\ AtCommitted(m)' /\ AtStart(m)'
         /\ UNCHANGED <<pc, current, unprocessed>> => SteadyInv'
         /\ pc'[m] = "idle" => SteadyInv'
<1> USE ConsumerAssumption
<1>1. NoStepBack
  BY DEF NoStepBack, KafkaInv, ShapesOK
<1>2. AtCommitted(m)' /\ AtStart(m)'
  BY DEF SteadyInv, AtCommitted, AtStart
<1>3. ASSUME UNCHANGED <<pc, current, unprocessed>> PROVE AtCurrent(m)'
  BY <1>3 DEF SteadyInv, AtCurrent
<1>4. ASSUME pc'[m] = "idle" PROVE AtCurrent(m)'
  BY <1>4 DEF AtCurrent
<1> QED
  BY <1>1, <1>2, <1>3, <1>4 DEF SteadyInv

\* The one member reads from where the group is, with an empty tracker.
LEMMA RebalanceSteady ==
  ASSUME KafkaInv, TrackerShapesOK, SteadyInv, NEW m \in Member, Member = {m},
         Rebalance
  PROVE  NoStepBack /\ SteadyInv'
<1> USE ConsumerAssumption
<1>1. PICK idle \in SUBSET Member :
        /\ idle = {n \in Member : pc[n] = "idle"} /\ idle # {}
        /\ idle \ joined # {} \/ \E p \in Partition : owner[p] \notin joined
        /\ joined' = idle
        /\ position' = [n \in Member |-> IF n \in idle
                                         THEN [p \in Partition |-> committed[p]]
                                         ELSE position[n]]
        /\ UNCHANGED <<committed, pc, current, processed, unprocessed>>
  BY DEF Rebalance, StartOffset
<1>2. m \in idle /\ pc[m] = "idle"
  BY <1>1
<1>3. m \notin joined
  BY <1>1, <1>2 DEF TrackerShapesOK
<1>4. \A p \in Partition : processed[m][p] = {}
  BY <1>3 DEF SteadyInv, AtStart
<1>5. NoStepBack
  BY <1>1 DEF NoStepBack, KafkaInv, ShapesOK
<1>6. AtCommitted(m)'
  <2>1. \A p \in Partition : position'[m][p] = committed[p]
    BY <1>1, <1>2
  <2> QED
    BY <1>1, <1>4, <2>1 DEF AtCommitted
<1>7. AtCurrent(m)' /\ AtStart(m)'
  BY <1>1, <1>2 DEF AtCurrent, AtStart
<1> QED
  BY <1>5, <1>6, <1>7 DEF SteadyInv

\* A process that starts again has an empty tracker, and no place in the group.
LEMMA CrashSteady ==
  ASSUME KafkaInv, TrackerShapesOK, SteadyInv, NEW m \in Member, Member = {m},
         Crash(m)
  PROVE  NoStepBack /\ SteadyInv'
<1> USE ConsumerAssumption
<1>1. /\ pc'[m] = "idle" /\ \A p \in Partition : processed'[m][p] = {}
      /\ UNCHANGED <<committed, position>>
  BY DEF Crash, Goto, KafkaInv, ShapesOK
<1>2. NoStepBack
  BY <1>1 DEF NoStepBack, KafkaInv, ShapesOK
<1>3. AtCommitted(m)'
  BY <1>1 DEF SteadyInv, AtCommitted
<1>4. AtCurrent(m)' /\ AtStart(m)'
  BY <1>1 DEF AtCurrent, AtStart
<1> QED
  BY <1>2, <1>3, <1>4 DEF SteadyInv

\* The message delivered is the one the member is at.
LEMMA DeliverSteady ==
  ASSUME KafkaInv, TrackerShapesOK, SteadyInv, NEW m \in Member, Member = {m},
         NEW p \in Partition, Deliver(m, p)
  PROVE  NoStepBack /\ SteadyInv'
<1> DEFINE s == unprocessed[m][p]
<1>1. /\ m \in joined
      /\ pc'[m] = "handling"
      /\ current'[m] = [partition |-> p, offset |-> position[m][p]]
      /\ unprocessed'[m][p] = Append(s, position[m][p])
      /\ UNCHANGED <<committed, position, joined, processed>>
  BY DEF Deliver, Goto, KafkaInv, ShapesOK, TrackerShapesOK
<1>2. /\ Len(s) + 1 \in DOMAIN Append(s, position[m][p])
      /\ Append(s, position[m][p])[Len(s) + 1] = position[m][p]
  <2>1. s \in Seq(Offset) /\ position[m][p] \in Int
    BY ConsumerAssumption DEF TrackerShapesOK, KafkaInv, ShapesOK
  <2> HIDE DEF s
  <2> QED
    BY <2>1
<1>3. AtCurrent(m)'
  <2>1. /\ current'[m].partition = p /\ current'[m].offset = position'[m][p]
        /\ \E i \in DOMAIN unprocessed'[m][p] :
             unprocessed'[m][p][i] = position'[m][p]
    BY <1>1, <1>2
  <2> QED
    BY <1>1, <2>1 DEF AtCurrent
<1> QED
  BY <1>1, <1>3, SteadyFrame DEF SteadyInv

\* A message of which a handler has thrown is still the one the member is at.
LEMMA HandlerThrowsSteady ==
  ASSUME KafkaInv, TrackerShapesOK, SteadyInv, NEW m \in Member, Member = {m},
         NEW h \in Handler, HandlerThrows(m, h)
  PROVE  NoStepBack /\ SteadyInv'
<1>1. PICK q \in Partition, k \in Offset :
        q = current[m].partition /\ k = current[m].offset
  BY CurrentIsMessage
<1>2. /\ pc[m] = "handling" /\ pc'[m] = "idle"
      /\ position' = [position EXCEPT ![m] = [position[m] EXCEPT ![q] = k]]
      /\ UNCHANGED <<committed, joined, processed>>
  BY <1>1 DEF HandlerThrows, AfterThrow, Goto, KafkaInv, ShapesOK
<1>3. k = position[m][q]
  BY <1>1, <1>2 DEF SteadyInv, AtCurrent
<1>4. position' = position
  BY <1>2, <1>3 DEF KafkaInv, ShapesOK
<1> QED
  BY <1>2, <1>4, SteadyFrame

\* What is noted as processed is the message the member is at.
LEMMA NoteProcessedSteady ==
  ASSUME KafkaInv, TrackerShapesOK, SteadyInv, NEW m \in Member, Member = {m},
         NoteProcessed(m)
  PROVE  NoStepBack /\ SteadyInv'
<1> USE ConsumerAssumption
<1>1. PICK q \in Partition, k \in Offset :
        q = current[m].partition /\ k = current[m].offset
  BY CurrentIsMessage
<1>2. /\ pc[m] = "handling" /\ pc'[m] = "commit"
      /\ processed' = [processed EXCEPT ![m] =
           [processed[m] EXCEPT ![q] = processed[m][q] \cup {k}]]
      /\ UNCHANGED <<committed, position, joined, current, unprocessed>>
  BY <1>1 DEF NoteProcessed, Goto, KafkaInv, ShapesOK
<1>3. /\ m \in joined /\ k = position[m][q]
      /\ \E i \in DOMAIN unprocessed[m][q] : unprocessed[m][q][i] = k
  BY <1>1, <1>2 DEF SteadyInv, AtCurrent
<1>4. /\ processed'[m][q] = processed[m][q] \cup {k}
      /\ \A p \in Partition : p # q => processed'[m][p] = processed[m][p]
  BY <1>2 DEF KafkaInv, ShapesOK
<1>5. NoStepBack
  BY <1>2 DEF NoStepBack, KafkaInv, ShapesOK
<1>6. AtCommitted(m)'
  BY <1>2, <1>3, <1>4 DEF SteadyInv, AtCommitted
<1>7. AtCurrent(m)'
  BY <1>1, <1>2, <1>3, <1>4 DEF AtCurrent
<1>8. AtStart(m)'
  BY <1>2, <1>3 DEF AtStart
<1> QED
  BY <1>5, <1>6, <1>7, <1>8 DEF SteadyInv

\* A commit that is answered moves the member on; one that fails leaves it where
\* it is, even if the group has taken the commit.
LEMMA CommitSteady ==
  ASSUME KafkaInv, TrackerShapesOK, SteadyInv, NEW m \in Member, Member = {m},
         CommitOffsets(m) \/ CommitFails(m)
  PROVE  NoStepBack /\ SteadyInv'
<1> USE ConsumerAssumption
<1>1. PICK q \in Partition, k \in Offset :
        q = current[m].partition /\ k = current[m].offset
  BY CurrentIsMessage
<1>2. pc[m] = "commit" /\ pc'[m] = "idle" /\ UNCHANGED joined
  BY DEF CommitOffsets, CommitFails, Goto, KafkaInv, ShapesOK
<1>3. m \in joined /\ k = position[m][q]
  BY <1>1, <1>2 DEF SteadyInv, AtCurrent
<1>4. /\ \A p \in Partition :
           OffsetsCommitted(m)[p] \in {committed[p], position[m][p] + 1}
      /\ OffsetsCommitted(m)[q] = position[m][q] + 1
  BY <1>1, <1>2, OffsetsCommittedSteady
<1>5. \A p \in Partition : committed'[p] \in {committed[p], position[m][p] + 1}
  BY <1>4 DEF CommitOffsets, CommitFails
<1>6. \A p \in Partition : /\ committed[p] \in Int /\ position[m][p] \in Int
                           /\ committed[p] \in {position[m][p], position[m][p] + 1}
                           /\ processed[m][p] \subseteq {position[m][p]}
  BY DEF KafkaInv, ShapesOK, SteadyInv, AtCommitted
<1>7. NoStepBack
  BY <1>5, <1>6 DEF NoStepBack
<1>8. AtCommitted(m)'
  <2> SUFFICES ASSUME NEW p \in Partition
               PROVE  /\ committed'[p] \in {position'[m][p], position'[m][p] + 1}
                      /\ processed'[m][p] \subseteq {position'[m][p]}
    BY DEF AtCommitted
  <2>1. CASE CommitFails(m)
    <3>1. /\ position' = [position EXCEPT ![m] = [position[m] EXCEPT ![q] = k]]
          /\ UNCHANGED processed
      BY <1>1, <2>1 DEF CommitFails, AfterThrow
    <3>2. position'[m][p] = position[m][p]
      BY <1>3, <3>1 DEF KafkaInv, ShapesOK
    <3> QED
      BY <1>5, <1>6, <3>1, <3>2
  <2>2. CASE CommitOffsets(m)
    <3>1. /\ committed' = OffsetsCommitted(m)
          /\ position' = [position EXCEPT ![m] = [position[m] EXCEPT ![q] = k + 1]]
          /\ processed' = [processed EXCEPT ![m] = [r \in Partition |->
                {i \in processed[m][r] : NotCommitted(m, r, i)}]]
      BY <1>1, <2>2 DEF CommitOffsets
    <3>2. processed'[m][p] = {i \in processed[m][p] : NotCommitted(m, p, i)}
      BY <3>1 DEF KafkaInv, ShapesOK
    <3>3. CASE p = q
      <4>1. position'[m][p] = position[m][p] + 1
        BY <1>3, <3>1, <3>3 DEF KafkaInv, ShapesOK
      <4>2. processed'[m][p] = {}
        <5>1. PICK c \in ToCommit(m, p) : c = position[m][p] + 1
          BY <1>1, <1>2, <3>3, CommitsWhatItHas
        <5>2. ~(position[m][p] >= c)
          BY <1>6, <5>1
        <5> QED
          BY <1>6, <3>2, <5>2 DEF NotCommitted
      <4> QED
        BY <1>4, <3>1, <3>3, <4>1, <4>2
    <3>4. CASE p # q
      <4>1. position'[m][p] = position[m][p]
        BY <3>1, <3>4 DEF KafkaInv, ShapesOK
      <4> QED
        BY <1>5, <1>6, <3>2, <4>1
    <3> QED
      BY <3>3, <3>4
  <2> QED
    BY <2>1, <2>2
<1>9. AtCurrent(m)' /\ AtStart(m)'
  BY <1>2, <1>3 DEF AtCurrent, AtStart
<1> QED
  BY <1>7, <1>8, <1>9 DEF SteadyInv

\* A consumer that is alone in its group and never evicted commits each offset
\* it commits after the ones before it, whatever its handlers throw, whichever
\* commits are refused or go unanswered and however often the process restarts.
THEOREM CommitsMoveOn == Steady => (Spec => CommitsForward)
<1> SUFFICES ASSUME Steady PROVE Spec => CommitsForward
  OBVIOUS
<1>1. PICK m : Member = {m}
  BY DEF Steady
<1>2. m \in Member
  BY <1>1
<1>3. Init => SteadyInv
  <2> SUFFICES ASSUME Init, NEW n \in Member
               PROVE  AtCommitted(n) /\ AtCurrent(n) /\ AtStart(n)
    BY DEF SteadyInv
  <2>1. /\ pc[n] = "idle"
        /\ \A p \in Partition :
             committed[p] = 0 /\ position[n][p] = 0 /\ processed[n][p] = {}
    BY DEF Init
  <2> QED
    BY <2>1 DEF AtCommitted, AtCurrent, AtStart
<1>4. ASSUME KafkaInv, TrackerShapesOK, SteadyInv, [Next]_vars
      PROVE  NoStepBack /\ SteadyInv'
  <2>1. CASE Rebalance
    BY <1>1, <1>2, <1>4, <2>1, RebalanceSteady
  <2>2. ASSUME NEW p \in Partition, Deliver(m, p) PROVE NoStepBack /\ SteadyInv'
    BY <1>1, <1>2, <1>4, <2>2, DeliverSteady
  <2>3. CASE NoteProcessed(m)
    BY <1>1, <1>2, <1>4, <2>3, NoteProcessedSteady
  <2>4. CASE CommitOffsets(m) \/ CommitFails(m)
    BY <1>1, <1>2, <1>4, <2>4, CommitSteady
  <2>5. CASE Crash(m)
    BY <1>1, <1>2, <1>4, <2>5, CrashSteady
  <2>6. ASSUME NEW h \in Handler, HandlerThrows(m, h)
        PROVE  NoStepBack /\ SteadyInv'
    BY <1>1, <1>2, <1>4, <2>6, HandlerThrowsSteady
  <2>7. ~Evict(m)
    BY DEF Evict, Happens, Steady
  <2>8. CASE UNCHANGED <<committed, position, joined, processed, pc, current,
                         unprocessed>>
    BY <1>1, <1>2, <1>4, <2>8, SteadyFrame
  <2>9. ASSUME NEW h \in Handler, HandlerReturns(m, h)
        PROVE  NoStepBack /\ SteadyInv'
    BY <2>8, <2>9 DEF HandlerReturns
  <2>10. ASSUME NEW x \in stray, StrayReturns(x) \/ StrayThrows(x)
         PROVE  NoStepBack /\ SteadyInv'
    BY <2>8, <2>10 DEF StrayReturns, StrayThrows
  <2>11. CASE UNCHANGED vars
    BY <2>8, <2>11 DEF vars
  <2> QED
    BY <1>1, <1>4, <2>1, <2>2, <2>3, <2>4, <2>5, <2>6, <2>7, <2>9, <2>10, <2>11
       DEF Next, EachMessage, Terminated
<1>5. Init => TrackerShapesOK
  BY ConsumerAssumption DEF Init, TrackerShapesOK
<1>6. KafkaInv /\ TrackerShapesOK /\ [Next]_vars => TrackerShapesOK'
  BY TrackerShapesKept
<1>7. KafkaInv /\ TrackerShapesOK /\ SteadyInv /\ [Next]_vars
        => SteadyInv' /\ [\A p \in Partition : committed'[p] >= committed[p]]_vars
  BY <1>4 DEF NoStepBack
<1> QED
  BY <1>3, <1>5, <1>6, <1>7, KafkaInvariance, PTL DEF Spec, CommitsForward
=============================================================================
