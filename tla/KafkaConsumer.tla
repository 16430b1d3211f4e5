--------------------------- MODULE KafkaConsumer ---------------------------
(***************************************************************************)
(* KafkaMessageConsumer, KafkaMessageProcessor, TopicPartitionOffsetTracker *)
(* and TopicPartitionOffsets of packages/messaging/broker/kafka, for the   *)
(* members of one consumer group and the partitions of one topic (a        *)
(* processor and its tracker belong to one topic).                         *)
(*                                                                         *)
(* A member runs one eachMessage at a time: the handlers of the topic run  *)
(* together, and when all have returned the offset is noted and committed. *)
(* When one throws, eachMessage rejects at once, the others run on, and    *)
(* the message is fetched again.                                           *)
(*                                                                         *)
(* The broker and kafkajs are external: a commit is refused to a member    *)
(* that is no longer in the group, and after a rebalance every member      *)
(* starts from the committed offsets.  A throw before noteUnprocessed (no  *)
(* processor, an undecodable message) only has the message fetched again.  *)
(***************************************************************************)
EXTENDS Integers, Sequences

CONSTANTS
  Member,      \* processes in the consumer group
  Partition,   \* partitions of the topic
  Handler,     \* handlers added to the topic's processor
  LastOffset,  \* of each partition
  Fault,       \* the kinds of fault that happen, a subset of FaultKind
  MaxFaults    \* bound on the faults of a behaviour

FaultKind == {"throw", "refused", "unacknowledged", "eviction", "crash"}

ASSUME ConsumerAssumption ==
  /\ Member # {} /\ Partition # {}
  /\ LastOffset \in Nat
  /\ Fault \subseteq FaultKind
  /\ MaxFaults \in Nat

Offset == 0 .. LastOffset

VARIABLES
  committed,    \* the group's offsets: the next one to read, per partition
  owner,        \* the member each partition is assigned to
  joined,       \* the members of the current generation
  position,     \* the next offset a member fetches, per partition
  pc,           \* where a member's eachMessage is
  current,      \* the message it has
  waiting,      \* the handlers that have not returned
  stray,        \* handlers that run on after eachMessage has rejected
  unprocessed,  \* TopicPartitionOffsets.unprocessed
  processed,    \* TopicPartitionOffsets.processed; only its members matter
  handled,      \* history: the handlers that have returned, per message
  faults

vars == <<committed, owner, joined, position, pc, current, waiting, stray,
          unprocessed, processed, handled, faults>>

Message == [partition : Partition, offset : Offset]

Run == [member : Member, message : Message, handler : Handler]

NoMessage == [partition |-> CHOOSE p \in Partition : TRUE, offset |-> 0]

Init ==
  /\ committed = [p \in Partition |-> 0]
  /\ owner \in [Partition -> Member]
  /\ joined = {}
  /\ position = [m \in Member |-> [p \in Partition |-> 0]]
  /\ pc = [m \in Member |-> "idle"]
  /\ current = [m \in Member |-> NoMessage]
  /\ waiting = [m \in Member |-> {}]
  /\ stray = {}
  /\ unprocessed = [m \in Member |-> [p \in Partition |-> <<>>]]
  /\ processed = [m \in Member |-> [p \in Partition |-> {}]]
  /\ handled = [p \in Partition |-> [k \in Offset |-> {}]]
  /\ faults = 0

\* A fault of this kind happens.
Happens(kind) ==
  /\ kind \in Fault
  /\ faults < MaxFaults
  /\ faults' = faults + 1

Goto(m, l) == pc' = [pc EXCEPT ![m] = l]

-----------------------------------------------------------------------------
(* The consumer group *)

StartOffset_FromBeginning(p) == 0

\* fromBeginning applies only while the group has committed nothing.
StartOffset(p) == committed[p]

\* The members that are between two messages form a new generation, once the
\* ones still in the old one have finished theirs.
Rebalance ==
  LET idle == {m \in Member : pc[m] = "idle"} IN
  /\ joined \subseteq idle /\ idle # {}
  /\ idle \ joined # {} \/ \E p \in Partition : owner[p] \notin joined
  /\ joined' = idle
  /\ owner' \in [Partition -> idle]
  /\ position' = [m \in Member |->
       IF m \in idle THEN [p \in Partition |-> StartOffset(p)] ELSE position[m]]
  /\ UNCHANGED <<committed, pc, current, waiting, stray, unprocessed,
                 processed, handled, faults>>

\* A session times out, in or between messages; the member does not notice.
Evict(m) ==
  /\ m \in joined
  /\ Happens("eviction")
  /\ joined' = joined \ {m}
  /\ UNCHANGED <<committed, owner, position, pc, current, waiting, stray,
                 unprocessed, processed, handled>>

\* A process dies with its tracker and its handlers, and is started again.
Crash(m) ==
  /\ m \in joined \/ pc[m] # "idle"
  /\ Happens("crash")
  /\ joined' = joined \ {m}
  /\ Goto(m, "idle")
  /\ waiting' = [waiting EXCEPT ![m] = {}]
  /\ stray' = {x \in stray : x.member # m}
  /\ unprocessed' = [unprocessed EXCEPT ![m] = [p \in Partition |-> <<>>]]
  /\ processed' = [processed EXCEPT ![m] = [p \in Partition |-> {}]]
  /\ UNCHANGED <<committed, owner, position, current, handled>>

-----------------------------------------------------------------------------
(* eachMessage *)

\* The message is noted as unprocessed and given to every handler.
Deliver(m, p) ==
  /\ pc[m] = "idle" /\ m \in joined /\ owner[p] = m
  /\ position[m][p] <= LastOffset
  /\ current' = [current EXCEPT ![m] =
       [partition |-> p, offset |-> position[m][p]]]
  /\ unprocessed' = [unprocessed EXCEPT ![m][p] = Append(@, position[m][p])]
  /\ waiting' = [waiting EXCEPT ![m] = Handler]
  /\ Goto(m, "handling")
  /\ UNCHANGED <<committed, owner, joined, position, stray, processed,
                 handled, faults>>

Returned(x, h) ==
  [handled EXCEPT ![x.partition][x.offset] = @ \cup {h}]

HandlerReturns(m, h) ==
  /\ pc[m] = "handling" /\ h \in waiting[m]
  /\ handled' = Returned(current[m], h)
  /\ waiting' = [waiting EXCEPT ![m] = @ \ {h}]
  /\ UNCHANGED <<committed, owner, joined, position, pc, current, stray,
                 unprocessed, processed, faults>>

\* How far a member is after eachMessage has rejected.
AfterThrow_Skips(m) == current[m].offset + 1

AfterThrow(m) == current[m].offset

\* Promise.all rejects; the handlers that are still running are left alone.
HandlerThrows(m, h) ==
  /\ pc[m] = "handling" /\ h \in waiting[m]
  /\ Happens("throw")
  /\ stray' = stray \cup
       [member : {m}, message : {current[m]}, handler : waiting[m] \ {h}]
  /\ waiting' = [waiting EXCEPT ![m] = {}]
  /\ position' = [position EXCEPT ![m][current[m].partition] = AfterThrow(m)]
  /\ Goto(m, "idle")
  /\ UNCHANGED <<committed, owner, joined, current, unprocessed, processed,
                 handled>>

StrayReturns(x) ==
  /\ x \in stray
  /\ stray' = stray \ {x}
  /\ handled' = Returned(x.message, x.handler)
  /\ UNCHANGED <<committed, owner, joined, position, pc, current, waiting,
                 unprocessed, processed, faults>>

\* Nothing looks at a second rejection.
StrayThrows(x) ==
  /\ x \in stray
  /\ stray' = stray \ {x}
  /\ UNCHANGED <<committed, owner, joined, position, pc, current, waiting,
                 unprocessed, processed, handled, faults>>

\* When process notes the message as processed.
HandlersDone_Any(m) == waiting[m] # Handler

HandlersDone(m) == waiting[m] = {}

NoteProcessed(m) ==
  /\ pc[m] = "handling" /\ HandlersDone(m)
  /\ processed' = [processed EXCEPT ![m][current[m].partition] =
                     @ \cup {current[m].offset}]
  /\ Goto(m, "commit")
  /\ UNCHANGED <<committed, owner, joined, position, current, waiting, stray,
                 unprocessed, handled, faults>>

-----------------------------------------------------------------------------
(* maybeCommitOffsets *)

\* Where the first unprocessed offset that has been processed is, if any.
FirstProcessed(m, p) ==
  {i \in DOMAIN unprocessed[m][p] :
     /\ unprocessed[m][p][i] \in processed[m][p]
     /\ \A j \in 1 .. i - 1 : unprocessed[m][p][j] \notin processed[m][p]}

ToCommit_OneMore(m, p) ==
  {unprocessed[m][p][i] + 2 : i \in FirstProcessed(m, p)}

\* offsetsToCommit: at most one offset of each partition the member has ever
\* read from since it started, whoever owns it now.
ToCommit(m, p) == {unprocessed[m][p][i] + 1 : i \in FirstProcessed(m, p)}

OffsetsCommitted(m) ==
  [p \in Partition |-> IF ToCommit(m, p) = {} THEN committed[p]
                       ELSE CHOOSE k \in ToCommit(m, p) : TRUE]

NotCommitted_All(m, p, k) == TRUE

\* What noteCommitted keeps of the tracker.
NotCommitted(m, p, k) == \A c \in ToCommit(m, p) : k >= c

\* Array.filter: what s has of S, in its order.
Filtered(s, S) ==
  LET kept[i \in 0 .. Len(s)] ==
        IF i = 0 THEN <<>>
        ELSE IF s[i] \in S THEN Append(kept[i - 1], s[i]) ELSE kept[i - 1]
  IN  kept[Len(s)]

\* The message is done with: the next one will be fetched.
CommitOffsets(m) ==
  /\ pc[m] = "commit" /\ m \in joined
  /\ committed' = OffsetsCommitted(m)
  /\ unprocessed' = [unprocessed EXCEPT ![m] = [p \in Partition |->
       Filtered(@[p], {k \in Offset : NotCommitted(m, p, k)})]]
  /\ processed' = [processed EXCEPT ![m] = [p \in Partition |->
       {k \in @[p] : NotCommitted(m, p, k)}]]
  /\ position' = [position EXCEPT ![m][current[m].partition] =
                    current[m].offset + 1]
  /\ Goto(m, "idle")
  /\ UNCHANGED <<owner, joined, current, waiting, stray, handled, faults>>

\* commitOffsets throws: the member was evicted, the broker refused, or its
\* answer was lost after it had committed.  The tracker keeps the offset.
CommitFails(m) ==
  /\ pc[m] = "commit"
  /\ \/ m \notin joined /\ UNCHANGED <<committed, faults>>
     \/ Happens("refused") /\ UNCHANGED committed
     \/ m \in joined /\ Happens("unacknowledged")
        /\ committed' = OffsetsCommitted(m)
  /\ position' = [position EXCEPT ![m][current[m].partition] = AfterThrow(m)]
  /\ Goto(m, "idle")
  /\ UNCHANGED <<owner, joined, current, waiting, stray, unprocessed,
                 processed, handled>>

-----------------------------------------------------------------------------
EachMessage(m) ==
  \/ \E p \in Partition : Deliver(m, p)
  \/ \E h \in Handler : HandlerReturns(m, h)
  \/ NoteProcessed(m)
  \/ CommitOffsets(m)
  \/ CommitFails(m)

\* Every message has been committed, or the topic has none to read.
Terminated ==
  /\ \A m \in Member : pc[m] = "idle"
  /\ joined = Member /\ stray = {}
  /\ \A p \in Partition : position[owner[p]][p] > LastOffset
  /\ UNCHANGED vars

Next ==
  \/ Rebalance
  \/ \E m \in Member : EachMessage(m) \/ Evict(m) \/ Crash(m)
  \/ \E m \in Member, h \in Handler : HandlerThrows(m, h)
  \/ \E x \in stray : StrayReturns(x) \/ StrayThrows(x)
  \/ Terminated

Spec == Init /\ [][Next]_vars

\* Members keep running and the group keeps forming.
Fairness ==
  /\ WF_vars(Rebalance)
  /\ \A m \in Member : WF_vars(EachMessage(m))

FairSpec == Spec /\ Fairness

-----------------------------------------------------------------------------
(* Properties *)

KafkaTypeOK ==
  /\ committed \in [Partition -> 0 .. LastOffset + 1]
  /\ owner \in [Partition -> Member]
  /\ joined \subseteq Member
  /\ position \in [Member -> [Partition -> 0 .. LastOffset + 1]]
  /\ pc \in [Member -> {"idle", "handling", "commit"}]
  /\ current \in [Member -> Message]
  /\ waiting \in [Member -> SUBSET Handler]
  /\ stray \subseteq Run
  /\ unprocessed \in [Member -> [Partition -> Seq(Offset)]]
  /\ processed \in [Member -> [Partition -> SUBSET Offset]]
  /\ handled \in [Partition -> [Offset -> SUBSET Handler]]
  /\ faults \in 0 .. MaxFaults

\* What the group has committed, every handler has dealt with: no failure of
\* a handler, crash, eviction or late commit loses a message.
HandledBeforeCommitted ==
  \A p \in Partition : \A k \in Offset :
    k < committed[p] => handled[p][k] = Handler

\* No handler is given a message before all of them are through with the
\* ones before it, on whichever member that was.
HandledInOrder ==
  \A p \in Partition : \A k \in Offset :
    handled[p][k] # {} => \A i \in 0 .. k - 1 : handled[p][i] = Handler

\* While no member loses a partition, the committed offsets never go back.
CommitsForward == [][\A p \in Partition : committed'[p] >= committed[p]]_vars

\* Every message gets to every handler.
EverythingHandled ==
  <>(\A p \in Partition : \A k \in Offset : handled[p][k] = Handler)

\* While no member loses a partition, everything ends up committed, so that a
\* restart reads nothing twice.
EverythingCommitted ==
  <>[](\A p \in Partition : committed[p] = LastOffset + 1)
=============================================================================
