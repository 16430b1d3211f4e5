-------------------------- MODULE SagaParticipant ---------------------------
(***************************************************************************)
(* The participant's side of a saga: a command message is fetched, looked  *)
(* up by the duplicate detector, dispatched to its handler, answered and   *)
(* committed.  SagaCommandDispatcher over ConvoyCommandDispatcher, with    *)
(* SagaDatabaseLockManager and DatabaseDuplicateMessageDetector.           *)
(*                                                                         *)
(* What the handler does between "handling" and "replying" is left to the  *)
(* module that extends this one.  The channel is a set: its messages are   *)
(* on partitions of their own.                                             *)
(***************************************************************************)
EXTENDS Integers, FiniteSets

CONSTANTS
  Worker,
  Handled,      \* the command types that have a handler
  WithLock,     \* those whose handler has the option withLock
  MaxTrouble    \* awaits that reject, processes that die, and messages
                \* fetched while another worker is still at them

VARIABLES
  channel,    \* command messages that are not committed: [order, type]
  received,   \* ReceivedMessagesEntity: the messages the consumer has noted
  task,       \* the workers' local state
  replies,    \* replies on their way, read in any order
  skipped,    \* messages that were taken for duplicates
  cutShort,   \* messages whose handling ended after the handler's writes
  trouble     \* how much of it there was

spVars == <<channel, received, task, replies, skipped, cutShort, trouble>>

ASSUME ParticipantAssumption ==
  /\ WithLock \subseteq Handled
  /\ MaxTrouble \in Nat

Unlock == "SagaUnlockCommand"
NoMessage == [order |-> "none", type |-> "none"]
IdleTask == [pc |-> "idle", msg |-> NoMessage, outcome |-> "none"]

\* Past the point where the handler may have written something.
Written == {"replying", "committing"}

Goto(w, pc) == task' = [task EXCEPT ![w].pc = pc]

Redeliver_Commits(w) == Goto(w, "committing")

\* Whatever handleMessage throws, the message is fetched again.
Redeliver(w) == task' = [task EXCEPT ![w] = IdleTask]

Trouble == trouble < MaxTrouble /\ trouble' = trouble + 1

-----------------------------------------------------------------------------
(* The consumer and its duplicate detector *)

Holders(m) == {w \in Worker : task[w].pc # "idle" /\ task[w].msg = m}

Fetch(w, m) ==
  /\ task[w].pc = "idle" /\ m \in channel
  /\ \/ /\ Holders(m) = {}
        /\ UNCHANGED <<trouble, cutShort>>
     \/ /\ Holders(m) # {} /\ Trouble
        /\ cutShort' = cutShort \cup {m}
  /\ task' = [task EXCEPT ![w] = [IdleTask EXCEPT !.pc = "looking",
                                                  !.msg = m]]
  /\ UNCHANGED <<channel, received, replies, skipped>>

\* Taken for a duplicate: it is not handled, and committed.
Skip(w) ==
  /\ Goto(w, "committing")
  /\ skipped' = skipped \cup {task[w].msg}

\* save selects the row; a message with a row is not inserted, and handled.
LookUp(w) ==
  /\ task[w].pc = "looking"
  /\ Goto(w, IF task[w].msg \in received THEN "dispatching" ELSE "noting")
  /\ UNCHANGED <<channel, received, replies, skipped, cutShort, trouble>>

\* The insert violates the key if another worker has inserted meanwhile.
Note(w) ==
  /\ task[w].pc = "noting"
  /\ IF task[w].msg \in received
     THEN Skip(w) /\ UNCHANGED received
     ELSE /\ received' = received \cup {task[w].msg}
          /\ Goto(w, "dispatching")
          /\ UNCHANGED skipped
  /\ UNCHANGED <<channel, replies, cutShort, trouble>>

DetectorFails(w) ==
  /\ task[w].pc \in {"looking", "noting"}
  /\ Trouble
  /\ Skip(w)
  /\ UNCHANGED <<channel, received, replies, cutShort>>

-----------------------------------------------------------------------------
(* The dispatcher *)

\* claimLock creates an entity and inserts none: nothing is ever locked, so
\* that every claim succeeds and unlock throws for whatever target.
ClaimLock == TRUE
UnlockThrows == TRUE

\* No handler is found for the message's type.
Missing(m) == m.type \notin Handled

Dispatch(w) ==
  /\ task[w].pc = "dispatching"
  /\ LET m == task[w].msg
     IN  IF (m.type = Unlock /\ UnlockThrows) \/ Missing(m)
         THEN Redeliver(w) ELSE Goto(w, "handling")
  /\ UNCHANGED <<channel, received, replies, skipped, cutShort, trouble>>

\* Of an exception of the handler invoke makes a failure reply.
Answered(w, outcome) ==
  [task EXCEPT ![w].pc = "replying", ![w].outcome = outcome]

\* A reply with the header REPLY_LOCKED has the saga send an unlock command.
ReplyTo(w) ==
  [to |-> task[w].msg, outcome |-> task[w].outcome,
   locked |-> task[w].msg.type \in WithLock /\ ClaimLock]

SendReplies(w) ==
  /\ task[w].pc = "replying"
  /\ replies' = replies \cup {ReplyTo(w)}
  /\ Goto(w, "committing")
  /\ UNCHANGED <<channel, received, skipped, cutShort, trouble>>

\* sendReplies is outside of the try block.
SendFails(w) ==
  /\ task[w].pc = "replying"
  /\ Trouble
  /\ Redeliver(w)
  /\ cutShort' = cutShort \cup {task[w].msg}
  /\ UNCHANGED <<channel, received, replies, skipped>>

Commit_NoOffset(w) ==
  /\ task[w].pc = "committing"
  /\ task' = [task EXCEPT ![w] = IdleTask]
  /\ UNCHANGED <<channel, received, replies, skipped, cutShort, trouble>>

Commit(w) ==
  /\ task[w].pc = "committing"
  /\ channel' = channel \ {task[w].msg}
  /\ task' = [task EXCEPT ![w] = IdleTask]
  /\ UNCHANGED <<received, replies, skipped, cutShort, trouble>>

Crash(w) ==
  /\ task[w].pc # "idle" /\ Trouble
  /\ task' = [task EXCEPT ![w] = IdleTask]
  /\ cutShort' = IF task[w].pc \in Written
                 THEN cutShort \cup {task[w].msg} ELSE cutShort
  /\ UNCHANGED <<channel, received, replies, skipped>>

ParticipantInit ==
  /\ channel = {} /\ received = {}
  /\ task = [w \in Worker |-> IdleTask]
  /\ replies = {} /\ skipped = {} /\ cutShort = {}
  /\ trouble = 0

\* The steps that lead a message on.
WorkerStep(w) ==
  LookUp(w) \/ Note(w) \/ Dispatch(w) \/ SendReplies(w) \/ Commit(w)

ParticipantStep(w) ==
  \/ \E m \in channel : Fetch(w, m)
  \/ WorkerStep(w)
  \/ DetectorFails(w) \/ SendFails(w) \/ Crash(w)
=============================================================================
