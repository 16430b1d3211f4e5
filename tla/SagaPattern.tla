---------------------------- MODULE SagaPattern ----------------------------
(***************************************************************************)
(* What a saga promises, without messages, rows, tasks or indexes.  The    *)
(* actions of a saga are begun in order, each once its predecessors have   *)
(* succeeded.  After the first failure nothing more is begun, and the      *)
(* steps before the failed one are compensated from the last to the first, *)
(* each once the previous compensation is done.  A saga completes when     *)
(* every action has succeeded, and is rolled back when every compensation  *)
(* it owes is done; it does one of the two, once.                          *)
(***************************************************************************)
EXTENDS Integers

CONSTANTS
  Saga, Step, Data,
  Action,        \* the steps with an action, per data
  Compensation,  \* the steps with a compensation, per data
  Local          \* the steps that answer at once

VARIABLES
  data,
  phase,          \* of each saga: "none", "active", "completed", "rolledBack"
  begun, ok,      \* actions begun, and succeeded
  failed,         \* the action that failed, if one did
  undoing, undone \* compensations begun, and done

vars == <<data, phase, begun, ok, failed, undoing, undone>>

None == [s \in Saga |-> {}]

Init ==
  /\ data \in [Saga -> Data]
  /\ phase = [s \in Saga |-> "none"]
  /\ begun = None /\ ok = None /\ failed = None
  /\ undoing = None /\ undone = None

Add(f, s, S) == [f EXCEPT ![s] = @ \cup S]

Open(s) ==
  /\ phase[s] = "none"
  /\ phase' = [phase EXCEPT ![s] = "active"]
  /\ UNCHANGED <<data, begun, ok, failed, undoing, undone>>

\* j is the next action, and all the ones before it have succeeded.
May(s, j) ==
  /\ phase[s] = "active"
  /\ failed[s] = {}
  /\ begun[s] = ok[s]
  /\ j \in Action[data[s]] \ ok[s]
  /\ \A i \in Action[data[s]] : i < j => i \in ok[s]

Begin(s, j) ==
  /\ May(s, j)
  /\ j \notin Local
  /\ begun' = Add(begun, s, {j})
  /\ UNCHANGED <<data, phase, ok, failed, undoing, undone>>

Succeed(s, j) ==
  /\ j \in begun[s] \ ok[s]
  /\ ok' = Add(ok, s, {j})
  /\ UNCHANGED <<data, phase, begun, failed, undoing, undone>>

Fail(s, j) ==
  /\ j \in begun[s] \ ok[s]
  /\ failed' = Add(failed, s, {j})
  /\ UNCHANGED <<data, phase, begun, ok, undoing, undone>>

SucceedLocally(s, j) ==
  /\ May(s, j)
  /\ j \in Local
  /\ begun' = Add(begun, s, {j})
  /\ ok' = Add(ok, s, {j})
  /\ UNCHANGED <<data, phase, failed, undoing, undone>>

FailLocally(s, j) ==
  /\ May(s, j)
  /\ j \in Local
  /\ failed' = Add(failed, s, {j})
  /\ UNCHANGED <<data, phase, begun, ok, undoing, undone>>

\* The compensations saga s owes and has not begun.
Owed(s) ==
  {j \in Compensation[data[s]] : \E f \in failed[s] : j < f} \ undoing[s]

\* K is the last of them.
MayUndo(s, K) ==
  /\ phase[s] = "active"
  /\ undoing[s] = undone[s]
  /\ K # {} /\ K \subseteq Owed(s)
  /\ \A k \in K : \A i \in Owed(s) : i > k => i \in K

Undo(s, j) ==
  /\ MayUndo(s, {j})
  /\ j \notin Local
  /\ undoing' = Add(undoing, s, {j})
  /\ UNCHANGED <<data, phase, begun, ok, failed, undone>>

Undone(s, j) ==
  /\ j \in undoing[s] \ undone[s]
  /\ undone' = Add(undone, s, {j})
  /\ UNCHANGED <<data, phase, begun, ok, failed, undoing>>

\* Local compensations run at once, several in a row.
UndoLocally(s, K) ==
  /\ MayUndo(s, K)
  /\ K \subseteq Local
  /\ undoing' = Add(undoing, s, K)
  /\ undone' = Add(undone, s, K)
  /\ UNCHANGED <<data, phase, begun, ok, failed>>

Complete(s) ==
  /\ phase[s] = "active"
  /\ failed[s] = {}
  /\ ok[s] = Action[data[s]]
  /\ phase' = [phase EXCEPT ![s] = "completed"]
  /\ UNCHANGED <<data, begun, ok, failed, undoing, undone>>

RollBack(s) ==
  /\ phase[s] = "active"
  /\ failed[s] # {}
  /\ Owed(s) = {}
  /\ undoing[s] = undone[s]
  /\ phase' = [phase EXCEPT ![s] = "rolledBack"]
  /\ UNCHANGED <<data, begun, ok, failed, undoing, undone>>

Next ==
  \E s \in Saga :
    \/ Open(s) \/ Complete(s) \/ RollBack(s)
    \/ \E j \in Step :
         \/ Begin(s, j) \/ Succeed(s, j) \/ Fail(s, j)
         \/ SucceedLocally(s, j) \/ FailLocally(s, j)
         \/ Undo(s, j) \/ Undone(s, j)
    \/ \E K \in SUBSET Local : UndoLocally(s, K)

Spec == Init /\ [][Next]_vars
=============================================================================
