--------------------------- MODULE SagaDefinition ---------------------------
(***************************************************************************)
(* The step machine of a saga: NestSagaDefinition, StepToExecute,          *)
(* SagaExecutionState, LocalStep and ParticipantInvocationStep of          *)
(* packages/sagas/orchestration/dsl.  Everything here is a function of the *)
(* execution state, the reply and the saga's data; the module has no       *)
(* variables.                                                              *)
(*                                                                         *)
(* Steps are numbered from 0, as the array sagaSteps is.  The data of a    *)
(* saga matters only through the predicates of its steps, so a member of   *)
(* Data stands for one valuation of them.                                  *)
(***************************************************************************)
EXTENDS Integers

CONSTANTS
  NumSteps,           \* sagaSteps.length
  Local,              \* the steps built with invokeLocal
  LocalCompensation,  \* those of them that have a compensation function
  Truthy,             \* those whose compensation function returns a truthy value
  Data,               \* valuations of the steps' predicates
  Invocable,          \* remote steps that have an invocation, per valuation
  Compensable         \* remote steps that have a compensation, per valuation

Step == 0 .. NumSteps - 1

ASSUME DefinitionAssumption ==
  /\ NumSteps \in Nat
  /\ Local \subseteq Step
  /\ LocalCompensation \subseteq Local
  /\ Truthy \subseteq LocalCompensation
  /\ Invocable \in [Data -> SUBSET (Step \ Local)]
  /\ Compensable \in [Data -> SUBSET (Step \ Local)]

\* What sagaSteps[i] is asked for with index -1, before the first step and
\* after the last one.
NoStep == -1

\* SagaExecutionState.  Its third field, endState, is TRUE only in the value
\* makeEndState returns, where currentlyExecuting is NoStep: see EndActions.
ExecutionState ==
  [currentlyExecuting : Step \cup {NoStep}, compensating : BOOLEAN]

InitialState == [currentlyExecuting |-> NoStep, compensating |-> FALSE]

StartCompensating_FromTheTop(st) ==
  [currentlyExecuting |-> NumSteps, compensating |-> TRUE]

StartCompensating(st) == [st EXCEPT !.compensating = TRUE]

\* A local step always has an action; a remote one when its invocation exists
\* and its predicate, if any, accepts the data.
HasAction(j, d) == j \in Local \/ j \in Invocable[d]

\* For a local step hasCompensation is the value the compensation function
\* returns: asking runs it (see Probed).
HasCompensation(j, d) == j \in Truthy \/ j \in Compensable[d]

-----------------------------------------------------------------------------
(* nextStepToExecute.  The definitions named X_Y here and in SagaManager are *)
(* X with a mistake, and are there to show which property would notice.      *)

Ahead_Inclusive(st) ==
  {j \in Step : IF st.compensating THEN j < st.currentlyExecuting
                                   ELSE j >= st.currentlyExecuting}

Ahead_SkipsOne(st) ==
  {j \in Step : IF st.compensating THEN j < st.currentlyExecuting
                                   ELSE j > st.currentlyExecuting + 1}

\* The steps the scan visits from st: upwards, or downwards when compensating.
Ahead(st) ==
  {j \in Step : IF st.compensating THEN j < st.currentlyExecuting
                                   ELSE j > st.currentlyExecuting}

Eligible(st, d) ==
  {j \in Ahead(st) : IF st.compensating THEN HasCompensation(j, d)
                                        ELSE HasAction(j, d)}

IsNext_Upwards(j, st, d) ==
  /\ j \in Eligible(st, d)
  /\ \A k \in Eligible(st, d) : j <= k

\* The scan stops at the first eligible step.
IsNext(j, st, d) ==
  /\ j \in Eligible(st, d)
  /\ \A k \in Eligible(st, d) : IF st.compensating THEN k <= j ELSE j <= k

\* The local compensations the scan runs by asking hasCompensation: those of
\* every step it visits, the one it stops at included.
Probed(st, d) ==
  {k \in LocalCompensation \cap Ahead(st) :
     st.compensating /\ \A j \in Eligible(st, d) : j <= k}

-----------------------------------------------------------------------------
(* SagaActions: what the manager has to do next.  A "remote" action carries *)
(* the command of one step, "local" a local step that ran, "exception" one  *)
(* that threw, and "end" nothing but the end state.                         *)

ActionKind == {"remote", "local", "exception", "end"}

Actions ==
  [kind : ActionKind, step : Step \cup {NoStep}, compensating : BOOLEAN]

NoActions == [kind |-> "end", step |-> NoStep, compensating |-> FALSE]

EndActions_PastTheLast(st) ==
  [kind |-> "end", step |-> NumSteps, compensating |-> st.compensating]

EndActions(st) ==
  [kind |-> "end", step |-> NoStep, compensating |-> st.compensating]

\* nextState(size) moves by one plus the skipped steps, which is to step j.
ExecuteStep(j, st) ==
  {[kind |-> k, step |-> j, compensating |-> st.compensating] :
     k \in IF j \in Local THEN {"local", "exception"} ELSE {"remote"}}

ExecuteNextStep(st, d) ==
  IF Eligible(st, d) = {}
  THEN {EndActions(st)}
  ELSE UNION {ExecuteStep(j, st) : j \in {i \in Step : IsNext(i, st, d)}}

UpdatedState_OneTooFar(a) ==
  [currentlyExecuting |-> a.step + 1, compensating |-> a.compensating]

UpdatedState(a) ==
  [currentlyExecuting |-> a.step, compensating |-> a.compensating]

-----------------------------------------------------------------------------
(* start executes the next step from InitialState, handleReply the next one *)
(* from AfterReply.  A reply is its outcome: which command it answers is    *)
(* not looked at.                                                           *)

Outcome == {"SUCCESS", "FAILURE"}

HandleReplyThrows_NoMissingStep(st, outcome) ==
  outcome = "FAILURE" /\ st.compensating

\* There is no step at index -1, and a compensation may not be refused.
HandleReplyThrows(st, outcome) ==
  \/ st.currentlyExecuting \notin Step
  \/ outcome = "FAILURE" /\ st.compensating

AfterReply_Swapped(st, outcome) ==
  IF outcome = "FAILURE" THEN st ELSE StartCompensating(st)

\* The state the next step is looked for from.
AfterReply(st, outcome) ==
  IF outcome = "SUCCESS" THEN st ELSE StartCompensating(st)
=============================================================================
