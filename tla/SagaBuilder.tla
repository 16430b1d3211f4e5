---------------------------- MODULE SagaBuilder ----------------------------
(***************************************************************************)
(* How a saga class chains calls to make its definition: NestSaga.step,    *)
(* StepBuilder, LocalStepBuilder, InvokeParticipantStepBuilder and build.  *)
(* A chain is the sequence of its calls, and its steps are built up one    *)
(* call after the other.  The sagas of the runs are made here, and         *)
(* SagaDefinition executes them.                                           *)
(***************************************************************************)
EXTENDS Integers, Sequences, FiniteSetsExt

CONSTANTS
  Data,              \* valuations of the predicates
  ClassDestination   \* the channel of each command class that is decorated

None == "none"

-----------------------------------------------------------------------------
(* Invocations of a participant.  A predicate is the set of the data it is *)
(* true of, which is all of it when none is given.                         *)

Invocation(endpoint, own, command, when) ==
  [endpoint |-> endpoint, own |-> own, command |-> command, when |-> when]

\* Called with an endpoint and a provider, or with a provider whose commands say
\* where to, or do not.
WithEndpoint(channel, command, when) == Invocation(channel, None, command, when)
WithoutEndpoint(own, command, when) == Invocation(None, own, command, when)

NoInvocation == Invocation(None, None, None, {})

\* A command without a destination has that of its class.  The destination that
\* a method is decorated with is kept under the method's name on its prototype,
\* and looked for on the bound function: it is never found.  The commands of one
\* provider are of one class here; the code remembers the first one's channel.
DestinationOf(inv) ==
  IF inv.endpoint # None THEN inv.endpoint
  ELSE IF inv.own # None THEN inv.own
  ELSE IF inv.command \in DOMAIN ClassDestination
  THEN ClassDestination[inv.command] ELSE None

\* 'Missing @CommandDestination()'
CommandThrows(inv) == DestinationOf(inv) = None

CommandToSend(inv) == [channel |-> DestinationOf(inv), command |-> inv.command]

-----------------------------------------------------------------------------
(* Steps.  A local one has a compensation that returns something falsy, or *)
(* something truthy, or it has none.                                       *)

LocalStep == [kind |-> "local", compensation |-> None]

ParticipantInvocationStep ==
  [kind |-> "remote", action |-> NoInvocation, compensation |-> NoInvocation,
   actionReplies |-> {}, compensationReplies |-> {}]

GetParticipantInvocation(step, compensating) ==
  IF compensating THEN step.compensation ELSE step.action

GetReply(step, type, compensating) ==
  type \in IF compensating THEN step.compensationReplies ELSE step.actionReplies

-----------------------------------------------------------------------------
(* The calls, and what each makes of the step that is being built *)

Step == [call |-> "step"]
InvokeLocal == [call |-> "invokeLocal"]
InvokeParticipant(inv) == [call |-> "invokeParticipant", with |-> inv]
WithCompensation(inv) == [call |-> "withCompensation", with |-> inv]
WithLocalCompensation(returns) ==
  [call |-> "withLocalCompensation", returns |-> returns]
OnReply(type) == [call |-> "onReply", type |-> type]

NewStep == [kind |-> "new"]

\* A step may begin with its compensation and have no action.
ParticipantStep(step) ==
  IF step.kind = "new" THEN ParticipantInvocationStep ELSE step

\* A reply is one to the compensation if there is one by now.
AddReply(step, type) ==
  IF step.compensation # NoInvocation
  THEN [step EXCEPT !.compensationReplies = @ \cup {type}]
  ELSE [step EXCEPT !.actionReplies = @ \cup {type}]

AfterCall(step, c) ==
  CASE c.call = "invokeLocal" -> LocalStep
    [] c.call = "withLocalCompensation" ->
         [step EXCEPT !.compensation = c.returns]
    [] c.call = "invokeParticipant" ->
         [ParticipantStep(step) EXCEPT !.action = c.with]
    [] c.call = "withCompensation" ->
         [ParticipantStep(step) EXCEPT !.compensation = c.with]
    [] c.call = "onReply" -> AddReply(step, c.type)

\* The calls that the builder of a step has; the action of a remote step may be
\* given later, by withAction.
Callable(step) ==
  CASE step.kind = "new" ->
         {"invokeLocal", "invokeParticipant", "withCompensation"}
    [] step.kind = "local" -> {"withLocalCompensation", "step", "build"}
    [] step.kind = "remote" ->
         {"invokeParticipant", "withCompensation", "onReply", "step", "build"}

\* steps, and the one that is being built; a step is added when the next begins.
NewChain == [steps |-> <<>>, open |-> NewStep]

AddStep(b) == Append(b.steps, b.open)

Chained(b, c) ==
  IF c.call = "step" THEN [steps |-> AddStep(b), open |-> NewStep]
  ELSE [b EXCEPT !.open = AfterCall(@, c)]

After(calls) ==
  LET chain[n \in 0 .. Len(calls)] ==
        IF n = 0 THEN NewChain ELSE Chained(chain[n - 1], calls[n])
  IN  chain[Len(calls)]

Build(calls) == AddStep(After(calls))

-----------------------------------------------------------------------------
(* What SagaDefinition wants to know of the steps, numbered from 0 *)

Index(steps) == 0 .. Len(steps) - 1

StepsOf(steps, kind) == {j \in Index(steps) : steps[j + 1].kind = kind}

LocalCompensations(steps) ==
  {j \in StepsOf(steps, "local") : steps[j + 1].compensation # None}

TruthyCompensations(steps) ==
  {j \in StepsOf(steps, "local") : steps[j + 1].compensation = "truthy"}

Invocables(steps) ==
  [d \in Data |->
     {j \in StepsOf(steps, "remote") : d \in steps[j + 1].action.when}]

Compensables(steps) ==
  [d \in Data |->
     {j \in StepsOf(steps, "remote") : d \in steps[j + 1].compensation.when}]

-----------------------------------------------------------------------------
(* The steps as one reads them off the calls *)

Legal(calls) ==
  \A n \in 0 .. Len(calls) :
    LET next == IF n = Len(calls) THEN "build" ELSE calls[n + 1].call
    IN  next \in Callable(After(SubSeq(calls, 1, n)).open)

\* The calls from which step k is made, by name.
Ends(calls, i) == {j \in 1 .. i - 1 : calls[j].call = "step"}

CallsOf(calls, k, name) ==
  {i \in DOMAIN calls :
     calls[i].call = name /\ Cardinality(Ends(calls, i)) = k - 1}

\* The last of them, or what there is without one.
LastOf(calls, k, without) ==
  LET all == CallsOf(calls, k, without.call)
  IN  IF all = {} THEN without ELSE calls[Max(all)]

\* The replies of a step are its action's before, and its compensation's after
\* the first compensation.
RepliesOf(calls, k, compensating) ==
  {calls[i].type : i \in
     {i \in CallsOf(calls, k, "onReply") :
        compensating <=>
          \E j \in CallsOf(calls, k, "withCompensation") : j < i}}

IsLocal(calls, k) == CallsOf(calls, k, "invokeLocal") # {}

AsWritten(calls, k) ==
  IF IsLocal(calls, k)
  THEN [kind |-> "local",
        compensation |-> LastOf(calls, k, WithLocalCompensation(None)).returns]
  ELSE [kind |-> "remote",
        action |-> LastOf(calls, k, InvokeParticipant(NoInvocation)).with,
        compensation |-> LastOf(calls, k, WithCompensation(NoInvocation)).with,
        actionReplies |-> RepliesOf(calls, k, FALSE),
        compensationReplies |-> RepliesOf(calls, k, TRUE)]

ReadAs(calls, steps) ==
  steps = [k \in 1 .. Cardinality(Ends(calls, Len(calls) + 1)) + 1 |->
             AsWritten(calls, k)]
=============================================================================
