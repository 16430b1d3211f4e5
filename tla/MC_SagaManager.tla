--------------------------- MODULE MC_SagaManager ---------------------------
EXTENDS SagaManager, TLC

B == INSTANCE SagaBuilder WITH ClassDestination <- [c \in {} |-> ""]

\* Invocations that are made for all data, or for d1 only.
MCAlways == B!WithEndpoint("participant", "do", Data)
MCFirst == B!WithoutEndpoint("participant", "do", {"d1"})

\* The last step but one is local and has a compensation, the others are
\* remote.  d1 invokes and compensates everything; d2 leaves out the last
\* invocation and the first compensation.
MCThreeSteps ==
  B!Build(<<B!InvokeParticipant(MCAlways), B!WithCompensation(MCFirst), B!Step,
            B!InvokeLocal, B!WithLocalCompensation("falsy"), B!Step,
            B!InvokeParticipant(MCFirst), B!WithCompensation(MCAlways)>>)
MCFourSteps ==
  B!Build(<<B!InvokeParticipant(MCAlways), B!WithCompensation(MCFirst), B!Step,
            B!InvokeParticipant(MCAlways), B!WithCompensation(MCAlways), B!Step,
            B!InvokeLocal, B!WithLocalCompensation("falsy"), B!Step,
            B!InvokeParticipant(MCFirst), B!WithCompensation(MCAlways)>>)
MCSteps == IF NumSteps = 4 THEN MCFourSteps ELSE MCThreeSteps

MCLocal == B!LocalCompensations(MCSteps)
MCInvocable == B!Invocables(MCSteps)
MCCompensable == B!Compensables(MCSteps)

\* A saga whose first step is local; d2 leaves out its second step.
MCLocalFirstSteps ==
  B!Build(<<B!InvokeLocal, B!WithLocalCompensation("truthy"), B!Step,
            B!InvokeParticipant(MCFirst), B!WithCompensation(MCFirst), B!Step,
            B!InvokeParticipant(MCAlways), B!WithCompensation(MCAlways)>>)
MCLocalFirst == B!TruthyCompensations(MCLocalFirstSteps)
MCRemote == B!Invocables(MCLocalFirstSteps)

\* Any chain of up to five calls builds the steps one reads off it.
MCCalls ==
  {B!Step, B!InvokeLocal, B!WithLocalCompensation("truthy"), B!OnReply("Success"),
   B!OnReply("Failure")}
    \cup {B!InvokeParticipant(i) : i \in {MCAlways, MCFirst}}
    \cup {B!WithCompensation(i) : i \in {MCAlways, MCFirst}}

ASSUME BuilderAssumption ==
  \A n \in 1 .. 5 : \A calls \in [1 .. n -> MCCalls] :
    B!Legal(calls) => B!ReadAs(calls, B!Build(calls))

MCHome == [s \in Saga |-> CHOOSE n \in Node : TRUE]

MCSymmetry == Permutations(Partition)
=============================================================================
