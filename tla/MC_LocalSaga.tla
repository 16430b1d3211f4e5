---------------------------- MODULE MC_LocalSaga ----------------------------
(***************************************************************************)
(* The saga of packages/sagas/orchestration/dsl/e2e/local.saga.ts: a local *)
(* step with a compensation, a remote one with a compensation, and a local *)
(* one without.                                                            *)
(***************************************************************************)
EXTENDS SagaManager

B == INSTANCE SagaBuilder WITH ClassDestination <- [c \in {} |-> ""]

MCAt2(command) == B!WithoutEndpoint("participant2", command, Data)
MCLocalSaga ==
  B!Build(<<B!InvokeLocal, B!WithLocalCompensation("falsy"), B!Step,
            B!InvokeParticipant(MCAt2("Do2Command")),
            B!WithCompensation(MCAt2("Undo2Command")), B!Step,
            B!InvokeLocal>>)

MCLocal == B!StepsOf(MCLocalSaga, "local")
MCLocalCompensation == B!LocalCompensations(MCLocalSaga)
MCTruthy == B!TruthyCompensations(MCLocalSaga)
MCInvocable == B!Invocables(MCLocalSaga)
MCCompensable == B!Compensables(MCLocalSaga)
MCHome == [s \in Saga |-> CHOOSE n \in Node : TRUE]
=============================================================================
