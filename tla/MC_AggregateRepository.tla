---------------------- MODULE MC_AggregateRepository ------------------------
EXTENDS AggregateRepository, TLC

MCOutcomes == {<<>>, <<"debited">>, <<"debited", "closed">>}
MCInterests == {{"debited", "closed"}, {"closed"}}

\* The properties do not tell the calls apart.
MCSymmetry == Permutations(Call)
=============================================================================
