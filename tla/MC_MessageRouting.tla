------------------------- MODULE MC_MessageRouting --------------------------
EXTENDS MessageRouting, TLC

\* A participant with two handlers, a class decorated twice, and an event
\* handler; a message for each, and one for the second that no saga sends.
MCDecorators ==
  ("tickets" :> <<"SagaCommandHandlers">>)
    @@ ("billing" :> <<"CommandHandlers", "SagaCommandHandlers">>)
    @@ ("history" :> <<"DomainEventHandlers">>)
MCNumMethods == ("tickets" :> 2) @@ ("billing" :> 1) @@ ("history" :> 2)
MCChannelOf ==
  ("tickets" :> "kitchen") @@ ("billing" :> "accounting") @@ ("history" :> "Ticket")
MCHandlesOf ==
  ("tickets" :> {"CreateTicket"}) @@ ("billing" :> {"Charge"})
    @@ ("history" :> {"TicketCreated"})
MCMessageChannel ==
  ("create" :> "kitchen") @@ ("charge" :> "accounting") @@ ("created" :> "Ticket")
    @@ ("plain" :> "accounting")
MCMessageType ==
  ("create" :> "CreateTicket") @@ ("charge" :> "Charge")
    @@ ("created" :> "TicketCreated") @@ ("plain" :> "Charge")
=============================================================================
