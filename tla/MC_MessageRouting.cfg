\* Three classes, of which one message is sent on any of the brokers, and any two
\* awaits that fail.  The application may stop, and need not send.
CONSTANTS
  Class = {"tickets", "billing", "history"}
  Decorators <- MCDecorators
  NumMethods <- MCNumMethods
  ChannelOf <- MCChannelOf
  HandlesOf <- MCHandlesOf
  Message = {"create", "charge", "created", "plain"}
  MessageChannel <- MCMessageChannel
  MessageType <- MCMessageType
  OfSaga = {"create", "charge"}
  Event = {"created"}
  Broker = {"memory", "kafka", "outbox"}
  MaxSends = 1
  MaxTrouble = 2
SPECIFICATION FairSpec
INVARIANTS RoutingTypeOK RunsPerMessage SendTells
PROPERTIES SentIsHandled
CHECK_DEADLOCK FALSE
