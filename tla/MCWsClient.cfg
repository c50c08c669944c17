SPECIFICATION Spec
CONSTANTS
  Methods <- MCMethods
  Names <- MCNames
  Rank <- MCRank
  Registrations <- MCRegistrations
  Callbacks <- MCCallbacks
  Consumers <- MCConsumers
  QueueMax = 2
  MaxId = 2
  MaxOpens = 2
INVARIANTS TypeOK ReplyToAsker ServedOnce HandlerAwaitsReply ReplyOnItsConnection
PROPERTIES MailboxSpec DrainEnds
