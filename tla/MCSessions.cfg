SPECIFICATION Spec
\* Each component stops where its bounds are used up.
CHECK_DEADLOCK FALSE
CONSTANTS
  Starter = {s1, s2, s3}
  NoStarter = NoStarter
  QueueSize = 2
  SeenSize = 3
  MaxAttempts = 2
  Script = {u1, u2}
  MaxVersion = 3
  MaxLosses = 1
  Games = {g1, g2}
  NoGame = NoGame
  MaxSessions = 3
INVARIANTS SessionsTypeOK ChannelIsSafe UpdateIsSafe NoWriteUnderOwnGame JournalIsTrue
PROPERTIES ChannelAnswers OpensAgain DamageIsRepaired
