SPECIFICATION FairSpec
CONSTANTS
  Nil = Nil
  Junk = Junk
  Home = Home
  Away = Away
  Secret = Secret
  Cmds <- MCCmds
  Values = {Home, Away, Secret, Junk}
  Networks <- MCNetworks
  MaxRetry = 2
  SsidSize = 32
  PasswordSize = 64
  BssidSize = 6
  Faults = {"rsa", "aes", "save"}
  MaxConns = 2
  MaxKeys = 2
  MaxQueue = 2
INVARIANTS TypeOK SavedIsSent
PROPERTIES CommandIsAnswered AnsweredIsReleased
CHECK_DEADLOCK FALSE
