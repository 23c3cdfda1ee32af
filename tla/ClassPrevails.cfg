\* A root without a token: plain commands, of which one read may take several,
\* against the hysteresis, the rate limit and a lasting verdict.
CONSTANTS
  s1 = s1
  s2 = s2
  Iface <- TwoInterfaces
  Sender <- OneSender
  NoDag = NoDag
  NoMessage = NoMessage
  TokenLoaded = FALSE
  MinInterval = 3
  Minute = 4
  MaxPerMinute = 1
  Hysteresis = 2
  EvalPeriod = 2
  MsgLen = 8
  BufMax = 127
  MaxCommands = 2
SPECIFICATION FairSpec
INVARIANTS
  WindowBudget
  ClassAgreement
PROPERTY EnginePrevails
