\* Authenticated commands and the engine compete.
CONSTANTS
  s1 = s1
  s2 = s2
  Iface <- TwoInterfaces
  Sender <- Senders
  NoDag = NoDag
  NoMessage = NoMessage
  TokenLoaded = TRUE
  MinInterval = 2
  Minute = 5
  MaxPerMinute = 2
  Hysteresis = 2
  EvalPeriod = 2
  MsgLen = 90
  BufMax = 127
  MaxCommands = 3
SPECIFICATION Spec
INVARIANTS
  TypeOK
  Spacing
  WindowBudget
  ClassAgreement
PROPERTY LaterCommandWins
SYMMETRY SenderSymmetry
