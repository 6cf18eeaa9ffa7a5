SPECIFICATION Spec
CONSTANTS
  ping = ping
  reboot = reboot
  pull = pull
  Cmd <- MCCmd
  Prio <- MCPrio
  Retries <- MCRetries
  NoReply <- MCNoReply
  MaxEntries = 3
CHECK_DEADLOCK FALSE
INVARIANTS
  TypeOK
  PumpIsArmed
  SendsAreBounded
  OneOnAirInTurn
  NoDuplicateLive
  AnswersAreAttributed
PROPERTIES
  SettledIsNotResent
  EveryEntrySettles
