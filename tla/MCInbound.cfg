SPECIFICATION Spec
CONSTANTS
  Minute = 1
  Hour = 2
  Calls = {1, 2, 3}
  PeerOf <- Callers
  SkillOf <- OneTool
  Rpc <- OneRpc
  Global <- GlobalOptions
  PerPeer <- PeerOptions
  PerSkill <- SkillOptions
  Door <- DoorOptions
  Ttl = 0
  MaxTime = 3
INVARIANTS
  LimitsHold
  HonestAnswers
PROPERTY
  RefusedForCause
CHECK_DEADLOCK FALSE
