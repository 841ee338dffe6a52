SPECIFICATION Spec
CONSTANTS
  NumPcs = 2
  Checkpoints <- MCCheckpoints
  CsrWrites <- MCWrites
INVARIANTS
  TypeOK
  ShadowsAgree
  FramesKept
PROPERTIES
  ReturnRestores
  NoTrapLowersPrivilege
