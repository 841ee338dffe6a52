SPECIFICATION Spec
CONSTANTS
  NumPcs = 2
  Checkpoints <- StaleCheckpoints
  CsrWrites <- StaleWrites
PROPERTIES
  InterruptIsDue
