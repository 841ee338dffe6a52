SPECIFICATION Spec
CONSTANTS
  Width = 13
  IndexBits = 1
  RamPages <- MCRamPages
  IoPages <- MCIoPages
  Contexts <- MCContexts
  Memories <- MCMemories
  Operands <- MCOperands
  Strobes <- MCStrobes
  Kinds = {"add"}
  MaxStores = 2
INVARIANTS
  TypeOK
  ReservationHolds
  StoresReadable
  UserConfined
CHECK_DEADLOCK FALSE
