\* Deploys one after the other; the contract is edited only between them.
SPECIFICATION Spec
CONSTANTS
  db = db  api = api  web = web  debug = debug
  Run = {r1, r2}
  Service <- MCService
  Profile = {debug}
  Name <- MCService
  CName <- MCCName
  Net = {bridge, shared}
  ExtNet = {shared}
  Vol = {data}
  Uses <- MCUses
  ExecProbed = {api}
  Contracts <- MCContracts
  Commands <- MCCommands
  Overlap = FALSE
  Editable = FALSE
  Absent = Absent
  None = None
SYMMETRY RunSymmetry
INVARIANTS
  TypeOK
  StartJustified
  OkReceiptTruthful
  AttemptReceiptTruthful
PROPERTIES
  KeepsPromise
CHECK_DEADLOCK FALSE
