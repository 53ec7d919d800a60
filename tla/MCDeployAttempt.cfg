\* Attempt receipts against the promise of their builder.
SPECIFICATION Spec
CONSTANTS
  db = db  api = api  web = web  debug = debug
  Run = {r1, r2}
  Service <- MCService
  Profile = {debug}
  Name <- MCService
  CName <- MCCName
  Net = {bridge, shared}
  ExtNet = {shared}
  Vol = {data}
  Uses <- MCUses
  ExecProbed = {api}
  Contracts <- MCContracts
  Commands <- MCCommands
  Overlap = FALSE
  Editable = FALSE
  Absent = Absent
  None = None
SYMMETRY RunSymmetry
PROPERTY AttemptRecordsWhatExists
CHECK_DEADLOCK FALSE
