\* A deploy and two downs, one after the other or at the same time.
SPECIFICATION Spec
CONSTANTS
  db = db  api = api  debug = debug
  Run = {r1}
  Down = {d1, d2}
  Service <- MCService
  Profile = {debug}
  Name <- MCService
  CName <- MCCName
  Net = {bridge, shared}
  ExtNet = {shared}
  Vol = {data}
  Uses <- MCUses
  ExecProbed = {}
  Contracts <- MixedContracts
  Commands <- DeployCommands
  DownCommands <- MCDownCommands
  Overlap = TRUE
  Editable = FALSE
  Stuck = {}
  Absent = Absent
  None = None
SYMMETRY DownSymmetry
INVARIANT DownTypeOK
PROPERTIES
  NobodyElseTouched
  DataKept
  CleanSlate
  NetworksKept
CHECK_DEADLOCK FALSE
