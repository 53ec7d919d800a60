\* podman rm fails for the container of db.
SPECIFICATION Spec
CONSTANTS
  db = db  api = api  debug = debug
  Run = {r1}
  Down = {d1}
  Service <- MCService
  Profile = {debug}
  Name <- MCService
  CName <- MCCName
  Net = {bridge, shared}
  ExtNet = {shared}
  Vol = {data}
  Uses <- MCUses
  ExecProbed = {}
  Contracts <- MixedContracts
  Commands <- DeployCommands
  DownCommands <- MCDownCommands
  Overlap = FALSE
  Editable = FALSE
  Stuck = {db}
  Absent = Absent
  None = None
PROPERTIES
  CleanSlate
CHECK_DEADLOCK FALSE
