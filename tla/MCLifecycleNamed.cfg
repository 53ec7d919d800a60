\* down api when every service has a profile and none is requested.
SPECIFICATION Spec
CONSTANTS
  db = db  api = api  debug = debug
  Run = {r1}
  Down = {d1}
  Service <- MCService
  Profile = {debug}
  Name <- MCService
  CName <- MCCName
  Net = {bridge, shared}
  ExtNet = {shared}
  Vol = {data}
  Uses <- MCUses
  ExecProbed = {}
  Contracts <- GatedContracts
  Commands <- DeployCommands
  DownCommands <- DownApi
  Overlap = FALSE
  Editable = FALSE
  Stuck = {}
  Absent = Absent
  None = None
PROPERTIES
  NobodyElseTouched
CHECK_DEADLOCK FALSE
