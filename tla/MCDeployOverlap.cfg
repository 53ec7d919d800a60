\* Two deploys of the same project at the same time.
SPECIFICATION FairSpec
CONSTANTS
  db = db  api = api  web = web  debug = debug
  Run = {r1, r2}
  Service <- MCService
  Profile = {debug}
  Name <- MCService
  CName <- MCCName
  Net = {bridge, shared}
  ExtNet = {shared}
  Vol = {data}
  Uses <- MCUses
  ExecProbed = {api}
  Contracts <- OneContract
  Commands <- MCCommands
  Overlap = TRUE
  Editable = FALSE
  Absent = Absent
  None = None
INVARIANTS
  StartJustified
PROPERTIES
  OutsideUntouched
  RunsTerminate
CHECK_DEADLOCK FALSE
