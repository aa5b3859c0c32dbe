CONSTANTS
  ItemKinds = {"docker", "ping"}
  Names = {"a", "A"}
  Ids = {"A", "a."}
  Sanitise <- MCSanitise
  Lower <- MCLower
  Forms <- MCForms
  Windows = {"nightly"}
  NoWindow = NoWindow
  BadWindow = BadWindow
  Intervals = {60, 5}
  Titles = {"LMON Dashboard", "mine"}
  Webhooks = {"testhook", "other"}
  HandWritten <- MCHandWritten
  Defaults <- MCDefaults
  None = None
  Absent = Absent
  Empty = Empty
  Torn = Torn
  Down = Down
  Unreadable = Unreadable
  MaxRequests = 2
SPECIFICATION Spec
INVARIANTS TypeOK AcknowledgedIsDurable ShownIsRunning 
PROPERTY ImplementsDurableConfig
CHECK_DEADLOCK FALSE
