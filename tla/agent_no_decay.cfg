SPECIFICATION FadeSpec
CONSTANTS
  Services = {"fade"}
  Task = {1, 2}
  Consumer = {w1, w2}
  Updater = {u}
  w1 = w1
  w2 = w2
  u = u
  NoTask = NoTask
  Priority <- TaskPriority
  MaxQueueCrash = 1
  Session = {1, 2}
  SessionClient = {1, 2}
  Owner <- SessionOwner
  Cleaner = Cleaner
  Quota = 1
  NoSession = NoSession
  MaxNow = 2
  MaxSessionCrash = 1
  CacheSize = 1
  Out = Out
  Admin = {1, 2}
  Subject = {1}
  Role = {1, 2}
  Definition <- RoleDefinitions
  Builtin <- BuiltinRoles
  Wants <- AllWants
  NoRole = NoRole
  Unsure = Unsure
  MaxAdminFault = 1
  MaxAdminCrash = 1
  RoomAgent = {1, 2}
  RoomClient = {1, 2}
  RoomCreator = 1
  NoRoom = NoRoom
  MaxRoomCrash = 1
  Item = {1, 2, 3}
  MemoryClient = {c}
  c = c
  Decayer = Decayer
  Window = 1
  NoItem = NoItem
  MaxHour = 2
PROPERTIES
  UnreadDecays
CHECK_DEADLOCK FALSE
