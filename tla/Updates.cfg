SPECIFICATION WatcherSpec
CONSTANTS
  File = {f1}
  Content = {a, b}
  Missing = Missing
  Partial = Partial
  Events = Events
  Starter = Starter
  Reloader = {g1}
  MaxEvents = 1
  QueueCap = 1
  Credential = {k1}
  ConfigFile = configFile
  Payload = {old, new}
  Template = old
  MaxTasks = 1
  MaxChanges = 3
INVARIANTS
  FilesTypeOK
  QuietFilesApplied
  StoreMirrored
SYMMETRY Symmetry
