SPECIFICATION FairSpec
CONSTANTS
  File = {f1}
  Content = {a, b}
  Missing = Missing
  Partial = Partial
  Events = Events
  Starter = Starter
  Reloader = {}
  MaxEvents = 2
  QueueCap = 1
PROPERTY UpdatesInOrder
