\* Both hosts: failing hooks, deaths, closes, evictions, a reset, alarms at any time.
SPECIFICATION FairSpec
CONSTANTS
  Hosts = {"native", "durable"}
  MaxAnnouncements = 3
  MaxTurns = 2
  MaxResets = 1
  MaxFailures = 2
  MaxUnready = 1
  MaxEarly = 1
  MaxStops = 2
INVARIANTS NothingLost InOrder OneHandover SomeoneDelivers
PROPERTY AllTold
