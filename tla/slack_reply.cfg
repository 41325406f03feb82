\* Every reply of a turn of two tokens and a tool, with two failures and a press of Stop.
SPECIFICATION FairSpec
CONSTANTS
  Kinds = {"stream", "once", "resume"}
  MdMax = 2
  MaxText = 2
  MaxCalls = 1
  MaxFaults = 2
  MaxStops = 1
INVARIANTS NothingTruncates ShownOnce NothingLingers
PROPERTY RenderEnds
