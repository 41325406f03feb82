\* The reader stops a streamed reply, an append is refused, and the turn asks for an approval.
SPECIFICATION FairSpec
CONSTANTS
  Kinds = {"stream"}
  MdMax = 2
  MaxText = 2
  MaxCalls = 1
  MaxFaults = 0
  MaxStops = 1
INVARIANTS ParkIsAskable
