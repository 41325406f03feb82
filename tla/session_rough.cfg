\* Redeliveries, callers in the microtasks, failures, a reset, a crash.
SPECIFICATION Spec
CONSTANTS
  t1 = t1  t2 = t2  t3 = t3  local = local  remote = remote  ask = ask  ann = ann  bob = bob
  Turns = {t1, t2}
  Calls = {local, remote, ask}
  LocalCalls = {local}
  AskCalls = {ask}
  FatalCalls = {remote}
  Batches <- AllBatches
  QueueTurns = {t2}
  ReplaceTurns = {}
  Principals = {ann, bob}
  PrincipalOf <- BobThenAnn
  NoPrincipal = NoPrincipal  NoTurn = NoTurn  NoCall = NoCall
  InlineCallers = TRUE
  MaxDeliveries = 2
  MaxBatches = 2
  MaxNotes = 0
  MaxCancels = 0
  MaxResets = 1
  MaxFailures = 1
  MaxCrashes = 1
INVARIANTS CheckpointsMatchLog LocalExactlyOnce OpensOnce SeatIsFirstIdentified
