\* Under fairness, callers answer and nothing crashes.
SPECIFICATION FairSpec
CONSTANTS
  t1 = t1  t2 = t2  t3 = t3  local = local  remote = remote  ask = ask  ann = ann  bob = bob
  Turns = {t1, t2, t3}
  Calls = {local, remote, ask}
  LocalCalls = {local}
  AskCalls = {ask}
  FatalCalls = {}
  Batches <- AskBatches
  QueueTurns = {t2, t3}
  ReplaceTurns = {}
  Principals = {ann, bob}
  PrincipalOf <- AnnThenBob
  NoPrincipal = NoPrincipal  NoTurn = NoTurn  NoCall = NoCall
  InlineCallers = FALSE
  MaxDeliveries = 1
  MaxBatches = 2
  MaxNotes = 1
  MaxCancels = 0
  MaxResets = 0
  MaxFailures = 1
  MaxCrashes = 0
PROPERTY NothingWaitsForever
