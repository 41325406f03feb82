\* Each turn is delivered once; nothing fails and nothing crashes.
SPECIFICATION Spec
CONSTANTS
  t1 = t1  t2 = t2  t3 = t3  local = local  remote = remote  ask = ask  ann = ann  bob = bob
  Turns = {t1, t2, t3}
  Calls = {local, remote, ask}
  LocalCalls = {local}
  AskCalls = {ask}
  FatalCalls = {}
  Batches <- MixedBatches
  QueueTurns = {t2, t3}
  ReplaceTurns = {t1}
  Principals = {ann, bob}
  PrincipalOf <- AnnThenBob
  NoPrincipal = NoPrincipal  NoTurn = NoTurn  NoCall = NoCall
  InlineCallers = FALSE
  MaxDeliveries = 1
  MaxBatches = 2
  MaxNotes = 1
  MaxCancels = 1
  MaxResets = 2
  MaxFailures = 0
  MaxCrashes = 0
INVARIANTS ProviderClean AtRest IdleLosesNothing
PROPERTIES IsConversation RepliesOwn ParkHoldsTheFloor HeldInOrder
