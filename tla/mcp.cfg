\* Three calls at once, against servers of each era that fail, forget and answer strangely.
SPECIFICATION FairSpec
CONSTANTS
  Calls <- MCCalls
  Credentials <- MCCredentials
  CredentialOf <- MCCredentialOf
  Discovery = "app"
  Servers = {"modern", "legacy", "dual"}
  MaxSessions = 2
  MaxReissues = 1
  MaxRounds = 2
  MaxFaults = 1
  MaxExpired = 2
INVARIANTS OwnSession NoStorm RunsOnce
PROPERTY CallsReturn
