\* A server whose requests share a connection, and two processes that migrate.
SPECIFICATION Spec
CONSTANTS
    Transactions = {t1, t2}
    Writers = {w1}
    Writes = 2
    Migrations = 3
    Statements = 2
    Destructive = {2}
    Once = {1}
    Processes = {p1, p2}
    MaxRuns = 3
    MaxFailures = 2
CHECK_DEADLOCK FALSE
INVARIANTS LedgerTellsTruth FilesInOrder AllOrNothing
