SPECIFICATION ServicesSpec
CHECK_DEADLOCK FALSE
CONSTANTS
  Agents = {a1, a2, a3}
  Resources = {r1}
  MaxLocks = 4
  Procs = {"p"}
  Commands = {"serve", "run"}
  Crashing = {"serve"}
  MaxEntries = 3
  Plans <- MCPlans
  MaxCalls = 5
  MaxContexts = 2
  MaxWrites = 5
  Retries = 2
  Contexts = {"c"}
  MaxErrors = 2
  DaemonPrograms = {"p1", "p2"}
  NameOf <- MCNameOf
  MaxPid = 2
  Shells = {"c1", "c2"}
  JobNames = {"j1", "j2"}
  MaxJobs = 2
  MaxRuns = 2
  Askers = {"t1", "t2"}
  ManagerOf <- MCManagerOf
  MaxQuestions = 2
  MaxAnswers = 2
  MaxRetries = 3
  Requests = {"r1", "r2"}
  Targets = {"t1", "t2"}
  BackendOf <- MCBackendOf
  TTL = 1
  MaxTime = 2
  DbAllowed = {"t1", "t2"}
  FileCallers = {"c1", "c2"}
  Pieces = {"a"}
  Edits <- MCEdits
  MaxLength = 2
  FilesAllowed <- MCFilesAllowed
  SecretNames = {"A", "B", "C"}
  EnvGrants = {"C"}
  SecretGrants = {"A", "B"}
  RevealGrants = {"A"}
  SecretCallers = {"c1"}
  MaxValues = 3
  MaxLogged = 2
  Lifetime = 3
  RenewBefore = 1
  MaxDay = 6
  MaxOrders = 3
  ServePrograms <- MCServePrograms
  CommandLines <- MCCommandLines
  HttpPort = 80
INVARIANTS Exclusion   SpeculationUndone RecoveryInOrder     DeployedAsAsked
PROPERTIES CancelStops AnswersAreTheirs
