SPECIFICATION Spec
CONSTANTS
  Workers = {w1, w2}
  MaxAccounts = 2
  MaxJobs = 3
  MaxFaults = 1
  MaxRetry = 1
INVARIANTS
  WelcomeAccountedFor
  MailedWereUsers
  MailsPerJob
PROPERTIES
  JobsEnd
CHECK_DEADLOCK FALSE
