CONSTANTS
  Users = {u1, u2}
  Attempts = {a1, a2, a3}
  NoAttempt = NoAttempt
SPECIFICATION FairSpec
INVARIANTS RegistrySound CacheHonest
PROPERTY Answered
CHECK_DEADLOCK FALSE
