\* Two programs and one that is not recognised, two rules, three accounts.
SPECIFICATION Spec
CONSTANTS
  u1 = u1
  q1 = q1
  Unknown = Unknown
  Pids <- TwoPids
  Patterns <- AnyProgram
  AccountIds <- ThreeAccounts
  EmailOf <- Emails
  MaxRules = 2
  Requests = {q1}
INVARIANTS
  OneRulePerPid
  AssignmentHolds
PROPERTIES
  ChargedIsPayer
