SPECIFICATION Spec
CONSTANTS
  c1 = c1
  c2 = c2
  c3 = c3
  Policies <- MCPolicies
  Calls = {c1, c2, c3}
  RequestOf <- MCRequestOf
  NoIdentity = NoIdentity
  MaxPolicies = 3
  Letters = {"a", "b"}
  MaxPattern = 5
  MaxValue = 4
INVARIANTS
  HigherWins
  FirstOccurrenceSuffices
  ShellMatchesAccepted
CHECK_DEADLOCK FALSE
