CONSTANTS
  AStatus = {"s", "t"}
  AReason = {"a", "b"}
  Extra = {"e"}
  MaxPaths = 3
  MaxLinks = 1
  Joint = {1, 2, 3}
  Oddities = {"twins", "malformed"}
  MaxDepends = 2
  MaxWrites = 4
SPECIFICATION Spec
INVARIANTS CompiledIsTrusted GraphShowsAll OrderIndependent RenewalVerifies SelectedIsClaimable FindingsExplain RecoverableMeansRecovers RescanRecovers DryRunForetells ReopeningFailsLint PassedMeansSettled AuditMeansLocked RewritesKeepItems MergedStaysAccepted
CHECK_DEADLOCK FALSE
