SPECIFICATION Spec
CONSTANTS
  t1 = t1
  t2 = t2
  None = None
  Tenants <- TwoTenants
  Contexts <- UserAndAdmin
  Workers = {}
  MaxRows = 3
  PolicyTargets = {}
  PolicyTargetGroups = {}
  ApplicationPolicyGroups = {}
  L2Policies = {}
  L3Policies = {m1}
  NetworkServicePolicies = {}
  PolicyClassifiers = {k1}
  PolicyActions = {a1}
  PolicyRules = {u1}
  PolicyRuleSets = {s1, s2, s3}
  ExternalSegments = {x1}
  ExternalPolicies = {e1}
  NatPools = {n1}
SYMMETRY RuleSetSymmetry
INVARIANTS SharedUsesShared OneHierarchyLevel
PROPERTY UnshareKeepsOtherTenantsOut
