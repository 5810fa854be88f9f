SPECIFICATION Spec
CONSTANTS
  t1 = t1
  t2 = t2
  None = None
  Tenants <- TwoTenants
  Contexts <- UserAndAdmin
  Workers = {w1}
  MaxRows = 2
  PolicyTargets = {p1}
  PolicyTargetGroups = {g1}
  ApplicationPolicyGroups = {}
  L2Policies = {}
  L3Policies = {}
  NetworkServicePolicies = {}
  PolicyClassifiers = {}
  PolicyActions = {}
  PolicyRules = {}
  PolicyRuleSets = {}
  ExternalSegments = {}
  ExternalPolicies = {}
  NatPools = {}
PROPERTY GroupDeletionLeavesNoTarget
