SPECIFICATION Spec
CONSTANTS
  t1 = t1
  t2 = t2
  None = None
  Tenants <- TwoTenants
  Contexts <- UserAndAdmin
  Workers = {w1}
  MaxRows = 2
  PolicyTargets = {p1}
  PolicyTargetGroups = {g1, g2}
  ApplicationPolicyGroups = {h1}
  L2Policies = {l1}
  L3Policies = {m1}
  NetworkServicePolicies = {v1}
  PolicyClassifiers = {}
  PolicyActions = {}
  PolicyRules = {}
  PolicyRuleSets = {s1}
  ExternalSegments = {}
  ExternalPolicies = {}
  NatPools = {}
PROPERTIES UserLinksStayInTenant DeletionTakesNoReference
