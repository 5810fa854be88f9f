SPECIFICATION MCSpec
CONSTANTS
  t1 = t1
  t2 = t2
  None = None
  Tenants <- TwoTenants
  Contexts <- UserAndAdmin
  Workers = {w1}
  MaxRows = 3
  PolicyTargets = {p1}
  PolicyTargetGroups = {g1, g2}
  ApplicationPolicyGroups = {}
  L2Policies = {}
  L3Policies = {}
  NetworkServicePolicies = {}
  PolicyClassifiers = {}
  PolicyActions = {}
  PolicyRules = {}
  PolicyRuleSets = {}
  ExternalSegments = {}
  ExternalPolicies = {}
  NatPools = {}
  DriverCount = 2
  RequestWorkers = {w1, w2}
  MaxIds = 2
  Contents = {x}
  MaxRetries = 1
  Patient = FALSE
INVARIANTS TypeOK ReferencesExist CreationsAreClean
PROPERTY RequestsAndDeletionsEnd
CHECK_DEADLOCK FALSE
