SPECIFICATION MCSpec
CONSTANTS
  wA = wA  wB = wB  poolA = poolA  poolB = poolB  groupA = groupA  pA = pA  pB = pB
  d1 = d1  d2 = d2  nA = nA  nB = nB  nM = nM  nN = nN  a1 = a1  a2 = a2  a3 = a3
  l1 = l1  l2 = l2  k1 = k1  k2 = k2  x1 = x1  x2 = x2  b1 = b1  b2 = b2  v1 = v1
  v2 = v2  q1 = q1  q2 = q2  gw1 = gw1  gw2 = gw2  i1 = i1  i2 = i2  z0 = z0
  z1 = z1  z2 = z2  o0 = o0  o1 = o1  o2 = o2  o3 = o3  e1 = e1  e2 = e2  e3 = e3  ad1 = ad1
  ad2 = ad2  u1 = u1  u2 = u2  u3 = u3  tn = tn  tn2 = tn2  y1 = y1  y2 = y2  t1 = t1  t2 = t2  n1 = n1
  n2 = n2  c1 = c1  c2 = c2  g1 = g1  g2 = g2  qa = qa  qb = qb  qc = qc  f1 = f1
  f2 = f2  f3 = f3  nL = nL  nR = nR  nR2 = nR2  nS = nS  nD = nD  h1 = h1  h2 = h2  ia = ia
  ea = ea  ib = ib  eb = eb  ic = ic  ec = ec  static = static  scopeA = scopeA  scopeB = scopeB  outerB = outerB
  networkB = networkB  rule = rule  routerB = routerB  sgA = sgA
  outA = outA  port = port  A = A  B = B  p1 = p1  p2 = p2  mA = mA  mB = mB  r1 = r1  r2 = r2
  outer = outer  fipA = fipA  s1 = s1  s2 = s2  gA = gA  gAuto = gAuto  apA = apA
  label = label  pool1 = pool1  zone = zone

  Ml2Workers = {wA, wB}  Drivers <- TwoDrivers  Ml2Resources = {poolA, poolB, groupA}
  OwnerProject <- OwnerOf  Subnetpools = {poolA, poolB}  SharedPools = {poolA, poolB}
  GroupResources = {groupA}  Projects = {pA, pB}  ProjectNames = {"a", "b"}
  NoName = NoName  Idle = Idle  Serial = TRUE  Patient = TRUE

  ExtNets = {nA, nB, nM, nN}  ApicNets = {a1, a2, a3}  L3OutOf <- L3OutsOf
  PreExisting = {}  MultiApicNets = {a3}  ExtCidrs = {k1, k2}  ExtSubnets = {x1, x2}  ExtBlocks = {b1, b2}
  Gateways = {gw1, gw2}  SviNetworks = {v1, v2}  SviPaths = {q1, q2}  Absent = Absent

  L3Rows = {i1, i2}  Scopes = {z0, z1, z2}  ScopeMade <- ScopesMade
  SubnetPools = {o0, o1, o2, o3}  PoolMade <- PoolsMade  DefaultPool = o0
  PoolGroups = {u1, u2, u3}  GroupL3 <- L3Of  GroupNet <- NetworksOf
  PoolBlocks = {1, 2, 3}  PoolWorkers = {wA, wB}  Segments = {e1, e2, e3}
  SegmentCidr <- CidrOf  SegmentTenant <- TenantsOfSegments  Destinations = {1, 2, 5}  AddressIn <- Addresses
  L3Blocks <- BlocksOfL3  L3Tenant <- TenantsOfL3  Nothing = Nothing

  ServicePolicies = {y1, y2}  ServedGroups = {u1, u2}  ServedTargets = {t1, t2}
  ServedGroup <- GroupOfTarget  NatPools = {n1, n2}  PoolBlock <- BlockOfPool
  NatSegments = {e1, e2}  SegmentBlock <- BlockOfSegment  OverlappingBlocks = {}
  PoolSize = 2  Size = 4  NoOne = NoOne  NoRow = NoRow  MovesUnused = TRUE

  Chains = {c1, c2}  Groups = {g1, g2}  Pairs = {qa, qb, qc}  Flows = {f1, f2, f3}
  ServiceNets = {nL, nR, nR2, nS, nD}  SviNets = {nS, nD}
  Ingress <- IngressOf  Egress <- EgressOf  PortNet <- NetOf  Monitored = {g1}
  SrcNet <- SrcNetOf  DstNet <- DstNetOf  SrcPrefix <- SrcPrefixOf
  DstPrefix <- DstPrefixOf  NetTenant <- NetTenantOf
  ChainHosts = {h1, h2}  LinkPaths = {k1, k2}  ServiceVrfs = {v1, v2}  Nil = Nil

  NeutronRows = {static, scopeA, scopeB, networkB, outerB, routerB, sgA, rule}
  ApicOwned <- PreExistingL3Outs  VrfOf <- VrfOfRow  L3OutsideOf <- L3OutsideOfRow  Unrepairable = {rule}  WithoutDn = {}
  BoundPorts = {port}  KindOf <- KindOfRow  ProjectOf <- ProjectOfRow
  Tenants = {A, B}  Common = Common  NoTenant = NoTenant

  DetailPorts = {p1, p2}  PortHosts = {h1, h2}  PortOn <- NetworkOfPort
  DetailNets = {mA, mB}  DetailRouters = {r1, r2}  OuterNets = {outer}
  Fips = {fipA}  FipOuter <- OuterOfFip  SnatPorts = {s1, s2}
  TargetGroups = {gA, gAuto}  AutoGroups = {gAuto}  Profiles = {apA}  Labels = {label}
  SubnetCidrs = {k1, k2}  ScopedPools = {pool1}  PoolScopes = {zone}
  DetailWorkers = {wA, wB}  Unset = Unset  Exclusive = TRUE
INVARIANT SegmentsAreCompatible
CHECK_DEADLOCK FALSE
