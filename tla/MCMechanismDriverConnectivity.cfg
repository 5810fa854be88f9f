SPECIFICATION MCSpec
CONSTANTS
  Topics = {"joined"}
  pA = pA  pB = pB  sharedNet = sharedNet  netA = netA  netA2 = netA2  netB = netB  netB2 = netB2
  rA = rA  rA2 = rA2  rB = rB  rB2 = rB2
  subS = subS  subA = subA  subA2 = subA2  subA3 = subA3  subB = subB  subB2 = subB2
  scope4 = scope4  scope6 = scope6  pool4 = pool4  pool6 = pool6  ext = ext  w1 = w1
  Projects = {pA, pB}
  Networks = {sharedNet, netA}
  Subnets = {subS, subA}
  Routers = {rA, rA2}
  Scopes = {}
  Pools = {pool4, pool6}
  ExtNets = {ext}
  Workers = {w1}
  Owner <- OwnerDef
  Shared = {sharedNet}
  NetworkOf <- NetworkOfDef
  PoolOf <- TwoPools
  ScopeVrf <- ScopeVrfDef
  Overlap <- OverlapDef
  None = None
  net = net  svi = svi  p1 = p1  p2 = p2  q1 = q1
  agent = agent  b1 = b1  b2 = b2  b3 = b3  vmm = vmm  x1 = x1  x2 = x2
  BindingNetworks = {net, svi}  Svi = {svi}
  Ports = {p1, p2, q1}  PortNetwork <- PortNetworkDef
  Hosts = {agent, b1, b2, b3}  Agents = {agent}
  Vlans = {1, 2}  Paths = {k1, k2}
  Domains = {vmm, x1, x2}  VmmDomains = {vmm}
  HostDomains <- Mapping  DefaultDomains = {x2}
  Opflex = Opflex  Absent = Absent  Flapping = {b2}  Careful = TRUE
  RemoteSets = {g1, g2}  MemberPorts = {m1, m2}  RemoteRules = {r1, r2}
  Addresses = {a1, a2, a6}  SixAddresses = {a6}  SixRules = {r2}
  AgentPorts = {e1, e2}  Vips = {v1}  Reporters = {t1}
INVARIANT ValidConnectivity
CHECK_DEADLOCK FALSE
