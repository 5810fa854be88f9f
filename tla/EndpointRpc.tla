----------------------------- MODULE EndpointRpc -----------------------------
(* What the OpFlex agents know of their endpoints.  Ports share addresses
   as allowed address pairs; the agent of the port that answers for one
   reports it as the owner.  The driver keeps the owner in a row, notifies
   the ports concerned, and their agents ask for the details again: the
   addresses the port owns and the floating addresses that lead to those.

   A report takes several transactions; reports, notifications, requests
   and their answers overlap. *)
CONSTANTS AgentPorts, Vips, Reporters, Absent, Careful

VARIABLES
  owner,    \* rows: the port that owns the address, or Absent
  pairs,    \* rows: the allowed address pairs of a port
  floating, \* rows: the addresses with a floating address
  report,   \* Absent, or the report that a worker handles
  notices,  \* ports with a notification on its way to their agent
  request,  \* Absent, or the agent's request and, once made, its answer
  view      \* the details the agent has

endpointRows == <<owner, pairs, floating>>
agentVars == <<notices, request, view>>
endpointVars == <<endpointRows, report, agentVars>>

Owned(p) == {v \in pairs[p] : owner[v] = p}
FloatingOf(p) == {v \in floating : owner[v] = p}
Details(p) == [owned |-> Owned(p), floating |-> FloatingOf(p)]

NoDetails == [owned |-> {}, floating |-> {}]
AnyDetails == [owned : SUBSET Vips, floating : SUBSET Vips]
Owners == AgentPorts \cup {Absent}

EndpointTypeOK ==
  /\ owner \in [Vips -> Owners] /\ pairs \in [AgentPorts -> SUBSET Vips]
  /\ floating \subseteq Vips
  /\ report \in [Reporters -> {Absent} \cup
       [vip : Vips, port : AgentPorts, old : Owners, found : BOOLEAN,
        step : {"read", "look", "write", "notify"}]]
  /\ notices \subseteq AgentPorts
  /\ request \in [AgentPorts -> {Absent} \cup [answer : {Absent} \cup AnyDetails]]
  /\ view \in [AgentPorts -> AnyDetails]

EndpointInit ==
  /\ owner = [v \in Vips |-> Absent] /\ pairs = [p \in AgentPorts |-> Vips]
  /\ floating = {} /\ report = [w \in Reporters |-> Absent]
  /\ notices = {} /\ request = [p \in AgentPorts |-> Absent]
  /\ view = [p \in AgentPorts |-> NoDetails]

--------------------
(* Reports of owners. *)

Reports(w, v) == IF report[w] = Absent THEN FALSE ELSE report[w].vip = v
ReportsFor(w, p) == IF report[w] = Absent THEN FALSE ELSE report[w].port = p
At(w, step) == IF report[w] = Absent THEN FALSE ELSE report[w].step = step
GoTo(w, r, step) == report' = [report EXCEPT ![w] = [r EXCEPT !.step = step]]

\* Careful: the reports of an address come one after the other.
UpdateIpOwner(w, p, v) ==
  /\ report[w] = Absent /\ v \in pairs[p]
  /\ Careful => \A x \in Reporters : ~Reports(x, v)
  /\ report' = [report EXCEPT ![w] =
       [vip |-> v, port |-> p, old |-> Absent, found |-> FALSE, step |-> "read"]]
  /\ UNCHANGED <<endpointRows, agentVars>>

ReadOldOwner(w) ==
  /\ At(w, "read")
  /\ GoTo(w, [report[w] EXCEPT !.old = owner[report[w].vip]], "look")
  /\ UNCHANGED <<endpointRows, agentVars>>

\* Whether there is a row is asked in another transaction.
LookForRow(w) ==
  /\ At(w, "look")
  /\ GoTo(w, [report[w] EXCEPT !.found = owner[report[w].vip] # Absent], "write")
  /\ UNCHANGED <<endpointRows, agentVars>>

\* An update of a row that is gone writes nothing; an insertion of one that
\* has come in the meantime is dropped.
NewOwner(v, p, found) == IF found <=> owner[v] # Absent THEN p ELSE owner[v]

WriteOwner(w) ==
  LET r == report[w]
  IN /\ At(w, "write")
     /\ owner' = [owner EXCEPT ![r.vip] = NewOwner(r.vip, r.port, r.found)]
     /\ GoTo(w, r, "notify")
     /\ UNCHANGED <<pairs, floating, agentVars>>

\* Mutant: the port that lost the address is not notified.
WinnerOnly(r) == {r.port}

ToNotify(r) == {r.port, r.old} \ {Absent}

NotifyOwners(w) ==
  /\ At(w, "notify")
  /\ notices' = notices \cup ToNotify(report[w])
  /\ report' = [report EXCEPT ![w] = Absent]
  /\ UNCHANGED <<endpointRows, request, view>>

--------------------
(* Updates of ports and floating addresses, whose notifications follow the
   transaction; an agent that asks before they are sent reads the new rows
   just as well. *)

\* Mutant: the rows of removed pairs stay.
OwnersKept(p, vs) == owner

OwnersLeft(p, vs) ==
  [v \in Vips |-> IF owner[v] = p /\ v \in pairs[p] \ vs THEN Absent ELSE owner[v]]

\* Careful: not while a report for the port is handled.
UpdatePairs(p, vs) ==
  /\ vs # pairs[p]
  /\ Careful => \A w \in Reporters : ~ReportsFor(w, p)
  /\ pairs' = [pairs EXCEPT ![p] = vs]
  /\ owner' = OwnersLeft(p, vs)
  /\ notices' = notices \cup {p}
  /\ UNCHANGED <<floating, report, request, view>>

\* The ports with a pair for the address are notified, its owner or not.
ToggleFloating(v) ==
  /\ floating' = IF v \in floating THEN floating \ {v} ELSE floating \cup {v}
  /\ notices' = notices \cup {p \in AgentPorts : v \in pairs[p]}
  /\ UNCHANGED <<owner, pairs, report, request, view>>

--------------------
(* Agents. *)

Ask(p) ==
  /\ p \in notices /\ request[p] = Absent
  /\ notices' = notices \ {p} /\ request' = [request EXCEPT ![p] = [answer |-> Absent]]
  /\ UNCHANGED <<endpointRows, report, view>>

\* The rows are read in one transaction.
RequestEndpointDetails(p) ==
  /\ request[p] # Absent
  /\ request[p].answer = Absent
  /\ request' = [request EXCEPT ![p].answer = Details(p)]
  /\ UNCHANGED <<endpointRows, report, notices, view>>

Receive(p) ==
  /\ request[p] # Absent
  /\ request[p].answer # Absent
  /\ view' = [view EXCEPT ![p] = request[p].answer]
  /\ request' = [request EXCEPT ![p] = Absent]
  /\ UNCHANGED <<endpointRows, report, notices>>

EndpointNext ==
  \/ \E w \in Reporters :
       \/ \E p \in AgentPorts : \E v \in Vips : UpdateIpOwner(w, p, v)
       \/ ReadOldOwner(w) \/ LookForRow(w) \/ WriteOwner(w) \/ NotifyOwners(w)
  \/ \E p \in AgentPorts :
       \/ \E vs \in SUBSET Vips : UpdatePairs(p, vs)
       \/ Ask(p) \/ RequestEndpointDetails(p) \/ Receive(p)
  \/ \E v \in Vips : ToggleFloating(v)

EndpointSpec == EndpointInit /\ [][EndpointNext]_endpointVars

--------------------
Settled(p) ==
  /\ p \notin notices /\ request[p] = Absent
  /\ \A w \in Reporters : At(w, "notify") => p \notin {report[w].port, report[w].old}

\* Once no notification, request or answer is on its way, the agent knows the
\* addresses that its port owns and the floating addresses behind them,
\* however reports of other ports, port updates and floating addresses were
\* interleaved with its requests.
AgentsKnowTheirAddresses == \A p \in AgentPorts : Settled(p) => view[p] = Details(p)
====================
