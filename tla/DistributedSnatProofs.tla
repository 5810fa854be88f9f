------------------------ MODULE DistributedSnatProofs ------------------------
(* Proofs about DistributedSnat: the ranges handed out for one address do
   not overlap, a request gives up only when they are used up, and the
   policy objects follow the subnets. *)
EXTENDS DistributedSnat, FunctionTheorems, FiniteSetTheorems, WellFoundedInduction, TLAPS

--------------------
(* Arithmetic of ranges *)

LEMMA ConfigsValid ==
  \A c \in Configs : /\ c.start \in Nat /\ c.end \in Nat /\ c.size \in Nat
                     /\ 1 <= c.start /\ c.start < c.end /\ c.end <= 65535
                     /\ 1 <= c.size /\ c.size <= c.end - c.start + 1
  BY ConfigAssumption DEF ValidConfig

LEMMA Division ==
  ASSUME NEW a \in Nat, NEW s \in Nat \ {0}
  PROVE  /\ a \div s \in Nat /\ (a % s) \in 0 .. s - 1
         /\ a = s * (a \div s) + (a % s)
  OBVIOUS

LEMMA Multiples ==
  ASSUME NEW s \in Nat \ {0}, NEW j \in Nat, NEW k \in Nat, j < k
  PROVE  s * j + s <= s * k
<1>1. s * (j + 1) = s * j + s
  OBVIOUS
<1>2. s * (j + 1) <= s * k
  <2> DEFINE d == k - (j + 1)
  <2>1. d \in Nat /\ k = (j + 1) + d
    OBVIOUS
  <2>2. s * ((j + 1) + d) = s * (j + 1) + s * d
    BY <2>1
  <2>3. s * d \in Nat
    BY <2>1
  <2> QED BY <2>1, <2>2, <2>3
<1> QED BY <1>1, <1>2

\* The first ports of the ranges of a configuration are a block apart.
LEMMA StartsApart ==
  ASSUME NEW c \in Configs, NEW d \in Configs, c.start = d.start, c.size = d.size,
         NEW m \in Starts(c), NEW n \in Starts(d), m < n
  PROVE  m + c.size <= n
<1> DEFINE s == c.size
           a == m - c.start
           b == n - c.start
<1>1. /\ s \in Nat \ {0} /\ a \in Nat /\ b \in Nat /\ a < b
      /\ a % s = 0 /\ b % s = 0 /\ m = c.start + a /\ n = c.start + b
      /\ c.start \in Nat
  BY ConfigsValid DEF Starts
<1> HIDE DEF s, a, b
<1>2. a = s * (a \div s) /\ a \div s \in Nat
  <2>1. a \div s \in Nat /\ a = s * (a \div s) + (a % s)
    BY <1>1, Division
  <2>2. s * (a \div s) \in Nat
    BY <1>1, <2>1
  <2> QED BY <1>1, <2>1, <2>2
<1>3. b = s * (b \div s) /\ b \div s \in Nat
  <2>1. b \div s \in Nat /\ b = s * (b \div s) + (b % s)
    BY <1>1, Division
  <2>2. s * (b \div s) \in Nat
    BY <1>1, <2>1
  <2> QED BY <1>1, <2>1, <2>2
<1>4. a \div s < b \div s
  <2>1. SUFFICES ASSUME b \div s <= a \div s PROVE FALSE
    BY <1>2, <1>3
  <2>2. CASE b \div s = a \div s
    BY <2>2, <1>1, <1>2, <1>3
  <2>3. CASE b \div s < a \div s
    BY <2>3, <1>1, <1>2, <1>3, Multiples
  <2> QED BY <2>1, <2>2, <2>3, <1>2, <1>3
<1>5. s * (a \div s) + s <= s * (b \div s)
  BY <1>1, <1>2, <1>3, <1>4, Multiples
<1>6. a + s <= b
  BY <1>2, <1>3, <1>5
<1> QED BY <1>1, <1>6 DEF s

--------------------
(* Types *)

\* What a worker knows at each step of its request.
Informed(q) ==
  /\ q.pc # "idle" => q.host \in Hosts /\ q.subnet \in Subnets /\ q.config \in Configs
  /\ q.pc \in {"read", "insert", "fail"} => q.port \in PortIds
  /\ q.pc \in {"find", "create", "read", "insert"} => q.tries >= 1
  /\ q.pc = "insert" => q.range \in Starts(q.config)

TypeInv == TypeOK /\ \A w \in Workers : Informed(worker[w])

Requests ==
  [pc : {"idle", "find", "create", "read", "insert", "fail"},
   host : Hosts \cup {None}, subnet : Subnets \cup {None},
   config : Configs \cup {None}, port : PortIds \cup {None},
   created : BOOLEAN, tries : Nat, range : Numbers \cup {0}, freed : BOOLEAN]

LEMMA IdleTyped == Idle \in Requests /\ Informed(Idle)
  BY DEF Idle, Requests, Informed

LEMMA StartsAreNumbers ==
  ASSUME NEW c \in Configs, NEW n \in Starts(c)
  PROVE  n \in Numbers /\ n \in Nat /\ n >= 1 /\ n + c.size - 1 \in Numbers
         /\ n + c.size - 1 >= n
<1>1. /\ n \in c.start .. c.end /\ n + c.size - 1 <= c.end
  BY DEF Starts
<1>2. n + c.size - 1 \in c.start .. c.end
  BY <1>1, ConfigsValid
<1> QED BY <1>1, <1>2, ConfigsValid DEF Numbers

LEMMA RangeCountPositive ==
  ASSUME NEW c \in Configs
  PROVE  RangeCount(c) \in Nat /\ RangeCount(c) >= 1
<1> DEFINE a == c.end - c.start + 1
           s == c.size
<1>1. a \in Nat /\ s \in Nat \ {0} /\ s <= a
  BY ConfigsValid
<1>2. RangeCount(c) = a \div s
  BY DEF RangeCount
<1> HIDE DEF a, s
<1>3. /\ a \div s \in Nat /\ (a % s) \in 0 .. s - 1
      /\ a = s * (a \div s) + (a % s)
  BY <1>1, Division
<1>4. a \div s # 0
  <2>1. SUFFICES ASSUME a \div s = 0 PROVE FALSE
    OBVIOUS
  <2>2. a = s * 0 + (a % s)
    BY <1>3, <2>1
  <2>3. s * 0 = 0
    BY <1>1
  <2> QED BY <1>1, <1>3, <2>2, <2>3
<1> QED BY <1>2, <1>3, <1>4

\* A step of one worker, and of no other.
LEMMA StepTyped ==
  ASSUME TypeInv, NEW w \in Workers, NEW q \in Requests, Informed(q), Step(w, q)
  PROVE  /\ worker' \in [Workers -> Requests]
         /\ \A v \in Workers : Informed(worker'[v])
  BY DEF TypeInv, TypeOK, Step, Requests

\* Deleting a port marks workers, and changes nothing else of them.
LEMMA DropTyped ==
  ASSUME TypeInv, NEW i, NEW next \in [Workers -> Requests],
         \A v \in Workers : Informed(next[v]), DropPort(i, next)
  PROVE  /\ worker' \in [Workers -> Requests]
         /\ \A v \in Workers : Informed(worker'[v])
         /\ ports' \subseteq ports /\ ranges' \subseteq ranges
<1>1. ASSUME NEW v \in Workers
      PROVE  [next[v] EXCEPT !.freed = TRUE] \in Requests
             /\ Informed([next[v] EXCEPT !.freed = TRUE])
  <2>1. next[v] \in Requests /\ Informed(next[v])
    OBVIOUS
  <2> QED BY <2>1 DEF Requests, Informed
<1> QED BY <1>1 DEF DropPort

--------------------
(* The first free range *)

LEMMA Least ==
  ASSUME NEW T \in SUBSET Nat, T # {}
  PROVE  \E n \in T : \A m \in T : n <= m
<1> DEFINE below(n) == 0 .. n
           R == StrictSubsetOrdering(Nat)
           S == {below(n) : n \in T}
<1>1. S \subseteq FiniteSubsetsOf(Nat)
  <2>1. ASSUME NEW n \in Nat PROVE below(n) \subseteq Nat /\ IsFiniteSet(below(n))
    BY FS_Interval
  <2> HIDE DEF below
  <2> QED BY <2>1 DEF FiniteSubsetsOf
<1>2. S # {}
  OBVIOUS
<1>3. IsWellFoundedOn(R, FiniteSubsetsOf(Nat))
  BY FS_StrictSubsetOrderingWellFounded
<1> HIDE DEF R, S
<1>4. PICK x \in S : \A y \in S : ~(<<y, x>> \in R)
  BY <1>1, <1>2, <1>3, WFMin
<1>5. PICK n \in T : x = below(n)
  BY <1>4 DEF S
<1>6. ASSUME NEW m \in T, m < n PROVE FALSE
  <2>1. below(m) \in S
    BY DEF S
  <2>2. below(m) \subseteq below(n) /\ below(m) # below(n)
    BY <1>6
  <2>3. <<below(m), below(n)>> \in R
    BY <2>2 DEF R, StrictSubsetOrdering
  <2> QED BY <1>4, <1>5, <2>1, <2>3
<1> QED BY <1>6

\* FreeRange finds a range whenever there is one.
LEMMA FreeRangeIsFree ==
  ASSUME NEW c \in Configs, NEW rows
  PROVE  LET free == {n \in Starts(c) : ~Overlaps(c, n, rows)}
         IN  /\ free = {} => FreeRange(c, rows) = 0
             /\ free # {} => FreeRange(c, rows) \in free
<1> DEFINE free == {n \in Starts(c) : ~Overlaps(c, n, rows)}
<1>1. free \subseteq Nat
  BY StartsAreNumbers
<1>2. free # {} => \E n \in free : \A m \in free : n <= m
  BY <1>1, Least
<1> HIDE DEF free
<1>3. FreeRange(c, rows) =
        IF free = {} THEN 0 ELSE CHOOSE n \in free : \A m \in free : n <= m
  BY DEF FreeRange, free
<1>4. /\ free = {} => FreeRange(c, rows) = 0
      /\ free # {} => FreeRange(c, rows) \in free
  BY <1>2, <1>3
<1> QED BY <1>4 DEF free

--------------------
(* Every step keeps the types *)

LEMMA SubnetStepTyped ==
  ASSUME TypeInv, SubnetStep
  PROVE  TypeInv'
<1> USE DEF TypeInv, TypeOK, policyVars, tableVars
<1>1. ASSUME NEW s \in Subnets, NEW c \in Configs \cup {Plain}, CreateSubnet(s, c)
      PROVE  TypeInv'
  BY <1>1 DEF CreateSubnet, CreateContract, CreateServiceGraph, Reparent
<1>2. ASSUME NEW s \in Subnets, NEW c \in Configs \cup {Plain}, UpdateSubnet(s, c)
      PROVE  TypeInv'
  BY <1>2 DEF UpdateSubnet
<1>3. ASSUME NEW s \in Subnets, DeleteSubnet(s)
      PROVE  TypeInv'
  BY <1>3 DEF DeleteSubnet, DeletePolicy, Reparent
<1>4. ASSUME NEW s \in Subnets, SetGateway(s)
      PROVE  TypeInv'
  BY <1>4 DEF SetGateway, RouteGateway
<1>5. CASE ClearGateway
  BY <1>5 DEF ClearGateway
<1> QED BY <1>1, <1>2, <1>3, <1>4, <1>5 DEF SubnetStep

LEMMA RequestStepTyped ==
  ASSUME TypeInv, NEW w \in Workers,
         \/ \E h \in Hosts : Request(w, h)
         \/ FindPort(w) \/ CreatePort(w) \/ ReadRanges(w) \/ InsertRange(w) \/ GiveUp(w)
  PROVE  TypeInv'
<1> DEFINE q == worker[w]
<1>1. q \in Requests /\ Informed(q)
  BY DEF TypeInv, TypeOK, Requests
<1>2. SUFFICES /\ worker' \in [Workers -> Requests]
               /\ \A v \in Workers : Informed(worker'[v])
               /\ ports' \subseteq [id : PortIds, host : Hosts] /\ ranges' \subseteq Rows
               /\ UNCHANGED <<subnet, gateway, policyVars>>
  BY DEF TypeInv, TypeOK, Requests, policyVars
<1>3. ports \subseteq [id : PortIds, host : Hosts] /\ ranges \subseteq Rows
  BY DEF TypeInv, TypeOK
<1>4. ASSUME NEW h \in Hosts, Request(w, h) PROVE <1>2!1
  <2> DEFINE c == subnet[gateway]
             p == [Idle EXCEPT !.pc = "find", !.host = h, !.subnet = gateway,
                               !.config = c, !.tries = RangeCount(c)]
  <2>1. gateway \in Subnets /\ c \in Configs
    BY <1>4 DEF Request, Distributed, TypeInv, TypeOK
  <2>2. p \in Requests /\ Informed(p)
    BY <2>1, RangeCountPositive DEF Requests, Informed, Idle
  <2>3. Step(w, p) /\ UNCHANGED <<subnet, gateway, policyVars, tableVars>>
    BY <1>4 DEF Request
  <2> HIDE DEF p
  <2> QED BY <1>3, <2>2, <2>3, StepTyped DEF tableVars
<1>5. CASE FindPort(w)
  <2>1. q.pc = "find"
    BY <1>5 DEF FindPort
  <2>2. ASSUME NEW p \in ports, Step(w, [q EXCEPT !.pc = "read", !.port = p.id])
        PROVE  /\ worker' \in [Workers -> Requests]
               /\ \A v \in Workers : Informed(worker'[v])
    <3> DEFINE n == [q EXCEPT !.pc = "read", !.port = p.id]
    <3>1. n \in Requests /\ Informed(n)
      BY <1>1, <1>3, <2>1 DEF Requests, Informed
    <3> HIDE DEF n
    <3>2. Step(w, n)
      BY <2>2 DEF n
    <3> QED BY <3>1, <3>2, StepTyped
  <2>3. ASSUME Step(w, [q EXCEPT !.pc = "create"])
        PROVE  /\ worker' \in [Workers -> Requests]
               /\ \A v \in Workers : Informed(worker'[v])
    <3> DEFINE n == [q EXCEPT !.pc = "create"]
    <3>1. n \in Requests /\ Informed(n)
      BY <1>1, <2>1 DEF Requests, Informed
    <3> HIDE DEF n
    <3>2. Step(w, n)
      BY <2>3 DEF n
    <3> QED BY <3>1, <3>2, StepTyped
  <2> QED BY <1>3, <1>5, <2>2, <2>3 DEF FindPort, tableVars
<1>6. CASE CreatePort(w)
  <2>1. q.pc = "create"
    BY <1>6 DEF CreatePort
  <2>2. ASSUME NEW i \in PortIds,
               Step(w, [q EXCEPT !.pc = "read", !.port = i, !.created = TRUE])
        PROVE  /\ worker' \in [Workers -> Requests]
               /\ \A v \in Workers : Informed(worker'[v])
    <3> DEFINE n == [q EXCEPT !.pc = "read", !.port = i, !.created = TRUE]
    <3>1. n \in Requests /\ Informed(n)
      BY <1>1, <2>1 DEF Requests, Informed
    <3> HIDE DEF n
    <3>2. Step(w, n)
      BY <2>2 DEF n
    <3> QED BY <3>1, <3>2, StepTyped
  <2>3. q.host \in Hosts
    BY <1>1, <2>1 DEF Informed
  <2>4. ASSUME NEW i \in PortIds, ports' = ports \cup {[id |-> i, host |-> q.host]}
        PROVE  ports' \subseteq [id : PortIds, host : Hosts]
    BY <1>3, <2>3, <2>4
  <2> QED BY <1>3, <1>6, <2>2, <2>4, IdleTyped, StepTyped DEF CreatePort

<1>7. CASE ReadRanges(w)
  <2> DEFINE used == {r \in ranges : r.subnet = q.subnet}
             free == FreeRange(q.config, used)
             fails == [q EXCEPT !.pc = "fail"]
             tries == [q EXCEPT !.pc = "insert", !.range = free]
  <2>1. q.pc = "read"
    BY <1>7 DEF ReadRanges
  <2>2. q.config \in Configs
    BY <1>1, <2>1 DEF Informed
  <2>3. free # 0 => free \in Starts(q.config) /\ free \in Numbers
    <3>1. FreeRange(q.config, used) # 0 => FreeRange(q.config, used) \in Starts(q.config)
      <4> HIDE DEF used
      <4> QED BY <2>2, FreeRangeIsFree
    <3> QED BY <2>2, <3>1, StartsAreNumbers
  <2> HIDE DEF free
  <2>4. fails \in Requests /\ Informed(fails)
    BY <1>1, <2>1 DEF Requests, Informed
  <2>5. free # 0 => tries \in Requests /\ Informed(tries)
    BY <1>1, <2>1, <2>3 DEF Requests, Informed
  <2>6. \E n \in {Idle, fails} \cup {m \in {tries} : free # 0} : Step(w, n)
    BY <1>7 DEF ReadRanges, free
  <2> HIDE DEF fails, tries, q
  <2>7. PICK n \in Requests : Informed(n) /\ Step(w, n)
    BY <2>4, <2>5, <2>6, IdleTyped
  <2>8. UNCHANGED <<subnet, gateway, policyVars, tableVars>>
    BY <1>7 DEF ReadRanges
  <2> QED BY <1>3, <2>7, <2>8, StepTyped DEF tableVars
<1>8. CASE InsertRange(w)
  <2> DEFINE row == [subnet |-> q.subnet, start |-> q.range, host |-> q.host,
                     end |-> q.range + q.config.size - 1, port |-> q.port]
             n == [q EXCEPT !.tries = @ - 1,
                            !.pc = IF q.tries <= 1 THEN "fail" ELSE "read"]
  <2>1. q.pc = "insert"
    BY <1>8 DEF InsertRange
  <2>2. /\ q.subnet \in Subnets /\ q.host \in Hosts /\ q.port \in PortIds
        /\ q.config \in Configs /\ q.range \in Starts(q.config) /\ q.tries >= 1
    BY <1>1, <2>1 DEF Informed
  <2>3. row \in Rows
    BY <2>2, StartsAreNumbers DEF Rows
  <2>4. n \in Requests /\ Informed(n)
    <3>1. q.tries \in Nat /\ q.tries - 1 \in Nat /\ (q.tries > 1 => q.tries - 1 >= 1)
      BY <1>1, <2>2 DEF Requests
    <3>2. n \in Requests
      BY <1>1, <3>1 DEF Requests
    <3>3. /\ n.pc \in {"fail", "read"} /\ (n.pc = "read" => n.tries >= 1)
          /\ n.host = q.host /\ n.subnet = q.subnet /\ n.config = q.config
          /\ n.port = q.port
      BY <1>1, <3>1 DEF Requests
    <3> HIDE DEF n, q
    <3> QED BY <2>2, <3>2, <3>3 DEF Informed
  <2>5. \/ Step(w, n) /\ UNCHANGED ranges
        \/ Step(w, Idle) /\ ranges' \subseteq ranges \cup {row}
    <3>1. CASE \E r \in ranges : r.subnet = q.subnet /\ r.start = q.range
      BY <1>8, <3>1 DEF InsertRange
    <3>2. CASE ~\E r \in ranges : r.subnet = q.subnet /\ r.start = q.range
      BY <1>8, <3>2 DEF InsertRange
    <3> QED BY <3>1, <3>2
  <2>6. UNCHANGED <<subnet, gateway, policyVars, ports>>
    BY <1>8 DEF InsertRange
  <2> HIDE DEF row, n, q
  <2> QED BY <1>3, <2>3, <2>4, <2>5, <2>6, IdleTyped, StepTyped
<1>9. CASE GiveUp(w)
  <2>1. UNCHANGED <<subnet, gateway, policyVars>>
    BY <1>9 DEF GiveUp
  <2>2. CASE q.created
    <3> DEFINE next == [worker EXCEPT ![w] = Idle]
    <3>1. next \in [Workers -> Requests] /\ \A v \in Workers : Informed(next[v])
      BY IdleTyped DEF TypeInv, TypeOK, Requests
    <3>2. DropPort(q.port, next)
      BY <1>9, <2>2 DEF GiveUp
    <3> HIDE DEF next, q
    <3> QED BY <1>3, <2>1, <3>1, <3>2, DropTyped
  <2>3. CASE ~q.created
    <3>1. Step(w, Idle) /\ UNCHANGED tableVars
      BY <1>9, <2>3 DEF GiveUp
    <3> QED BY <1>3, <2>1, <3>1, IdleTyped, StepTyped DEF tableVars
  <2> QED BY <2>2, <2>3
<1> QED BY <1>2, <1>4, <1>5, <1>6, <1>7, <1>8, <1>9

LEMMA NextTyped ==
  ASSUME TypeInv, [Next]_vars
  PROVE  TypeInv'
<1>1. CASE UNCHANGED vars
  BY <1>1 DEF vars, policyVars, tableVars, TypeInv, TypeOK
<1>2. ASSUME NEW p \in ports, DeletePort(p) PROVE TypeInv'
  <2>1. worker \in [Workers -> Requests] /\ \A v \in Workers : Informed(worker[v])
    BY DEF TypeInv, TypeOK, Requests
  <2>2. DropPort(p.id, worker) /\ UNCHANGED <<subnet, gateway, policyVars>>
    BY <1>2 DEF DeletePort
  <2>3. /\ worker' \in [Workers -> Requests]
        /\ \A v \in Workers : Informed(worker'[v])
        /\ ports' \subseteq ports /\ ranges' \subseteq ranges
    BY <2>1, <2>2, DropTyped
  <2> QED BY <2>2, <2>3 DEF TypeInv, TypeOK, Requests, policyVars
<1> QED BY <1>1, <1>2, SubnetStepTyped, RequestStepTyped DEF Next, RequestStep

LEMMA InitTyped == Init => TypeInv
<1> SUFFICES ASSUME Init PROVE TypeInv
  OBVIOUS
<1>1. worker = [w \in Workers |-> Idle]
  BY DEF Init
<1>2. worker \in [Workers -> Requests] /\ \A w \in Workers : Informed(worker[w])
  BY <1>1, IdleTyped
<1>3. subnet \in [Subnets -> Configs \cup {None, Plain}]
  BY DEF Init
<1> QED BY <1>2, <1>3 DEF Init, TypeInv, TypeOK, Requests

\* Whatever agents, operators and other workers do in between the steps of a
\* request, the tables hold rows of their types, and a worker that is about to
\* write a range knows one of its own configuration (DistributedSnatHelper).
THEOREM TypeCorrect == Spec => []TypeOK
<1>1. TypeInv /\ [Next]_vars => TypeInv'
  BY NextTyped
<1>2. TypeInv => TypeOK
  BY DEF TypeInv
<1> QED BY <1>1, <1>2, InitTyped, PTL DEF Spec

--------------------
(* The ranges of one address *)

\* The row that a worker is about to write.
Row(q) == [subnet |-> q.subnet, start |-> q.range, host |-> q.host,
           end |-> q.range + q.config.size - 1, port |-> q.port]

\* The primary key of the table: the address and the first port.
HasKey(r, q) == r.subnet = q.subnet /\ r.start = q.range

LEMMA RowTyped ==
  ASSUME NEW q \in Requests, Informed(q), q.pc = "insert"
  PROVE  /\ Row(q) \in Rows /\ q.config \in Configs /\ q.range \in Starts(q.config)
         /\ HasKey(Row(q), q) /\ Row(q).end = q.range + q.config.size - 1
         /\ Row(q).start = q.range /\ Row(q).subnet = q.subnet
<1>1. /\ q.subnet \in Subnets /\ q.host \in Hosts /\ q.port \in PortIds
      /\ q.config \in Configs /\ q.range \in Starts(q.config)
  BY DEF Informed
<1> QED BY <1>1, StartsAreNumbers DEF Row, Rows, HasKey

\* A step writes at most one row, of a worker that found its key unused.
LEMMA OneRowAtATime ==
  ASSUME TypeInv, [Next]_vars
  PROVE  \/ ranges' \subseteq ranges
         \/ \E w \in Workers : /\ worker[w].pc = "insert"
                               /\ ranges' = ranges \cup {Row(worker[w])}
                               /\ ~\E r \in ranges : HasKey(r, worker[w])
<1>1. CASE UNCHANGED vars
  BY <1>1 DEF vars, tableVars
<1>2. CASE SubnetStep
  BY <1>2 DEF SubnetStep, CreateSubnet, UpdateSubnet, DeleteSubnet, SetGateway,
              ClearGateway, tableVars
<1>3. ASSUME NEW p \in ports, DeletePort(p) PROVE ranges' \subseteq ranges
  BY <1>3 DEF DeletePort, DropPort
<1>4. ASSUME NEW w \in Workers, GiveUp(w) PROVE ranges' \subseteq ranges
  BY <1>4 DEF GiveUp, DropPort, tableVars
<1>5. ASSUME NEW w \in Workers,
             (\E h \in Hosts : Request(w, h)) \/ FindPort(w) \/ CreatePort(w) \/ ReadRanges(w)
      PROVE  ranges' \subseteq ranges
  BY <1>5 DEF Request, FindPort, CreatePort, ReadRanges, tableVars
<1>6. ASSUME NEW w \in Workers, InsertRange(w)
      PROVE  \/ ranges' \subseteq ranges
             \/ /\ worker[w].pc = "insert"
                /\ ranges' = ranges \cup {Row(worker[w])}
                /\ ~\E r \in ranges : HasKey(r, worker[w])
  <2>1. CASE \E r \in ranges : HasKey(r, worker[w])
    BY <1>6, <2>1 DEF InsertRange, HasKey
  <2>2. CASE ~\E r \in ranges : HasKey(r, worker[w])
    BY <1>6, <2>2 DEF InsertRange, HasKey, Row
  <2> QED BY <2>1, <2>2
<1> QED BY <1>1, <1>2, <1>3, <1>4, <1>5, <1>6 DEF Next, RequestStep

\* A row is a range of some configuration, and the only one with its key.
OnGrid(r) == \E c \in Configs : r.start \in Starts(c) /\ r.end = r.start + c.size - 1

KeysUnique ==
  \A q, r \in ranges : q.subnet = r.subnet /\ q.start = r.start => q = r

RangesInv == TypeInv /\ KeysUnique /\ \A r \in ranges : OnGrid(r)

LEMMA NextKeepsRanges ==
  ASSUME RangesInv, [Next]_vars
  PROVE  RangesInv'
<1>1. TypeInv'
  BY NextTyped DEF RangesInv
<1>2. CASE ranges' \subseteq ranges
  BY <1>1, <1>2 DEF RangesInv, KeysUnique
<1>3. ASSUME NEW w \in Workers, worker[w].pc = "insert",
             ranges' = ranges \cup {Row(worker[w])},
             ~\E r \in ranges : HasKey(r, worker[w])
      PROVE  RangesInv'
  <2>1. worker[w] \in Requests /\ Informed(worker[w])
    BY DEF RangesInv, TypeInv, TypeOK, Requests
  <2>2. OnGrid(Row(worker[w]))
    BY <1>3, <2>1, RowTyped DEF OnGrid
  <2>3. /\ Row(worker[w]).subnet = worker[w].subnet
        /\ Row(worker[w]).start = worker[w].range
    BY DEF Row
  <2>4. KeysUnique'
    BY <1>3, <2>3 DEF RangesInv, KeysUnique, HasKey
  <2> QED BY <1>1, <1>3, <2>2, <2>4 DEF RangesInv
<1> QED BY <1>2, <1>3, OneRowAtATime DEF RangesInv

LEMMA RangesInvariant == Spec => []RangesInv
<1>1. Init => TypeInv
  BY InitTyped
<1>2. Init => RangesInv
  BY <1>1 DEF Init, RangesInv, KeysUnique
<1>3. RangesInv /\ [Next]_vars => RangesInv'
  BY NextKeepsRanges
<1> QED BY <1>2, <1>3, PTL DEF Spec

\* The configurations of an address differ in where they end, and in nothing
\* else: the range of ports is extended or cut, and its blocks stay.
OneGrid == \A c, d \in Configs : c.start = d.start /\ c.size = d.size

\* Two hosts never share a port of the address they have in common, although
\* each range was chosen from a table that others wrote since.  A change of the
\* first port or of the block size between two requests does break it
\* (get_snat_ip_for_host: the ranges of the old blocks stay).
THEOREM RangesAreDisjoint ==
  ASSUME OneGrid
  PROVE  Spec => []RangesDisjoint
<1>1. RangesInv => RangesDisjoint
  <2> SUFFICES ASSUME RangesInv, NEW q \in ranges, NEW r \in ranges,
                      q.subnet = r.subnet, q # r
               PROVE  q.end < r.start \/ r.end < q.start
    BY DEF RangesDisjoint
  <2>1. q.start # r.start
    BY DEF RangesInv, KeysUnique
  <2>2. PICK c \in Configs : q.start \in Starts(c) /\ q.end = q.start + c.size - 1
    BY DEF RangesInv, OnGrid
  <2>3. PICK d \in Configs : r.start \in Starts(d) /\ r.end = r.start + d.size - 1
    BY DEF RangesInv, OnGrid
  <2>4. q.start \in Nat /\ r.start \in Nat
    BY <2>2, <2>3, StartsAreNumbers
  <2>5. CASE q.start < r.start
    <3>1. q.start + c.size <= r.start
      BY <2>2, <2>3, <2>5, StartsApart DEF OneGrid
    <3> QED BY <2>2, <2>4, <3>1, ConfigsValid
  <2>6. CASE r.start < q.start
    <3>1. r.start + d.size <= q.start
      BY <2>2, <2>3, <2>6, StartsApart DEF OneGrid
    <3> QED BY <2>3, <2>4, <3>1, ConfigsValid
  <2> QED BY <2>1, <2>4, <2>5, <2>6
<1> QED BY <1>1, RangesInvariant, PTL


--------------------
(* The policy objects of the subnets *)

PolicyInv ==
  /\ TypeInv
  /\ PolicyFollowsSubnets
  /\ gateway # None => subnet[gateway] # None

LEMMA SubnetStepKeepsPolicy ==
  ASSUME Switches = FALSE, PolicyInv, SubnetStep
  PROVE  PolicyInv'
<1>1. TypeInv'
  BY SubnetStepTyped DEF PolicyInv
<1>2. /\ subnet \in [Subnets -> Configs \cup {None, Plain}]
      /\ gateway \in Subnets \cup {None}
      /\ None \notin Subnets /\ None # Plain
      /\ None \notin Configs /\ Plain \notin Configs
  BY NoneAssumption DEF PolicyInv, TypeInv, TypeOK
<1>3. ASSUME NEW s \in Subnets, NEW c \in Configs \cup {Plain}, CreateSubnet(s, c)
      PROVE  PolicyInv'
  <2>1. /\ subnet[s] = None /\ subnet' = [subnet EXCEPT ![s] = c]
        /\ gateway' = gateway /\ route' = route /\ gateway # s
    BY <1>2, <1>3 DEF CreateSubnet, PolicyInv, policyVars
  <2>2. \A t \in Subnets : Distributed(t)' <=> Distributed(t) \/ (t = s /\ c # Plain)
    BY <1>2, <2>1 DEF Distributed
  <2>3. /\ contracts' = IF c = Plain THEN contracts ELSE contracts \cup {s}
        /\ bdRouted' = (bdRouted \/ c # Plain)
    BY <1>3 DEF CreateSubnet, CreateContract, Reparent, policyVars, PolicyInv, TypeInv, TypeOK
  <2>4. contracts' = {t \in Subnets : Distributed(t)'}
    BY <2>2, <2>3 DEF PolicyInv, PolicyFollowsSubnets
  <2>5. bdRouted' = \E t \in Subnets : Distributed(t)'
    BY <2>2, <2>3 DEF PolicyInv, PolicyFollowsSubnets
  <2>6. route' = IF gateway' # None /\ Distributed(gateway)' THEN gateway' ELSE None
    BY <1>2, <2>1, <2>2 DEF PolicyInv, PolicyFollowsSubnets, Distributed
  <2> QED BY <1>1, <1>2, <2>1, <2>4, <2>5, <2>6 DEF PolicyInv, PolicyFollowsSubnets, Distributed
<1>4. ASSUME NEW s \in Subnets, NEW c \in Configs \cup {Plain}, UpdateSubnet(s, c)
      PROVE  PolicyInv'
  <2>1. /\ Distributed(s) /\ c \in Configs /\ subnet' = [subnet EXCEPT ![s] = c]
        /\ gateway' = gateway /\ route' = route
        /\ contracts' = contracts /\ bdRouted' = bdRouted
    BY <1>4 DEF UpdateSubnet, policyVars
  <2>2. \A t \in Subnets : Distributed(t)' <=> Distributed(t)
    BY <1>2, <2>1 DEF Distributed
  <2>3. gateway' # None => subnet'[gateway'] # None
    BY <1>2, <2>1 DEF PolicyInv
  <2> QED BY <1>1, <1>2, <2>1, <2>2, <2>3 DEF PolicyInv, PolicyFollowsSubnets
<1>5. ASSUME NEW s \in Subnets, DeleteSubnet(s)
      PROVE  PolicyInv'
  <2>1. /\ gateway # s /\ subnet' = [subnet EXCEPT ![s] = None]
        /\ gateway' = gateway /\ route' = route
    BY <1>5 DEF DeleteSubnet, policyVars
  <2>2. \A t \in Subnets : Distributed(t)' <=> Distributed(t) /\ t # s
    BY <1>2, <2>1 DEF Distributed
  <2>3. contracts' = {t \in Subnets : Distributed(t)'}
    <3>1. contracts' = contracts \ {s}
      BY <1>5 DEF DeleteSubnet, DeletePolicy, policyVars, PolicyInv, PolicyFollowsSubnets
    <3> QED BY <2>2, <3>1 DEF PolicyInv, PolicyFollowsSubnets
  <2>4. bdRouted' = \E t \in Subnets : Distributed(t)'
    <3>1. bdRouted' = IF Distributed(s) /\ ServiceReferences = {s} THEN FALSE ELSE bdRouted
      BY <1>5 DEF DeleteSubnet, DeletePolicy, Reparent, policyVars
    <3>2. CASE Distributed(s) /\ ServiceReferences = {s}
      BY <2>2, <3>1, <3>2 DEF ServiceReferences
    <3>3. CASE Distributed(s) /\ ServiceReferences # {s}
      BY <2>2, <3>1, <3>3 DEF ServiceReferences, PolicyInv, PolicyFollowsSubnets
    <3>4. CASE ~Distributed(s)
      BY <2>2, <3>1, <3>4 DEF PolicyInv, PolicyFollowsSubnets
    <3> QED BY <3>2, <3>3, <3>4
  <2>5. gateway' # None => subnet'[gateway'] = subnet[gateway]
    BY <1>2, <2>1
  <2>6. route' = IF gateway' # None /\ Distributed(gateway)' THEN gateway' ELSE None
    BY <1>2, <2>1, <2>2 DEF PolicyInv, PolicyFollowsSubnets
  <2> QED BY <1>1, <2>1, <2>3, <2>4, <2>5, <2>6 DEF PolicyInv, PolicyFollowsSubnets
<1>6. ASSUME NEW s \in Subnets, SetGateway(s)
      PROVE  PolicyInv'
  <2>1. /\ gateway = None /\ subnet[s] # None /\ gateway' = s /\ s # None
        /\ route' = (IF Distributed(s) THEN s ELSE route)
        /\ subnet' = subnet /\ contracts' = contracts /\ bdRouted' = bdRouted
    BY <1>2, <1>6 DEF SetGateway, RouteGateway
  <2>2. \A t \in Subnets : Distributed(t)' <=> Distributed(t)
    BY <2>1 DEF Distributed
  <2>3. route' = IF gateway' # None /\ Distributed(gateway)' THEN gateway' ELSE None
    BY <2>1, <2>2 DEF PolicyInv, PolicyFollowsSubnets
  <2> QED BY <1>1, <2>1, <2>2, <2>3 DEF PolicyInv, PolicyFollowsSubnets
<1>7. CASE ClearGateway
  <2>1. /\ gateway' = None /\ route' = (IF Distributed(gateway) THEN None ELSE route)
        /\ subnet' = subnet /\ contracts' = contracts /\ bdRouted' = bdRouted
    BY <1>7 DEF ClearGateway
  <2>2. \A t \in Subnets : Distributed(t)' <=> Distributed(t)
    BY <2>1 DEF Distributed
  <2> QED BY <1>1, <2>1, <2>2 DEF PolicyInv, PolicyFollowsSubnets
<1> QED BY <1>3, <1>4, <1>5, <1>6, <1>7 DEF SubnetStep

LEMMA OtherStepsLeavePolicy ==
  ASSUME RequestStep \/ (\E p \in ports : DeletePort(p)) \/ UNCHANGED vars
  PROVE  UNCHANGED <<subnet, gateway, contracts, bdRouted, route>>
<1>1. CASE RequestStep
  BY <1>1 DEF RequestStep, Request, FindPort, CreatePort, ReadRanges, InsertRange,
              GiveUp, policyVars
<1>2. CASE \E p \in ports : DeletePort(p)
  BY <1>2 DEF DeletePort, policyVars
<1>3. CASE UNCHANGED vars
  BY <1>3 DEF vars, policyVars
<1> QED BY <1>1, <1>2, <1>3

\* The routed bridge domain, the contracts and the /32 of the gateway are there
\* exactly while a subnet needs them, whatever the order in which subnets are
\* created, changed and deleted and gateways set and cleared
\* (create_subnet_precommit, delete_subnet_precommit, _handle_dist_snat_gateway_ports).
THEOREM PolicyIsFollowed ==
  ASSUME Switches = FALSE
  PROVE  Spec => []PolicyFollowsSubnets
<1>1. Init => PolicyInv
  <2> SUFFICES ASSUME Init PROVE PolicyInv
    OBVIOUS
  <2>1. \A s \in Subnets : ~Distributed(s)
    BY DEF Init, Distributed
  <2> QED BY <2>1, InitTyped DEF Init, PolicyInv, PolicyFollowsSubnets
<1>2. PolicyInv /\ [Next]_vars => PolicyInv'
  <2> SUFFICES ASSUME PolicyInv, [Next]_vars PROVE PolicyInv'
    OBVIOUS
  <2>1. CASE SubnetStep
    BY <2>1, SubnetStepKeepsPolicy
  <2>2. CASE RequestStep \/ (\E p \in ports : DeletePort(p)) \/ UNCHANGED vars
    <3>1. TypeInv'
      BY NextTyped DEF PolicyInv
    <3>2. UNCHANGED <<subnet, gateway, contracts, bdRouted, route>>
      BY <2>2, OtherStepsLeavePolicy
    <3> QED BY <3>1, <3>2 DEF PolicyInv, PolicyFollowsSubnets, Distributed
  <2> QED BY <2>1, <2>2 DEF Next
<1>3. PolicyInv => PolicyFollowsSubnets
  BY DEF PolicyInv
<1> QED BY <1>1, <1>2, <1>3, PTL DEF Spec


--------------------
(* Exhaustion *)

\* The ranges of the configuration of a request that overlap one in use.
Taken(q, rows) ==
  {n \in Starts(q.config) :
     Overlaps(q.config, n, {r \in rows : r.subnet = q.subnet})}

\* Every attempt that was lost went to a range that is still taken, unless a
\* range was freed since the request began.
Tried(q, rows) ==
  q.pc # "idle" /\ ~q.freed =>
    /\ q.pc \in {"find", "create", "read"} =>
         Cardinality(Taken(q, rows)) >= RangeCount(q.config) - q.tries
    /\ q.pc = "insert" =>
         Cardinality(Taken(q, rows) \ {q.range}) >= RangeCount(q.config) - q.tries
    /\ q.pc = "fail" => Taken(q, rows) = Starts(q.config)

TriedInv == RangesInv /\ \A w \in Workers : Tried(worker[w], ranges)


LEMMA CountStarts ==
  ASSUME NEW c \in Configs
  PROVE  IsFiniteSet(Starts(c)) /\ Cardinality(Starts(c)) <= RangeCount(c)
<1> DEFINE s == c.size
           block(n) == (n - c.start) \div s + 1
           f == [n \in Starts(c) |-> block(n)]
<1>1. /\ s \in Nat \ {0} /\ c.start \in Nat /\ c.end \in Nat /\ c.end - c.start + 1 \in Nat
      /\ Starts(c) \subseteq c.start .. c.end
  BY ConfigsValid DEF Starts
<1>2. ASSUME NEW n \in Starts(c)
      PROVE  /\ (n - c.start) \div s \in Nat
             /\ n - c.start = s * ((n - c.start) \div s)
             /\ (n - c.start) \div s + 1 <= RangeCount(c)
  <2> DEFINE a == n - c.start
             k == a \div s
             b == c.end - c.start + 1
  <2>1. a \in Nat /\ a % s = 0 /\ a + s <= b /\ b \in Nat
    BY <1>1 DEF Starts
  <2>2. RangeCount(c) = b \div s
    BY DEF RangeCount
  <2> HIDE DEF a, b, s
  <2>3. k \in Nat /\ a = s * k + (a % s) /\ s * k \in Nat
    <3>1. a \div s \in Nat /\ a = s * (a \div s) + (a % s)
      BY <1>1, <2>1, Division
    <3>2. s * (a \div s) \in Nat
      BY <1>1, <3>1
    <3> QED BY <3>1, <3>2
  <2>4. b \div s \in Nat /\ (b % s) \in 0 .. s - 1 /\ b = s * (b \div s) + (b % s)
    BY <1>1, <2>1, Division
  <2>5. a = s * k
    BY <2>1, <2>3
  <2> HIDE DEF k
  <2> DEFINE m == b \div s
  <2>6. m \in Nat /\ s * m \in Nat /\ b < s * m + s
    BY <1>1, <2>4
  <2> HIDE DEF m
  <2>7. ASSUME m < k + 1 PROVE FALSE
    <3>1. CASE m = k
      BY <1>1, <2>1, <2>3, <2>5, <2>6, <3>1
    <3>2. CASE m < k
      <4>1. s * m + s <= s * k
        BY <1>1, <2>3, <2>6, <3>2, Multiples
      <4> QED BY <1>1, <2>1, <2>3, <2>5, <2>6, <4>1
    <3> QED BY <2>3, <2>6, <2>7, <3>1, <3>2
  <2>8. k + 1 <= m
    BY <2>3, <2>6, <2>7
  <2> QED BY <2>2, <2>3, <2>5, <2>8 DEF a, k, m
<1>3. RangeCount(c) \in Nat
  BY RangeCountPositive
<1>4. IsFiniteSet(1 .. RangeCount(c)) /\ Cardinality(1 .. RangeCount(c)) = RangeCount(c)
  BY <1>3, FS_Interval
<1>5. ASSUME NEW n \in Starts(c) PROVE block(n) \in 1 .. RangeCount(c)
  BY <1>2, <1>3
<1>6. ASSUME NEW m \in Starts(c), NEW n \in Starts(c), block(m) = block(n) PROVE m = n
  <2>1. (m - c.start) \div s = (n - c.start) \div s
    <3>1. (m - c.start) \div s \in Nat /\ (n - c.start) \div s \in Nat
      BY <1>2
    <3> QED BY <1>6, <3>1
  <2>2. m - c.start = n - c.start
    BY <1>2, <2>1
  <2> QED BY <1>1, <2>2
<1>7. f \in Injection(Starts(c), 1 .. RangeCount(c))
  <2> HIDE DEF block
  <2>1. f \in [Starts(c) -> 1 .. RangeCount(c)]
    BY <1>5
  <2>2. \A m, n \in Starts(c) : f[m] = f[n] => m = n
    BY <1>6
  <2> QED BY <2>1, <2>2, Fun_IsInj
<1> QED BY <1>3, <1>4, <1>7, FS_Injection


LEMMA TakenSets ==
  ASSUME NEW q \in Requests, Informed(q), q.pc # "idle", NEW rows, NEW more,
         rows \subseteq more
  PROVE  /\ Taken(q, rows) \subseteq Taken(q, more) /\ Taken(q, rows) \subseteq Starts(q.config)
         /\ IsFiniteSet(Taken(q, rows)) /\ IsFiniteSet(Starts(q.config))
         /\ Cardinality(Taken(q, rows)) \in Nat
         /\ Cardinality(Taken(q, rows) \ {q.range}) \in Nat
         /\ Cardinality(Taken(q, rows)) <= Cardinality(Taken(q, more))
         /\ Cardinality(Taken(q, rows) \ {q.range}) <= Cardinality(Taken(q, more) \ {q.range})
<1>1. q.config \in Configs
  BY DEF Informed
<1>2. IsFiniteSet(Starts(q.config))
  BY <1>1, CountStarts
<1>3. /\ Taken(q, rows) \subseteq Taken(q, more)
      /\ Taken(q, rows) \subseteq Starts(q.config)
      /\ Taken(q, more) \subseteq Starts(q.config)
  BY DEF Taken, Overlaps
<1>4. IsFiniteSet(Taken(q, rows)) /\ IsFiniteSet(Taken(q, more))
  BY <1>2, <1>3, FS_Subset
<1>5. Taken(q, rows) \ {q.range} \subseteq Taken(q, more) \ {q.range}
  BY <1>3
<1>6. IsFiniteSet(Taken(q, rows) \ {q.range}) /\ IsFiniteSet(Taken(q, more) \ {q.range})
  BY <1>4, FS_Subset
<1> QED BY <1>2, <1>3, <1>4, <1>5, <1>6, FS_Subset, FS_CardinalityType

\* More rows take more ranges.
LEMMA TriedMonotone ==
  ASSUME NEW q \in Requests, Informed(q), NEW rows, NEW more, rows \subseteq more,
         Tried(q, rows)
  PROVE  Tried(q, more)
<1>1. SUFFICES ASSUME q.pc # "idle", ~q.freed PROVE Tried(q, more)
  BY DEF Tried
<1>2. RangeCount(q.config) - q.tries \in Int
  BY <1>1, RangeCountPositive DEF Informed, Requests
<1>3. Taken(q, more) \subseteq Starts(q.config) /\ Cardinality(Taken(q, more)) \in Nat
      /\ Cardinality(Taken(q, more) \ {q.range}) \in Nat
  BY <1>1, TakenSets
<1>4. /\ Taken(q, rows) \subseteq Taken(q, more)
      /\ Cardinality(Taken(q, rows)) \in Nat
      /\ Cardinality(Taken(q, rows) \ {q.range}) \in Nat
      /\ Cardinality(Taken(q, rows)) <= Cardinality(Taken(q, more))
      /\ Cardinality(Taken(q, rows) \ {q.range}) <= Cardinality(Taken(q, more) \ {q.range})
  BY <1>1, TakenSets
<1> QED BY <1>1, <1>2, <1>3, <1>4 DEF Tried

\* What the read finds: a range that none overlaps, or that all are taken.
LEMMA ReadKeepsTried ==
  ASSUME RangesInv, NEW q \in Requests, Informed(q), q.pc = "read", Tried(q, ranges),
         NEW free, free = FreeRange(q.config, {r \in ranges : r.subnet = q.subnet})
  PROVE  /\ free = 0 => Tried([q EXCEPT !.pc = "fail"], ranges)
         /\ free # 0 => Tried([q EXCEPT !.pc = "insert", !.range = free], ranges)
<1> DEFINE used == {r \in ranges : r.subnet = q.subnet}
           fail == [q EXCEPT !.pc = "fail"]
           insert == [q EXCEPT !.pc = "insert", !.range = free]
           left == {n \in Starts(q.config) : ~Overlaps(q.config, n, used)}
<1>1. q.config \in Configs
  BY DEF Informed
<1>2. 0 \notin Starts(q.config)
  BY <1>1, ConfigsValid DEF Starts
<1>3. /\ left = {} => free = 0
      /\ left # {} => free \in left
  <2> HIDE DEF used
  <2> QED BY <1>1, FreeRangeIsFree DEF used
<1>4. /\ fail.pc = "fail" /\ fail.config = q.config /\ fail.subnet = q.subnet
      /\ insert.pc = "insert" /\ insert.config = q.config /\ insert.subnet = q.subnet
      /\ insert.range = free /\ insert.freed = q.freed /\ insert.tries = q.tries
  BY DEF Requests
<1> HIDE DEF fail, insert
<1>5. Taken(fail, ranges) = Taken(q, ranges) /\ Taken(insert, ranges) = Taken(q, ranges)
  BY <1>4 DEF Taken
<1>6. free = 0 => Taken(q, ranges) = Starts(q.config)
  BY <1>2, <1>3 DEF Taken
<1>7. free # 0 => free \notin Taken(q, ranges)
  BY <1>3 DEF Taken
<1>8. free # 0 => Taken(q, ranges) \ {free} = Taken(q, ranges)
  BY <1>7
<1>9. free = 0 => Tried(fail, ranges)
  BY <1>4, <1>5, <1>6 DEF Tried
<1>10. free # 0 => Tried(insert, ranges)
  BY <1>4, <1>5, <1>8 DEF Tried
<1> QED BY <1>9, <1>10 DEF fail, insert

\* A collision: the range that was lost is taken, and was not counted before.
LEMMA CollisionKeepsTried ==
  ASSUME RangesInv, NEW q \in Requests, Informed(q), q.pc = "insert", Tried(q, ranges),
         \E r \in ranges : HasKey(r, q),
         NEW n, n = [q EXCEPT !.tries = @ - 1,
                              !.pc = IF q.tries <= 1 THEN "fail" ELSE "read"]
  PROVE  Tried(n, ranges)
<1>1. /\ n.config = q.config /\ n.subnet = q.subnet /\ n.freed = q.freed
      /\ n.tries = q.tries - 1 /\ n.pc = IF q.tries <= 1 THEN "fail" ELSE "read"
  BY DEF Requests
<1>2. /\ q.config \in Configs /\ q.range \in Starts(q.config) /\ q.tries \in Nat
      /\ q.tries >= 1
  BY DEF Informed, Requests
<1>3. SUFFICES ASSUME ~q.freed PROVE Tried(n, ranges)
  BY <1>1 DEF Tried
<1>4. PICK r \in ranges : r.subnet = q.subnet /\ r.start = q.range
  BY DEF HasKey
<1>5. q.range \in Nat /\ r.end \in Nat /\ r.end >= r.start
      /\ q.range + q.config.size - 1 >= q.range
  BY <1>2, <1>4, StartsAreNumbers, ConfigsValid DEF RangesInv, OnGrid
<1>6. q.range \in Taken(q, ranges)
  BY <1>2, <1>4, <1>5 DEF Taken, Overlaps
<1>7. Taken(n, ranges) = Taken(q, ranges)
  BY <1>1 DEF Taken
<1>8. /\ IsFiniteSet(Taken(q, ranges)) /\ Taken(q, ranges) \subseteq Starts(q.config)
      /\ IsFiniteSet(Starts(q.config))
      /\ Cardinality(Taken(q, ranges)) \in Nat
  BY TakenSets
<1>9. Cardinality(Taken(q, ranges) \ {q.range}) = Cardinality(Taken(q, ranges)) - 1
  BY <1>6, <1>8, FS_RemoveElement
<1>10. RangeCount(q.config) \in Nat /\ Cardinality(Starts(q.config)) <= RangeCount(q.config)
       /\ Cardinality(Starts(q.config)) \in Nat
  BY <1>2, <1>8, RangeCountPositive, CountStarts, FS_CardinalityType
<1>11. Cardinality(Taken(q, ranges)) >= RangeCount(q.config) - (q.tries - 1)
  BY <1>2, <1>3, <1>8, <1>9, <1>10 DEF Tried
<1>12. CASE q.tries <= 1
  <2>1. Cardinality(Taken(q, ranges)) >= Cardinality(Starts(q.config))
    BY <1>2, <1>8, <1>10, <1>11, <1>12
  <2>2. Cardinality(Taken(q, ranges)) = Cardinality(Starts(q.config))
    BY <1>8, <1>10, <2>1, FS_Subset
  <2>3. Taken(q, ranges) = Starts(q.config)
    BY <1>8, <2>2, FS_Subset
  <2> QED BY <1>1, <1>7, <1>12, <2>3 DEF Tried
<1>13. CASE ~(q.tries <= 1)
  BY <1>1, <1>7, <1>11, <1>13 DEF Tried
<1> QED BY <1>12, <1>13


\* What a step makes of the request of its own worker.
LEMMA WorkerStep ==
  ASSUME TriedInv, NEW w \in Workers,
         \/ \E h \in Hosts : Request(w, h)
         \/ FindPort(w) \/ CreatePort(w) \/ ReadRanges(w) \/ InsertRange(w)
  PROVE  \E n : Step(w, n) /\ Tried(n, ranges)
<1> DEFINE q == worker[w]
<1>1. q \in Requests /\ Informed(q) /\ Tried(q, ranges)
  BY DEF TriedInv, RangesInv, TypeInv, TypeOK, Requests
<1>2. Tried(Idle, ranges)
  BY DEF Tried, Idle
<1>3. ASSUME NEW h \in Hosts, Request(w, h) PROVE \E n : Step(w, n) /\ Tried(n, ranges)
  <2> DEFINE c == subnet[gateway]
             p == [Idle EXCEPT !.pc = "find", !.host = h, !.subnet = gateway,
                               !.config = c, !.tries = RangeCount(c)]
  <2>1. gateway \in Subnets /\ c \in Configs
    BY <1>3 DEF Request, Distributed, TriedInv, RangesInv, TypeInv, TypeOK
  <2>2. RangeCount(c) \in Nat /\ RangeCount(c) >= 1
    BY <2>1, RangeCountPositive
  <2>3. p \in Requests /\ Informed(p)
    BY <2>1, <2>2 DEF Requests, Informed, Idle
  <2>4. p.pc = "find" /\ p.config = c /\ p.tries = RangeCount(c)
    BY DEF Idle
  <2>5. Step(w, p)
    BY <1>3 DEF Request
  <2> HIDE DEF p, c
  <2>6. Cardinality(Taken(p, ranges)) \in Nat
    BY <2>3, <2>4, TakenSets
  <2>7. Tried(p, ranges)
    BY <2>2, <2>4, <2>6 DEF Tried
  <2> QED BY <2>5, <2>7
<1>4. ASSUME NEW n, n.pc \in {"create", "read"}, n.config = q.config, n.subnet = q.subnet,
             n.tries = q.tries, n.freed = q.freed, q.pc \in {"find", "create"}
      PROVE  Tried(n, ranges)
  <2>1. Taken(n, ranges) = Taken(q, ranges)
    BY <1>4 DEF Taken
  <2> QED BY <1>1, <1>4, <2>1 DEF Tried
<1>5. CASE FindPort(w)
  <2>1. q.pc = "find"
    BY <1>5 DEF FindPort
  <2>2. Tried([q EXCEPT !.pc = "create"], ranges)
    BY <1>1, <1>4, <2>1 DEF Requests
  <2>3. ASSUME NEW i PROVE Tried([q EXCEPT !.pc = "read", !.port = i], ranges)
    <3> DEFINE n == [q EXCEPT !.pc = "read", !.port = i]
    <3>1. /\ n.pc = "read" /\ n.config = q.config /\ n.subnet = q.subnet
          /\ n.tries = q.tries /\ n.freed = q.freed
      BY <1>1 DEF Requests
    <3> HIDE DEF n, q
    <3>2. Tried(n, ranges)
      BY <1>4, <2>1, <3>1
    <3> QED BY <3>2 DEF n
  <2>4. \/ Step(w, [q EXCEPT !.pc = "create"])
        \/ \E p \in ports : Step(w, [q EXCEPT !.pc = "read", !.port = p.id])
    BY <1>5 DEF FindPort
  <2> QED BY <2>2, <2>3, <2>4
<1>6. CASE CreatePort(w)
  <2>1. q.pc = "create"
    BY <1>6 DEF CreatePort
  <2>2. ASSUME NEW i
        PROVE  Tried([q EXCEPT !.pc = "read", !.port = i, !.created = TRUE], ranges)
    <3> DEFINE n == [q EXCEPT !.pc = "read", !.port = i, !.created = TRUE]
    <3>1. /\ n.pc = "read" /\ n.config = q.config /\ n.subnet = q.subnet
          /\ n.tries = q.tries /\ n.freed = q.freed
      BY <1>1 DEF Requests
    <3> HIDE DEF n, q
    <3>2. Tried(n, ranges)
      BY <1>4, <2>1, <3>1
    <3> QED BY <3>2 DEF n
  <2>3. \/ Step(w, Idle)
        \/ \E i \in PortIds :
             Step(w, [q EXCEPT !.pc = "read", !.port = i, !.created = TRUE])
    BY <1>6 DEF CreatePort
  <2> QED BY <1>2, <2>2, <2>3
<1>7. CASE ReadRanges(w)
  <2> DEFINE used == {r \in ranges : r.subnet = q.subnet}
             free == FreeRange(q.config, used)
             fails == [q EXCEPT !.pc = "fail"]
             inserts == [q EXCEPT !.pc = "insert", !.range = free]
  <2>1. q.pc = "read"
    BY <1>7 DEF ReadRanges
  <2>2. /\ free = 0 => Tried(fails, ranges)
        /\ free # 0 => Tried(inserts, ranges)
    BY <1>1, <2>1, ReadKeepsTried DEF TriedInv
  <2>3. \/ Step(w, Idle)
        \/ free = 0 /\ Step(w, fails)
        \/ free # 0 /\ Step(w, inserts)
    BY <1>7 DEF ReadRanges
  <2> HIDE DEF fails, inserts, free
  <2> QED BY <1>2, <2>2, <2>3
<1>8. CASE InsertRange(w)
  <2> DEFINE n == [q EXCEPT !.tries = @ - 1,
                            !.pc = IF q.tries <= 1 THEN "fail" ELSE "read"]
  <2>1. q.pc = "insert"
    BY <1>8 DEF InsertRange
  <2>2. CASE \E r \in ranges : HasKey(r, q)
    <3>1. Step(w, n)
      BY <1>8, <2>2 DEF InsertRange, HasKey
    <3>2. Tried(n, ranges)
      BY <1>1, <2>1, <2>2, CollisionKeepsTried DEF TriedInv
    <3> QED BY <3>1, <3>2
  <2>3. CASE ~\E r \in ranges : HasKey(r, q)
    <3>1. Step(w, Idle)
      BY <1>8, <2>3 DEF InsertRange, HasKey
    <3> QED BY <1>2, <3>1
  <2> QED BY <2>2, <2>3
<1> QED BY <1>3, <1>5, <1>6, <1>7, <1>8


\* Deleting a port marks every request in progress if it frees a range.
LEMMA DropKeepsTried ==
  ASSUME NEW i, NEW next \in [Workers -> Requests], DropPort(i, next),
         \A v \in Workers : Tried(next[v], ranges)
  PROVE  \A v \in Workers : Tried(worker'[v], ranges')
<1> DEFINE gone == {r \in ranges : r.port = i}
<1>1. SUFFICES ASSUME NEW v \in Workers PROVE Tried(worker'[v], ranges')
  OBVIOUS
<1>2. /\ ranges' = ranges \ gone
      /\ worker'[v] = IF gone # {} /\ next[v].pc # "idle"
                      THEN [next[v] EXCEPT !.freed = TRUE] ELSE next[v]
  BY DEF DropPort
<1>3. CASE gone = {}
  <2>1. ranges' = ranges /\ worker'[v] = next[v]
    BY <1>2, <1>3
  <2> QED BY <2>1
<1>4. CASE next[v].pc = "idle"
  <2>1. worker'[v].pc = "idle"
    BY <1>2, <1>4
  <2> QED BY <2>1 DEF Tried
<1>5. CASE gone # {} /\ next[v].pc # "idle"
  <2>1. worker'[v].freed
    BY <1>2, <1>5 DEF Requests
  <2> QED BY <2>1 DEF Tried
<1> QED BY <1>3, <1>4, <1>5

LEMMA NextKeepsTried ==
  ASSUME TriedInv, [Next]_vars
  PROVE  TriedInv'
<1>1. RangesInv' /\ TypeInv'
  BY NextKeepsRanges DEF TriedInv, RangesInv
<1>2. /\ worker \in [Workers -> Requests]
      /\ \A v \in Workers : Informed(worker[v]) /\ Tried(worker[v], ranges)
  BY DEF TriedInv, RangesInv, TypeInv, TypeOK, Requests
<1>3. SUFFICES \A v \in Workers : Tried(worker'[v], ranges')
  BY <1>1 DEF TriedInv
<1>4. CASE SubnetStep \/ UNCHANGED vars
  <2>1. worker' = worker /\ ranges' = ranges
    BY <1>4 DEF SubnetStep, CreateSubnet, UpdateSubnet, DeleteSubnet, SetGateway,
                ClearGateway, tableVars, vars
  <2> QED BY <1>2, <2>1
<1>5. ASSUME NEW p \in ports, DeletePort(p) PROVE \A v \in Workers : Tried(worker'[v], ranges')
  BY <1>2, <1>5, DropKeepsTried DEF DeletePort
<1>6. ASSUME NEW w \in Workers, GiveUp(w) PROVE \A v \in Workers : Tried(worker'[v], ranges')
  <2> DEFINE next == [worker EXCEPT ![w] = Idle]
  <2>1. /\ next \in [Workers -> Requests]
        /\ \A v \in Workers : Tried(next[v], ranges)
    <3>1. Tried(Idle, ranges)
      BY DEF Tried, Idle
    <3> QED BY <1>2, <3>1, IdleTyped
  <2>2. CASE worker[w].created
    <3>1. DropPort(worker[w].port, next)
      BY <1>6, <2>2 DEF GiveUp
    <3> HIDE DEF next
    <3> QED BY <2>1, <3>1, DropKeepsTried
  <2>3. CASE ~worker[w].created
    <3>1. worker' = next /\ ranges' = ranges
      BY <1>6, <2>3 DEF GiveUp, Step, tableVars
    <3> HIDE DEF next
    <3> QED BY <2>1, <3>1
  <2> QED BY <2>2, <2>3
<1>7. ASSUME NEW w \in Workers,
             \/ \E h \in Hosts : Request(w, h)
             \/ FindPort(w) \/ CreatePort(w) \/ ReadRanges(w) \/ InsertRange(w)
      PROVE  \A v \in Workers : Tried(worker'[v], ranges')
  <2>1. ranges \subseteq ranges'
    BY <1>7 DEF Request, FindPort, CreatePort, ReadRanges, InsertRange, tableVars
  <2>2. PICK n : Step(w, n) /\ Tried(n, ranges)
    BY <1>7, WorkerStep
  <2>3. \A v \in Workers : Tried(worker'[v], ranges)
    BY <1>2, <2>2 DEF Step
  <2>4. \A v \in Workers : worker'[v] \in Requests /\ Informed(worker'[v])
    BY <1>1 DEF TypeInv, TypeOK, Requests
  <2> QED BY <2>1, <2>3, <2>4, TriedMonotone
<1> QED BY <1>4, <1>5, <1>6, <1>7 DEF Next, RequestStep

\* A request that gives up found every range it may use taken, or one was freed
\* while it ran: its attempts are as many as there are ranges, and each one that
\* is lost to another worker uncovers a range that is taken for good
\* (_get_or_allocate_dist_snat_port_range).
THEOREM ExhaustionIsReal == Spec => []NoFalseExhaustion
<1>1. Init => TriedInv
  <2> SUFFICES ASSUME Init PROVE TriedInv
    OBVIOUS
  <2>1. RangesInv
    BY InitTyped DEF Init, RangesInv, KeysUnique
  <2>2. \A w \in Workers : worker[w].pc = "idle"
    BY DEF Init, Idle
  <2> QED BY <2>1, <2>2 DEF TriedInv, Tried
<1>2. TriedInv /\ [Next]_vars => TriedInv'
  BY NextKeepsTried
<1>3. TriedInv => NoFalseExhaustion
  <2> SUFFICES ASSUME TriedInv, NEW w \in Workers, worker[w].pc = "fail", ~worker[w].freed
               PROVE  FreeRange(worker[w].config,
                                {r \in ranges : r.subnet = worker[w].subnet}) = 0
    BY DEF NoFalseExhaustion
  <2> DEFINE q == worker[w]
             used == {r \in ranges : r.subnet = q.subnet}
  <2>1. q.config \in Configs
    BY DEF TriedInv, RangesInv, TypeInv, Informed
  <2>2. Taken(q, ranges) = Starts(q.config)
    BY DEF TriedInv, Tried
  <2>3. \A n \in Starts(q.config) : Overlaps(q.config, n, used)
    BY <2>2 DEF Taken
  <2> HIDE DEF used
  <2>4. FreeRange(q.config, used) = 0
    BY <2>1, <2>3, FreeRangeIsFree
  <2> QED BY <2>4 DEF used
<1> QED BY <1>1, <1>2, <1>3, PTL DEF Spec

====================
