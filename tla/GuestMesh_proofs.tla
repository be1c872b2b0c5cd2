-------------------------- MODULE GuestMesh_proofs --------------------------
(***************************************************************************)
(* Safety of the mesh loop of the guest daemon for every set of peers,     *)
(* ports, pools and offers, and every number of deliveries, deaths,        *)
(* failures and damages.                                                   *)
(***************************************************************************)
EXTENDS GuestMesh, WellFoundedInduction, TLAPS

(* The constants are natural numbers *)
LEMMA PortFacts ==
    /\ Port \subseteq Nat /\ 0 \notin Port /\ Port \subseteq 0..Last
    /\ Declared \subseteq Port /\ Control \subseteq Port
    /\ EgressBase \in Port /\ GatewayBase \in Port
    /\ IngressBase \in Port /\ ClientBase \in Port
BY GuestAssumption DEF Port

(* Every non-empty set of natural numbers has a least element *)
LEMMA LeastIsMember ==
    ASSUME NEW S, S \subseteq Nat, S # {}
    PROVE  Least(S) \in S /\ \A y \in S : Least(S) <= y
<1>1. PICK x \in S : \A y \in S : ~ (<<y, x>> \in OpToRel(<, Nat))
    BY NatLessThanWellFounded, WFMin
<1>2. \A y \in S : x <= y
  <2> TAKE y \in S
  <2>1. x \in Nat /\ y \in Nat /\ <<y, x>> \in Nat \X Nat
      OBVIOUS
  <2>2. ~ (y < x)
      BY <1>1, <2>1 DEF OpToRel
  <2> QED
      BY <2>1, <2>2
<1> QED
    BY <1>2 DEF Least

(* The plan takes its routes in the order of peers and ports *)
LEMMA FirstRouteIsMember ==
    ASSUME NEW S \in SUBSET Route, S # {}
    PROVE  FirstRoute(S) \in S
<1> DEFINE peers == {r[1] : r \in S}
           p == Least(peers)
           ports == {r[2] : r \in {q \in S : q[1] = p}}
           t == Least(ports)
<1>1. peers \subseteq Nat /\ peers # {}
    BY GuestAssumption DEF Route
<1>2. p \in peers /\ \A y \in peers : p <= y
    BY <1>1, LeastIsMember
<1>3. ports \subseteq Nat /\ ports # {}
    BY <1>2, PortFacts DEF Route
<1>4. t \in ports /\ \A y \in ports : t <= y
    BY <1>3, LeastIsMember
<1>5. PICK r \in S : r[1] = p /\ r[2] = t
    BY <1>4
<1>6. \A q \in S : Precedes(r, q)
  <2> TAKE q \in S
  <2>1. r[1] \in Nat /\ q[1] \in Nat /\ r[2] \in Nat /\ q[2] \in Nat
      BY GuestAssumption, PortFacts DEF Route
  <2>2. r[1] <= q[1]
      BY <1>2, <1>5
  <2>3. q[1] = r[1] => r[2] <= q[2]
      BY <1>4, <1>5
  <2> QED
      BY <2>1, <2>2, <2>3 DEF Precedes
<1> QED
    BY <1>6 DEF FirstRoute

(* The pools *)
LEMMA FreePorts ==
    ASSUME NEW base \in Port, NEW used
    PROVE  /\ Free(base, used) \subseteq Port
           /\ Free(base, used) \cap used = {}
BY GuestAssumption DEF Free, Port

LEMMA FreeLeast ==
    ASSUME NEW base \in Port, NEW used, Free(base, used) # {}
    PROVE  /\ Least(Free(base, used)) \in Port
           /\ Least(Free(base, used)) \notin used
<1>1. Free(base, used) \subseteq Port /\ Free(base, used) \cap used = {}
    BY FreePorts
<1>2. Least(Free(base, used)) \in Free(base, used)
    BY <1>1, PortFacts, LeastIsMember
<1> QED
    BY <1>1, <1>2

(* The first start reads nothing, every other one what was saved last *)
LEMMA ReadsSaved ==
    ASSUME DiskInv, ReadState # None
    PROVE  ReadState = saved
BY DEF DiskInv, ReadState, Readable

-----------------------------------------------------------------------------
(* One step of the port plan *)

LEMMA UsedCovers ==
    ASSUME NEW p
    PROVE  /\ Avoided(p) \subseteq Used(p)
           /\ Values(p.ports) \subseteq Used(p)
           /\ Values(p.ingress) \subseteq Used(p)
           /\ \A s \in p.self : s.egress \in Used(p) /\ s.gateway \in Used(p)
BY DEF Used, Inner, Avoided

(* The two listeners of a port of this service *)
LEMMA PlanSelfPlan ==
    ASSUME IInv, pc = "plan", plan.selfTodo # {}, PlanSelf(Least(plan.selfTodo))
    PROVE  \/ pc' = "save" /\ plan' = NoPlan
           \/ /\ pc' = "plan" /\ plan' \in Plan
              /\ plan'.bundle = plan.bundle /\ plan'.ports = plan.ports
              /\ plan'.ingress = plan.ingress /\ plan'.todo = plan.todo
              /\ SelfInv(plan')
<1> DEFINE port == Least(plan.selfTodo)
           egress == Free(EgressBase, Used(plan))
           gateway == Free(GatewayBase, Used(plan) \cup {Least(egress)})
           new == [port |-> port, egress |-> Least(egress), gateway |-> Least(gateway)]
<1>1. SUFFICES ASSUME egress # {}, gateway # {}
               PROVE  /\ pc' = "plan" /\ plan' \in Plan
                      /\ plan'.bundle = plan.bundle /\ plan'.ports = plan.ports
                      /\ plan'.ingress = plan.ingress /\ plan'.todo = plan.todo
                      /\ SelfInv(plan')
    BY DEF PlanSelf
<1>2. plan \in Plan /\ SelfInv(plan)
    BY DEF IInv, TypeOK, PlanInv
<1>3. port \in Declared
    BY <1>2, LeastIsMember, PortFacts DEF Plan
<1>4. /\ Least(egress) \in Port /\ Least(egress) \notin Used(plan)
      /\ Least(gateway) \in Port /\ Least(gateway) \notin Used(plan)
      /\ Least(gateway) # Least(egress)
    BY <1>1, FreeLeast, PortFacts
<1>5. /\ pc' = "plan"
      /\ plan' = [plan EXCEPT !.selfTodo = @ \ {port}, !.self = @ \cup {new}]
    BY <1>1 DEF PlanSelf
<1>6. /\ plan'.bundle = plan.bundle /\ plan'.ports = plan.ports
      /\ plan'.ingress = plan.ingress /\ plan'.todo = plan.todo
      /\ plan'.self = plan.self \cup {new} /\ plan'.selfTodo = plan.selfTodo \ {port}
    BY <1>2, <1>5 DEF Plan
<1>7. plan' \in Plan
  <2>1. new \in [port : Declared, egress : Port, gateway : Port]
      BY <1>3, <1>4
  <2>2. plan.self \cup {new} \in SUBSET [port : Declared, egress : Port, gateway : Port]
      BY <1>2, <2>1 DEF Plan
  <2> HIDE DEF new, port
  <2> QED
      BY <1>2, <1>5, <2>2 DEF Plan
<1>8. Avoided(plan') = Avoided(plan)
    BY <1>6 DEF Avoided
<1>9. SelfInv(plan')
  <2>1. /\ new.egress = Least(egress) /\ new.gateway = Least(gateway)
        /\ new.egress \notin Used(plan) /\ new.gateway \notin Used(plan)
        /\ new.egress # new.gateway
      BY <1>4
  <2> HIDE DEF new
  <2>2. \A s \in plan'.self :
           {s.egress, s.gateway} \cap (Avoided(plan') \cup Values(plan'.ports)
                                        \cup Values(plan'.ingress)) = {}
    <3>1. ASSUME NEW s \in plan.self
          PROVE  {s.egress, s.gateway} \cap (Avoided(plan) \cup Values(plan.ports)
                                        \cup Values(plan.ingress)) = {}
        BY <1>2 DEF SelfInv
    <3>2. {new.egress, new.gateway} \cap (Avoided(plan) \cup Values(plan.ports)
                                        \cup Values(plan.ingress)) = {}
        BY <2>1, UsedCovers
    <3> QED
        BY <1>6, <1>8, <3>1, <3>2
  <2>3. \A s, t \in plan'.self :
           /\ s.egress # t.gateway
           /\ (s.egress = t.egress \/ s.gateway = t.gateway) => s = t
    <3>1. \A s \in plan.self : {s.egress, s.gateway} \cap {new.egress, new.gateway} = {}
        BY <2>1, UsedCovers
    <3>2. \A s, t \in plan.self :
             /\ s.egress # t.gateway
             /\ (s.egress = t.egress \/ s.gateway = t.gateway) => s = t
        BY <1>2 DEF SelfInv
    <3> QED
        BY <1>6, <2>1, <3>1, <3>2
  <2> QED
      BY <2>2, <2>3 DEF SelfInv
<1> QED
    BY <1>5, <1>6, <1>7, <1>9

(* The endpoint of a route: reserved for it, or for nobody *)
LEMMA LocalPort ==
    ASSUME plan \in Plan, plan.bundle \in Bundle, NEW r \in Route,
           r \in plan.bundle.routes, LocalPorts(r) # {}
    PROVE  LET local == Least(LocalPorts(r)) IN
           /\ local \in Port
           /\ local \notin Control \cup plan.bundle.self
           /\ plan.ports[r] # 0 => local = plan.ports[r]
           /\ plan.ports[r] = 0 => local \notin Values(plan.ports)
           /\ local \in Values(plan.ports) \cup Avoided(plan) \/ local \notin Used(plan)
<1> DEFINE local == Least(LocalPorts(r))
<1>1. plan.ports[r] \in 0..Last /\ r[2] \in Port
    BY PortFacts DEF Plan, Registry, Route
<1>2. Control \cup plan.bundle.self \subseteq ClientPorts(plan)
    BY DEF ClientPorts
<1>3. CASE plan.ports[r] # 0
  <2>1. LocalPorts(r) = {plan.ports[r]} /\ plan.ports[r] \notin ClientPorts(plan)
      BY <1>3 DEF LocalPorts
  <2>2. local = plan.ports[r]
      BY <1>1, <2>1, LeastIsMember, PortFacts
  <2> QED
      BY <1>1, <1>2, <1>3, <2>1, <2>2 DEF Values, Port
<1>4. CASE plan.ports[r] = 0 /\ r[2] \notin Values(plan.ports) \cup ClientPorts(plan)
  <2>1. LocalPorts(r) = {r[2]}
      BY <1>4 DEF LocalPorts
  <2>2. local = r[2]
      BY <1>1, <2>1, LeastIsMember, PortFacts
  <2> QED
      BY <1>1, <1>2, <1>4, <2>2 DEF Avoided
<1>5. CASE plan.ports[r] = 0 /\ r[2] \in Values(plan.ports) \cup ClientPorts(plan)
  <2>1. LocalPorts(r) = Free(ClientBase, Used(plan))
      BY <1>5 DEF LocalPorts
  <2>2. local \in Port /\ local \notin Used(plan)
      BY <2>1, FreeLeast, PortFacts
  <2> QED
      BY <1>5, <2>2, UsedCovers DEF Avoided
<1> QED
    BY <1>3, <1>4, <1>5

(* What TNG listens on behind it *)
LEMMA IngressPort ==
    ASSUME NEW r, NEW local \in Port, IngressPorts(r, local) # {}
    PROVE  LET in == Least(IngressPorts(r, local)) IN
           /\ in \in Port
           /\ r \in plan.bundle.connect => in = local
           /\ r \notin plan.bundle.connect => in \notin Used(plan) \cup {local}
<1>1. CASE r \in plan.bundle.connect
  <2>1. IngressPorts(r, local) = {local}
      BY <1>1 DEF IngressPorts
  <2> QED
      BY <1>1, <2>1, LeastIsMember, PortFacts
<1>2. CASE r \notin plan.bundle.connect
  <2>1. IngressPorts(r, local) = Free(IngressBase, Used(plan) \cup {local})
      BY <1>2 DEF IngressPorts
  <2> QED
      BY <1>2, <2>1, FreeLeast, PortFacts
<1> QED
    BY <1>1, <1>2

LEMMA PlanPeerPlan ==
    ASSUME IInv, pc = "plan", plan.todo # {}, PlanPeer(FirstRoute(plan.todo))
    PROVE  \/ pc' = "save" /\ plan' = NoPlan
           \/ /\ pc' = "plan" /\ plan' \in Plan
              /\ plan'.bundle = plan.bundle
              /\ Extends(plan'.ports, plan.ports) /\ Injective(plan'.ports)
              /\ EndpointsInv(plan') /\ HiddenInv(plan') /\ SelfInv(plan')
<1> DEFINE r == FirstRoute(plan.todo)
           local == Least(LocalPorts(r))
           in == Least(IngressPorts(r, local))
<1>1. SUFFICES ASSUME LocalPorts(r) # {}, IngressPorts(r, local) # {}
               PROVE  /\ pc' = "plan" /\ plan' \in Plan
                      /\ plan'.bundle = plan.bundle
                      /\ Extends(plan'.ports, plan.ports) /\ Injective(plan'.ports)
                      /\ EndpointsInv(plan') /\ HiddenInv(plan') /\ SelfInv(plan')
    BY DEF PlanPeer
<1>2. /\ plan \in Plan /\ plan.bundle \in Bundle
      /\ EndpointsInv(plan) /\ HiddenInv(plan) /\ SelfInv(plan) /\ Injective(plan.ports)
    BY DEF IInv, TypeOK, PlanInv, Plan
<1>3. r \in plan.todo /\ r \in Route /\ r \in plan.bundle.routes /\ r \notin Done(plan)
    BY <1>2, FirstRouteIsMember DEF Plan, EndpointsInv, Done
<1>4. /\ local \in Port
      /\ local \notin Control \cup plan.bundle.self
      /\ plan.ports[r] # 0 => local = plan.ports[r]
      /\ plan.ports[r] = 0 => local \notin Values(plan.ports)
      /\ local \in Values(plan.ports) \cup Avoided(plan) \/ local \notin Used(plan)
    BY <1>1, <1>2, <1>3, LocalPort
<1>5. /\ in \in Port
      /\ r \in plan.bundle.connect => in = local
      /\ r \notin plan.bundle.connect => in \notin Used(plan) \cup {local}
    BY <1>1, <1>4, IngressPort
<1>6. /\ pc' = "plan"
      /\ plan' = [plan EXCEPT !.todo = @ \ {r}, !.ports[r] = local, !.ingress[r] = in]
    BY <1>1 DEF PlanPeer
<1> HIDE DEF r, local, in
<1>7. /\ plan'.bundle = plan.bundle /\ plan'.self = plan.self
      /\ plan'.todo = plan.todo \ {r}
      /\ plan'.ports = [plan.ports EXCEPT ![r] = local]
      /\ plan'.ingress = [plan.ingress EXCEPT ![r] = in]
      /\ plan'.selfTodo = plan.selfTodo
      /\ plan' = [bundle |-> plan'.bundle, ports |-> plan'.ports, self |-> plan'.self,
                  ingress |-> plan'.ingress, todo |-> plan'.todo, selfTodo |-> plan'.selfTodo]
    BY <1>2, <1>6 DEF Plan
<1>8. plan.ports \in Registry /\ plan.ingress \in Registry
    BY <1>2 DEF Plan
<1>9. /\ \A q \in Route : plan'.ports[q] = IF q = r THEN local ELSE plan.ports[q]
      /\ \A q \in Route : plan'.ingress[q] = IF q = r THEN in ELSE plan.ingress[q]
      /\ plan'.ports \in Registry /\ plan'.ingress \in Registry
    BY <1>3, <1>4, <1>5, <1>7, <1>8, PortFacts DEF Registry
<1>10. plan' \in Plan
    BY <1>2, <1>7, <1>9 DEF Plan
<1>11. local # 0 /\ in # 0
    BY <1>4, <1>5, PortFacts
<1>12. Extends(plan'.ports, plan.ports)
    BY <1>4, <1>9 DEF Extends
<1>13. \A q \in Route : plan.ports[q] # 0 => plan.ports[q] \in Values(plan.ports)
    BY DEF Values
<1>14. Injective(plan'.ports)
    BY <1>2, <1>4, <1>9, <1>13 DEF Injective
<1>15. Done(plan') = Done(plan) \cup {r} /\ Done(plan) \subseteq Route
    BY <1>2, <1>3, <1>7 DEF Done, Bundle
<1>16. Avoided(plan') = Avoided(plan)
    BY <1>7 DEF Avoided
<1>17. Values(plan'.ports) = Values(plan.ports) \cup {local}
    BY <1>3, <1>4, <1>9, <1>11 DEF Values
<1>18. plan.ingress[r] = 0
    BY <1>2, <1>3 DEF HiddenInv
<1>19. Values(plan'.ingress) = Values(plan.ingress) \cup {in}
    BY <1>3, <1>9, <1>11, <1>18 DEF Values
<1>20. EndpointsInv(plan')
    BY <1>2, <1>3, <1>4, <1>7, <1>9, <1>11, <1>15 DEF EndpointsInv
<1>21. \A q \in Hidden(plan) :
          plan.ingress[q] # local /\ (r \notin plan.bundle.connect => plan.ingress[q] # in)
  <2> TAKE q \in Hidden(plan)
  <2>1. q \in Route /\ plan.ingress[q] # 0
      BY <1>2, <1>15 DEF Hidden, HiddenInv
  <2>2. plan.ingress[q] \in Used(plan)
      BY <2>1, UsedCovers DEF Values
  <2>3. plan.ingress[q] \notin Avoided(plan) \cup Values(plan.ports)
      BY <1>2 DEF HiddenInv
  <2> QED
      BY <1>4, <1>5, <2>2, <2>3
<1>22. HiddenInv(plan')
  <2>1. \A q \in Route \ Done(plan') : plan'.ingress[q] = 0
      BY <1>2, <1>9, <1>15 DEF HiddenInv
  <2>2. \A q \in Done(plan') : plan'.ingress[q] # 0
      BY <1>2, <1>3, <1>9, <1>11, <1>15 DEF HiddenInv
  <2>3. \A q \in Done(plan') \cap plan'.bundle.connect : plan'.ingress[q] = plan'.ports[q]
      BY <1>2, <1>3, <1>5, <1>7, <1>9, <1>15 DEF HiddenInv
  <2>4. Hidden(plan') = Hidden(plan) \cup (IF r \in plan.bundle.connect THEN {} ELSE {r})
      BY <1>7, <1>15 DEF Hidden
  <2>5. \A q \in Hidden(plan) : q \in Route /\ q # r
      BY <1>3, <1>15 DEF Hidden
  <2>6. \A q \in Hidden(plan') :
            plan'.ingress[q] \notin Avoided(plan') \cup Values(plan'.ports)
    <3>1. ASSUME NEW q \in Hidden(plan)
          PROVE  plan'.ingress[q] \notin Avoided(plan') \cup Values(plan'.ports)
        BY <1>2, <1>9, <1>16, <1>17, <1>21, <2>5 DEF HiddenInv
    <3>2. ASSUME r \notin plan.bundle.connect
          PROVE  plan'.ingress[r] \notin Avoided(plan') \cup Values(plan'.ports)
        BY <1>3, <1>5, <1>9, <1>16, <1>17, <3>2, UsedCovers
    <3> QED
        BY <2>4, <3>1, <3>2
  <2>7. \A q, s \in Hidden(plan') : plan'.ingress[q] = plan'.ingress[s] => q = s
      BY <1>2, <1>3, <1>9, <1>21, <2>4, <2>5 DEF HiddenInv
  <2> QED
      BY <2>1, <2>2, <2>3, <2>6, <2>7 DEF HiddenInv
<1>23. SelfInv(plan')
  <2>1. ASSUME NEW s \in plan.self
        PROVE  {s.egress, s.gateway} \cap (Avoided(plan) \cup Values(plan.ports)
                                           \cup Values(plan.ingress)) = {}
      BY <1>2 DEF SelfInv
  <2>2. ASSUME NEW s \in plan.self
        PROVE  local \notin {s.egress, s.gateway} /\ in \notin {s.egress, s.gateway}
    <3>1. s.egress \in Used(plan) /\ s.gateway \in Used(plan)
        BY UsedCovers
    <3>2. local \notin {s.egress, s.gateway}
        BY <1>4, <2>1, <3>1
    <3> QED
        BY <1>5, <3>1, <3>2
  <2>3. \A s \in plan'.self :
           {s.egress, s.gateway} \cap (Avoided(plan') \cup Values(plan'.ports)
                                        \cup Values(plan'.ingress)) = {}
      BY <1>7, <1>16, <1>17, <1>19, <2>1, <2>2
  <2> QED
      BY <1>2, <1>7, <2>3 DEF SelfInv
<1> QED
    BY <1>6, <1>7, <1>10, <1>12, <1>14, <1>20, <1>22, <1>23

-----------------------------------------------------------------------------
(* The steps of the daemon *)

LEMMA FreshFacts ==
    /\ FreshState \in DaemonState /\ NoPlan \in Plan /\ NoGateway \in GatewayFile
    /\ Injective(Nothing) /\ FreshState.ports = Nothing /\ NoPlan.bundle = None
    /\ Nothing \in Registry
<1>1. Nothing \in Registry /\ \A r \in Route : Nothing[r] = 0
    BY GuestAssumption DEF Nothing, Registry
<1>2. NoGateway \in GatewayFile
    BY GuestAssumption DEF NoGateway, GatewayFile
<1>3. FreshState \in DaemonState
    BY <1>1, <1>2 DEF FreshState, DaemonState, TngFile
<1>4. NoPlan \in Plan
    BY <1>1 DEF NoPlan, Plan
<1> QED
    BY <1>1, <1>2, <1>3, <1>4 DEF Injective, FreshState, NoPlan

(* A process that is stopped, or serves a part of a configuration *)
LEMMA Processes ==
    /\ \A entries : Stopped \in Process(entries)
    /\ \A entries, config, other : config \subseteq entries =>
           /\ Serve(config, other) \in Process(entries)
           /\ Serve(config, other).serving \subseteq config
BY DEF Stopped, Serve, Process

LEMMA InitIInv == Init => IInv
<1> SUFFICES ASSUME Init PROVE IInv
    OBVIOUS
<1>1. TypeOK
  <2>1. running \in Services
      BY Processes DEF Init, Services
  <2> QED
      BY <2>1, FreshFacts DEF Init, TypeOK, GatewayFile, TngFile
<1>2. SpentInv
    BY DEF Init, SpentInv
<1>3. DiskInv
    BY FreshFacts DEF Init, DiskInv
<1>4. PlanInv
    BY DEF Init, PlanInv, Writing
<1>5. PromisedInv
    BY DEF Init, PromisedInv
<1> QED
    BY <1>1, <1>2, <1>3, <1>4, <1>5 DEF IInv

(* What a finished plan says to the directory, the gateway and TNG *)
LEMMA PlanOutputs ==
    ASSUME IInv, Writing
    PROVE  /\ DirectoryOf(plan) \subseteq Entry
           /\ \A e \in DirectoryOf(plan) : saved.ports[e.route] = e.listen
           /\ GatewayConfig(plan) \in GatewayFile
           /\ TngConfig(plan) \in TngFile
<1>1. CASE plan.bundle = None
  <2>1. DirectoryOf(plan) = {} /\ TngConfig(plan) = {}
      BY <1>1 DEF DirectoryOf, TngConfig, Routes
  <2>2. GatewayConfig(plan) = NoGateway
      BY <1>1 DEF GatewayConfig
  <2> QED
      BY <2>1, <2>2, FreshFacts DEF TngFile
<1>2. CASE plan.bundle # None
  <2>1. /\ plan \in Plan /\ plan.bundle \in Bundle
        /\ EndpointsInv(plan) /\ HiddenInv(plan)
        /\ plan.todo = {} /\ saved.ports = plan.ports
      BY <1>2 DEF IInv, TypeOK, PlanInv, Plan
  <2>2. Done(plan) = plan.bundle.routes /\ Routes(plan) = plan.bundle.routes
        /\ plan.bundle.routes \subseteq Route
      BY <1>2, <2>1 DEF Done, Routes, Bundle
  <2>3. \A r \in plan.bundle.routes : plan.ports[r] \in Port /\ plan.ingress[r] \in Port
    <3> TAKE r \in plan.bundle.routes
    <3>1. plan.ports[r] \in 0..Last /\ plan.ingress[r] \in 0..Last
        BY <2>1, <2>2 DEF Plan, Registry
    <3>2. plan.ports[r] # 0 /\ plan.ingress[r] # 0
        BY <2>1, <2>2 DEF EndpointsInv, HiddenInv
    <3> QED
        BY <3>1, <3>2, GuestAssumption DEF Port
  <2>4. /\ DirectoryOf(plan) \subseteq Entry
        /\ \A e \in DirectoryOf(plan) : saved.ports[e.route] = e.listen
      BY <2>1, <2>2, <2>3 DEF DirectoryOf, Entry
  <2>5. TngConfig(plan) \in TngFile
    <3>1. ASSUME NEW r \in plan.bundle.routes, NEW d \in BOOLEAN
          PROVE  [listen |-> plan.ingress[r], route |-> r, direct |-> d] \in TngEntry
        BY <2>2, <2>3 DEF TngEntry
    <3>2. \A r \in plan.bundle.routes : (r \in plan.bundle.connect) \in BOOLEAN
        OBVIOUS
    <3>3. \A r \in plan.bundle.routes :
             [listen |-> plan.ingress[r], route |-> r, direct |-> r \in plan.bundle.connect]
                    \in TngEntry
        BY <3>1, <3>2, Zenon
    <3> QED
        BY <2>2, <3>3 DEF TngConfig, TngFile
  <2>6. plan.bundle.generation \in 0..MaxDeliveries
      BY <2>1, GuestAssumption DEF Bundle
  <2>7. {[listen |-> plan.ports[r], out |-> plan.ingress[r], route |-> r] :
            r \in plan.bundle.routes \ plan.bundle.connect}
        \in SUBSET GatewayEntry
      BY <2>2, <2>3 DEF GatewayEntry
  <2>8. GatewayConfig(plan) \in GatewayFile
      BY <1>2, <2>6, <2>7 DEF GatewayConfig, GatewayFile
  <2> QED
      BY <2>4, <2>5, <2>8
<1> QED
    BY <1>1, <1>2

(* Reading the state, at the first start or after recovery *)
LEMMA ReadStep ==
    ASSUME IInv, pc \in {"down", "recovery"}, ReadState # None, pc' = "idle",
           state' = ReadState, WriteState(ReadState),
           UNCHANGED <<inputs, active, plan, services, spent>>
    PROVE  IInv'
<1>1. ReadState = saved /\ saved \in DaemonState
    BY ReadsSaved DEF IInv, TypeOK
<1>2. state' = saved /\ saved' = saved /\ stateFile' = saved /\ initialized' = TRUE
    BY <1>1 DEF WriteState
<1>3. TypeOK'
    BY <1>1, <1>2 DEF IInv, TypeOK, inputs, services
<1>4. SpentInv'
    BY DEF IInv, SpentInv, inputs
<1>5. DiskInv'
    BY <1>2 DEF IInv, DiskInv, Extends
<1>6. PlanInv'
    BY DEF PlanInv, Writing
<1>7. PromisedInv'
    BY <1>2 DEF IInv, PromisedInv, services
<1> QED
    BY <1>3, <1>4, <1>5, <1>6, <1>7 DEF IInv

LEMMA StartStep == IInv /\ Start => IInv'
<1> SUFFICES ASSUME IInv, Start PROVE IInv'
    OBVIOUS
<1>1. CASE ReadState # None
    BY <1>1, ReadStep DEF Start, services
<1>2. CASE ReadState = None
  <2>1. /\ pc' = "recovery" /\ pc = "down"
        /\ UNCHANGED <<state, disk, inputs, active, plan, directory, files, promised, spent>>
        /\ running' \in {running, [gateway |-> Stopped, tng |-> Stopped]}
      BY <1>2 DEF Start
  <2>2. TypeOK'
    <3>1. running' \in Services
        BY <2>1, Processes DEF IInv, TypeOK, Services
    <3> QED
        BY <2>1, <3>1 DEF IInv, TypeOK, inputs, disk
  <2>3. SpentInv' /\ DiskInv' /\ PlanInv' /\ PromisedInv'
      BY <1>2, <2>1, FreshAssumption
         DEF IInv, SpentInv, DiskInv, PlanInv, PromisedInv, Writing, ReadState, Readable,
             inputs, disk
  <2> QED
      BY <2>2, <2>3 DEF IInv
<1> QED
    BY <1>1, <1>2

LEMMA RecoverStep == IInv /\ Recover => IInv'
BY ReadStep DEF Recover

LEMMA ApplyBootstrapStep == IInv /\ ApplyBootstrap => IInv'
<1> SUFFICES ASSUME IInv, ApplyBootstrap PROVE IInv'
    OBVIOUS
<1> USE DEF ApplyBootstrap, inputs, disk, services
<1>1. TypeOK'
    BY DEF IInv, TypeOK
<1>2. SpentInv' /\ DiskInv' /\ PlanInv' /\ PromisedInv'
    BY DEF IInv, SpentInv, DiskInv, PlanInv, PromisedInv, Writing
<1> QED
    BY <1>1, <1>2 DEF IInv

LEMMA SyncMeshStep == IInv /\ SyncMesh => IInv'
<1> SUFFICES ASSUME IInv, SyncMesh PROVE IInv'
    OBVIOUS
<1>1. /\ pc = "sync"
      /\ UNCHANGED <<inputs, stateFile, saved, state, active, services, spent>>
      /\ initialized' \in {initialized, TRUE}
    BY DEF SyncMesh
<1>2. state.ports \in Registry /\ Injective(state.ports) /\ Extends(state.ports, state.ports)
    BY DEF IInv, TypeOK, DaemonState, DiskInv, Extends
<1>3. SpentInv' /\ PromisedInv'
    BY <1>1 DEF IInv, SpentInv, PromisedInv, inputs, services
<1>4. ASSUME pc' \in {"directory", "plan", "save"}
      PROVE  DiskInv'
    BY <1>1, <1>4 DEF IInv, DiskInv, services
<1>5. CASE bundle = None
  <2>1. /\ pc' = "directory" /\ plan' = [NoPlan EXCEPT !.ports = state.ports]
        /\ initialized' = initialized
      BY <1>5 DEF SyncMesh
  <2>2. plan' \in Plan /\ plan'.bundle = None /\ plan'.ports = state.ports
      BY <1>2, <2>1, FreshFacts DEF Plan
  <2>3. TypeOK'
      BY <1>1, <2>1, <2>2 DEF IInv, TypeOK, inputs, services
  <2>4. PlanInv'
      BY <1>1, <1>2, <2>1, <2>2 DEF PlanInv, Writing
  <2> QED
      BY <1>3, <1>4, <2>1, <2>3, <2>4 DEF IInv
<1>6. CASE bundle # None /\ pc' = "save"
  <2>1. plan' = plan /\ initialized' = TRUE
      BY <1>6 DEF SyncMesh
  <2>2. TypeOK' /\ PlanInv'
      BY <1>1, <1>6, <2>1 DEF IInv, TypeOK, PlanInv, Writing, inputs, services
  <2> QED
      BY <1>3, <1>4, <1>6, <2>2 DEF IInv
<1>7. CASE bundle # None /\ pc' # "save"
  <2>1. /\ pc' = "plan" /\ initialized' = TRUE
        /\ plan' = [NoPlan EXCEPT !.bundle = bundle, !.ports = state.ports,
                                  !.todo = bundle.routes, !.selfTodo = bundle.self]
      BY <1>7 DEF SyncMesh
  <2>2. bundle \in Bundle /\ bundle # None
      BY <1>7 DEF IInv, TypeOK
  <2>3. /\ plan' \in Plan /\ plan'.bundle = bundle /\ plan'.ports = state.ports
        /\ plan'.todo = bundle.routes /\ plan'.ingress = Nothing /\ plan'.self = {}
      BY <1>2, <2>1, <2>2, FreshFacts DEF Plan, NoPlan, Bundle
  <2>4. TypeOK'
      BY <1>1, <2>1, <2>3 DEF IInv, TypeOK, inputs, services
  <2>5. Done(plan') = {}
      BY <2>3 DEF Done
  <2>6. EndpointsInv(plan') /\ HiddenInv(plan') /\ SelfInv(plan')
      BY <2>3, <2>5 DEF EndpointsInv, HiddenInv, Hidden, SelfInv, Nothing
  <2>7. PlanInv'
      BY <1>1, <1>2, <2>1, <2>2, <2>3, <2>6 DEF PlanInv, Writing
  <2> QED
      BY <1>3, <1>4, <2>1, <2>4, <2>7 DEF IInv
<1> QED
    BY <1>5, <1>6, <1>7

-----------------------------------------------------------------------------
(* Planning and persisting *)

LEMMA ExtendsFacts ==
    ASSUME NEW f, NEW g, NEW h
    PROVE  /\ Extends(f, f)
           /\ Extends(f, g) /\ Extends(g, h) => Extends(f, h)
BY DEF Extends

LEMMA PlanStepStep == IInv /\ PlanStep => IInv'
<1> SUFFICES ASSUME IInv, PlanStep PROVE IInv'
    OBVIOUS
<1>1. /\ pc = "plan" /\ UNCHANGED <<inputs, disk, state, active, services, spent>>
      /\ \/ plan.selfTodo # {} /\ PlanSelf(Least(plan.selfTodo))
         \/ plan.todo # {} /\ PlanPeer(FirstRoute(plan.todo))
    BY DEF PlanStep
<1>2. /\ plan.bundle # None /\ Extends(plan.ports, state.ports) /\ Injective(plan.ports)
      /\ EndpointsInv(plan) /\ HiddenInv(plan) /\ SelfInv(plan)
    BY <1>1 DEF IInv, PlanInv
<1>3. \/ pc' = "save" /\ plan' = NoPlan
      \/ /\ pc' = "plan" /\ plan' \in Plan /\ plan'.bundle = plan.bundle
         /\ Extends(plan'.ports, plan.ports) /\ Injective(plan'.ports)
         /\ EndpointsInv(plan') /\ HiddenInv(plan') /\ SelfInv(plan')
  <2>1. CASE plan.selfTodo # {} /\ PlanSelf(Least(plan.selfTodo))
    <3>1. CASE pc' = "save" /\ plan' = NoPlan
        BY <3>1
    <3>2. CASE /\ pc' = "plan" /\ plan' \in Plan
               /\ plan'.bundle = plan.bundle /\ plan'.ports = plan.ports
               /\ plan'.ingress = plan.ingress /\ plan'.todo = plan.todo
               /\ SelfInv(plan')
      <4>1. Done(plan') = Done(plan) /\ Avoided(plan') = Avoided(plan)
          BY <3>2 DEF Done, Avoided
      <4>2. Hidden(plan') = Hidden(plan)
          BY <3>2, <4>1 DEF Hidden
      <4>3. EndpointsInv(plan') /\ HiddenInv(plan')
          BY <1>2, <3>2, <4>1, <4>2 DEF EndpointsInv, HiddenInv
      <4> QED
          BY <1>2, <3>2, <4>3, ExtendsFacts
    <3> QED
        BY <1>1, <2>1, <3>1, <3>2, PlanSelfPlan
  <2>2. CASE plan.todo # {} /\ PlanPeer(FirstRoute(plan.todo))
      BY <1>1, <2>2, PlanPeerPlan
  <2> QED
      BY <1>1, <2>1, <2>2
<1>4. TypeOK'
    BY <1>1, <1>3, FreshFacts DEF IInv, TypeOK, inputs, disk, services
<1>5. SpentInv' /\ DiskInv' /\ PromisedInv'
    BY <1>1, <1>3 DEF IInv, SpentInv, DiskInv, PromisedInv, inputs, disk, services
<1>6. PlanInv'
    BY <1>1, <1>2, <1>3, ExtendsFacts DEF PlanInv, Writing
<1> QED
    BY <1>4, <1>5, <1>6 DEF IInv

LEMMA PersistStep == IInv /\ Persist => IInv'
<1> SUFFICES ASSUME IInv, Persist PROVE IInv'
    OBVIOUS
<1>1. /\ pc = "plan" /\ plan.todo = {} /\ pc' = "directory"
      /\ state' = [state EXCEPT !.ports = plan.ports]
      /\ saved' = state' /\ stateFile' = state' /\ initialized' = TRUE
      /\ UNCHANGED <<inputs, active, plan, services, spent>>
    BY DEF Persist, Persisting, WriteState
<1>2. /\ plan \in Plan /\ state \in DaemonState /\ saved \in DaemonState
      /\ Extends(plan.ports, state.ports) /\ Injective(plan.ports)
      /\ EndpointsInv(plan) /\ HiddenInv(plan) /\ SelfInv(plan)
      /\ Extends(state.ports, saved.ports)
    BY <1>1 DEF IInv, TypeOK, PlanInv, DiskInv
<1>3. state' \in DaemonState /\ state'.ports = plan.ports
    BY <1>1, <1>2 DEF DaemonState, Plan
<1>4. TypeOK'
    BY <1>1, <1>3 DEF IInv, TypeOK, inputs, services
<1>5. SpentInv'
    BY <1>1 DEF IInv, SpentInv, inputs
<1>6. DiskInv'
    BY <1>1, <1>2, <1>3, ExtendsFacts DEF DiskInv
<1>7. PlanInv'
  <2>1. EndpointsInv(plan') /\ HiddenInv(plan') /\ SelfInv(plan')
      BY <1>1, <1>2
  <2>2. Extends(plan'.ports, state'.ports) /\ Injective(plan'.ports)
      BY <1>1, <1>2, <1>3, ExtendsFacts
  <2> QED
      BY <1>1, <1>3, <2>1, <2>2 DEF PlanInv
<1>8. PromisedInv'
  <2>1. \A e \in promised : e.route \in Route /\ saved.ports[e.route] = e.listen /\ e.listen # 0
      BY PortFacts DEF IInv, PromisedInv, TypeOK, Entry
  <2>2. Extends(plan.ports, saved.ports)
      BY <1>2, ExtendsFacts
  <2> QED
      BY <1>1, <1>3, <2>1, <2>2 DEF PromisedInv, Extends, services
<1> QED
    BY <1>4, <1>5, <1>6, <1>7, <1>8 DEF IInv

-----------------------------------------------------------------------------
(* Publishing *)

LEMMA WriteServiceDirectoryStep == IInv /\ WriteServiceDirectory => IInv'
<1> SUFFICES ASSUME IInv, WriteServiceDirectory PROVE IInv'
    OBVIOUS
<1>1. /\ pc = "directory" /\ pc' = "gateway" /\ initialized' = TRUE
      /\ directory' = DirectoryOf(plan) /\ promised' = promised \cup DirectoryOf(plan)
      /\ UNCHANGED <<inputs, stateFile, saved, state, active, plan, files, running, spent>>
    BY DEF WriteServiceDirectory
<1>2. /\ DirectoryOf(plan) \subseteq Entry
      /\ \A e \in DirectoryOf(plan) : saved.ports[e.route] = e.listen
    BY <1>1, PlanOutputs DEF Writing
<1>3. TypeOK'
    BY <1>1, <1>2 DEF IInv, TypeOK, inputs
<1>4. SpentInv' /\ DiskInv'
    BY <1>1 DEF IInv, SpentInv, DiskInv, inputs
<1>5. PlanInv'
    BY <1>1 DEF IInv, PlanInv, Writing
<1>6. PromisedInv'
    BY <1>1, <1>2 DEF IInv, PromisedInv
<1> QED
    BY <1>3, <1>4, <1>5, <1>6 DEF IInv

(* A step that writes one of the two files, in memory too or not *)
LEMMA FilesStep ==
    ASSUME IInv, Writing, pc' \in {"tng", "save"},
           files' \in [gateway : GatewayFile, tng : TngFile], running' \in Services,
           state' \in DaemonState, state'.ports = state.ports,
           UNCHANGED <<inputs, disk, active, plan, directory, promised, spent>>
    PROVE  IInv'
<1>1. TypeOK'
    BY DEF IInv, TypeOK, inputs, disk
<1>2. SpentInv' /\ PromisedInv'
    BY DEF IInv, SpentInv, PromisedInv, inputs, disk
<1>3. DiskInv'
    BY DEF IInv, DiskInv, Writing, disk
<1>4. PlanInv'
    BY DEF IInv, PlanInv, Writing, disk
<1> QED
    BY <1>1, <1>2, <1>3, <1>4 DEF IInv

LEMMA SyncGatewayStep == IInv /\ SyncGateway => IInv'
<1> SUFFICES ASSUME IInv, SyncGateway PROVE IInv'
    OBVIOUS
<1>1. /\ pc = "gateway" /\ pc' = "tng"
      /\ files' = [files EXCEPT !.gateway = GatewayConfig(plan)]
      /\ state' = [state EXCEPT !.gateway = GatewayConfig(plan)]
      /\ running' \in {running, [running EXCEPT !.gateway =
                                  Serve(GatewayConfig(plan).routes, running.tng)]}
      /\ UNCHANGED <<inputs, disk, active, plan, directory, promised, spent>>
    BY DEF SyncGateway
<1>2. GatewayConfig(plan) \in GatewayFile
    BY <1>1, PlanOutputs DEF Writing
<1>5. running' \in Services
  <2>1. Serve(GatewayConfig(plan).routes, running.tng) \in Process(GatewayEntry)
      BY <1>2, Processes DEF GatewayFile
  <2> QED
      BY <1>1, <2>1 DEF IInv, TypeOK, Services
<1>3. state \in DaemonState /\ files \in [gateway : GatewayFile, tng : TngFile]
    BY DEF IInv, TypeOK
<1>4. /\ files' \in [gateway : GatewayFile, tng : TngFile]
      /\ state' \in DaemonState /\ state'.ports = state.ports
    BY <1>1, <1>2, <1>3 DEF DaemonState
<1> QED
    BY <1>1, <1>4, <1>5, FilesStep DEF Writing

LEMMA SyncTngStep == IInv /\ SyncTng => IInv'
<1> SUFFICES ASSUME IInv, SyncTng PROVE IInv'
    OBVIOUS
<1>1. /\ pc = "tng" /\ pc' = "save"
      /\ files' = [files EXCEPT !.tng = TngConfig(plan)]
      /\ state' = [state EXCEPT !.tng = TngConfig(plan)]
      /\ running' \in {running, [running EXCEPT !.tng =
                                  Serve(TngConfig(plan), running.gateway)]}
      /\ UNCHANGED <<inputs, disk, active, plan, directory, promised, spent>>
    BY DEF SyncTng
<1>2. TngConfig(plan) \in TngFile
    BY <1>1, PlanOutputs DEF Writing
<1>5. running' \in Services
  <2>1. Serve(TngConfig(plan), running.gateway) \in Process(TngEntry)
      BY <1>2, Processes DEF TngFile
  <2> QED
      BY <1>1, <2>1 DEF IInv, TypeOK, Services
<1>3. state \in DaemonState /\ files \in [gateway : GatewayFile, tng : TngFile]
    BY DEF IInv, TypeOK
<1>4. /\ files' \in [gateway : GatewayFile, tng : TngFile]
      /\ state' \in DaemonState /\ state'.ports = state.ports
    BY <1>1, <1>2, <1>3 DEF DaemonState
<1> QED
    BY <1>1, <1>4, <1>5, FilesStep DEF Writing

LEMMA SaveStateStep == IInv /\ SaveState => IInv'
<1> SUFFICES ASSUME IInv, SaveState PROVE IInv'
    OBVIOUS
<1>1. /\ pc = "save" /\ pc' = "idle" /\ plan' = NoPlan
      /\ saved' = state /\ stateFile' = state /\ initialized' = TRUE
      /\ UNCHANGED <<inputs, state, active, services, spent>>
    BY DEF SaveState, WriteState
<1>2. TypeOK'
    BY <1>1, FreshFacts DEF IInv, TypeOK, inputs, services
<1>3. SpentInv'
    BY <1>1 DEF IInv, SpentInv, inputs
<1>4. DiskInv'
    BY <1>1, ExtendsFacts DEF IInv, DiskInv
<1>5. PlanInv'
    BY <1>1 DEF PlanInv, Writing
<1>6. PromisedInv'
  <2>1. \A e \in promised : e.route \in Route /\ saved.ports[e.route] = e.listen /\ e.listen # 0
      BY PortFacts DEF IInv, PromisedInv, TypeOK, Entry
  <2>2. Extends(state.ports, saved.ports)
      BY <1>1 DEF IInv, DiskInv
  <2> QED
      BY <1>1, <2>1, <2>2 DEF PromisedInv, Extends, services
<1> QED
    BY <1>2, <1>3, <1>4, <1>5, <1>6 DEF IInv

-----------------------------------------------------------------------------
(* What goes wrong *)

LEMMA HalfDoneFiles ==
    ASSUME IInv, HalfDone
    PROVE  files' \in [gateway : GatewayFile, tng : TngFile] /\ running' \in Services
<1>1. files \in [gateway : GatewayFile, tng : TngFile] /\ running \in Services
    BY DEF IInv, TypeOK
<1>2. ASSUME pc = "gateway", files' = [files EXCEPT !.gateway = GatewayConfig(plan)],
             NEW g \in {running.gateway, Stopped, Serve(files'.gateway.routes, running.tng)},
             running' = [running EXCEPT !.gateway = g]
      PROVE  files' \in [gateway : GatewayFile, tng : TngFile] /\ running' \in Services
  <2>1. GatewayConfig(plan) \in GatewayFile
      BY <1>2, PlanOutputs DEF Writing
  <2>2. files' \in [gateway : GatewayFile, tng : TngFile] /\ files'.gateway = GatewayConfig(plan)
      BY <1>1, <1>2, <2>1
  <2>3. g \in Process(GatewayEntry)
      BY <1>1, <1>2, <2>1, <2>2, Processes DEF GatewayFile, Services
  <2> QED
      BY <1>1, <1>2, <2>2, <2>3 DEF Services
<1>3. ASSUME pc = "tng", files' = [files EXCEPT !.tng = TngConfig(plan)],
             NEW t \in {running.tng, Stopped, Serve(files'.tng, running.gateway)},
             running' = [running EXCEPT !.tng = t]
      PROVE  files' \in [gateway : GatewayFile, tng : TngFile] /\ running' \in Services
  <2>1. TngConfig(plan) \in TngFile
      BY <1>3, PlanOutputs DEF Writing
  <2>2. files' \in [gateway : GatewayFile, tng : TngFile] /\ files'.tng = TngConfig(plan)
      BY <1>1, <1>3, <2>1
  <2>3. t \in Process(TngEntry)
      BY <1>1, <1>3, <2>1, <2>2, Processes DEF TngFile, Services
  <2> QED
      BY <1>1, <1>3, <2>2, <2>3 DEF Services
<1> QED
    BY <1>1, <1>2, <1>3 DEF HalfDone

(* Only the deliveries are related to another variable *)
LEMMA SpendKeeps ==
    ASSUME SpentInv, UNCHANGED sent, NEW what \in {"deaths", "failures", "damage"}, Spend(what)
    PROVE  SpentInv'
<1>1. /\ spent' \in [deliveries : Nat, deaths : Nat, failures : Nat, damage : Nat]
      /\ spent'.deliveries = spent.deliveries
    BY DEF SpentInv, Spend
<1> QED
    BY <1>1 DEF SpentInv

LEMMA FailStep == IInv /\ Fail => IInv'
<1> SUFFICES ASSUME IInv, Fail PROVE IInv'
    OBVIOUS
<1>1. /\ pc \in {"plan", "directory", "gateway", "tng", "save"}
      /\ pc' \in {"idle", "save"} /\ plan' \in {plan, NoPlan}
      /\ \/ state' = state
         \/ pc = "plan" /\ state' = [state EXCEPT !.ports = plan.ports]
      /\ Spend("failures") /\ HalfDone
      /\ UNCHANGED <<inputs, disk, active, directory, promised>>
    BY DEF Fail, Persisting
<1>2. files' \in [gateway : GatewayFile, tng : TngFile] /\ running' \in Services
    BY <1>1, HalfDoneFiles
<1>3. /\ state' \in DaemonState /\ Injective(state'.ports)
      /\ Extends(state'.ports, saved.ports)
  <2>1. /\ state \in DaemonState /\ Injective(state.ports) /\ plan \in Plan
        /\ Extends(state.ports, saved.ports)
      BY <1>1 DEF IInv, TypeOK, DiskInv
  <2>2. CASE pc = "plan" /\ state' = [state EXCEPT !.ports = plan.ports]
    <3>1. Extends(plan.ports, state.ports) /\ Injective(plan.ports)
        BY <2>2 DEF IInv, PlanInv
    <3>2. state' \in DaemonState /\ state'.ports = plan.ports
        BY <2>1, <2>2 DEF DaemonState, Plan
    <3> QED
        BY <2>1, <3>1, <3>2, ExtendsFacts
  <2> QED
      BY <1>1, <2>1, <2>2
<1>4. TypeOK'
    BY <1>1, <1>2, <1>3, FreshFacts DEF IInv, TypeOK, inputs, disk
<1>5. SpentInv'
    BY <1>1, SpendKeeps DEF IInv, inputs
<1>6. DiskInv' /\ PromisedInv'
    BY <1>1, <1>3 DEF IInv, DiskInv, PromisedInv, disk
<1>7. PlanInv'
    BY <1>1 DEF PlanInv, Writing
<1> QED
    BY <1>4, <1>5, <1>6, <1>7 DEF IInv

LEMMA StartInterruptedStep == IInv /\ StartInterrupted => IInv'
<1> SUFFICES ASSUME IInv, StartInterrupted PROVE IInv'
    OBVIOUS
<1>1. /\ Spend("deaths") /\ initialized' = TRUE
      /\ UNCHANGED <<inputs, stateFile, saved, pc, state, active, plan, services>>
    BY DEF StartInterrupted
<1>2. SpentInv'
    BY <1>1, SpendKeeps DEF IInv, inputs
<1>3. TypeOK'
    BY <1>1 DEF IInv, TypeOK, inputs, services
<1>4. DiskInv' /\ PlanInv' /\ PromisedInv'
    BY <1>1 DEF IInv, DiskInv, PlanInv, PromisedInv, Writing, services
<1> QED
    BY <1>2, <1>3, <1>4 DEF IInv

(* After a death only what is on disk counts *)
LEMMA DieStep ==
    ASSUME IInv, Die, UNCHANGED <<sent, booted, saved, directory, promised>>,
           bundle' \in {bundle, None}, boot' \in {boot, None},
           files' \in [gateway : GatewayFile, tng : TngFile], running' \in Services,
           \/ UNCHANGED <<initialized, stateFile>>
           \/ initialized' = TRUE /\ stateFile' \in {stateFile, Damaged}
    PROVE  IInv'
<1>1. /\ Spend("deaths") /\ pc' = "down" /\ active' = None
      /\ plan' = NoPlan /\ state' = FreshState
    BY DEF Die
<1>2. TypeOK'
    BY <1>1, FreshFacts DEF IInv, TypeOK
<1>3. SpentInv'
    BY <1>1, SpendKeeps DEF IInv
<1>4. DiskInv' /\ PromisedInv'
    BY <1>1, FreshFacts DEF IInv, DiskInv, PromisedInv
<1>5. PlanInv'
    BY <1>1 DEF PlanInv, Writing
<1> QED
    BY <1>2, <1>3, <1>4, <1>5 DEF IInv

LEMMA CrashStep == IInv /\ Crash => IInv'
BY DieStep, HalfDoneFiles DEF Crash, inputs, disk

LEMMA PowerLossStep == IInv /\ PowerLoss => IInv'
<1> SUFFICES ASSUME IInv, PowerLoss PROVE IInv'
    OBVIOUS
<1>1. /\ Die /\ bundle' = None /\ boot' = None
      /\ UNCHANGED <<sent, booted, saved, directory, promised>>
      /\ \/ UNCHANGED <<initialized, stateFile>>
         \/ initialized' = TRUE /\ stateFile' \in {stateFile, Damaged}
    BY DEF PowerLoss
<1>2. files' \in [gateway : GatewayFile, tng : TngFile]
  <2>1. files \in [gateway : GatewayFile, tng : TngFile]
      BY DEF IInv, TypeOK
  <2>2. Writing => GatewayConfig(plan) \in GatewayFile /\ TngConfig(plan) \in TngFile
      BY PlanOutputs
  <2>3. \/ files' = files
        \/ pc = "gateway" /\ files' = [files EXCEPT !.gateway = GatewayConfig(plan)]
        \/ pc = "tng" /\ files' = [files EXCEPT !.tng = TngConfig(plan)]
      BY DEF PowerLoss
  <2> QED
      BY <2>1, <2>2, <2>3 DEF Writing
<1>3. running' \in Services
  <2>1. files'.gateway.routes \subseteq GatewayEntry /\ files'.tng \subseteq TngEntry
      BY <1>2 DEF GatewayFile, TngFile
  <2>2. \A other : /\ Serve(files'.gateway.routes, other) \in Process(GatewayEntry)
                   /\ Serve(files'.tng, other) \in Process(TngEntry)
      BY <2>1, Processes
  <2> QED
      BY <2>2 DEF PowerLoss, Services
<1> QED
    BY <1>1, <1>2, <1>3, DieStep

LEMMA DamageStep == IInv /\ Damage => IInv'
<1> SUFFICES ASSUME IInv, Damage PROVE IInv'
    OBVIOUS
<1>1. /\ Spend("damage") /\ initialized /\ stateFile' \in {Missing, Damaged}
      /\ UNCHANGED <<inputs, initialized, saved, pc, state, active, plan, services>>
    BY DEF Damage
<1>2. SpentInv'
    BY <1>1, SpendKeeps DEF IInv, inputs
<1>3. TypeOK'
    BY <1>1 DEF IInv, TypeOK, inputs, services
<1>4. DiskInv' /\ PlanInv' /\ PromisedInv'
    BY <1>1 DEF IInv, DiskInv, PlanInv, PromisedInv, Writing, services
<1> QED
    BY <1>2, <1>3, <1>4 DEF IInv

LEMMA RestoreStep == IInv /\ Restore => IInv'
<1> SUFFICES ASSUME IInv, Restore PROVE IInv'
    OBVIOUS
<1>1. /\ pc = "recovery" /\ stateFile' = saved /\ stateFile \in {Missing, Damaged}
      /\ UNCHANGED <<inputs, initialized, saved, pc, state, active, plan, services, spent>>
    BY DEF Restore, Readable
<1>2. TypeOK'
    BY <1>1 DEF IInv, TypeOK, inputs, services
<1>3. initialized
    BY <1>1 DEF IInv, DiskInv
<1>4. SpentInv' /\ DiskInv' /\ PlanInv' /\ PromisedInv'
    BY <1>1, <1>3 DEF IInv, SpentInv, DiskInv, PlanInv, PromisedInv, Writing, inputs, services
<1> QED
    BY <1>2, <1>4 DEF IInv

-----------------------------------------------------------------------------
(* Deliveries *)

LEMMA DeliverBootstrapStep == IInv /\ DeliverBootstrap => IInv'
<1> SUFFICES ASSUME IInv, DeliverBootstrap PROVE IInv'
    OBVIOUS
<1>1. PICK b \in Boot \ {sent.boot} :
         boot' = b /\ sent' = [sent EXCEPT !.boot = b] /\ booted' = booted \cup {b}
    BY DEF DeliverBootstrap
<1>2. /\ spent.deliveries < MaxDeliveries /\ Spend("deliveries")
      /\ UNCHANGED <<bundle, disk, pc, state, active, plan, services>>
    BY DEF DeliverBootstrap
<1>3. sent \in [bundle : Bundle \cup {None}, boot : Boot \cup {None}]
    BY DEF IInv, TypeOK
<1>4. /\ sent' \in [bundle : Bundle \cup {None}, boot : Boot \cup {None}]
      /\ sent'.bundle = sent.bundle
    BY <1>1, <1>3
<1>5. TypeOK'
    BY <1>1, <1>2, <1>4 DEF IInv, TypeOK, disk, services
<1>6. /\ spent' \in [deliveries : Nat, deaths : Nat, failures : Nat, damage : Nat]
      /\ spent'.deliveries = spent.deliveries + 1 /\ spent.deliveries \in Nat
    BY <1>2 DEF IInv, SpentInv, Spend
<1>7. sent.bundle # None => sent.bundle.generation \in Nat
    BY <1>3, GuestAssumption DEF Bundle
<1>8. SpentInv'
    BY <1>2, <1>4, <1>6, <1>7, GuestAssumption DEF IInv, SpentInv
<1>9. DiskInv' /\ PlanInv' /\ PromisedInv'
    BY <1>2 DEF IInv, DiskInv, PlanInv, PromisedInv, Writing, disk, services
<1> QED
    BY <1>5, <1>8, <1>9 DEF IInv

(* The next bundle, whose number is bounded by the deliveries *)
LEMMA DeliversBundle ==
    ASSUME IInv, DeliverMesh
    PROVE  /\ bundle' \in Bundle /\ bundle' # None
           /\ sent' = [sent EXCEPT !.bundle = bundle']
           /\ bundle'.generation = IF sent.bundle = None THEN 1 ELSE sent.bundle.generation + 1
           /\ bundle'.generation <= spent.deliveries + 1 /\ spent.deliveries < MaxDeliveries
           /\ UNCHANGED <<boot, booted, disk, pc, state, active, plan, services>>
<1> DEFINE next == IF sent.bundle = None THEN 1 ELSE sent.bundle.generation + 1
<1>1. PICK o \in Offer :
         bundle' = [generation |-> next, self |-> o.self, routes |-> o.routes,
                    connect |-> o.connect]
    BY DEF DeliverMesh
<1>2. /\ spent.deliveries < MaxDeliveries
      /\ sent' = [sent EXCEPT !.bundle = bundle']
      /\ UNCHANGED <<boot, booted, disk, pc, state, active, plan, services>>
    BY DEF DeliverMesh
<1>3. sent \in [bundle : Bundle \cup {None}, boot : Boot \cup {None}]
    BY DEF IInv, TypeOK
<1>4. spent.deliveries \in Nat /\ MaxDeliveries \in Nat
    BY GuestAssumption DEF IInv, SpentInv
<1>5. next \in 1..MaxDeliveries /\ next <= spent.deliveries + 1
  <2>1. CASE sent.bundle = None
      BY <1>2, <1>4, <2>1
  <2>2. CASE sent.bundle # None
    <3>1. sent.bundle.generation \in 1..MaxDeliveries
        BY <1>3, <2>2 DEF Bundle
    <3>2. sent.bundle.generation <= spent.deliveries
        BY <2>2 DEF IInv, SpentInv
    <3> QED
        BY <1>2, <1>4, <2>2, <3>1, <3>2
  <2> QED
      BY <2>1, <2>2
<1>6. o \in [self : SUBSET Declared, routes : SUBSET Route, connect : SUBSET Route]
    BY GuestAssumption
<1>7. bundle'.generation = next
    BY <1>1
<1>8. bundle' \in Bundle
  <2> HIDE DEF next
  <2> QED
      BY <1>1, <1>5, <1>6 DEF Bundle
<1>9. bundle' # None
    BY <1>8, GuestAssumption
<1> QED
    BY <1>2, <1>5, <1>7, <1>8, <1>9

LEMMA DeliverMeshStep == IInv /\ DeliverMesh => IInv'
<1> SUFFICES ASSUME IInv, DeliverMesh PROVE IInv'
    OBVIOUS
<1>1. /\ bundle' \in Bundle /\ sent' = [sent EXCEPT !.bundle = bundle']
      /\ bundle'.generation <= spent.deliveries + 1 /\ spent.deliveries < MaxDeliveries
      /\ UNCHANGED <<boot, booted, disk, pc, state, active, plan, services>>
    BY DeliversBundle
<1>2. /\ sent' \in [bundle : Bundle \cup {None}, boot : Boot \cup {None}]
      /\ sent'.bundle = bundle'
    BY <1>1 DEF IInv, TypeOK
<1>3. /\ spent' \in [deliveries : Nat, deaths : Nat, failures : Nat, damage : Nat]
      /\ spent'.deliveries = spent.deliveries + 1 /\ spent.deliveries \in Nat
    BY DEF DeliverMesh, IInv, SpentInv, Spend
<1>4. TypeOK'
    BY <1>1, <1>2 DEF IInv, TypeOK, disk, services
<1>5. SpentInv'
    BY <1>1, <1>2, <1>3, GuestAssumption DEF SpentInv
<1>6. DiskInv' /\ PlanInv' /\ PromisedInv'
    BY <1>1 DEF IInv, DiskInv, PlanInv, PromisedInv, Writing, disk, services
<1> QED
    BY <1>4, <1>5, <1>6 DEF IInv

LEMMA FetchStep == IInv /\ Fetch => IInv'
<1> SUFFICES ASSUME IInv, Fetch PROVE IInv'
    OBVIOUS
<1>1. /\ boot' \in {boot, sent.boot} /\ bundle' \in {bundle, sent.bundle}
      /\ UNCHANGED <<sent, booted, disk, pc, state, active, plan, services, spent>>
    BY DEF Fetch
<1>2. TypeOK'
    BY <1>1 DEF IInv, TypeOK, disk, services
<1>3. SpentInv' /\ DiskInv' /\ PlanInv' /\ PromisedInv'
    BY <1>1 DEF IInv, SpentInv, DiskInv, PlanInv, PromisedInv, Writing, disk, services
<1> QED
    BY <1>2, <1>3 DEF IInv

-----------------------------------------------------------------------------
(* Every step keeps the inductive invariant *)

LEMMA NextIInv == IInv /\ [Next]_vars => IInv'
<1> SUFFICES ASSUME IInv, [Next]_vars PROVE IInv'
    OBVIOUS
<1>1. CASE UNCHANGED vars
  <2>1. TypeOK'
      BY <1>1 DEF IInv, TypeOK, vars, inputs, disk, services
  <2>2. SpentInv' /\ DiskInv' /\ PlanInv' /\ PromisedInv'
      BY <1>1 DEF IInv, SpentInv, DiskInv, PlanInv, PromisedInv, Writing,
                  vars, inputs, disk, services
  <2> QED
      BY <2>1, <2>2 DEF IInv
<1>2. CASE Daemon
    BY <1>2, StartStep, RecoverStep, ApplyBootstrapStep, SyncMeshStep, PlanStepStep, PersistStep,
       WriteServiceDirectoryStep, SyncGatewayStep, SyncTngStep, SaveStateStep DEF Daemon
<1>3. CASE Fail
    BY <1>3, FailStep
<1>4. CASE StartInterrupted \/ Crash \/ PowerLoss
    BY <1>4, StartInterruptedStep, CrashStep, PowerLossStep
<1>5. CASE Damage \/ Restore
    BY <1>5, DamageStep, RestoreStep
<1>6. CASE DeliverBootstrap \/ DeliverMesh \/ Fetch
    BY <1>6, DeliverBootstrapStep, DeliverMeshStep, FetchStep
<1> QED
    BY <1>1, <1>2, <1>3, <1>4, <1>5, <1>6 DEF Next

(* IInv is an invariant of the guest *)
THEOREM Inductive == Spec => []IInv
BY InitIInv, NextIInv, PTL DEF Spec

(* Whatever is delivered and whatever fails, the disk, the memory, the plan
   and the files of the two services have the shapes app.rs gives them.       *)
THEOREM TypeCorrect == Spec => []TypeOK
<1>1. IInv => TypeOK
    BY DEF IInv
<1> QED
    BY <1>1, Inductive, PTL

(* "Even a failed restart must never give a previously published endpoint to
   a different peer": every entry a directory ever had is a reservation of the
   last saved state, and reservations are an injection.                       *)
THEOREM EndpointsKept == Spec => []EndpointKeepsPeer
<1>1. IInv => EndpointKeepsPeer
  <2> SUFFICES ASSUME IInv, NEW e \in promised, NEW f \in promised
               PROVE  e.listen = f.listen <=> e.route = f.route
      BY DEF EndpointKeepsPeer
  <2>1. /\ e.route \in Route /\ f.route \in Route /\ e.listen # 0
        /\ saved.ports[e.route] = e.listen /\ saved.ports[f.route] = f.listen
      BY PortFacts DEF IInv, TypeOK, PromisedInv, Entry
  <2>2. Injective(saved.ports)
      BY DEF IInv, DiskInv
  <2> QED
      BY <2>1, <2>2 DEF Injective
<1> QED
    BY <1>1, Inductive, PTL

(* No two listeners of a finished plan collide, for any number of peers, ports
   and pools (runtime_port_plan_with_registry).                               *)
THEOREM ListenersApart == Spec => []ListenersDistinct
<1>1. IInv => ListenersDistinct
  <2> SUFFICES ASSUME IInv, Writing, plan.bundle # None
               PROVE  LET routes == plan.bundle.routes
                          own == Control \cup plan.bundle.self
                          ends == {plan.ports[r] : r \in routes}
                          hidden == {plan.ingress[r] : r \in routes \ plan.bundle.connect}
                      IN  /\ \A r, q \in routes : plan.ports[r] = plan.ports[q]
                                     \/ plan.ingress[r] = plan.ingress[q] => r = q
                          /\ ends \cap (own \cup hidden) = {} /\ hidden \cap own = {}
                          /\ \A s, t \in plan.self :
                               /\ {s.egress, s.gateway} \cap (own \cup ends \cup hidden) = {}
                               /\ s.egress # t.gateway
                               /\ (s.egress = t.egress \/ s.gateway = t.gateway) => s = t
      BY DEF ListenersDistinct, Writing
  <2> DEFINE routes == plan.bundle.routes
             own == Control \cup plan.bundle.self
             ends == {plan.ports[r] : r \in routes}
             hidden == {plan.ingress[r] : r \in routes \ plan.bundle.connect}
  <2>1. /\ plan \in Plan /\ plan.bundle \in Bundle /\ Injective(plan.ports)
        /\ EndpointsInv(plan) /\ HiddenInv(plan) /\ SelfInv(plan) /\ plan.todo = {}
      BY DEF IInv, TypeOK, PlanInv, Plan
  <2>2. routes \subseteq Route /\ Done(plan) = routes /\ own \subseteq Avoided(plan)
        /\ Hidden(plan) = routes \ plan.bundle.connect
      BY <2>1 DEF Done, Hidden, Avoided, Bundle
  <2>3. \A r \in routes : /\ plan.ports[r] # 0 /\ plan.ports[r] \notin own
                          /\ plan.ingress[r] # 0
                          /\ plan.ports[r] \in Values(plan.ports)
                          /\ plan.ingress[r] \in Values(plan.ingress)
      BY <2>1, <2>2 DEF EndpointsInv, HiddenInv, Values
  <2>4. \A r \in routes \ plan.bundle.connect :
           plan.ingress[r] \notin Avoided(plan) \cup Values(plan.ports)
      BY <2>1, <2>2 DEF HiddenInv
  <2>5. \A r, q \in routes : plan.ports[r] = plan.ports[q] => r = q
      BY <2>1, <2>2, <2>3 DEF Injective
  <2>6. \A r, q \in routes : plan.ingress[r] = plan.ingress[q] => r = q
    <3> SUFFICES ASSUME NEW r \in routes, NEW q \in routes, plan.ingress[r] = plan.ingress[q]
                 PROVE  r = q
        OBVIOUS
    <3>1. \A x \in routes \cap plan.bundle.connect : plan.ingress[x] = plan.ports[x]
        BY <2>1, <2>2 DEF HiddenInv
    <3>2. \A x, y \in routes \ plan.bundle.connect : plan.ingress[x] = plan.ingress[y] => x = y
        BY <2>1, <2>2 DEF HiddenInv
    <3> QED
        BY <2>3, <2>4, <2>5, <3>1, <3>2
  <2>7. ends \cap (own \cup hidden) = {} /\ hidden \cap own = {}
      BY <2>2, <2>3, <2>4
  <2>8. ends \subseteq Values(plan.ports) /\ hidden \subseteq Values(plan.ingress)
      BY <2>3
  <2>9. \A s, t \in plan.self :
           /\ {s.egress, s.gateway} \cap (own \cup ends \cup hidden) = {}
           /\ s.egress # t.gateway
           /\ (s.egress = t.egress \/ s.gateway = t.gateway) => s = t
      BY <2>1, <2>2, <2>8 DEF SelfInv
  <2> QED
      BY <2>5, <2>6, <2>7, <2>9
<1> QED
    BY <1>1, Inductive, PTL

(* Nothing that write_daemon_state writes forgets or changes a reservation
   written before, through deaths, power loss, damage and recovery.           *)
THEOREM ReservationsSurvive == Spec => ReservationsKept
<1>1. ASSUME IInv, [Next]_vars
      PROVE  [Extends(saved'.ports, saved.ports)]_vars
  <2>1. CASE UNCHANGED saved
      BY <2>1, ExtendsFacts
  <2>2. CASE Start \/ Recover
    <3>1. saved' = saved
        BY <1>1, <2>2, ReadsSaved DEF IInv, Start, Recover, WriteState, disk
    <3> QED
        BY <3>1, <2>1
  <2>3. CASE Persist
    <3>1. saved' = [state EXCEPT !.ports = plan.ports] /\ pc = "plan"
        BY <2>3 DEF Persist, Persisting, WriteState
    <3>2. state \in DaemonState
        BY <1>1 DEF IInv, TypeOK
    <3>3. saved'.ports = plan.ports
        BY <3>1, <3>2 DEF DaemonState
    <3>4. Extends(plan.ports, state.ports) /\ Extends(state.ports, saved.ports)
        BY <1>1, <3>1 DEF IInv, PlanInv, DiskInv
    <3> QED
        BY <3>3, <3>4, ExtendsFacts
  <2>4. CASE SaveState
    <3>1. saved' = state /\ pc = "save"
        BY <2>4 DEF SaveState, WriteState
    <3> QED
        BY <1>1, <3>1 DEF IInv, DiskInv
  <2>5. CASE \/ ApplyBootstrap \/ SyncMesh \/ PlanStep \/ WriteServiceDirectory
             \/ SyncGateway \/ SyncTng \/ Fail \/ StartInterrupted
    <3>1. saved' = saved
        BY <2>5 DEF ApplyBootstrap, SyncMesh, PlanStep, WriteServiceDirectory, SyncGateway,
                    SyncTng, Fail, StartInterrupted, disk
    <3> QED
        BY <3>1, <2>1
  <2>6. CASE \/ Crash \/ PowerLoss \/ Damage \/ Restore
             \/ DeliverBootstrap \/ DeliverMesh \/ Fetch \/ UNCHANGED vars
    <3>1. saved' = saved
        BY <2>6 DEF Crash, PowerLoss, Damage, Restore, DeliverBootstrap, DeliverMesh, Fetch,
                    vars, disk
    <3> QED
        BY <3>1, <2>1
  <2> QED
      BY <1>1, <2>2, <2>3, <2>4, <2>5, <2>6 DEF Next, Daemon
<1> QED
    BY <1>1, Inductive, PTL DEF Spec, ReservationsKept

-----------------------------------------------------------------------------
(* Endpoints and the processes behind them *)

(* What a finished plan tells the two processes to serve *)
LEMMA PlanEntries ==
    ASSUME IInv, Writing
    PROVE  /\ GatewayConfig(plan).routes \subseteq GatewayEntry
           /\ TngConfig(plan) \subseteq TngEntry
           /\ \A g \in GatewayConfig(plan).routes :
                  saved.ports[g.route] = g.listen /\ g.out \notin Values(saved.ports)
           /\ \A t \in TngConfig(plan) : t.direct => saved.ports[t.route] = t.listen
           /\ plan.bundle = None => GatewayConfig(plan).routes = {} /\ TngConfig(plan) = {}
<1>1. GatewayConfig(plan) \in GatewayFile /\ TngConfig(plan) \in TngFile
    BY PlanOutputs
<1>2. CASE plan.bundle = None
  <2>1. GatewayConfig(plan).routes = {} /\ TngConfig(plan) = {}
      BY <1>2 DEF GatewayConfig, NoGateway, TngConfig, Routes
  <2> QED
      BY <2>1
<1>3. CASE plan.bundle # None
  <2>1. /\ plan \in Plan /\ plan.bundle \in Bundle /\ HiddenInv(plan)
        /\ plan.todo = {} /\ saved.ports = plan.ports
      BY <1>3 DEF IInv, TypeOK, PlanInv, Plan
  <2>2. Done(plan) = plan.bundle.routes /\ Routes(plan) = plan.bundle.routes
        /\ Hidden(plan) = plan.bundle.routes \ plan.bundle.connect
      BY <1>3, <2>1 DEF Done, Hidden, Routes, Bundle
  <2>3. GatewayConfig(plan).routes =
            {[listen |-> plan.ports[r], out |-> plan.ingress[r], route |-> r] :
                r \in plan.bundle.routes \ plan.bundle.connect}
      BY <1>3 DEF GatewayConfig
  <2>4. \A g \in GatewayConfig(plan).routes :
            saved.ports[g.route] = g.listen /\ g.out \notin Values(saved.ports)
      BY <2>1, <2>2, <2>3 DEF HiddenInv
  <2>5. \A t \in TngConfig(plan) : t.direct => saved.ports[t.route] = t.listen
    <3>1. ASSUME NEW r \in plan.bundle.routes, r \in plan.bundle.connect
          PROVE  saved.ports[r] = plan.ingress[r]
        BY <2>1, <2>2, <3>1 DEF HiddenInv
    <3>2. ASSUME NEW t \in TngConfig(plan), t.direct
          PROVE  saved.ports[t.route] = t.listen
      <4>1. PICK r \in plan.bundle.routes :
                t = [listen |-> plan.ingress[r], route |-> r, direct |-> r \in plan.bundle.connect]
          BY <2>2 DEF TngConfig
      <4>2. t.listen = plan.ingress[r] /\ t.route = r
          BY <4>1
      <4>3. r \in plan.bundle.connect
          BY <3>2, <4>1, Zenon
      <4> QED
          BY <3>1, <4>2, <4>3
    <3> QED
        BY <3>2
  <2> QED
      BY <1>1, <1>3, <2>4, <2>5 DEF GatewayFile, TngFile
<1> QED
    BY <1>2, <1>3

(* Generations are positive, and an acknowledged one is a natural number *)
LEMMA Generations ==
    ASSUME TypeOK, MeshInv
    PROVE  /\ sent.bundle # None => sent.bundle.generation \in Nat \ {0}
           /\ plan.bundle # None => plan.bundle.generation \in Nat \ {0}
           /\ Mesh # None => Mesh.generation \in Nat \ {0}
           /\ Acknowledged \subseteq Nat
<1>1. /\ sent.bundle \in Bundle \cup {None} /\ plan.bundle \in Bundle \cup {None}
      /\ state.gateway \in GatewayFile /\ saved.gateway \in GatewayFile
    BY DEF TypeOK, Plan, DaemonState
<1>2. /\ state.gateway.generation \in Nat /\ saved.gateway.generation \in Nat
    BY <1>1, GuestAssumption DEF GatewayFile
<1>3. \A b \in Bundle : b.generation \in Nat \ {0}
    BY GuestAssumption DEF Bundle
<1> QED
    BY <1>1, <1>2, <1>3 DEF Mesh, Acknowledged

(* Unless something new is acknowledged or delivered, what is acknowledged of
   the newest bundle was acknowledged of it before.                           *)
LEMMA SameMesh ==
    ASSUME IInv, MeshInv, UNCHANGED sent,
           bundle' \in {None, bundle, sent.bundle},
           plan'.bundle \in {None, bundle, plan.bundle},
           Acknowledged' \subseteq Acknowledged \cup {0}
    PROVE  MeshInv' /\ (Started' => Started /\ Mesh' = Mesh)
<1>1. TypeOK
    BY DEF IInv
<1>2. /\ sent.bundle # None => sent.bundle.generation \in Nat \ {0}
      /\ plan.bundle # None => plan.bundle.generation \in Nat \ {0}
      /\ Mesh # None => Mesh.generation \in Nat \ {0}
      /\ Acknowledged \subseteq Nat
    BY <1>1, Generations
<1>3. bundle' \in {None, sent'.bundle}
    BY DEF MeshInv
<1>4. plan'.bundle # None =>
           /\ sent'.bundle # None
           /\ plan'.bundle = sent'.bundle \/ plan'.bundle.generation < sent'.bundle.generation
    BY DEF MeshInv
<1>5. CASE Mesh' = Mesh
  <2>1. \A n \in Acknowledged' \ {0} : Mesh' # None /\ n <= Mesh'.generation
      BY <1>5 DEF MeshInv
  <2>2. Started' => Started
      BY <1>2, <1>5 DEF Started
  <2> QED
      BY <1>3, <1>4, <1>5, <2>1, <2>2 DEF MeshInv
<1>6. CASE Mesh' # Mesh
  <2>1. /\ Mesh = plan.bundle /\ plan.bundle # None /\ Mesh' = sent.bundle
        /\ sent.bundle # None /\ plan.bundle.generation < sent.bundle.generation
      BY <1>6 DEF Mesh, MeshInv
  <2>2. \A n \in Acknowledged' : n \in Nat /\ n < sent.bundle.generation
      BY <1>2, <2>1 DEF MeshInv
  <2>3. \A n \in Acknowledged' \ {0} : Mesh' # None /\ n <= Mesh'.generation
      BY <1>2, <2>1, <2>2
  <2>4. ~ Started'
      BY <1>2, <2>1, <2>2 DEF Started
  <2> QED
      BY <1>3, <1>4, <2>3, <2>4 DEF MeshInv
<1> QED
    BY <1>5, <1>6

LEMMA EntriesTyped ==
    ASSUME IInv
    PROVE  GatewayEntries \subseteq GatewayEntry /\ TngEntries \subseteq TngEntry
BY DEF IInv, TypeOK, GatewayEntries, TngEntries, Services, Process, GatewayFile, TngFile

(* New entries come from the plan being published, and none of them brings a
   hidden listener and a direct endpoint together.                            *)
LEMMA EntriesStep ==
    ASSUME IInv, ReachInv, Extends(saved'.ports, saved.ports),
           GatewayEntries' \subseteq GatewayEntries
               \cup (IF pc = "gateway" THEN GatewayConfig(plan).routes ELSE {}),
           TngEntries' \subseteq TngEntries \cup (IF pc = "tng" THEN TngConfig(plan) ELSE {})
    PROVE  /\ ReservedInv' /\ ApartInv'
           /\ (\A g \in GatewayEntries : g.out \notin Values(saved.ports)) =>
                  \A g \in GatewayEntries' : g.out \notin Values(saved.ports)
<1> DEFINE newG == IF pc = "gateway" THEN GatewayConfig(plan).routes ELSE {}
           newT == IF pc = "tng" THEN TngConfig(plan) ELSE {}
<1>1. /\ newG \subseteq GatewayEntry
      /\ newT \subseteq TngEntry
      /\ \A g \in newG : saved.ports[g.route] = g.listen /\ g.out \notin Values(saved.ports)
      /\ \A t \in newT : t.direct => saved.ports[t.route] = t.listen
      /\ newT # {} => plan.bundle # None /\ pc = "tng"
      /\ newG # {} => pc = "gateway"
    BY PlanEntries DEF Writing
<1>2. /\ GatewayEntries' \subseteq GatewayEntries \cup newG
      /\ TngEntries' \subseteq TngEntries \cup newT
    OBVIOUS
<1> HIDE DEF newG, newT
<1>3. /\ GatewayEntries \cup newG \subseteq GatewayEntry
      /\ TngEntries \cup newT \subseteq TngEntry
      /\ \A g \in GatewayEntries \cup newG : saved.ports[g.route] = g.listen
      /\ \A t \in TngEntries \cup newT : t.direct => saved.ports[t.route] = t.listen
    BY <1>1, EntriesTyped DEF ReachInv, ReservedInv
<1>4. ReservedInv'
  <2>1. \A g \in GatewayEntries' : saved'.ports[g.route] = g.listen
    <3> TAKE g \in GatewayEntries'
    <3>1. g.route \in Route /\ g.listen \in Port /\ saved.ports[g.route] = g.listen
        BY <1>2, <1>3 DEF GatewayEntry
    <3> QED
        BY <3>1, PortFacts DEF Extends
  <2>2. \A t \in TngEntries' : t.direct => saved'.ports[t.route] = t.listen
    <3> SUFFICES ASSUME NEW t \in TngEntries', t.direct PROVE saved'.ports[t.route] = t.listen
        OBVIOUS
    <3>1. t.route \in Route /\ t.listen \in Port /\ saved.ports[t.route] = t.listen
        BY <1>2, <1>3 DEF TngEntry
    <3> QED
        BY <3>1, PortFacts DEF Extends
  <2> QED
      BY <1>2, <1>3, <2>1, <2>2 DEF ReservedInv
<1>5. \A t \in TngEntries \cup newT : t.direct => t.listen \in Values(saved.ports)
  <2> SUFFICES ASSUME NEW t \in TngEntries \cup newT, t.direct
               PROVE  t.listen \in Values(saved.ports)
      OBVIOUS
  <2>1. t.route \in Route /\ t.listen \in Port /\ saved.ports[t.route] = t.listen
      BY <1>3 DEF TngEntry
  <2> QED
      BY <2>1, PortFacts DEF Values
<1>6. newT # {} => \A g \in GatewayEntries \cup newG : g.out \notin Values(saved.ports)
  <2> SUFFICES ASSUME newT # {}
               PROVE  \A g \in GatewayEntries \cup newG : g.out \notin Values(saved.ports)
      OBVIOUS
  <2>1. plan.bundle # None /\ pc = "tng"
      BY <1>1
  <2>2. state.gateway = GatewayConfig(plan) /\ Mesh = plan.bundle
      BY <2>1 DEF ReachInv, PlannedInv, Mesh
  <2>3. state.gateway.generation = Mesh.generation
      BY <2>1, <2>2 DEF GatewayConfig
  <2>4. Started
      BY <2>1, <2>2, <2>3 DEF Started, Acknowledged
  <2> QED
      BY <1>1, <2>4 DEF ReachInv, StartedInv
<1>7. ApartInv'
  <2> SUFFICES ASSUME NEW g \in GatewayEntries \cup newG, NEW t \in TngEntries \cup newT, t.direct
               PROVE  t.listen # g.out
      BY <1>2 DEF ApartInv
  <2>1. CASE g \in newG
      BY <1>1, <1>5, <2>1
  <2>2. CASE newT # {}
      BY <1>5, <1>6, <2>2
  <2>3. CASE g \in GatewayEntries /\ t \in TngEntries
      BY <2>3 DEF ReachInv, ApartInv
  <2> QED
      BY <2>1, <2>2, <2>3
<1> QED
    BY <1>1, <1>2, <1>4, <1>7

(* A step that acknowledges nothing new *)
LEMMA KeepsReach ==
    ASSUME IInv, ReachInv, UNCHANGED sent,
           bundle' \in {None, bundle, sent.bundle},
           plan'.bundle \in {None, bundle, plan.bundle},
           Acknowledged' \subseteq Acknowledged \cup {0},
           Extends(saved'.ports, saved.ports),
           Started => saved'.ports = saved.ports,
           Started /\ pc' \notin {"down", "recovery"} => state'.ports = saved.ports,
           GatewayEntries' \subseteq GatewayEntries
               \cup (IF pc = "gateway" THEN GatewayConfig(plan).routes ELSE {}),
           TngEntries' \subseteq TngEntries \cup (IF pc = "tng" THEN TngConfig(plan) ELSE {}),
           PlannedInv'
    PROVE  ReachInv'
<1>1. MeshInv' /\ (Started' => Started /\ Mesh' = Mesh)
    BY SameMesh DEF ReachInv
<1>2. /\ ReservedInv' /\ ApartInv'
      /\ (\A g \in GatewayEntries : g.out \notin Values(saved.ports)) =>
             \A g \in GatewayEntries' : g.out \notin Values(saved.ports)
    BY EntriesStep
<1>3. StartedInv'
    BY <1>1, <1>2 DEF ReachInv, StartedInv
<1> QED
    BY <1>1, <1>2, <1>3 DEF ReachInv

(* Unchanged processes and files have the same entries *)
LEMMA SameEntries ==
    ASSUME UNCHANGED <<files, running>>
    PROVE  GatewayEntries' = GatewayEntries /\ TngEntries' = TngEntries
BY DEF GatewayEntries, TngEntries

LEMMA ServesPart ==
    \A config, other : Serve(config, other).serving \subseteq config
BY DEF Serve

(* However a step ends half way *)
LEMMA HalfDoneEntries ==
    ASSUME IInv, HalfDone
    PROVE  /\ GatewayEntries' \subseteq GatewayEntries
                  \cup (IF pc = "gateway" THEN GatewayConfig(plan).routes ELSE {})
           /\ TngEntries' \subseteq TngEntries \cup (IF pc = "tng" THEN TngConfig(plan) ELSE {})
<1>1. files \in [gateway : GatewayFile, tng : TngFile] /\ running \in Services
    BY DEF IInv, TypeOK
<1>2. CASE UNCHANGED <<files, running>>
    BY <1>2, SameEntries
<1>3. ASSUME pc = "gateway", files' = [files EXCEPT !.gateway = GatewayConfig(plan)],
             NEW g \in {running.gateway, Stopped, Serve(files'.gateway.routes, running.tng)},
             running' = [running EXCEPT !.gateway = g]
      PROVE  /\ GatewayEntries' \subseteq GatewayEntries \cup GatewayConfig(plan).routes
             /\ TngEntries' \subseteq TngEntries
  <2>1. files'.gateway = GatewayConfig(plan) /\ files'.tng = files.tng
      BY <1>1, <1>3
  <2>2. g.serving \subseteq running.gateway.serving \cup GatewayConfig(plan).routes
      BY <1>3, <2>1, ServesPart DEF Stopped
  <2>3. running'.gateway.serving \subseteq running.gateway.serving \cup GatewayConfig(plan).routes
      BY <1>1, <1>3, <2>2 DEF Services
  <2>4. running'.tng = running.tng
      BY <1>1, <1>3 DEF Services
  <2> QED
      BY <2>1, <2>3, <2>4 DEF GatewayEntries, TngEntries
<1>4. ASSUME pc = "tng", files' = [files EXCEPT !.tng = TngConfig(plan)],
             NEW t \in {running.tng, Stopped, Serve(files'.tng, running.gateway)},
             running' = [running EXCEPT !.tng = t]
      PROVE  /\ GatewayEntries' \subseteq GatewayEntries
             /\ TngEntries' \subseteq TngEntries \cup TngConfig(plan)
  <2>1. files'.tng = TngConfig(plan) /\ files'.gateway = files.gateway
      BY <1>1, <1>4
  <2>2. t.serving \subseteq running.tng.serving \cup TngConfig(plan)
      BY <1>4, <2>1, ServesPart DEF Stopped
  <2> QED
      BY <1>1, <1>4, <2>1, <2>2 DEF GatewayEntries, TngEntries, Services
<1> QED
    BY <1>2, <1>3, <1>4 DEF HalfDone

-----------------------------------------------------------------------------
(* Every step keeps the endpoints apart *)

LEMMA InitReach == Init => ReachInv
<1> SUFFICES ASSUME Init PROVE ReachInv
    OBVIOUS
<1>1. GatewayEntries = {} /\ TngEntries = {} /\ Acknowledged = {0} /\ Mesh = None
    BY FreshFacts DEF Init, GatewayEntries, TngEntries, Acknowledged, Mesh, Stopped, NoGateway,
                      FreshState
<1>2. plan.bundle = None
    BY FreshFacts DEF Init
<1> QED
    BY <1>1, <1>2 DEF Init, ReachInv, ReservedInv, MeshInv, Started, StartedInv, PlannedInv,
                      Writing, ApartInv

(* What was acknowledged, in memory and on disk, when one becomes the other *)
LEMMA ReadReach ==
    ASSUME IInv, ReachInv, pc \in {"down", "recovery"}, ReadState # None, pc' = "idle",
           state' = ReadState, WriteState(ReadState),
           UNCHANGED <<inputs, active, plan, services, spent>>
    PROVE  ReachInv'
<1>1. state' = saved /\ saved' = saved
    BY ReadsSaved DEF IInv, WriteState
<1>2. Acknowledged' \subseteq Acknowledged \cup {0} /\ Extends(saved'.ports, saved.ports)
    BY <1>1, ExtendsFacts DEF Acknowledged
<1>3. PlannedInv'
    BY DEF PlannedInv, Writing
<1>4. GatewayEntries' = GatewayEntries /\ TngEntries' = TngEntries
    BY SameEntries DEF services
<1> QED
    BY <1>1, <1>2, <1>3, <1>4, KeepsReach DEF inputs

LEMMA StartReach == IInv /\ ReachInv /\ Start => ReachInv'
<1> SUFFICES ASSUME IInv, ReachInv, Start PROVE ReachInv'
    OBVIOUS
<1>1. CASE ReadState # None
    BY <1>1, ReadReach DEF Start, services
<1>2. CASE ReadState = None
  <2>1. /\ pc' = "recovery"
        /\ UNCHANGED <<state, saved, inputs, plan, files>>
        /\ running' \in {running, [gateway |-> Stopped, tng |-> Stopped]}
      BY <1>2 DEF Start, disk
  <2>2. GatewayEntries' \subseteq GatewayEntries /\ TngEntries' \subseteq TngEntries
      BY <2>1 DEF GatewayEntries, TngEntries, Stopped
  <2>3. Acknowledged' = Acknowledged /\ Extends(saved'.ports, saved.ports)
      BY <2>1, ExtendsFacts DEF Acknowledged
  <2>4. PlannedInv'
      BY <2>1 DEF PlannedInv, Writing
  <2> QED
      BY <2>1, <2>2, <2>3, <2>4, KeepsReach DEF inputs
<1> QED
    BY <1>1, <1>2

LEMMA RecoverReach == IInv /\ ReachInv /\ Recover => ReachInv'
BY ReadReach DEF Recover

(* A step that touches neither the state nor the services *)
LEMMA QuietReach ==
    ASSUME IInv, ReachInv, UNCHANGED <<sent, state, saved, files, running>>,
           bundle' \in {None, bundle, sent.bundle},
           plan'.bundle \in {None, bundle, plan.bundle},
           pc' \notin {"down", "recovery"} => pc \notin {"down", "recovery"},
           PlannedInv'
    PROVE  ReachInv'
<1>1. GatewayEntries' = GatewayEntries /\ TngEntries' = TngEntries
    BY SameEntries
<1>2. Acknowledged' = Acknowledged /\ Extends(saved'.ports, saved.ports)
    BY ExtendsFacts DEF Acknowledged
<1>3. Started /\ pc' \notin {"down", "recovery"} => state'.ports = saved.ports
    BY DEF ReachInv, StartedInv
<1> QED
    BY <1>1, <1>2, <1>3, KeepsReach

LEMMA ApplyBootstrapReach == IInv /\ ReachInv /\ ApplyBootstrap => ReachInv'
<1> SUFFICES ASSUME IInv, ReachInv, ApplyBootstrap PROVE ReachInv'
    OBVIOUS
<1>1. PlannedInv'
    BY DEF ApplyBootstrap, PlannedInv, Writing
<1> QED
    BY <1>1, QuietReach DEF ApplyBootstrap, inputs, disk, services

LEMMA SyncMeshReach == IInv /\ ReachInv /\ SyncMesh => ReachInv'
<1> SUFFICES ASSUME IInv, ReachInv, SyncMesh PROVE ReachInv'
    OBVIOUS
<1>1. /\ pc = "sync" /\ UNCHANGED <<inputs, saved, state, services>>
    BY DEF SyncMesh
<1>2. NoPlan \in Plan /\ NoPlan.bundle = None
    BY FreshFacts
<1>3. CASE bundle = None
  <2>1. pc' = "directory" /\ plan' = [NoPlan EXCEPT !.ports = state.ports]
      BY <1>3 DEF SyncMesh
  <2>2. plan'.bundle = None /\ plan'.ports = state.ports
      BY <1>2, <2>1 DEF Plan
  <2>3. PlannedInv'
      BY <1>1, <2>1, <2>2 DEF PlannedInv
  <2> QED
      BY <1>1, <2>1, <2>2, <2>3, QuietReach DEF inputs, services
<1>4. CASE bundle # None /\ pc' = "save"
  <2>1. plan' = plan
      BY <1>4 DEF SyncMesh
  <2>2. PlannedInv'
      BY <1>4 DEF PlannedInv, Writing
  <2> QED
      BY <1>1, <1>4, <2>1, <2>2, QuietReach DEF inputs, services
<1>5. CASE bundle # None /\ pc' # "save"
  <2>1. /\ pc' = "plan"
        /\ plan' = [NoPlan EXCEPT !.bundle = bundle, !.ports = state.ports,
                                  !.todo = bundle.routes, !.selfTodo = bundle.self]
      BY <1>5 DEF SyncMesh
  <2>2. plan'.bundle = bundle /\ plan'.ports = state.ports
      BY <1>2, <2>1 DEF NoPlan
  <2>3. PlannedInv'
      BY <1>1, <2>1, <2>2 DEF PlannedInv, Writing
  <2> QED
      BY <1>1, <2>1, <2>2, <2>3, QuietReach DEF inputs, services
<1> QED
    BY <1>3, <1>4, <1>5

(* A plan changes the registry at the routes of its bundle only *)
LEMMA PlanStepReach == IInv /\ ReachInv /\ PlanStep => ReachInv'
<1> SUFFICES ASSUME IInv, ReachInv, PlanStep PROVE ReachInv'
    OBVIOUS
<1>1. /\ pc = "plan" /\ UNCHANGED <<inputs, disk, state, services>>
      /\ \/ plan.selfTodo # {} /\ PlanSelf(Least(plan.selfTodo))
         \/ plan.todo # {} /\ PlanPeer(FirstRoute(plan.todo))
    BY DEF PlanStep
<1>2. plan \in Plan /\ EndpointsInv(plan) /\ plan.bundle # None
    BY <1>1 DEF IInv, TypeOK, PlanInv
<1>3. \/ pc' = "save" /\ plan'.bundle = None
      \/ /\ pc' = "plan" /\ plan'.bundle = plan.bundle
         /\ \A q \in Route \ plan.bundle.routes : plan'.ports[q] = plan.ports[q]
  <2>1. CASE plan.selfTodo # {} /\ PlanSelf(Least(plan.selfTodo))
      BY <1>1, <2>1, PlanSelfPlan, FreshFacts
  <2>2. CASE plan.todo # {} /\ PlanPeer(FirstRoute(plan.todo))
    <3> DEFINE r == FirstRoute(plan.todo)
               local == Least(LocalPorts(r))
               in == Least(IngressPorts(r, local))
    <3>1. r \in plan.bundle.routes
        BY <1>2, <2>2, FirstRouteIsMember DEF Plan, EndpointsInv
    <3>2. CASE LocalPorts(r) = {} \/ IngressPorts(r, local) = {}
        BY <2>2, <3>2, FreshFacts DEF PlanPeer
    <3>3. CASE LocalPorts(r) # {} /\ IngressPorts(r, local) # {}
      <4>1. /\ pc' = "plan"
            /\ plan' = [plan EXCEPT !.todo = @ \ {r}, !.ports[r] = local, !.ingress[r] = in]
          BY <1>1, <2>2, <3>3 DEF PlanPeer
      <4> HIDE DEF r, local, in
      <4>2. plan'.bundle = plan.bundle /\ plan'.ports = [plan.ports EXCEPT ![r] = local]
          BY <1>2, <4>1 DEF Plan
      <4>3. \A q \in Route \ {r} : plan'.ports[q] = plan.ports[q]
          BY <1>2, <4>2 DEF Plan, Registry
      <4> QED
          BY <3>1, <4>1, <4>2, <4>3
    <3> QED
        BY <3>2, <3>3
  <2> QED
      BY <1>1, <2>1, <2>2
<1>4. PlannedInv'
    BY <1>1, <1>3 DEF ReachInv, PlannedInv, Writing
<1> QED
    BY <1>1, <1>3, <1>4, QuietReach DEF inputs, disk, services

(* A bundle that was already started is planned from complete reservations *)
LEMMA PlanSettled ==
    ASSUME IInv, ReachInv, pc = "plan", Started
    PROVE  plan.ports = saved.ports /\ state.ports = saved.ports
<1>1. plan.bundle # None /\ Extends(plan.ports, state.ports)
    BY DEF IInv, PlanInv
<1>2. Mesh = plan.bundle
    BY <1>1 DEF Mesh
<1>3. state.ports = saved.ports /\ \A r \in plan.bundle.routes : saved.ports[r] # 0
    BY <1>2 DEF ReachInv, StartedInv
<1>4. \A r \in Route : plan.ports[r] = state.ports[r]
    BY <1>1, <1>3 DEF Extends, ReachInv, PlannedInv
<1>5. plan.ports \in Registry /\ state.ports \in Registry
    BY DEF IInv, TypeOK, Plan, DaemonState
<1>6. plan.ports = state.ports
    BY <1>4, <1>5 DEF Registry
<1> QED
    BY <1>3, <1>6

LEMMA PersistReach == IInv /\ ReachInv /\ Persist => ReachInv'
<1> SUFFICES ASSUME IInv, ReachInv, Persist PROVE ReachInv'
    OBVIOUS
<1>1. /\ pc = "plan" /\ pc' = "directory"
      /\ state' = [state EXCEPT !.ports = plan.ports] /\ saved' = state'
      /\ UNCHANGED <<inputs, plan, services>>
    BY DEF Persist, Persisting, WriteState
<1>2. state \in DaemonState
    BY DEF IInv, TypeOK
<1>3. state'.ports = plan.ports /\ state'.gateway = state.gateway
    BY <1>1, <1>2 DEF DaemonState
<1>4. Extends(saved'.ports, saved.ports)
    BY <1>1, <1>3, ExtendsFacts DEF IInv, PlanInv, DiskInv
<1>5. Started => saved'.ports = saved.ports /\ state'.ports = saved.ports
    BY <1>1, <1>3, PlanSettled
<1>6. Acknowledged' \subseteq Acknowledged
    BY <1>1, <1>3 DEF Acknowledged
<1>7. PlannedInv'
    BY <1>1, <1>3 DEF PlannedInv
<1>8. GatewayEntries' = GatewayEntries /\ TngEntries' = TngEntries
    BY <1>1, SameEntries DEF services
<1> QED
    BY <1>1, <1>4, <1>5, <1>6, <1>7, <1>8, KeepsReach DEF inputs

LEMMA WriteServiceDirectoryReach == IInv /\ ReachInv /\ WriteServiceDirectory => ReachInv'
<1> SUFFICES ASSUME IInv, ReachInv, WriteServiceDirectory PROVE ReachInv'
    OBVIOUS
<1>1. PlannedInv'
    BY DEF WriteServiceDirectory, ReachInv, PlannedInv, Writing
<1> QED
    BY <1>1, QuietReach DEF WriteServiceDirectory, inputs

(* The one step that acknowledges a bundle: the gateway serves what was planned
   for it, now or since it was acknowledged for the first time.               *)
LEMMA SyncGatewayReach == IInv /\ ReachInv /\ SyncGateway => ReachInv'
<1> SUFFICES ASSUME IInv, ReachInv, SyncGateway PROVE ReachInv'
    OBVIOUS
<1> DEFINE config == GatewayConfig(plan)
<1>1. /\ pc = "gateway" /\ pc' = "tng" /\ UNCHANGED <<inputs, disk, plan>>
      /\ files' = [files EXCEPT !.gateway = config]
      /\ state' = [state EXCEPT !.gateway = config]
      /\ running' = IF files.gateway = config /\ state.gateway = config /\ running.gateway.up
                    THEN running
                    ELSE [running EXCEPT !.gateway = Serve(config.routes, running.tng)]
    BY DEF SyncGateway
<1>2. /\ state \in DaemonState /\ files \in [gateway : GatewayFile, tng : TngFile]
      /\ running \in Services /\ plan \in Plan /\ TypeOK
    BY DEF IInv, TypeOK
<1> HIDE DEF config
<1>3. /\ files'.gateway = config /\ files'.tng = files.tng
      /\ state'.gateway = config /\ state'.ports = state.ports /\ saved' = saved
    BY <1>1, <1>2 DEF DaemonState, disk
<1>4. CASE running' = running /\ files.gateway = config /\ state.gateway = config
  <2>1. GatewayEntries' = GatewayEntries /\ TngEntries' = TngEntries
      BY <1>3, <1>4 DEF GatewayEntries, TngEntries
  <2>2. Acknowledged' = Acknowledged /\ Extends(saved'.ports, saved.ports)
      BY <1>3, <1>4, ExtendsFacts DEF Acknowledged
  <2>3. PlannedInv'
      BY <1>1, <1>3 DEF ReachInv, PlannedInv, Writing, config
  <2>4. Started => state'.ports = saved.ports
      BY <1>1, <1>3 DEF ReachInv, StartedInv
  <2> QED
      BY <1>1, <1>3, <2>1, <2>2, <2>3, <2>4, KeepsReach DEF inputs
<1>5. CASE running' = [running EXCEPT !.gateway = Serve(config.routes, running.tng)]
  <2>1. /\ running'.gateway.serving \subseteq config.routes
        /\ running'.tng = running.tng
      BY <1>2, <1>5, ServesPart DEF Services
  <2>2. GatewayEntries' \subseteq config.routes /\ TngEntries' = TngEntries
      BY <1>3, <2>1 DEF GatewayEntries, TngEntries
  <2>3. ReservedInv' /\ ApartInv'
      BY <1>1, <1>3, <2>2, EntriesStep, ExtendsFacts DEF config
  <2>4. \A g \in GatewayEntries' : g.out \notin Values(saved.ports)
      BY <1>1, <2>2, PlanEntries DEF Writing, config
  <2>5. PlannedInv'
      BY <1>1, <1>3 DEF ReachInv, PlannedInv, Writing, config
  <2>6. CASE plan.bundle = None
    <3>1. Acknowledged' \subseteq Acknowledged \cup {0}
        BY <1>3, <2>6 DEF Acknowledged, config, GatewayConfig, NoGateway
    <3>2. MeshInv' /\ (Started' => Started /\ Mesh' = Mesh)
        BY <1>1, <3>1, SameMesh DEF ReachInv, inputs
    <3>3. StartedInv'
        BY <1>1, <1>3, <2>4, <3>2 DEF ReachInv, StartedInv
    <3> QED
        BY <2>3, <2>5, <3>2, <3>3 DEF ReachInv
  <2>7. CASE plan.bundle # None
    <3>1. Mesh' = plan.bundle /\ Mesh = plan.bundle
        BY <1>1, <2>7 DEF Mesh
    <3>2. Acknowledged' \subseteq Acknowledged \cup {plan.bundle.generation}
        BY <1>3, <2>7 DEF Acknowledged, config, GatewayConfig
    <3>3. plan.bundle.generation \in Nat
        BY <1>2, <2>7, Generations DEF ReachInv
    <3>4. MeshInv'
        BY <1>1, <2>7, <3>1, <3>2, <3>3 DEF ReachInv, MeshInv, inputs
    <3>5. state.ports = saved.ports /\ \A r \in plan.bundle.routes : saved.ports[r] # 0
      <4>1. /\ saved.ports = plan.ports /\ plan.todo = {} /\ EndpointsInv(plan)
            /\ state.ports = plan.ports
          BY <1>1, <2>7 DEF IInv, PlanInv, ReachInv, PlannedInv, Writing
      <4> QED
          BY <4>1 DEF EndpointsInv, Done
    <3>6. StartedInv'
        BY <1>3, <2>4, <3>1, <3>5 DEF StartedInv
    <3> QED
        BY <2>3, <2>5, <3>4, <3>6 DEF ReachInv
  <2> QED
      BY <2>6, <2>7
<1> QED
    BY <1>1, <1>4, <1>5

LEMMA SyncTngReach == IInv /\ ReachInv /\ SyncTng => ReachInv'
<1> SUFFICES ASSUME IInv, ReachInv, SyncTng PROVE ReachInv'
    OBVIOUS
<1> DEFINE config == TngConfig(plan)
<1>1. /\ pc = "tng" /\ pc' = "save" /\ UNCHANGED <<inputs, disk, plan>>
      /\ files' = [files EXCEPT !.tng = config]
      /\ state' = [state EXCEPT !.tng = config]
      /\ running' \in {running, [running EXCEPT !.tng = Serve(config, running.gateway)]}
    BY DEF SyncTng
<1>2. /\ state \in DaemonState /\ files \in [gateway : GatewayFile, tng : TngFile]
      /\ running \in Services
    BY DEF IInv, TypeOK
<1> HIDE DEF config
<1>3. /\ files'.tng = config /\ files'.gateway = files.gateway
      /\ state'.gateway = state.gateway /\ state'.ports = state.ports /\ saved' = saved
    BY <1>1, <1>2 DEF DaemonState, disk
<1>4. /\ running'.tng.serving \subseteq running.tng.serving \cup config
      /\ running'.gateway = running.gateway
    BY <1>1, <1>2, ServesPart DEF Services
<1>5. GatewayEntries' = GatewayEntries /\ TngEntries' \subseteq TngEntries \cup config
    BY <1>3, <1>4 DEF GatewayEntries, TngEntries
<1>6. Acknowledged' = Acknowledged /\ Extends(saved'.ports, saved.ports)
    BY <1>3, ExtendsFacts DEF Acknowledged
<1>7. PlannedInv'
    BY <1>1 DEF PlannedInv, Writing
<1>8. Started => state'.ports = saved.ports
    BY <1>1, <1>3 DEF ReachInv, StartedInv
<1> QED
    BY <1>1, <1>3, <1>5, <1>6, <1>7, <1>8, KeepsReach DEF config, inputs

LEMMA SaveStateReach == IInv /\ ReachInv /\ SaveState => ReachInv'
<1> SUFFICES ASSUME IInv, ReachInv, SaveState PROVE ReachInv'
    OBVIOUS
<1>1. /\ pc = "save" /\ pc' = "idle" /\ plan'.bundle = None
      /\ saved' = state /\ UNCHANGED <<inputs, state, services>>
    BY FreshFacts DEF SaveState, WriteState
<1>2. Extends(saved'.ports, saved.ports)
    BY <1>1 DEF IInv, DiskInv
<1>3. Started => saved'.ports = saved.ports /\ state'.ports = saved.ports
    BY <1>1 DEF ReachInv, StartedInv
<1>4. Acknowledged' \subseteq Acknowledged
    BY <1>1 DEF Acknowledged
<1>5. PlannedInv'
    BY <1>1 DEF PlannedInv, Writing
<1>6. GatewayEntries' = GatewayEntries /\ TngEntries' = TngEntries
    BY <1>1, SameEntries DEF services
<1> QED
    BY <1>1, <1>2, <1>3, <1>4, <1>5, <1>6, KeepsReach DEF inputs

LEMMA FailReach == IInv /\ ReachInv /\ Fail => ReachInv'
<1> SUFFICES ASSUME IInv, ReachInv, Fail PROVE ReachInv'
    OBVIOUS
<1>1. /\ pc \in {"plan", "directory", "gateway", "tng", "save"}
      /\ pc' \in {"idle", "save"} /\ plan' \in {plan, NoPlan}
      /\ \/ state' = state
         \/ pc = "plan" /\ state' = [state EXCEPT !.ports = plan.ports]
      /\ HalfDone /\ UNCHANGED <<inputs, disk>>
    BY DEF Fail, Persisting
<1>2. state \in DaemonState
    BY DEF IInv, TypeOK
<1>3. state'.gateway = state.gateway
    BY <1>1, <1>2 DEF DaemonState
<1>4. Started => state'.ports = saved.ports
  <2>1. CASE state' = state
      BY <1>1, <2>1 DEF ReachInv, StartedInv
  <2>2. CASE pc = "plan" /\ state' = [state EXCEPT !.ports = plan.ports]
    <3>1. state'.ports = plan.ports
        BY <1>2, <2>2 DEF DaemonState
    <3> QED
        BY <2>2, <3>1, PlanSettled
  <2> QED
      BY <1>1, <2>1, <2>2
<1>5. plan'.bundle \in {None, plan.bundle}
    BY <1>1, FreshFacts
<1>6. Acknowledged' = Acknowledged /\ Extends(saved'.ports, saved.ports) /\ saved' = saved
    BY <1>1, <1>3, ExtendsFacts DEF Acknowledged, disk
<1>7. PlannedInv'
    BY <1>1 DEF PlannedInv, Writing
<1>8. /\ GatewayEntries' \subseteq GatewayEntries
             \cup (IF pc = "gateway" THEN GatewayConfig(plan).routes ELSE {})
      /\ TngEntries' \subseteq TngEntries \cup (IF pc = "tng" THEN TngConfig(plan) ELSE {})
    BY <1>1, HalfDoneEntries
<1> QED
    BY <1>1, <1>4, <1>5, <1>6, <1>7, <1>8, KeepsReach DEF inputs

LEMMA DieReach ==
    ASSUME IInv, ReachInv, Die, UNCHANGED <<sent, saved>>, bundle' \in {bundle, None},
           GatewayEntries' \subseteq GatewayEntries
               \cup (IF pc = "gateway" THEN GatewayConfig(plan).routes ELSE {}),
           TngEntries' \subseteq TngEntries \cup (IF pc = "tng" THEN TngConfig(plan) ELSE {})
    PROVE  ReachInv'
<1>1. pc' = "down" /\ plan' = NoPlan /\ state' = FreshState
    BY DEF Die
<1>2. Acknowledged' \subseteq Acknowledged \cup {0} /\ Extends(saved'.ports, saved.ports)
    BY <1>1, ExtendsFacts DEF Acknowledged, FreshState, NoGateway
<1>3. PlannedInv'
    BY <1>1 DEF PlannedInv, Writing
<1>4. plan'.bundle = None
    BY <1>1, FreshFacts
<1> QED
    BY <1>1, <1>2, <1>3, <1>4, KeepsReach

LEMMA CrashReach == IInv /\ ReachInv /\ Crash => ReachInv'
BY DieReach, HalfDoneEntries DEF Crash, inputs, disk

LEMMA PowerLossReach == IInv /\ ReachInv /\ PowerLoss => ReachInv'
<1> SUFFICES ASSUME IInv, ReachInv, PowerLoss PROVE ReachInv'
    OBVIOUS
<1>1. /\ Die /\ bundle' = None /\ UNCHANGED <<sent, saved>>
      /\ \/ files' = files
         \/ pc = "gateway" /\ files' = [files EXCEPT !.gateway = GatewayConfig(plan)]
         \/ pc = "tng" /\ files' = [files EXCEPT !.tng = TngConfig(plan)]
    BY DEF PowerLoss
<1>2. files \in [gateway : GatewayFile, tng : TngFile]
    BY DEF IInv, TypeOK
<1>3. /\ running'.gateway.serving \subseteq files'.gateway.routes
      /\ running'.tng.serving \subseteq files'.tng
    BY ServesPart DEF PowerLoss
<1>4. /\ files'.gateway.routes \subseteq GatewayEntries
             \cup (IF pc = "gateway" THEN GatewayConfig(plan).routes ELSE {})
      /\ files'.tng \subseteq TngEntries \cup (IF pc = "tng" THEN TngConfig(plan) ELSE {})
    BY <1>1, <1>2 DEF GatewayEntries, TngEntries
<1>5. /\ GatewayEntries' \subseteq GatewayEntries
             \cup (IF pc = "gateway" THEN GatewayConfig(plan).routes ELSE {})
      /\ TngEntries' \subseteq TngEntries \cup (IF pc = "tng" THEN TngConfig(plan) ELSE {})
    BY <1>3, <1>4 DEF GatewayEntries, TngEntries
<1> QED
    BY <1>1, <1>5, DieReach

(* Entries, reservations and plans are as they were *)
LEMMA UnrelatedReach ==
    ASSUME ReachInv, UNCHANGED <<saved, pc, state, plan, files, running>>, MeshInv', StartedInv'
    PROVE  ReachInv'
<1>1. GatewayEntries' = GatewayEntries /\ TngEntries' = TngEntries
    BY SameEntries
<1>2. ReservedInv' /\ ApartInv' /\ PlannedInv'
    BY <1>1 DEF ReachInv, ReservedInv, ApartInv, PlannedInv, Writing
<1> QED
    BY <1>2 DEF ReachInv

(* The host's next bundle has acknowledged nothing yet *)
LEMMA DeliverMeshReach == IInv /\ ReachInv /\ DeliverMesh => ReachInv'
<1> SUFFICES ASSUME IInv, ReachInv, DeliverMesh PROVE ReachInv'
    OBVIOUS
<1>1. /\ bundle' \in Bundle /\ bundle' # None /\ sent' = [sent EXCEPT !.bundle = bundle']
      /\ bundle'.generation = IF sent.bundle = None THEN 1 ELSE sent.bundle.generation + 1
      /\ UNCHANGED <<disk, pc, state, plan, services>>
    BY DeliversBundle
<1>2. sent \in [bundle : Bundle \cup {None}, boot : Boot \cup {None}] /\ TypeOK
    BY DEF IInv, TypeOK
<1>3. /\ sent.bundle # None => sent.bundle.generation \in Nat \ {0}
      /\ plan.bundle # None => plan.bundle.generation \in Nat \ {0}
      /\ Mesh # None => Mesh.generation \in Nat \ {0}
      /\ Acknowledged \subseteq Nat
    BY <1>2, Generations DEF ReachInv
<1>4. sent'.bundle = bundle' /\ bundle'.generation \in Nat \ {0} /\ bundle' # None
    BY <1>1, <1>2, <1>3
<1>5. sent.bundle # None => sent.bundle.generation < bundle'.generation
    BY <1>1, <1>3
<1>6. Acknowledged' = Acknowledged
    BY <1>1 DEF Acknowledged, disk
<1>7. \A n \in Acknowledged : n < bundle'.generation
  <2> TAKE n \in Acknowledged
  <2>1. CASE n = 0
      BY <1>4, <2>1
  <2>2. CASE n # 0
    <3>1. Mesh # None /\ n <= Mesh.generation
        BY <2>2 DEF ReachInv, MeshInv
    <3>2. sent.bundle # None /\ Mesh.generation <= sent.bundle.generation
        BY <1>3, <3>1 DEF Mesh, ReachInv, MeshInv
    <3> QED
        BY <1>3, <1>4, <1>5, <3>1, <3>2
  <2> QED
      BY <2>1, <2>2
<1>8. CASE plan.bundle # None
  <2>1. Mesh' = plan.bundle /\ Mesh = plan.bundle
      BY <1>1, <1>8 DEF Mesh
  <2>2. plan'.bundle.generation < sent'.bundle.generation
      BY <1>1, <1>3, <1>4, <1>5, <1>8 DEF ReachInv, MeshInv
  <2>3. MeshInv'
      BY <1>1, <1>4, <1>6, <1>8, <2>1, <2>2 DEF ReachInv, MeshInv
  <2>4. StartedInv'
      BY <1>1, <1>6, <2>1, SameEntries DEF ReachInv, StartedInv, Started, disk, services
  <2> QED
      BY <1>1, <2>3, <2>4, UnrelatedReach DEF disk, services
<1>9. CASE plan.bundle = None
  <2>1. Mesh' = bundle'
      BY <1>1, <1>4, <1>9 DEF Mesh
  <2>2. MeshInv'
      BY <1>1, <1>3, <1>4, <1>6, <1>7, <1>9, <2>1 DEF MeshInv
  <2>3. StartedInv'
      BY <1>3, <1>4, <1>6, <1>7, <2>1 DEF StartedInv, Started
  <2> QED
      BY <1>1, <2>2, <2>3, UnrelatedReach DEF disk, services
<1> QED
    BY <1>8, <1>9

LEMMA NextReach == IInv /\ ReachInv /\ [Next]_vars => ReachInv'
<1> SUFFICES ASSUME IInv, ReachInv, [Next]_vars PROVE ReachInv'
    OBVIOUS
<1>1. CASE Daemon
    BY <1>1, StartReach, RecoverReach, ApplyBootstrapReach, SyncMeshReach, PlanStepReach,
       PersistReach, WriteServiceDirectoryReach, SyncGatewayReach, SyncTngReach,
       SaveStateReach DEF Daemon
<1>2. CASE Fail \/ Crash \/ PowerLoss
    BY <1>2, FailReach, CrashReach, PowerLossReach
<1>3. CASE DeliverMesh
    BY <1>3, DeliverMeshReach
<1>4. CASE StartInterrupted \/ Damage \/ Restore \/ DeliverBootstrap \/ Fetch \/ UNCHANGED vars
  <2>1. /\ UNCHANGED <<sent.bundle, saved, pc, state, plan, files, running>>
        /\ bundle' \in {bundle, sent.bundle}
    <3>1. sent \in [bundle : Bundle \cup {None}, boot : Boot \cup {None}]
        BY DEF IInv, TypeOK
    <3> QED
        BY <1>4, <3>1 DEF StartInterrupted, Damage, Restore, DeliverBootstrap, Fetch,
                           vars, inputs, disk, services
  <2>2. Mesh' = Mesh /\ Acknowledged' = Acknowledged
      BY <2>1 DEF Mesh, Acknowledged
  <2>3. MeshInv'
      BY <2>1, <2>2 DEF ReachInv, MeshInv
  <2>4. StartedInv'
      BY <2>1, <2>2, SameEntries DEF ReachInv, StartedInv, Started
  <2> QED
      BY <2>1, <2>3, <2>4, UnrelatedReach
<1> QED
    BY <1>1, <1>2, <1>3, <1>4 DEF Next

(* Every endpoint ever published leads to the peer it was published for, or to
   nobody: at any moment of a publication that takes several steps, fails half
   way or is cut off by a death or a power loss, an entry of the gateway or of
   TNG on the endpoint is for its own route, and a gateway never forwards to a
   port where TNG connects to another peer without looking at the audience.   *)
THEOREM EndpointsReachTheirPeer == Spec => []ReachesTarget
<1>1. IInv /\ ReachInv => ReachesTarget
  <2> SUFFICES ASSUME IInv, ReachInv, NEW e \in promised
               PROVE  Reached(e.listen) \subseteq {e.route}
      BY DEF ReachesTarget
  <2>1. e.route \in Route /\ e.listen # 0 /\ saved.ports[e.route] = e.listen
      BY PortFacts DEF IInv, TypeOK, PromisedInv, Entry
  <2>2. Injective(saved.ports)
      BY DEF IInv, DiskInv
  <2>3. /\ \A g \in GatewayEntries : g.route \in Route /\ saved.ports[g.route] = g.listen
        /\ \A t \in TngEntries : t.route \in Route
        /\ \A t \in TngEntries : t.direct => saved.ports[t.route] = t.listen
        /\ \A g \in GatewayEntries, t \in TngEntries : t.direct => t.listen # g.out
      BY EntriesTyped DEF ReachInv, ReservedInv, ApartInv, GatewayEntry, TngEntry
  <2>4. \A t \in running.tng.serving : t.listen = e.listen /\ t.direct => t.route = e.route
      BY <2>1, <2>2, <2>3 DEF Injective, TngEntries
  <2>5. \A g \in running.gateway.serving : g.listen = e.listen => g.route = e.route
      BY <2>1, <2>2, <2>3 DEF Injective, GatewayEntries
  <2>6. \A g \in running.gateway.serving, t \in running.tng.serving :
            t.listen = g.out /\ Accepts(g, t) => t.route = g.route
      BY <2>3 DEF Accepts, GatewayEntries, TngEntries
  <2> QED
      BY <2>4, <2>5, <2>6 DEF Reached
<1> QED
    BY <1>1, InitIInv, NextIInv, InitReach, NextReach, PTL DEF Spec

=============================================================================
