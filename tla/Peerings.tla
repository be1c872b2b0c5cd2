------------------------------ MODULE Peerings ------------------------------
(***************************************************************************)
(* peerings.yaml: the hosts outside the mesh that the security groups of   *)
(* all services admit, and what is rendered from it.  A CIDR is the set of *)
(* hosts it covers.                                                        *)
(***************************************************************************)
EXTENDS Naturals, FiniteSets

Scope == {"control", "status", "ssh", "agent_card", "connect", "mesh"}

EffectiveScope(e) ==
    IF e.scope # {} THEN e.scope
    ELSE IF e.role = "operator" THEN Scope \ {"mesh"}
    ELSE {"agent_card", "connect"}

HasScope(e, scope) == scope \in EffectiveScope(e)

CidrsForScope(P, scope) == {e.cidr : e \in {f \in P : HasScope(f, scope)}}

Labels(P) == {e.label : e \in P}

\* Labels name one entry each; roles and scopes are of the documented ones
ValidFile(P) ==
    /\ Cardinality(Labels(P)) = Cardinality(P)
    /\ \A e \in P : e.role \in {"operator", "peer"} /\ e.scope \subseteq Scope

Added(P, e) == P \cup {e}
Removed(P, label) == {e \in P : e.label # label}

\* migrate keeps an entry that has the label of one it would write
Migrated(P, legacy) == P \cup {e \in legacy : e.label \notin Labels(P)}

-----------------------------------------------------------------------------
(* Direct injection wants an operator entry that covers this host *)

HasOperatorControlStatus(P) ==
    \E e \in P : e.role = "operator" /\ HasScope(e, "control") /\ HasScope(e, "status")

ControlCidrsContain(P, host) ==
    \E e \in P : e.role = "operator" /\ HasScope(e, "control") /\ host \in e.cidr

DirectInjectionAllowed(P, egress) ==
    HasOperatorControlStatus(P) /\ ControlCidrsContain(P, egress)

-----------------------------------------------------------------------------
(* The rules of a service's security group: whom each kind of port admits. *)
(* Peers of the mesh reach the connect and the mesh ports.                 *)

ConnectPeers(P, peers) == peers \cup UNION CidrsForScope(P, "connect")

SecurityGroup(P, peers, ssh) ==
    [scope \in Scope |->
        CASE scope = "connect" -> ConnectPeers(P, peers)
          [] scope = "mesh"    -> peers \cup UNION CidrsForScope(P, "mesh")
          [] scope = "ssh"     -> IF ssh THEN UNION CidrsForScope(P, "ssh") ELSE {}
          [] OTHER             -> UNION CidrsForScope(P, scope)]

Closed == [scope \in Scope |-> {}]

=============================================================================
