---------------------------- MODULE SecretCustody ----------------------------
(***************************************************************************)
(* What the Trustee side of the control plane promises: nothing is granted *)
(* or stored for a service that is not in custody, custody ends only when  *)
(* nothing is left, and one step touches the grant or the repository of    *)
(* one service.                                                            *)
(***************************************************************************)
CONSTANTS Service, Binding, NoBinding, Path

VARIABLES
    custody,  \* the services a local record accounts for
    grant,    \* grant[s]: the binding the remote policy admits, or NoBinding
    stored    \* stored[s]: the paths in the remote repository of s

vars == <<custody, grant, stored>>

Init ==
    /\ custody = {}
    /\ grant = [s \in Service |-> NoBinding]
    /\ stored = [s \in Service |-> {}]

Take(s) ==
    /\ custody' = custody \cup {s}
    /\ UNCHANGED <<grant, stored>>

SetGrant(s) ==
    /\ s \in custody
    /\ \E b \in Binding \cup {NoBinding} : grant' = [grant EXCEPT ![s] = b]
    /\ UNCHANGED <<custody, stored>>

SetStored(s) ==
    /\ s \in custody
    /\ \E paths \in SUBSET Path : stored' = [stored EXCEPT ![s] = paths]
    /\ UNCHANGED <<custody, grant>>

Release(s) ==
    /\ s \in custody
    /\ grant[s] = NoBinding /\ stored[s] = {}
    /\ custody' = custody \ {s}
    /\ UNCHANGED <<grant, stored>>

Next == \E s \in Service : Take(s) \/ SetGrant(s) \/ SetStored(s) \/ Release(s)

Spec == Init /\ [][Next]_vars

=============================================================================
