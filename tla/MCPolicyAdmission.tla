-------------------------- MODULE MCPolicyAdmission --------------------------
(***************************************************************************)
(* Instances of PolicyAdmission for TLC.                                   *)
(***************************************************************************)
EXTENDS PolicyAdmission

\* One AdmissionPolicy.
OnePolicy     == {"p"}
OneName       == [p |-> <<"psp">>]
OneNamespace  == [p |-> <<"team">>]

\* Policy c of namespace a-b and policy b-c of namespace a.
Neighbours          == {"p", "q"}
NeighbourNames      == [p |-> <<"c">>, q |-> <<"b", "c">>]
NeighbourNamespaces == [p |-> <<"a", "b">>, q |-> <<"a">>]
=============================================================================
