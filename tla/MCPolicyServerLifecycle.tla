------------------------ MODULE MCPolicyServerLifecycle ------------------------
(***************************************************************************)
(* Instances of PolicyServerLifecycle for TLC.                             *)
(***************************************************************************)
EXTENDS PolicyServerLifecycle, TLC

CONSTANTS s1, s2, cap, ap, ca1, ca2, ca3, ca4

Plain ==
    [image |-> "v1", replicas |-> 1, account |-> "default", annotations |-> {},
     env |-> {}, sources |-> {}, verification |-> "", pullSecret |-> ""]

\* Edits of a single part, each of which must be noticed by a comparison of its own.
\* The pull secret is noticed by the environment variable that comes with it.
Edits ==
    { Plain,
      [Plain EXCEPT !.image = "v2"],
      [Plain EXCEPT !.replicas = 2],
      [Plain EXCEPT !.account = "scanner"],
      [Plain EXCEPT !.annotations = {"audited"}],
      [Plain EXCEPT !.sources = {"insecure registry"}],
      [Plain EXCEPT !.pullSecret = "credentials"] }

PlainSpec == { Plain }

BothOwned == [p \in {cap, ap} |-> s1]
CapOwned == [p \in {cap} |-> s1]
NoneOwned == [p \in {} |-> s1]
=============================================================================
