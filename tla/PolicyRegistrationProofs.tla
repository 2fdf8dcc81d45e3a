----------------------- MODULE PolicyRegistrationProofs -----------------------
(* What the abstract registration gives to those who rely on it, for any     *)
(* number of policies and replicas.                                          *)
EXTENDS PolicyRegistration, TLAPS

Inv == TypeOK /\ RegisteredIsServed

\* Nothing is registered at first.
LEMMA InitInv == Init => Inv
  BY DEF Init, Inv, TypeOK, RegisteredIsServed

\* A replica that starts serves what is offered, and a policy is registered only
\* when every replica serves it.
LEMMA NextInv == ASSUME Inv, [Next]_vars PROVE Inv'
<1>1. ASSUME NEW config \in SUBSET Policies, Offer(config) PROVE Inv'
  BY <1>1 DEF Offer, Inv, TypeOK, RegisteredIsServed
<1>2. ASSUME NEW k \in Slots, Start(k) PROVE Inv'
  BY <1>2 DEF Start, Inv, TypeOK, RegisteredIsServed
<1>3. ASSUME NEW k \in Slots, Stop(k) PROVE Inv'
  BY <1>3 DEF Stop, Inv, TypeOK, RegisteredIsServed
<1>4. ASSUME NEW p \in Policies, Retire(p) PROVE Inv'
  BY <1>4 DEF Retire, Inv, TypeOK, RegisteredIsServed
<1>5. ASSUME NEW p \in Policies, Register(p) PROVE Inv'
  BY <1>5 DEF Register, Inv, TypeOK, RegisteredIsServed
<1>6. ASSUME NEW p \in Policies, Unregister(p) PROVE Inv'
  BY <1>6 DEF Unregister, Inv, TypeOK, RegisteredIsServed
<1>7. CASE UNCHANGED vars
  BY <1>7 DEF vars, Inv, TypeOK, RegisteredIsServed
<1> QED
  BY <1>1, <1>2, <1>3, <1>4, <1>5, <1>6, <1>7 DEF Next

\* A registered policy that is not being deleted is served by every replica that
\* has started, and will be by those that start (policystatus_utils.go:88-130).
THEOREM RegisteredServed == Spec => []RegisteredIsServed
<1>1. Inv => RegisteredIsServed
  BY DEF Inv
<1> QED
  BY <1>1, InitInv, NextInv, PTL DEF Spec
===============================================================================
