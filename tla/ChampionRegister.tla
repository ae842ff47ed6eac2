--------------------------- MODULE ChampionRegister ---------------------------
(***************************************************************************)
(* What the Promotions of a target promise: a register that holds its      *)
(* champion and the Release the champion displaced.  A Release may take    *)
(* the champion's place, or the champion may give its place back.          *)
(***************************************************************************)
EXTENDS Naturals

CONSTANTS Targets, Releases, Nobody

VARIABLES champion, displaced

registerVars == <<champion, displaced>>

RegisterInit ==
    /\ champion = [t \in Targets |-> Nobody]
    /\ displaced = [t \in Targets |-> Nobody]

Accept(t, r) ==
    /\ r # champion[t]
    /\ champion' = [champion EXCEPT ![t] = r]
    /\ displaced' = [displaced EXCEPT ![t] = champion[t]]

RollBack(t) ==
    /\ displaced[t] # Nobody
    /\ champion' = [champion EXCEPT ![t] = displaced[t]]
    /\ displaced' = [displaced EXCEPT ![t] = champion[t]]

RegisterNext == \E t \in Targets : RollBack(t) \/ \E r \in Releases : Accept(t, r)

RegisterSpec == RegisterInit /\ [][RegisterNext]_registerVars

=============================================================================
