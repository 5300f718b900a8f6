---------------------------- MODULE LinkService ----------------------------
(***************************************************************************)
(* What the redial daemon promises the other services of the router: which *)
(* of its WWANs it tells them are up, and when it may change its mind.  A  *)
(* service that keeps routes, tunnels or a backup link by the broadcast    *)
(* VIF_LINK_CHANGE messages sees nothing else of the dialer.               *)
(***************************************************************************)
EXTENDS FiniteSets

CONSTANT Wwans

VARIABLES
  phase,  \* "down", "dialing" or "online"
  told    \* the WWANs the others were last told are up

linkVars == <<phase, told>>

LinkInit == phase = "down" /\ told = {}

\* A dial begins with nothing promised.
Dial == phase = "down" /\ phase' = "dialing" /\ told = {} /\ UNCHANGED told

GiveUp == phase = "dialing" /\ phase' = "down" /\ UNCHANGED told

\* A dial has made it: the others hear of all its WWANs at once.
Announce ==
  /\ phase = "dialing" /\ phase' = "online"
  /\ \E up \in (SUBSET Wwans) \ {{}} : told' = up

\* A WWAN of an established connection is lost, or is back: one at a time.
Flap ==
  /\ phase = "online" /\ UNCHANGED phase
  /\ \E w \in Wwans : told' \in {told \cup {w}, told \ {w}}

\* The connection is over: nothing is left promised.
Withdraw == phase = "online" /\ phase' = "down" /\ told' = {}

LinkNext == Dial \/ GiveUp \/ Announce \/ Flap \/ Withdraw

LinkSpec == LinkInit /\ [][LinkNext]_linkVars
=============================================================================
