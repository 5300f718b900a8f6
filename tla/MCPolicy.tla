------------------------------- MODULE MCPolicy -------------------------------
(* The choice of the SIM card, for TLC.  In a behaviour of the first kind nobody *)
(* asks for a switch but a low signal; in one of the second kind everybody may. *)
EXTENDS SimPolicy

VARIABLE asked  \* may a switch be asked for?

NobodyAsks ==
  /\ UNCHANGED <<main, policy, dualsim>>
  /\ flag' => flag \/ st = "CONNECTED"
  /\ \A s \in Sims : sim'[s].usage = sim[s].usage

PolicyInit == Init /\ asked \in BOOLEAN

PolicyNext == Next /\ (~asked => NobodyAsks) /\ UNCHANGED asked

PolicySpec == PolicyInit /\ [][PolicyNext]_<<simVars, asked>> /\ WF_simVars(RedialHandle)

\* CardsAreKnown, as long as no switch is asked for in the middle of the AT
\* commands: the card that is left then may be booked as missing (l.5110, l.9647-9668).
ScannedCardsAreKnown == ~asked => CardsAreKnown
===============================================================================
