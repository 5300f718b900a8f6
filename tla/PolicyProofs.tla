---------------------------- MODULE PolicyProofs ----------------------------
(***************************************************************************)
(* What holds of SimPolicy and of CellInfo, on which its signal limits     *)
(* rest, for every value of their constants: any outcomes of a scan, any   *)
(* limits on retries and resets, any requests; any cells and polls.        *)
(*                                                                         *)
(* That the daemon knows its cards depends on when the card in use may be  *)
(* changed.  As long as a switch is only asked for by a connection that    *)
(* ends, the flag is down in every arm that scans, so the error a scan     *)
(* ended in still belongs to the card in use when STARTUP books it.        *)
(*                                                                         *)
(* What is shown of the signal and of the card is what the modem said      *)
(* last: a signal field the family's commands never fill stays empty, and  *)
(* at the end of a poll the others have been filled again, by the survey   *)
(* or by the command after it.                                             *)
(***************************************************************************)
EXTENDS MCPolicy, CellInfo, SequenceTheorems, TLAPS

\* The error found last is "no SIM card" only on the way to the next scan, and
\* until STARTUP has changed the card it is the card in use that is missing.
ErrorIsOfCard ==
  errno = "NOSIM" => /\ st \in {"STARTUP", "LOAD_DRV", "REBOOT"}
                     /\ st = "STARTUP" => cur \notin present

\* Nobody wants another card but a connection that has just ended.
CardIsKept ==
  /\ flag => st \in {"CONNECTED", "STARTUP", "REBOOT"}
  /\ IF dualsim THEN \A s \in Sims : sim[s].usage = "normal"
                ELSE cur = policy /\ ~flag /\ ~backTmr

Steady == NoSimWasSeen /\ SleepMeansNoSim /\ ErrorIsOfCard /\ CardIsKept

PolicyInv == TypeOK /\ (~asked => Steady)

-----------------------------------------------------------------------------
(* Lemmas on the helpers.                                                  *)

\* A counter that is increased up to a limit stays within the limit.
LEMMA CapIsNat ==
  ASSUME NEW n \in Nat, NEW m \in Nat
  PROVE  Min({n + 1, m}) \in 0 .. m
<1> DEFINE S == {n + 1, m}
<1>1. \E x \in S : \A y \in S : x =< y
  <2>1. CASE n + 1 =< m
    BY <2>1
  <2>2. CASE ~(n + 1 =< m)
    BY <2>2
  <2> QED
    BY <2>1, <2>2
<1>2. Min(S) \in S /\ \A y \in S : Min(S) =< y
  BY <1>1 DEF Min
<1>3. Min(S) \in Nat /\ Min(S) =< m
  BY <1>2
<1> QED
  BY <1>3

\* Remembering the outcome of a scan touches nothing but the card in use.
LEMMA RememberIsTyped ==
  ASSUME TypeOK
  PROVE  /\ Remember \in [Sims -> SimStatus]
         /\ Remember[cur].errno = errno
         /\ \A s \in Sims : /\ s # cur => Remember[s] = sim[s]
                            /\ Remember[s].usage = sim[s].usage
<1> USE DEF TypeOK
<1> DEFINE n == IF errno = "OK" THEN 0 ELSE Min({sim[cur].retries + 1, MaxSimRetry})
<1>1. sim[cur] \in SimStatus /\ sim[cur].retries \in Nat /\ MaxSimRetry \in Nat
  BY SimConstantsOK DEF SimStatus
<1>2. n \in 0 .. MaxSimRetry
  BY <1>1, CapIsNat
<1> HIDE DEF n
<1> DEFINE rec == [sim[cur] EXCEPT !.errno = errno, !.retries = n]
<1>3. /\ rec \in SimStatus
      /\ rec.errno = errno /\ rec.usage = sim[cur].usage
  BY <1>1, <1>2 DEF SimStatus
<1>4. Remember = [sim EXCEPT ![cur] = rec]
  BY <1>1 DEF Remember, n, SimStatus
<1> HIDE DEF rec
<1> QED
  BY <1>3, <1>4

\* No error of a scan is "no SIM card" but that of an empty slot.
LEMMA FoundIsError ==
  ASSUME NEW e \in Found
  PROVE  e \in Errors /\ (e = "NOSIM" => cur \notin present)
BY SimConstantsOK DEF Found, Errors

LEMMA OutcomeIsError ==
  ASSUME NEW e \in Outcomes \cup {"NOSIM", "NAK"}
  PROVE  e \in Errors
BY SimConstantsOK DEF Errors

-----------------------------------------------------------------------------
(* The types.                                                              *)

\* DoRedial keeps what it sets within its type.
LEMMA RedialIsTyped ==
  ASSUME TypeOK, NEW heard \in [Sims -> SimStatus], DoRedial(heard)
  PROVE  /\ st' \in SimStates /\ errno' \in Errors
         /\ sim' \in [Sims -> SimStatus]
<1> DEFINE fresh == [s \in Sims |-> [heard[s] EXCEPT !.errno = "OK", !.retries = 0]]
<1>1. MaxSimRetry \in Nat
  BY SimConstantsOK
<1>2. ASSUME NEW s \in Sims
      PROVE  [heard[s] EXCEPT !.errno = "OK", !.retries = 0] \in SimStatus
  <2>1. heard[s] \in SimStatus /\ "OK" \in Errors /\ 0 \in 0 .. MaxSimRetry
    BY <1>1 DEF Errors
  <2> QED
    BY <2>1 DEF SimStatus
<1>3. fresh \in [Sims -> SimStatus]
  BY <1>2
<1> HIDE DEF fresh
<1>4. sim' \in {heard, fresh}
  BY DEF DoRedial, fresh
<1> QED
  BY <1>3, <1>4 DEF DoRedial, TypeOK, SimStates, Errors, EarlyStates

\* A report of a card's traffic changes nothing else that is known of it.
LEMMA HeardIsTyped ==
  ASSUME TypeOK, NEW s \in Sims, NEW u \in Usages
  PROVE  /\ [sim EXCEPT ![s].usage = u] \in [Sims -> SimStatus]
         /\ [sim EXCEPT ![s].usage = u][s].usage = u
<1>1. u \in AllUsages /\ sim[s] \in SimStatus
  BY SimConstantsOK DEF TypeOK
<1>2. [sim[s] EXCEPT !.usage = u] \in SimStatus /\ [sim[s] EXCEPT !.usage = u].usage = u
  BY <1>1 DEF SimStatus
<1> QED
  BY <1>2 DEF TypeOK

LEMMA OtherIsSim ==
  ASSUME NEW s \in Sims
  PROVE  Other(s) \in Sims /\ Other(s) # s
BY DEF Sims, Other

LEMMA SwitchIsTyped ==
  ASSUME TypeOK, NEW wrong \in BOOLEAN, NEW changed \in BOOLEAN, SwitchIf(wrong, changed)
  PROVE  /\ st' \in SimStates /\ errno' \in Errors
         /\ sim' \in [Sims -> SimStatus]
         /\ flag' \in BOOLEAN
<1>1. flag' \in BOOLEAN
  BY Zenon DEF SwitchIf, TypeOK
<1>2. CASE DoRedial(sim)
  BY <1>1, <1>2, RedialIsTyped DEF TypeOK
<1>3. CASE UNCHANGED <<st, errno, sim>>
  BY <1>1, <1>3 DEF TypeOK
<1> QED
  BY <1>2, <1>3 DEF SwitchIf

\* Nothing the policy does, and nothing anybody asks of it, leaves the types.
LEMMA TypeStep ==
  ASSUME TypeOK, Next
  PROVE  TypeOK'
<1>0. Retries \in Nat /\ MaxReset \in Nat /\ MaxSimRetry \in Nat /\ MaxRequests \in Nat
  BY SimConstantsOK
<1>1. ASSUME ModemStartup PROVE TypeOK'
  <2>1. sim' \in [Sims -> SimStatus]
    BY <1>1, RememberIsTyped DEF ModemStartup
  <2>2. resetCnt' \in 0 .. MaxReset + 1
    BY <1>0, <1>1, CapIsNat DEF ModemStartup, TypeOK
  <2>3. Min({retryCnt + 1, Retries + 1}) \in 0 .. Retries + 1
    BY <1>0, CapIsNat DEF TypeOK
  <2>4. cur' \in Sims
    BY <1>1, OtherIsSim DEF ModemStartup, DoSwitch, BackupSim, TypeOK
  <2>5. retryCnt' \in 0 .. Retries + 1
    BY <1>0, <1>1, <2>3 DEF ModemStartup, DoSwitch, TypeOK
  <2>6. backTmr' \in BOOLEAN
    BY <1>1, SimConstantsOK, Zenon DEF ModemStartup, DoSwitch, TypeOK
  <2> QED
    BY <1>1, <2>1, <2>2, <2>4, <2>5, <2>6
    DEF ModemStartup, TypeOK, setup, SimStates, EarlyStates
<1>2. ASSUME TooManyResets \/ LoadDrv \/ WaitAt \/ ModemInit \/ ModemReady PROVE TypeOK'
  BY <1>2 DEF TooManyResets, LoadDrv, WaitAt, ModemInit, ModemReady, Rescan, TypeOK, setup,
              SimStates, EarlyStates, Errors
<1>3. ASSUME AtCommands PROVE TypeOK'
  BY <1>0, <1>3, FoundIsError
  DEF AtCommands, Rescan, TypeOK, setup, SimStates, EarlyStates, Errors
<1>4. ASSUME DialUp \/ DialEnds \/ LinkLost PROVE TypeOK'
  BY <1>4 DEF DialUp, DialEnds, LinkLost, TypeOK, setup, SimStates, EarlyStates
<1>5. ASSUME NEW arm \in {"LOAD_DRV", "MODEM_INIT", "READY", "AT", "DIAL"}, SwitchAtOnce(arm)
      PROVE  TypeOK'
  BY <1>5, OutcomeIsError DEF SwitchAtOnce, TypeOK, setup, SimStates, EarlyStates
<1>6. ASSUME UpTimer PROVE TypeOK'
  BY <1>0, <1>6 DEF UpTimer, TypeOK, setup
<1>7. ASSUME BackTimer PROVE TypeOK'
  BY <1>7 DEF BackTimer, TypeOK, setup, SimStates, EarlyStates
<1>8. ASSUME NEW kind \in {"dual", "main", "sdwan", "redial", "signal"}, Asked(kind)
      PROVE  requests' \in 0 .. MaxRequests
  BY <1>0, <1>8 DEF Asked, TypeOK
<1>9. ASSUME EnableDual PROVE TypeOK'
  <2>1. (cur # main) \in BOOLEAN /\ (~dualsim) \in BOOLEAN
    OBVIOUS
  <2> QED
    BY <1>8, <1>9, <2>1, SwitchIsTyped DEF EnableDual, TypeOK
<1>10. ASSUME DisableDual PROVE TypeOK'
  BY <1>8, <1>10 DEF DisableDual, TypeOK
<1>11. ASSUME SetMain PROVE TypeOK'
  <2>1. PICK wrong \in BOOLEAN, changed \in BOOLEAN : SwitchIf(wrong, changed)
    BY <1>11 DEF SetMain
  <2>2. policy' \in Sims \cup {Random} /\ main' \in Sims
    BY <1>11 DEF SetMain
  <2> QED
    BY <1>8, <1>11, <2>1, <2>2, SwitchIsTyped DEF SetMain, TypeOK
<1>12. ASSUME UnsetMain PROVE TypeOK'
  <2>1. PICK wrong \in BOOLEAN, changed \in BOOLEAN : SwitchIf(wrong, changed)
    BY <1>12 DEF UnsetMain
  <2>2. policy' \in Sims \cup {Random} /\ main' \in Sims
    BY <1>12 DEF UnsetMain, Sims
  <2> QED
    BY <1>8, <1>12, <2>1, <2>2, SwitchIsTyped DEF UnsetMain, TypeOK
<1>13. ASSUME SdwanSwitch \/ Redial PROVE TypeOK'
  <2>1. DoRedial(sim) /\ sim \in [Sims -> SimStatus]
    BY <1>13 DEF SdwanSwitch, Redial, TypeOK
  <2> QED
    BY <1>8, <1>13, <2>1, RedialIsTyped DEF SdwanSwitch, Redial, TypeOK
<1>14. ASSUME LowSignal PROVE TypeOK'
  BY <1>8, <1>14 DEF LowSignal, TypeOK, SimStates, EarlyStates
<1>15. ASSUME NEW s \in Sims, NEW u \in Usages, TrafficReport(s, u) PROVE TypeOK'
  <2> DEFINE heard == [sim EXCEPT ![s].usage = u]
  <2>1. heard \in [Sims -> SimStatus]
    BY HeardIsTyped
  <2> HIDE DEF heard
  <2>2. \/ flag' = TRUE /\ DoRedial(heard)
        \/ sim' = heard /\ UNCHANGED <<st, flag, errno>>
    BY <1>15 DEF TrafficReport, heard
  <2>3. /\ st' \in SimStates /\ errno' \in Errors
        /\ sim' \in [Sims -> SimStatus] /\ flag' \in BOOLEAN
    BY <2>1, <2>2, RedialIsTyped DEF TypeOK
  <2> QED
    BY <1>15, <2>3 DEF TrafficReport, TypeOK, setup
<1> QED
  BY <1>1, <1>2, <1>3, <1>4, <1>5, <1>6, <1>7, <1>9, <1>10, <1>11, <1>12, <1>13, <1>14, <1>15
  DEF Next, RedialHandle, Ask

-----------------------------------------------------------------------------
(* The cards, as long as nobody asks for another one.                      *)

\* The card in use is never wrong.
LEMMA NoSimIsWrong ==
  ASSUME TypeOK, CardIsKept
  PROVE  ~SimIsWrong
<1>1. cur \in Sims
  BY DEF TypeOK
<1>2. CASE dualsim
  BY <1>1, <1>2 DEF CardIsKept, SimIsWrong
<1>3. CASE ~dualsim
  BY <1>3 DEF CardIsKept, SimIsWrong
<1> QED
  BY <1>2, <1>3

\* What DoRedial leaves of the cards: nothing, or what was known of them.
LEMMA RedialKeepsCards ==
  ASSUME TypeOK, Steady, DoRedial(sim), UNCHANGED <<present, cur, dualsim>>
  PROVE  NoSimWasSeen' /\ SleepMeansNoSim' /\ ErrorIsOfCard'
<1>0. sim \in [Sims -> SimStatus]
  BY DEF TypeOK
<1>1. CASE sim' = sim /\ st \in EarlyStates /\ UNCHANGED <<st, errno>>
  BY <1>1 DEF Steady, NoSimWasSeen, SleepMeansNoSim, ErrorIsOfCard
<1>2. CASE sim' = sim /\ st \in Linking /\ st' = "STARTUP" /\ UNCHANGED errno
  BY <1>2 DEF Steady, NoSimWasSeen, SleepMeansNoSim, ErrorIsOfCard, Linking
<1>3. CASE /\ st' = "STARTUP" /\ errno' = "OK"
           /\ sim' = [s \in Sims |-> [sim[s] EXCEPT !.errno = "OK", !.retries = 0]]
  <2>1. \A s \in Sims : sim'[s].errno = "OK"
    BY <1>0, <1>3 DEF SimStatus
  <2> QED
    BY <1>3, <2>1 DEF NoSimWasSeen, SleepMeansNoSim, ErrorIsOfCard
<1> QED
  BY <1>1, <1>2, <1>3 DEF DoRedial

\* What a switch that is only asked for leaves of the cards.
LEMMA SwitchKeepsCards ==
  ASSUME TypeOK, Steady, NEW wrong, NEW changed, SwitchIf(wrong, changed),
         UNCHANGED <<present, cur, dualsim>>
  PROVE  NoSimWasSeen' /\ SleepMeansNoSim' /\ ErrorIsOfCard'
<1>1. CASE DoRedial(sim)
  BY <1>1, RedialKeepsCards
<1>2. CASE UNCHANGED <<st, errno, sim>>
  BY <1>2 DEF Steady, NoSimWasSeen, SleepMeansNoSim, ErrorIsOfCard
<1> QED
  BY <1>1, <1>2 DEF SwitchIf

\* A flag that is up, or that only the end of a connection has raised.
LEMMA FlagIsOfConnection ==
  ASSUME CardIsKept, NobodyAsks, flag'
  PROVE  st \in {"CONNECTED", "STARTUP", "REBOOT"}
BY DEF CardIsKept, NobodyAsks

\* A step that leaves the settings and keeps the flag where it may be.
LEMMA CardStaysKept ==
  ASSUME Steady, NobodyAsks,
         flag' => st' \in {"CONNECTED", "STARTUP", "REBOOT"},
         ~dualsim => /\ UNCHANGED cur
                     /\ ~flag' /\ ~backTmr'
  PROVE  CardIsKept'
<1>1. UNCHANGED <<policy, dualsim>>
  BY DEF NobodyAsks
<1>2. CASE dualsim
  <2>1. \A s \in Sims : sim'[s].usage = "normal"
    BY <1>2 DEF Steady, CardIsKept, NobodyAsks
  <2> QED
    BY <1>1, <1>2, <2>1 DEF CardIsKept
<1>3. CASE ~dualsim
  BY <1>1, <1>3 DEF Steady, CardIsKept
<1> QED
  BY <1>2, <1>3

\* Every step of the policy and of its environment, but a request for a card.
LEMMA SteadyStep ==
  ASSUME TypeOK, Steady, Next, NobodyAsks
  PROVE  Steady'
<1>0. /\ NoSimWasSeen /\ SleepMeansNoSim /\ ErrorIsOfCard /\ CardIsKept
      /\ ~SimIsWrong
  BY NoSimIsWrong DEF Steady
<1>1. flag' => st \in {"CONNECTED", "STARTUP", "REBOOT"}
  BY <1>0, FlagIsOfConnection
<1>2. UNCHANGED <<main, policy, dualsim>>
  BY DEF NobodyAsks
<1>3. ~dualsim => cur = policy /\ ~flag /\ ~backTmr
  BY <1>0 DEF CardIsKept
<1>4. ASSUME ModemStartup PROVE Steady'
  <2>1. NoSimWasSeen'
    <3>1. sim' = Remember /\ st = "STARTUP" /\ UNCHANGED present
      BY <1>4 DEF ModemStartup, setup
    <3>2. ASSUME NEW s \in Sims, Remember[s].errno = "NOSIM" PROVE s \notin present
      <4>1. CASE s = cur
        BY <1>0, <3>1, <3>2, <4>1, RememberIsTyped DEF ErrorIsOfCard
      <4>2. CASE s # cur
        BY <1>0, <3>2, <4>2, RememberIsTyped DEF NoSimWasSeen
      <4> QED
        BY <4>1, <4>2
    <3> QED
      BY <3>1, <3>2 DEF NoSimWasSeen
  <2>2. st' = "LOAD_DRV" /\ flag' = FALSE
    BY <1>4 DEF ModemStartup
  <2>3. SleepMeansNoSim' /\ ErrorIsOfCard'
    BY <2>2 DEF SleepMeansNoSim, ErrorIsOfCard
  <2>4. ~dualsim => UNCHANGED <<cur, backTmr>>
    BY <1>0, <1>3, <1>4 DEF ModemStartup
  <2> QED
    BY <1>3, <2>1, <2>2, <2>3, <2>4, CardStaysKept DEF Steady
<1>5. ASSUME TooManyResets PROVE Steady'
  <2>1. st' = "REBOOT" /\ UNCHANGED <<cur, flag, errno, sim, backTmr, present, dualsim>>
    BY <1>5 DEF TooManyResets, setup
  <2>2. CardIsKept'
    BY <1>3, <2>1, CardStaysKept
  <2> QED
    BY <1>0, <2>1, <2>2 DEF Steady, NoSimWasSeen, SleepMeansNoSim, ErrorIsOfCard
<1>6. ASSUME LoadDrv \/ WaitAt \/ ModemReady PROVE Steady'
  <2>1. /\ UNCHANGED <<cur, flag, sim, backTmr, present, dualsim>>
        /\ st \in {"LOAD_DRV", "WAIT_AT", "READY"}
        /\ st' \in {"STARTUP", "WAIT_AT", "MODEM_INIT", "AT"}
    BY <1>6 DEF LoadDrv, WaitAt, ModemReady, Rescan, GoOn, setup
  <2>2. ~flag
    BY <1>0, <2>1 DEF CardIsKept
  <2>3. errno' = "NOSIM" => st = "WAIT_AT" /\ errno = "NOSIM"
    BY <1>6, <2>2 DEF LoadDrv, WaitAt, ModemReady, Rescan
  <2>4. errno' # "NOSIM"
    BY <1>0, <2>3 DEF ErrorIsOfCard
  <2>5. CardIsKept'
    BY <1>3, <2>1, <2>2, CardStaysKept
  <2> QED
    BY <1>0, <2>1, <2>4, <2>5 DEF Steady, NoSimWasSeen, SleepMeansNoSim, ErrorIsOfCard
<1>7. ASSUME ModemInit PROVE Steady'
  <2>1. /\ UNCHANGED <<cur, flag, sim, backTmr, present, dualsim>> /\ ~flag
        /\ errno' = "OK" /\ st' = IF SleepState THEN "SLEEP" ELSE "READY"
    BY <1>7 DEF ModemInit, GoOn, setup
  <2>2. CardIsKept'
    BY <1>3, <2>1, CardStaysKept
  <2>3. SleepState => IF dualsim THEN present = {} ELSE cur \notin present
    BY <1>0 DEF SleepState, NoSimWasSeen, TypeOK
  <2>4. SleepMeansNoSim'
    BY <2>1, <2>3 DEF SleepMeansNoSim
  <2> QED
    BY <1>0, <2>1, <2>2, <2>4 DEF Steady, NoSimWasSeen, ErrorIsOfCard
<1>8. ASSUME AtCommands PROVE Steady'
  <2>1. /\ UNCHANGED <<cur, flag, sim, backTmr, present, dualsim>> /\ ~flag
        /\ \/ errno' = "OK" /\ st' = "DIAL"
           \/ errno' \in Found /\ st' = "STARTUP"
    BY <1>8 DEF AtCommands, GoOn, Rescan, setup
  <2>2. CardIsKept'
    BY <1>3, <2>1, CardStaysKept
  <2>3. ErrorIsOfCard'
    BY <2>1, FoundIsError DEF ErrorIsOfCard
  <2> QED
    BY <1>0, <2>1, <2>2, <2>3 DEF Steady, NoSimWasSeen, SleepMeansNoSim
<1>9. ASSUME DialUp \/ DialEnds \/ LinkLost PROVE Steady'
  <2>1. /\ UNCHANGED <<cur, flag, errno, sim, backTmr, present, dualsim>>
        /\ st \in {"DIAL", "CONNECTING", "CONNECTED"}
        /\ st' \in {"CONNECTING", "CONNECTED", "STARTUP", "REBOOT"}
        /\ st \in {"DIAL", "CONNECTING"} => ~flag
        /\ st = "CONNECTED" => st' = "STARTUP"
    <3>1. CASE DialUp
      <4>1. st = "DIAL" /\ st' \in {"CONNECTING", "STARTUP", "REBOOT"}
        BY <3>1 DEF DialUp, GoOn
      <4>2. UNCHANGED <<cur, flag, errno, sim, backTmr, present, dualsim>>
        BY <3>1 DEF DialUp, setup
      <4>3. ~flag
        BY <1>0, <4>1 DEF CardIsKept
      <4> QED
        BY <4>1, <4>2, <4>3
    <3>2. CASE DialEnds
      BY <1>0, <3>2 DEF DialEnds, setup, CardIsKept
    <3>3. CASE LinkLost
      BY <1>0, <3>3 DEF LinkLost, setup, CardIsKept
    <3> QED
      BY <1>9, <3>1, <3>2, <3>3
  <2>2. errno # "NOSIM"
    BY <1>0, <2>1 DEF ErrorIsOfCard
  <2>3. CardIsKept'
    BY <1>3, <2>1, CardStaysKept
  <2> QED
    BY <1>0, <2>1, <2>2, <2>3 DEF Steady, NoSimWasSeen, SleepMeansNoSim, ErrorIsOfCard
<1>10. ASSUME NEW arm \in {"LOAD_DRV", "MODEM_INIT", "READY", "AT", "DIAL"}, SwitchAtOnce(arm)
       PROVE  Steady'
  BY <1>0, <1>10 DEF SwitchAtOnce, CardIsKept
<1>11. ASSUME UpTimer PROVE Steady'
  BY <1>0, <1>3, <1>11, CardStaysKept
  DEF UpTimer, setup, Steady, NoSimWasSeen, SleepMeansNoSim, ErrorIsOfCard
<1>12. ASSUME BackTimer PROVE Steady'
  <2>1. /\ UNCHANGED <<cur, errno, sim, present, dualsim>> /\ backTmr /\ dualsim /\ flag'
        /\ st' = IF st \in Linking THEN "STARTUP" ELSE st
    BY <1>3, <1>12 DEF BackTimer, setup
  <2>2. st' \in {"STARTUP", "REBOOT"} /\ (st = "CONNECTED" \/ st' = st)
    BY <1>1, <2>1 DEF Linking
  <2>3. errno' = "NOSIM" => st' = st
    BY <1>0, <2>1, <2>2 DEF ErrorIsOfCard
  <2>4. CardIsKept'
    BY <2>1, <2>2, CardStaysKept
  <2> QED
    BY <1>0, <2>1, <2>2, <2>3, <2>4
    DEF Steady, NoSimWasSeen, SleepMeansNoSim, ErrorIsOfCard
<1>13. ASSUME NEW wrong, NEW changed, SwitchIf(wrong, changed), wrong => dualsim,
              UNCHANGED <<present, cur, dualsim, backTmr>>
       PROVE  Steady'
  <2>1. NoSimWasSeen' /\ SleepMeansNoSim' /\ ErrorIsOfCard'
    BY <1>13, SwitchKeepsCards
  <2>2. st' = st \/ st' = "STARTUP"
    BY <1>13 DEF SwitchIf, DoRedial
  <2>3. ~dualsim => ~flag'
    BY <1>3, <1>13 DEF SwitchIf
  <2>4. CardIsKept'
    BY <1>1, <1>3, <1>13, <2>2, <2>3, CardStaysKept
  <2> QED
    BY <2>1, <2>4 DEF Steady
<1>14. ASSUME EnableDual PROVE Steady'
  <2>1. SwitchIf(cur # main, ~dualsim) /\ dualsim /\ UNCHANGED <<present, cur, backTmr>>
    BY <1>2, <1>14 DEF EnableDual
  <2> QED
    BY <1>2, <1>13, <2>1
<1>15. ASSUME DisableDual PROVE Steady'
  <2>1. /\ UNCHANGED <<st, errno, sim, present, cur, backTmr>>
        /\ ~dualsim /\ ~dualsim' /\ ~flag'
    BY <1>2, <1>15 DEF DisableDual
  <2>2. CardIsKept'
    BY <1>3, <2>1, CardStaysKept
  <2> QED
    BY <1>0, <2>1, <2>2 DEF Steady, NoSimWasSeen, SleepMeansNoSim, ErrorIsOfCard
<1>16. ASSUME SetMain PROVE Steady'
  <2>1. PICK changed \in BOOLEAN : SwitchIf(dualsim /\ cur # main', changed)
    BY <1>16 DEF SetMain
  <2>2. UNCHANGED <<present, cur, dualsim, backTmr>>
    BY <1>16 DEF SetMain
  <2> QED
    BY <1>13, <2>1, <2>2
<1>17. ASSUME UnsetMain PROVE Steady'
  <2>1. PICK changed \in BOOLEAN : SwitchIf(cur # 1, changed)
    BY <1>17 DEF UnsetMain
  <2>2. UNCHANGED <<present, cur, dualsim, backTmr>> /\ policy' = 1
    BY <1>17 DEF UnsetMain
  <2>3. cur # 1 => dualsim
    BY <1>2, <1>3, <2>2
  <2> QED
    BY <1>13, <2>1, <2>2, <2>3
<1>18. ASSUME SdwanSwitch \/ Redial PROVE Steady'
  <2>1. /\ DoRedial(sim) /\ UNCHANGED <<present, cur, dualsim, backTmr>>
        /\ dualsim \/ UNCHANGED flag
    BY <1>18 DEF SdwanSwitch, Redial
  <2>2. NoSimWasSeen' /\ SleepMeansNoSim' /\ ErrorIsOfCard'
    BY <2>1, RedialKeepsCards
  <2>3. st' = st \/ st' = "STARTUP"
    BY <2>1 DEF DoRedial
  <2>4. CardIsKept'
    BY <1>1, <1>3, <2>1, <2>3, CardStaysKept
  <2> QED
    BY <2>2, <2>4 DEF Steady
<1>19. ASSUME LowSignal PROVE Steady'
  <2>1. /\ UNCHANGED <<present, cur, errno, sim, backTmr, dualsim>>
        /\ dualsim /\ st = "CONNECTED" /\ st' = "STARTUP"
    BY <1>19 DEF LowSignal
  <2>2. errno # "NOSIM"
    BY <1>0, <2>1 DEF ErrorIsOfCard
  <2>3. CardIsKept'
    BY <2>1, CardStaysKept
  <2> QED
    BY <1>0, <2>1, <2>2, <2>3 DEF Steady, NoSimWasSeen, SleepMeansNoSim, ErrorIsOfCard
<1>20. ASSUME NEW s \in Sims, NEW u \in Usages, TrafficReport(s, u) PROVE Steady'
  <2> DEFINE heard == [sim EXCEPT ![s].usage = u]
  <2>1. heard[s].usage = u /\ heard \in [Sims -> SimStatus]
    BY HeardIsTyped
  <2> HIDE DEF heard
  <2>2. DoRedial(heard) \/ sim' = heard
    BY <1>20 DEF TrafficReport, heard
  <2>3. sim'[s].usage = u
    <3>1. CASE sim' = heard
      BY <2>1, <3>1
    <3>2. CASE sim' = [t \in Sims |-> [heard[t] EXCEPT !.errno = "OK", !.retries = 0]]
      BY <2>1, <3>2 DEF SimStatus
    <3> QED
      BY <2>2, <3>1, <3>2 DEF DoRedial
  <2> QED
    BY <1>20, <2>3 DEF TrafficReport, NobodyAsks
<1> QED
  BY <1>4, <1>5, <1>6, <1>7, <1>8, <1>9, <1>10, <1>11, <1>12, <1>14, <1>15, <1>16, <1>17,
     <1>18, <1>19, <1>20
  DEF Next, RedialHandle, Ask

-----------------------------------------------------------------------------
(* Theorems.                                                               *)

\* The inductive invariant: the types, and, as long as nobody asks for another
\* card, what is remembered of the cards and the error that is yet to be booked
\* (arms STARTUP to AT of redial_handle(), ih_redial.c:9451-9668).
THEOREM PolicyInductive == PolicySpec => []PolicyInv
<1>1. PolicyInit => PolicyInv
  <2> SUFFICES ASSUME PolicyInit PROVE PolicyInv
    OBVIOUS
  <2>1. Init
    BY DEF PolicyInit
  <2>2. MaxSimRetry \in Nat /\ Retries \in Nat /\ MaxReset \in Nat /\ MaxRequests \in Nat
    BY SimConstantsOK
  <2>3. \A s \in Sims : sim[s] = [errno |-> "OK", retries |-> 0, usage |-> "normal"]
    BY <2>1 DEF Init
  <2>4. [errno |-> "OK", retries |-> 0, usage |-> "normal"] \in SimStatus
    BY <2>2 DEF SimStatus, Errors, AllUsages
  <2>5. sim \in [Sims -> SimStatus]
    BY <2>1, <2>4 DEF Init
  <2>6. TypeOK
    <3>1. dualsim \in BOOLEAN /\ flag \in BOOLEAN /\ backTmr \in BOOLEAN
      BY <2>1, Zenon DEF Init
    <3>2. /\ st \in SimStates /\ errno \in Errors /\ present \subseteq Sims
          /\ cur \in Sims /\ main \in Sims /\ policy \in Sims
      BY <2>1 DEF Init, SimStates, EarlyStates, Errors, Sims
    <3>3. /\ retryCnt \in 0 .. Retries + 1 /\ resetCnt \in 0 .. MaxReset + 1
          /\ requests \in 0 .. MaxRequests
      BY <2>1, <2>2 DEF Init
    <3> QED
      BY <2>5, <3>1, <3>2, <3>3 DEF TypeOK
  <2>7. NoSimWasSeen
    BY <2>3 DEF NoSimWasSeen
  <2>8. SleepMeansNoSim /\ ErrorIsOfCard
    BY <2>1 DEF Init, SleepMeansNoSim, ErrorIsOfCard
  <2>9. CardIsKept
    BY <2>1, <2>3 DEF Init, CardIsKept
  <2> QED
    BY <2>6, <2>7, <2>8, <2>9 DEF PolicyInv, Steady
<1>2. PolicyInv /\ [PolicyNext]_<<simVars, asked>> => PolicyInv'
  <2> SUFFICES ASSUME PolicyInv, [PolicyNext]_<<simVars, asked>>
               PROVE  PolicyInv'
    OBVIOUS
  <2>1. TypeOK /\ (~asked => Steady)
    BY DEF PolicyInv
  <2>2. CASE PolicyNext
    BY <2>1, <2>2, TypeStep, SteadyStep DEF PolicyInv, PolicyNext
  <2>3. CASE UNCHANGED <<simVars, asked>>
    BY <2>1, <2>3
    DEF simVars, setup, PolicyInv, TypeOK, Steady, NoSimWasSeen, SleepMeansNoSim,
        ErrorIsOfCard, CardIsKept
  <2> QED
    BY <2>2, <2>3
<1> QED
  BY <1>1, <1>2, PTL DEF PolicySpec

\* A slot is taken for empty, and the daemon goes to sleep, only if no card is
\* there, for any outcome of the scans and any limits (l.5110, l.9549-9566).
THEOREM CardsAreAlwaysKnown == PolicySpec => []ScannedCardsAreKnown
<1>1. PolicyInv => ScannedCardsAreKnown
  BY DEF PolicyInv, Steady, ScannedCardsAreKnown, CardsAreKnown
<1> QED
  BY <1>1, PolicyInductive, PTL

-----------------------------------------------------------------------------
(* What is known of the cell.                                              *)

Cells == [net : Nets, level : {"low", "good", "none"}, scale : Scales]
InfoRecords ==
  [cell : [Fields -> Nat], network : 0 .. 4, old : 0 .. 4,
   imsi : {0, 1, 2}, iccid : {0, 1, 2}, phone : {0, 1, 2}]

\* The commands of the list of a family, the signal fields that its answers ever
\* have a value for, and those of them that the survey of a poll refreshes.
ListCommands(f) ==
  CASE f = "ME909"  -> {"CIMI", "CSQ", "CREG", "COPS", "SYSINFO", "ICCID", "MONSC"}
    [] f = "PLS8"   -> {"CIMI", "CSQ", "SMONI", "CREG", "COPS", "ICCID"}
    [] f = "U8300"  -> {"CIMI", "CSQ", "CREG", "COPS", "PSRAT", "ICCID"}
    [] f = "ELS81"  -> {"CIMI", "CSQ", "COPS", "SMONI", "CREG", "ICCID"}
    [] f = "EC25"   -> {"CIMI", "CSQ", "CREG", "COPS", "ICCID", "QENG2"}
    [] f = "RM500"  -> {"CIMI", "QENG", "CREG", "ICCID"}
    [] f = "FM650"  -> {"CIMI", "GTCCINFO", "CREG", "COPS", "ICCID"}
    [] f \in {"TOBY", "LARAR2"} -> {"CIMI", "CESQ", "CREG", "COPS", "ICCID"}
    [] f = "LP41"   -> {"CIMI", "MEAS8", "CREG", "COPS"}
    [] f = "WPD200" -> {"HSTATE", "SYSINFO"}
    [] f = "LUA10"  -> {"CIMI", "CSQ", "CREG", "COPS", "ICCID"}

SignalOf(f) ==
  CASE f = "WPD200"                       -> {"rssi"}
    [] f \in {"ME909", "U8300", "LUA10"}  -> {"rssi", "rscp"}
    [] f \in {"PLS8", "ELS81"}            -> {"rssi", "rscp", "rsrp", "rsrq"}
    [] f \in {"EC25", "RM500", "FM650"}   -> Signal
    [] f \in {"TOBY", "LARAR2"}           -> {"rssi", "rscp", "ecio", "rsrp", "rsrq"}
    [] f = "LP41"                         -> {"rsrp"}

Surveyed(f) ==
  CASE f \in {"EC25", "RM500", "FM650"} -> Signal \ {"rssi"}
    [] f = "PLS8"                       -> {"rsrp", "rsrq"}
    [] OTHER                            -> {}

Rests == {<<"cell", "phone", "signal">>, <<"phone", "signal">>, <<"signal">>}

CellShape ==
  /\ CellTypeOK
  /\ cells \in Seq(Cells) /\ info \in InfoRecords
  /\ pc = "at" => todo \in Seq(ListCommands(family))
  /\ pc = "poll" => todo \in {Poll, <<>>} \cup Rests

\* A field that no answer of the modem has a value for stays empty.
NeverRead == \A x \in Signal \ SignalOf(family) : info.cell[x] = 0

Fresh(fields) == \A x \in fields : info.cell[x] \in {0, Cell}

\* A poll of one cell refreshes first what its survey tells, then the rest.
PollIsFresh ==
  pc = "poll" /\ clean /\ Served /\ family # "ELS81" =>
    /\ todo \in Rests => Fresh(Surveyed(family))
    /\ todo = <<>> => Fresh(Signal \ LeftBehind)

CellInv == CellShape /\ NeverRead /\ PollIsFresh /\ CardIsCurrent

-----------------------------------------------------------------------------
\* What a cell of a modem can be.
LEMMA CellsAre ==
  ASSUME NEW f \in AllFamilies, NEW c \in CellsOf(f)
  PROVE  /\ c \in Cells
         /\ c.net \in NetsOf(f) /\ c.scale \in Scales
<1>1. NetsOf(f) \subseteq Nets /\ "none" \in NetsOf(f)
  BY DEF NetsOf, Nets, AllFamilies
<1> QED
  BY <1>1 DEF CellsOf, Cells

\* What a command makes of what is known: fields that its answer is not about stay.
LEMMA HandleFacts ==
  ASSUME NEW c, info \in InfoRecords, Cell \in Nat, currentSim \in {1, 2}
  PROVE  /\ Handle(c) \in InfoRecords
         /\ Handle(c).imsi \in {info.imsi, currentSim}
         /\ Handle(c).iccid \in {info.iccid, currentSim}
         /\ Handle(c).phone \in {info.phone, currentSim}
         /\ \A x \in Fields : Handle(c).cell[x] \in {0, Cell, info.cell[x]}
         /\ \A x \in Signal :
              Handle(c).cell[x] =
                IF Updates(c) /\ x \in Answer(c).mask
                THEN IF x \in Answer(c).valid THEN Cell ELSE 0
                ELSE info.cell[x]
<1> DEFINE told == [x \in Fields |-> IF x \in Direct(c) THEN Cell ELSE info.cell[x]]
           named == [info EXCEPT !.network = NetworkAfter(c), !.cell = told]
           after == IF Updates(c) THEN Update(named, Answer(c).mask, Answer(c).valid) ELSE named
<1>1. NetworkAfter(c) \in 0 .. 4
  <2>1. NetworkOf(Net) \in 0 .. 4
    BY DEF NetworkOf
  <2>2. info.network \in 0 .. 4
    BY DEF InfoRecords
  <2> HIDE DEF InfoRecords
  <2> QED
    BY <2>1, <2>2 DEF NetworkAfter
<1>2. told \in [Fields -> Nat]
  BY DEF InfoRecords
<1>3. \A x \in Fields : told[x] \in {Cell, info.cell[x]}
  OBVIOUS
<1>4. \A x \in Signal : x \in Fields /\ told[x] = info.cell[x]
  <2>1. \A x \in Signal : x \notin Direct(c)
    BY DEF Direct, Signal
  <2> QED
    BY <2>1 DEF Fields
<1> HIDE DEF told
<1>5. /\ named \in InfoRecords /\ named.cell = told
      /\ named.imsi = info.imsi /\ named.iccid = info.iccid /\ named.phone = info.phone
  BY <1>1, <1>2 DEF InfoRecords
<1> HIDE DEF named
<1>6. /\ after \in InfoRecords
      /\ after.imsi = info.imsi /\ after.iccid = info.iccid /\ after.phone = info.phone
      /\ \A x \in Fields : after.cell[x] \in {0, Cell, info.cell[x]}
      /\ \A x \in Signal :
           after.cell[x] = IF Updates(c) /\ x \in Answer(c).mask
                           THEN IF x \in Answer(c).valid THEN Cell ELSE 0
                           ELSE info.cell[x]
  <2>1. CASE ~Updates(c)
    BY <1>3, <1>4, <1>5, <2>1
  <2>2. CASE Updates(c)
    <3> DEFINE mask == Answer(c).mask
               valid == Answer(c).valid
               known == IF named.network # named.old THEN [named.cell EXCEPT !["rat"] = 0]
                        ELSE named.cell
               kept == [x \in Fields |-> IF x \notin mask THEN known[x]
                                         ELSE IF x \in valid THEN Cell ELSE 0]
    <3>1. after = [named EXCEPT !.old = named.network, !.cell = kept]
      BY <2>2 DEF Update
    <3>2. /\ known \in [Fields -> Nat]
          /\ \A x \in Fields : known[x] \in {0, told[x]}
          /\ \A x \in Signal : known[x] = told[x]
      <4>1. \A x \in Signal : x # "rat"
        BY DEF Signal
      <4> QED
        BY <1>2, <1>4, <1>5, <4>1
    <3> HIDE DEF known, mask, valid
    <3>3. /\ kept \in [Fields -> Nat]
          /\ \A x \in Fields : kept[x] \in {0, Cell, info.cell[x]}
          /\ \A x \in Signal : kept[x] = IF x \in mask THEN IF x \in valid THEN Cell ELSE 0
                                         ELSE info.cell[x]
      BY <1>3, <1>4, <3>2
    <3> HIDE DEF kept
    <3>4. /\ after \in InfoRecords /\ after.cell = kept
          /\ after.imsi = info.imsi /\ after.iccid = info.iccid /\ after.phone = info.phone
      BY <1>5, <3>1, <3>3 DEF InfoRecords
    <3> QED
      BY <2>2, <3>3, <3>4 DEF mask, valid
  <2> QED
    BY <2>1, <2>2
<1>7. Handle(c) = ReadCard(after, c)
  BY DEF Handle, named, told
<1> HIDE DEF after
<1>8. /\ Handle(c) \in InfoRecords /\ Handle(c).cell = after.cell
      /\ Handle(c).imsi \in {after.imsi, currentSim}
      /\ Handle(c).iccid \in {after.iccid, currentSim}
      /\ Handle(c).phone \in {after.phone, currentSim}
  BY <1>6, <1>7 DEF ReadCard, InfoRecords
<1> QED
  BY <1>6, <1>8

\* The commands of a family's list and of its polls.
OwnCommands(f) ==
  ListCommands(f) \cup {"nothing", "CNUM", "CREG", "CGREG", "CEREG", "C5GREG"}
  \cup (IF f = "TOBY" THEN {"UCGED"} ELSE {})
  \cup (IF f \in {"RM500", "FM650"} THEN {"CSQ"} ELSE {})

\* What a command can tell of the signal.
Tells(c) ==
  CASE c = "HSTATE"                       -> {"rssi"}
    [] c = "CSQ"                          -> {"rssi", "rscp"}
    [] c = "CESQ"                         -> {"rssi", "rscp", "ecio", "rsrp", "rsrq"}
    [] c = "SMONI"                        -> {"rsrp", "rsrq"}
    [] c = "UCGED"                        -> {"rsrq"}
    [] c = "MEAS8"                        -> {"rsrp"}
    [] c \in {"QENG", "QENG2", "GTCCINFO"} -> Signal
    [] OTHER                              -> {}

LEMMA ReadFields == \A m, v : Read(m, v).mask = m /\ Read(m, v).valid = v
  BY DEF Read

LEMMA AnswerTells ==
  ASSUME NEW c, Updates(c), cells[Cell].scale \in Scales, NEW x \in Signal, x \in Answer(c).valid
  PROVE  x \in Tells(c)
<1>1. c \in {"CREG", "CGREG", "CEREG", "C5GREG", "SMONI", "COPS", "UCGED", "CSQ", "CESQ",
             "QENG", "QENG2", "GTCCINFO", "MEAS8", "HSTATE"}
  BY DEF Updates
<1>2. CASE c \in {"CSQ", "CESQ"}
  BY <1>2, ReadFields DEF Answer, CheckSignal, Tells, Signal, Scales
<1>3. CASE c \in {"CREG", "CGREG", "CEREG", "C5GREG"}
  <2>1. Answer(c).valid = {"lac", "cellid"}
    BY <1>3, ReadFields DEF Answer, CheckReg
  <2> QED
    BY <2>1 DEF Signal
<1>4. CASE c \in {"QENG", "QENG2", "GTCCINFO"}
  BY <1>4 DEF Tells
<1>5. CASE c = "SMONI"
  BY <1>5, ReadFields DEF Answer, CheckSmoni, Tells, Signal
<1>6. CASE c = "COPS"
  BY <1>6, ReadFields DEF Answer, CheckNetwork, Tells, Signal
<1>7. CASE c = "UCGED"
  BY <1>7, ReadFields DEF Answer, CheckFb78, Tells, Signal
<1>8. CASE c = "MEAS8"
  BY <1>8, ReadFields DEF Answer, CheckLp41, Tells, Signal
<1>9. CASE c = "HSTATE"
  BY <1>9, ReadFields DEF Answer, CheckWpd200, Tells, Signal
<1> QED
  BY <1>1, <1>2, <1>3, <1>4, <1>5, <1>6, <1>7, <1>8, <1>9

LEMMA OwnTells ==
  ASSUME NEW f \in AllFamilies, NEW c \in OwnCommands(f)
  PROVE  Tells(c) \subseteq SignalOf(f)
<1>1. CASE f \in {"EC25", "RM500", "FM650"}
  <2>1. Tells(c) \subseteq Signal
    BY DEF Tells, Signal
  <2> QED
    BY <1>1, <2>1 DEF SignalOf
<1>2. CASE f = "WPD200" \/ f \in {"ME909", "U8300", "LUA10"}
  BY <1>2 DEF OwnCommands, ListCommands, Tells, SignalOf
<1>3. CASE f \in {"PLS8", "ELS81"}
  BY <1>3 DEF OwnCommands, ListCommands, Tells, SignalOf
<1>4. CASE f \in {"TOBY", "LARAR2"}
  BY <1>4 DEF OwnCommands, ListCommands, Tells, SignalOf
<1>5. CASE f = "LP41"
  BY <1>5 DEF OwnCommands, ListCommands, Tells, SignalOf
<1> QED
  BY <1>1, <1>2, <1>3, <1>4, <1>5 DEF AllFamilies

\* The commands of a poll are the family's own.
LEMMA PollIsOwn ==
  ASSUME family \in AllFamilies, NEW c \in {"survey", "cell", "phone", "signal"}
  PROVE  Command(c) \in OwnCommands(family)
<1>1. Survey \in OwnCommands(family)
  BY DEF Survey, OwnCommands, ListCommands
<1>2. Place2 \in OwnCommands(family)
  BY <1>1 DEF Place2, OwnCommands
<1>3. SignalCommand \in OwnCommands(family)
  BY DEF SignalCommand, OwnCommands, ListCommands, AllFamilies
<1>4. {"nothing", "CNUM"} \subseteq OwnCommands(family)
  BY DEF OwnCommands
<1> QED
  BY <1>1, <1>2, <1>3, <1>4 DEF Command

\* The cell that serves is one of those the modem can have.
LEMMA ServingNet ==
  ASSUME CellShape
  PROVE  /\ family \in AllFamilies /\ info \in InfoRecords /\ Cell \in Nat \ {0} /\ currentSim \in {1, 2}
         /\ Net \in NetsOf(family) /\ cells[Cell].scale \in Scales
<1>1. family \in AllFamilies
  BY CellConstantsOK DEF CellShape, CellTypeOK
<1>2. Cell \in 1 .. MaxCells /\ cells[Cell] \in CellsOf(family)
  BY DEF CellShape, CellTypeOK
<1>3. Net \in NetsOf(family) /\ cells[Cell].scale \in Scales
  BY <1>1, <1>2, CellsAre DEF Net
<1> QED
  BY <1>1, <1>2, <1>3, CellConstantsOK DEF CellShape, CellTypeOK

\* A command never gives a value to a field that the family has none for.
LEMMA StillNeverRead ==
  ASSUME CellShape, NeverRead, NEW c \in OwnCommands(family)
  PROVE  \A x \in Signal \ SignalOf(family) : Handle(c).cell[x] = 0
<1>1. family \in AllFamilies
  BY CellConstantsOK DEF CellShape, CellTypeOK
<1>2. info \in InfoRecords /\ Cell \in Nat /\ currentSim \in {1, 2}
  BY LenProperties DEF CellShape, CellTypeOK, Cell
<1> SUFFICES ASSUME NEW x \in Signal \ SignalOf(family) PROVE Handle(c).cell[x] = 0
  OBVIOUS
<1>3. info.cell[x] = 0
  BY DEF NeverRead
<1>4. Updates(c) => x \notin Answer(c).valid
  BY <1>1, AnswerTells, OwnTells, ServingNet
<1>5. Handle(c).cell[x] = IF Updates(c) /\ x \in Answer(c).mask
                          THEN IF x \in Answer(c).valid THEN Cell ELSE 0
                          ELSE info.cell[x]
  BY <1>2, HandleFacts
<1> QED
  BY <1>3, <1>4, <1>5

\* Every family's list is made of its commands.
LEMMA ListIsOwn ==
  ASSUME NEW f \in AllFamilies
  PROVE  AtList(f) \in Seq(ListCommands(f))
<1>1. CASE f = "ME909"
  BY <1>1 DEF AtList, ListCommands
<1>2. CASE f = "PLS8"
  BY <1>2 DEF AtList, ListCommands
<1>3. CASE f = "U8300"
  BY <1>3 DEF AtList, ListCommands
<1>4. CASE f = "ELS81"
  BY <1>4 DEF AtList, ListCommands
<1>5. CASE f = "EC25"
  BY <1>5 DEF AtList, ListCommands
<1>6. CASE f = "RM500"
  BY <1>6 DEF AtList, ListCommands
<1>7. CASE f = "FM650"
  BY <1>7 DEF AtList, ListCommands
<1>8. CASE f \in {"TOBY", "LARAR2"}
  BY <1>8 DEF AtList, ListCommands
<1>9. CASE f = "LP41"
  BY <1>9 DEF AtList, ListCommands
<1>10. CASE f = "WPD200"
  BY <1>10 DEF AtList, ListCommands
<1>11. CASE f = "LUA10"
  BY <1>11 DEF AtList, ListCommands
<1> QED
  BY <1>1, <1>2, <1>3, <1>4, <1>5, <1>6, <1>7, <1>8, <1>9, <1>10, <1>11 DEF AllFamilies

-----------------------------------------------------------------------------
\* Where the poll stands.
LEMMA PollParts ==
  /\ Head(Poll) = "survey" /\ Tail(Poll) = <<"cell", "phone", "signal">>
  /\ Head(<<"cell", "phone", "signal">>) = "cell"
  /\ Tail(<<"cell", "phone", "signal">>) = <<"phone", "signal">>
  /\ Head(<<"phone", "signal">>) = "phone" /\ Tail(<<"phone", "signal">>) = <<"signal">>
  /\ Head(<<"signal">>) = "signal" /\ Tail(<<"signal">>) = <<>>
  /\ Poll # <<>> /\ Poll \notin Rests /\ <<>> \notin Rests
<1>1. /\ Head(Poll) = "survey" /\ Tail(Poll) = <<"cell", "phone", "signal">> /\ Poll # <<>>
  BY DEF Poll
<1>2. Poll \notin Rests /\ <<>> \notin Rests
  BY DEF Poll, Rests
<1> QED
  BY <1>1, <1>2

LEMMA SurveyRefreshes ==
  ASSUME CellShape, Served, NEW x \in Surveyed(family)
  PROVE  Updates(Command("survey")) /\ x \in Answer(Command("survey")).mask
<1>1. Net \in NetsOf(family) /\ Net # "none"
  BY ServingNet DEF Served
<1>2. Command("survey") = Survey
  BY DEF Command
<1>3. CASE family = "EC25"
  <2>1. Survey = "QENG2" /\ x \in NotRssi /\ x \in Fields
    BY <1>3 DEF Survey, Surveyed, NotRssi, Fields, Signal
  <2>2. Net \in {"2G", "3G", "4G"}
    BY <1>1, <1>3 DEF NetsOf
  <2>3. x \in CheckServingcell2.mask
    BY <2>1, <2>2, ReadFields DEF CheckServingcell2
  <2> QED
    BY <1>2, <2>1, <2>3 DEF Updates, Answer
<1>4. CASE family = "RM500"
  <2>1. Survey = "QENG" /\ x \in NotRssi /\ x \in Fields
    BY <1>4 DEF Survey, Surveyed, NotRssi, Fields, Signal
  <2>2. Net \in {"3G", "4G", "NSA", "SA"}
    BY <1>1, <1>4 DEF NetsOf
  <2>3. x \in CheckServingcell.mask
    BY <2>1, <2>2, ReadFields DEF CheckServingcell
  <2> QED
    BY <1>2, <2>1, <2>3 DEF Updates, Answer
<1>5. CASE family = "FM650"
  <2>1. Survey = "GTCCINFO" /\ x \in NotRssi /\ x \in Fields
    BY <1>5 DEF Survey, Surveyed, NotRssi, Fields, Signal
  <2>2. Net \in {"3G", "4G", "NSA", "SA"}
    BY <1>1, <1>5 DEF NetsOf
  <2>3. x \in CheckGtccinfo.mask
    BY <2>1, <2>2, ReadFields DEF CheckGtccinfo
  <2> QED
    BY <1>2, <2>1, <2>3 DEF Updates, Answer
<1>6. CASE family = "PLS8"
  <2>1. Survey = "SMONI" /\ x \in {"rsrp", "rsrq"}
    BY <1>6 DEF Survey, Surveyed
  <2>2. x \in CheckSmoni.mask
    BY <2>1, ReadFields DEF CheckSmoni
  <2> QED
    BY <1>2, <2>1, <2>2 DEF Updates, Answer
<1> QED
  BY <1>3, <1>4, <1>5, <1>6 DEF Surveyed

LEMMA SignalRefreshes ==
  ASSUME CellShape, family # "ELS81",
         NEW x \in SignalOf(family) \ Surveyed(family), x \notin LeftBehind
  PROVE  Updates(Command("signal")) /\ x \in Answer(Command("signal")).mask
<1>0. /\ Command("signal") = SignalCommand /\ family \in AllFamilies
      /\ cells[Cell].scale \in Scales
  BY ServingNet DEF Command
<1>1. CASE family \in {"EC25", "RM500", "FM650", "ME909", "U8300", "LUA10", "PLS8"}
  <2>1. SignalCommand = "CSQ"
    BY <1>1 DEF SignalCommand
  <2>2. x = cells[Cell].scale
    <3>1. x \in Scales
      BY <1>1 DEF SignalOf, Surveyed, Signal, Scales
    <3>2. family \in CsqFamilies
      BY <1>1 DEF CsqFamilies, AllFamilies
    <3>3. CASE cells[Cell].scale = "rscp"
      BY <3>1, <3>2, <3>3 DEF LeftBehind, Scales
    <3>4. CASE cells[Cell].scale = "rssi" /\ family \in {"EC25", "RM500", "FM650"}
      BY <3>1, <3>4 DEF SignalOf, Surveyed, Signal, Scales
    <3>5. CASE cells[Cell].scale = "rssi" /\ family \notin {"EC25", "RM500", "FM650"}
      BY <3>1, <3>2, <3>5 DEF LeftBehind, Scales
    <3> QED
      BY <1>0, <3>3, <3>4, <3>5 DEF Scales
  <2>3. x \in Answer("CSQ").mask
    BY <2>2, ReadFields DEF Answer, CheckSignal
  <2> QED
    BY <1>0, <2>1, <2>3 DEF Updates
<1>2. CASE family \in {"TOBY", "LARAR2"}
  <2>1. SignalCommand = "CESQ" /\ x \in {"rssi", "rscp", "ecio", "rsrp", "rsrq"}
    BY <1>2 DEF SignalCommand, SignalOf
  <2>2. x \in Answer("CESQ").mask
    BY <2>1, ReadFields DEF Answer, CheckSignal
  <2> QED
    BY <1>0, <2>1, <2>2 DEF Updates
<1>3. CASE family = "WPD200"
  <2>1. SignalCommand = "HSTATE" /\ x = "rssi"
    BY <1>3 DEF SignalCommand, SignalOf
  <2>2. x \in Answer("HSTATE").mask
    BY <2>1, ReadFields DEF Answer, CheckWpd200
  <2> QED
    BY <1>0, <2>1, <2>2 DEF Updates
<1>4. CASE family = "LP41"
  <2>1. SignalCommand = "MEAS8" /\ x = "rsrp"
    BY <1>4 DEF SignalCommand, SignalOf
  <2>2. x \in Answer("MEAS8").mask
    BY <2>1, ReadFields DEF Answer, CheckLp41
  <2> QED
    BY <1>0, <2>1, <2>2 DEF Updates
<1> QED
  BY <1>0, <1>1, <1>2, <1>3, <1>4 DEF AllFamilies

\* The handlers keep what is known well-formed, and of the card in use.
LEMMA HandleKeeps ==
  ASSUME CellShape, NEW c, UNCHANGED <<cells, currentSim>>, info' = Handle(c)
  PROVE  /\ info' \in InfoRecords
         /\ info'.cell \in [Fields -> Seen'] /\ {info'.network, info'.old} \subseteq 0 .. 4
         /\ {info'.imsi, info'.iccid, info'.phone} \subseteq {0, 1, 2}
         /\ {info.imsi, info.iccid, info.phone} \subseteq {0, currentSim} =>
              {info'.imsi, info'.iccid, info'.phone} \subseteq {0, currentSim}
<1>1. info \in InfoRecords /\ Cell \in Nat /\ Cell # 0 /\ currentSim \in {1, 2}
  BY ServingNet
<1>2. /\ info' \in InfoRecords
      /\ info'.imsi \in {info.imsi, currentSim} /\ info'.iccid \in {info.iccid, currentSim}
      /\ info'.phone \in {info.phone, currentSim}
      /\ \A x \in Fields : info'.cell[x] \in {0, Cell, info.cell[x]}
  BY <1>1, HandleFacts
<1>3. info.cell \in [Fields -> 0 .. Cell]
  BY DEF CellShape, CellTypeOK, Seen
<1>4. \A x \in Fields : info'.cell[x] \in 0 .. Cell
  BY <1>1, <1>2, <1>3
<1>5. Seen' = 0 .. Cell
  BY DEF Seen, Cell
<1> QED
  BY <1>2, <1>4, <1>5 DEF InfoRecords

\* A step of a poll: what the survey has told is told, and the signal at the end.
LEMMA PollStep ==
  ASSUME CellInv, PollCommand
  PROVE  CellInv'
<1> DEFINE c == Command(Head(todo))
<1>1. /\ pc = "poll" /\ todo # <<>> /\ info' = Handle(c) /\ todo' = Tail(todo)
      /\ UNCHANGED <<family, cells, currentSim, pc, quiet, low, switchFlag, upTimer, troubles, clean>>
  BY DEF PollCommand
<1>2. todo \in {Poll} \cup Rests
  BY <1>1 DEF CellInv, CellShape
<1>3. /\ Head(todo) \in {"survey", "cell", "phone", "signal"}
      /\ todo' \in {<<>>} \cup Rests
      /\ todo = Poll => todo' \in Rests /\ Head(todo) = "survey"
      /\ todo' = <<>> => Head(todo) = "signal" /\ todo \in Rests
  BY <1>1, <1>2, PollParts DEF Rests
<1>4. CellShape /\ NeverRead /\ PollIsFresh /\ CardIsCurrent
  BY DEF CellInv
<1>5. /\ family \in AllFamilies /\ info \in InfoRecords /\ Cell \in Nat \ {0} /\ currentSim \in {1, 2}
  BY <1>4, ServingNet
<1>6. c \in OwnCommands(family)
  BY <1>3, <1>5, PollIsOwn
<1>7. /\ info' \in InfoRecords
      /\ info'.cell \in [Fields -> Seen'] /\ {info'.network, info'.old} \subseteq 0 .. 4
      /\ {info'.imsi, info'.iccid, info'.phone} \subseteq {0, 1, 2}
      /\ {info.imsi, info.iccid, info.phone} \subseteq {0, currentSim} =>
           {info'.imsi, info'.iccid, info'.phone} \subseteq {0, currentSim}
  BY <1>1, <1>4, HandleKeeps
<1>8. CellShape'
  BY <1>1, <1>3, <1>4, <1>7 DEF CellShape, CellTypeOK, Cell
<1>9. CardIsCurrent'
  BY <1>1, <1>4, <1>7 DEF CardIsCurrent
<1>10. NeverRead'
  BY <1>1, <1>4, <1>6, StillNeverRead DEF NeverRead
<1>11. \A x \in Signal : /\ x \in Fields
                         /\ info'.cell[x] \in {0, Cell, info.cell[x]}
                         /\ info'.cell[x] = IF Updates(c) /\ x \in Answer(c).mask
                                            THEN IF x \in Answer(c).valid THEN Cell ELSE 0
                                            ELSE info.cell[x]
  BY <1>1, <1>5, HandleFacts DEF Fields
<1> HIDE DEF c
<1>12. ASSUME clean, Served, family # "ELS81"
       PROVE  \A x \in Surveyed(family) : info'.cell[x] \in {0, Cell}
  <2> SUFFICES ASSUME NEW x \in Surveyed(family) PROVE info'.cell[x] \in {0, Cell}
    OBVIOUS
  <2>0. x \in Signal
    BY DEF Surveyed, Signal
  <2>1. CASE todo = Poll
    <3>1. c = Command("survey")
      BY <1>3, <2>1 DEF c
    <3>2. Updates(c) /\ x \in Answer(c).mask
      BY <1>4, <1>12, <3>1, SurveyRefreshes
    <3> QED
      BY <1>11, <2>0, <3>2
  <2>2. CASE todo \in Rests
    <3>1. info.cell[x] \in {0, Cell}
      BY <1>1, <1>4, <1>12, <2>2 DEF PollIsFresh, Fresh
    <3> QED
      BY <1>11, <2>0, <3>1
  <2> QED
    BY <1>2, <2>1, <2>2
<1>13. ASSUME clean, Served, family # "ELS81", todo' = <<>>
       PROVE  \A x \in Signal \ LeftBehind : info'.cell[x] \in {0, Cell}
  <2> SUFFICES ASSUME NEW x \in Signal \ LeftBehind PROVE info'.cell[x] \in {0, Cell}
    OBVIOUS
  <2>1. CASE x \in Surveyed(family)
    BY <1>12, <1>13, <2>1
  <2>2. CASE x \in SignalOf(family) \ Surveyed(family)
    <3>1. c = Command("signal")
      BY <1>3, <1>13 DEF c
    <3>2. Updates(c) /\ x \in Answer(c).mask
      BY <1>4, <1>13, <2>2, <3>1, SignalRefreshes
    <3> QED
      BY <1>11, <3>2
  <2>3. CASE x \notin SignalOf(family)
    BY <1>1, <1>10, <2>3 DEF NeverRead
  <2> QED
    BY <2>1, <2>2, <2>3
<1>14. PollIsFresh'
  BY <1>1, <1>12, <1>13 DEF PollIsFresh, Fresh, Served, Net, Cell, LeftBehind
<1> QED
  BY <1>8, <1>9, <1>10, <1>14 DEF CellInv

\* A command of the list, before the dial.
LEMMA ListStep ==
  ASSUME CellInv, AtCommand
  PROVE  CellInv'
<1> DEFINE c == Head(todo)
<1>1. /\ pc = "at" /\ todo # <<>> /\ info' = Handle(c)
      /\ todo' \in {todo, Tail(todo)}
      /\ UNCHANGED <<family, cells, currentSim, pc, quiet, low, switchFlag, upTimer, troubles, clean>>
  BY DEF AtCommand
<1>2. CellShape /\ NeverRead /\ CardIsCurrent /\ todo \in Seq(ListCommands(family))
  BY <1>1 DEF CellInv, CellShape
<1>3. c \in ListCommands(family) /\ Tail(todo) \in Seq(ListCommands(family))
  BY <1>1, <1>2, HeadTailProperties
<1>4. c \in OwnCommands(family)
  BY <1>3 DEF OwnCommands
<1>5. /\ info' \in InfoRecords
      /\ info'.cell \in [Fields -> Seen'] /\ {info'.network, info'.old} \subseteq 0 .. 4
      /\ {info'.imsi, info'.iccid, info'.phone} \subseteq {0, 1, 2}
      /\ {info.imsi, info.iccid, info.phone} \subseteq {0, currentSim} =>
           {info'.imsi, info'.iccid, info'.phone} \subseteq {0, currentSim}
  BY <1>1, <1>2, HandleKeeps
<1>6. CellShape'
  BY <1>1, <1>2, <1>3, <1>5 DEF CellShape, CellTypeOK, Cell
<1>7. NeverRead'
  BY <1>1, <1>2, <1>4, StillNeverRead DEF NeverRead
<1>8. CardIsCurrent' /\ PollIsFresh'
  BY <1>1, <1>2, <1>5 DEF CardIsCurrent, PollIsFresh
<1> QED
  BY <1>6, <1>7, <1>8 DEF CellInv

\* The smaller of two numbers.
LEMMA MinOfTwo ==
  ASSUME NEW a \in Nat, NEW b \in Nat
  PROVE  Min({a, b}) \in {a, b} /\ Min({a, b}) <= b
<1>1. \E x \in {a, b} : \A y \in {a, b} : x =< y
  OBVIOUS
<1>2. /\ Min({a, b}) \in {a, b}
      /\ \A y \in {a, b} : Min({a, b}) =< y
  BY <1>1 DEF Min
<1> QED
  BY <1>2

\* The end of a poll: the two counters stay in their bounds.
LEMMA VerdictStep ==
  ASSUME CellInv, SignalVerdict
  PROVE  CellInv'
<1> DEFINE level == SigLevel(info)
           lost == family \in Watched /\ level = 0 /\ quiet >= MaxSignalRetry
           weak == Dual /\ level < CsqLimit
           switch == weak /\ low >= CsqRetries
<1>1. /\ pc = "poll"
      /\ quiet' = IF family \notin Watched THEN quiet
                  ELSE IF level # 0 \/ lost \/ switch THEN 0 ELSE quiet + 1
      /\ low' = IF ~Dual THEN low ELSE IF weak THEN Min({low + 1, CsqRetries + 1}) ELSE 0
      /\ switchFlag' = (switchFlag \/ switch)
      /\ pc' = IF lost \/ switch THEN "startup" ELSE "up"
      /\ upTimer' = (upTimer /\ ~lost /\ ~switch)
      /\ clean' = FALSE
      /\ UNCHANGED <<family, cells, currentSim, info, todo, troubles>>
  BY DEF SignalVerdict
<1>2. CellShape /\ NeverRead /\ CardIsCurrent
  BY DEF CellInv
<1>3. quiet \in 0 .. MaxSignalRetry /\ low \in 0 .. (CsqRetries + 1)
  BY <1>2 DEF CellShape, CellTypeOK
<1> HIDE DEF level
<1>4. quiet' \in 0 .. MaxSignalRetry
  <2>1. CASE family \in Watched /\ level = 0 /\ ~lost /\ ~switch
    BY <1>1, <1>3, <2>1, CellConstantsOK
  <2>2. CASE ~(family \in Watched /\ level = 0 /\ ~lost /\ ~switch)
    <3>1. quiet' \in {quiet, 0}
      BY <1>1, <2>2
    <3> QED
      BY <1>3, <3>1, CellConstantsOK
  <2> QED
    BY <2>1, <2>2
<1> HIDE DEF lost
<1>5. low' \in 0 .. (CsqRetries + 1)
  <2>1. Min({low + 1, CsqRetries + 1}) \in {low + 1, CsqRetries + 1}
        /\ Min({low + 1, CsqRetries + 1}) <= CsqRetries + 1
    BY <1>3, CellConstantsOK, MinOfTwo
  <2>2. low' \in {low, 0, Min({low + 1, CsqRetries + 1})}
    BY <1>1
  <2> QED
    BY <1>3, <2>1, <2>2, CellConstantsOK
<1> HIDE DEF switch
<1>6. switchFlag' \in BOOLEAN /\ upTimer' \in BOOLEAN /\ clean' \in BOOLEAN
  BY <1>1, Zenon
<1>7. pc' \in {"startup", "up"} /\ clean' = FALSE
  BY <1>1
<1>8. CellShape'
  BY <1>1, <1>2, <1>4, <1>5, <1>6, <1>7 DEF CellShape, CellTypeOK, Cell, Seen
<1>9. NeverRead' /\ CardIsCurrent' /\ PollIsFresh'
  BY <1>1, <1>2, <1>7 DEF NeverRead, CardIsCurrent, PollIsFresh
<1> QED
  BY <1>8, <1>9 DEF CellInv

\* A start, another cell, a link that goes, and the timers.
LEMMA OtherSteps ==
  ASSUME CellInv, \/ Handover \/ Startup \/ BreakOff \/ ListDone
                  \/ CellUpTimer \/ PollBegins \/ PollSilence
  PROVE  CellInv'
<1>0. CellShape /\ NeverRead /\ CardIsCurrent /\ PollIsFresh
  BY DEF CellInv
<1>1. CASE Handover
  <2>1. PICK c \in CellsOf(family) : cells' = Append(cells, c)
    BY <1>1 DEF Handover
  <2>2. c \in Cells /\ cells \in Seq(Cells)
    BY <1>0, <2>1, CellsAre, ServingNet DEF CellShape
  <2>3. /\ cells' \in Seq(Cells) /\ Cell' = Cell + 1
        /\ \A i \in 1 .. Cell : cells'[i] = cells[i]
        /\ cells'[Cell + 1] = c
    BY <2>1, <2>2, AppendProperties, LenProperties DEF Cell
  <2>4. Cell \in Nat \ {0} /\ Cell < MaxCells
    BY <1>0, <1>1, ServingNet DEF Handover
  <2>5. UNCHANGED <<family, currentSim, info, pc, todo, quiet, low, switchFlag, upTimer, troubles>> /\ clean' = FALSE
    BY <1>1 DEF Handover
  <2>6. Cell' \in 1 .. MaxCells /\ \A i \in 1 .. Cell' : cells'[i] \in CellsOf(family)
    <3>1. \A i \in 1 .. Cell : cells[i] \in CellsOf(family)
      BY <1>0 DEF CellShape, CellTypeOK
    <3>2. MaxCells \in Nat
      BY CellConstantsOK
    <3>3. Cell' \in 1 .. MaxCells
      BY <2>3, <2>4, <3>2
    <3> SUFFICES ASSUME NEW i \in 1 .. Cell' PROVE cells'[i] \in CellsOf(family)
      BY <3>3
    <3>4. CASE i = Cell + 1
      BY <2>1, <2>3, <3>4
    <3>5. CASE i # Cell + 1
      <4>1. i \in 1 .. Cell
        BY <2>3, <2>4, <3>5
      <4> QED
        BY <2>3, <3>1, <4>1
    <3> QED
      BY <3>4, <3>5
  <2>7. info.cell \in [Fields -> Seen']
    <3>1. info.cell \in [Fields -> 0 .. Cell] /\ 0 .. Cell \subseteq 0 .. Cell'
      BY <1>0, <2>3, <2>4 DEF CellShape, CellTypeOK, Seen
    <3> QED
      BY <3>1 DEF Seen
  <2>8. CellShape'
    BY <1>0, <2>3, <2>5, <2>6, <2>7 DEF CellShape, CellTypeOK
  <2> QED
    BY <1>0, <2>5, <2>8 DEF CellInv, NeverRead, CardIsCurrent, PollIsFresh
<1>2. CASE Startup
  <2>1. /\ info' = ClearInfo(info) /\ currentSim' = IF switchFlag THEN 3 - currentSim ELSE currentSim
        /\ low' = IF switchFlag THEN 0 ELSE low
        /\ switchFlag' = FALSE /\ pc' = "at" /\ todo' = AtList(family)
        /\ UNCHANGED <<family, cells, quiet, upTimer, troubles, clean>>
    BY <1>2 DEF Startup
  <2>2. family \in AllFamilies /\ info \in InfoRecords /\ Cell \in Nat \ {0} /\ currentSim \in {1, 2}
    BY <1>0, ServingNet
  <2>3. currentSim' \in {1, 2}
    BY <2>1, <2>2
  <2>4. low' \in 0 .. (CsqRetries + 1)
    <3>1. low' \in {0, low} /\ low \in 0 .. (CsqRetries + 1)
      BY <1>0, <2>1 DEF CellShape, CellTypeOK
    <3> QED
      BY <3>1, CellConstantsOK
  <2>5. /\ info' \in InfoRecords /\ \A x \in Fields : info'.cell[x] = 0
        /\ info'.imsi = 0 /\ info'.iccid = 0 /\ info'.phone = 0
    BY <2>1, <2>2 DEF ClearInfo, Nothing, InfoRecords
  <2>6. info'.cell \in [Fields -> Seen']
    <3>1. Seen' = 0 .. Cell
      BY <2>1 DEF Seen, Cell
    <3> QED
      BY <2>2, <2>5, <3>1 DEF InfoRecords
  <2>7. todo' \in Seq(ListCommands(family))
    BY <2>1, <2>2, ListIsOwn
  <2>8. {info'.network, info'.old} \subseteq 0 .. 4
    BY <2>5 DEF InfoRecords
  <2>9. CellShape'
    BY <1>0, <2>1, <2>3, <2>4, <2>5, <2>6, <2>7, <2>8 DEF CellShape, CellTypeOK, Cell
  <2> QED
    BY <2>1, <2>5, <2>9 DEF CellInv, NeverRead, CardIsCurrent, PollIsFresh, Fields
<1>3. CASE BreakOff
  <2>1. /\ pc' = "startup" /\ upTimer' = FALSE /\ quiet' \in {0, quiet}
        /\ troubles < MaxTroubles /\ troubles' = troubles + 1
        /\ UNCHANGED <<family, cells, currentSim, info, low, switchFlag, clean>>
    BY <1>3 DEF BreakOff
  <2>2. quiet' \in 0 .. MaxSignalRetry /\ troubles' \in 0 .. MaxTroubles
    BY <1>0, <2>1, CellConstantsOK DEF CellShape, CellTypeOK
  <2>3. CellShape'
    BY <1>0, <2>1, <2>2 DEF CellShape, CellTypeOK, Cell, Seen
  <2> QED
    BY <1>0, <2>1, <2>3 DEF CellInv, NeverRead, CardIsCurrent, PollIsFresh
<1>4. CASE ListDone \/ PollBegins
  <2>1. /\ pc' = "up" \/ (pc' = "poll" /\ todo' = Poll)
        /\ pc # "startup"
        /\ upTimer' \in {TRUE, upTimer} /\ clean' \in {TRUE, clean}
        /\ UNCHANGED <<family, cells, currentSim, info, quiet, low, switchFlag, troubles>>
    BY <1>4 DEF ListDone, PollBegins
  <2>2. CellShape'
    BY <1>0, <2>1 DEF CellShape, CellTypeOK, Cell, Seen
  <2> QED
    BY <1>0, <2>1, <2>2, PollParts DEF CellInv, NeverRead, CardIsCurrent, PollIsFresh
<1>5. CASE CellUpTimer
  <2>1. /\ pc = "up" /\ upTimer' = FALSE /\ low' = 0
        /\ UNCHANGED <<family, cells, currentSim, info, pc, todo, quiet, switchFlag, troubles, clean>>
    BY <1>5 DEF CellUpTimer
  <2>2. low' \in 0 .. (CsqRetries + 1)
    BY <2>1, CellConstantsOK
  <2>3. CellShape'
    BY <1>0, <2>1, <2>2 DEF CellShape, CellTypeOK, Cell, Seen
  <2> QED
    BY <1>0, <2>1, <2>3 DEF CellInv, NeverRead, CardIsCurrent, PollIsFresh
<1>6. CASE PollSilence
  <2>1. /\ pc = "poll" /\ todo # <<>> /\ todo' = Tail(todo) /\ clean' = FALSE
        /\ troubles < MaxTroubles /\ troubles' = troubles + 1
        /\ UNCHANGED <<family, cells, currentSim, info, pc, quiet, low, switchFlag, upTimer>>
    BY <1>6 DEF PollSilence
  <2>2. todo' \in {<<>>} \cup Rests
    BY <1>0, <2>1, PollParts DEF CellShape, Rests
  <2>3. troubles' \in 0 .. MaxTroubles
    BY <1>0, <2>1, CellConstantsOK DEF CellShape, CellTypeOK
  <2>4. CellShape'
    BY <1>0, <2>1, <2>2, <2>3 DEF CellShape, CellTypeOK, Cell, Seen
  <2> QED
    BY <1>0, <2>1, <2>4 DEF CellInv, NeverRead, CardIsCurrent, PollIsFresh
<1> QED
  BY <1>1, <1>2, <1>3, <1>4, <1>5, <1>6

LEMMA CellBegins == CellInit => CellInv
<1> SUFFICES ASSUME CellInit PROVE CellInv
  OBVIOUS
<1>1. PICK c \in CellsOf(family) : cells = <<c>>
  BY DEF CellInit
<1>2. /\ family \in Families /\ family \in AllFamilies
      /\ currentSim = 1 /\ pc = "startup" /\ todo = <<>> /\ info = Nothing
      /\ quiet = 0 /\ low = 0 /\ switchFlag = FALSE /\ upTimer = FALSE /\ troubles = 0 /\ clean = FALSE
  BY CellConstantsOK DEF CellInit
<1>3. c \in Cells
  BY <1>2, CellsAre
<1>4. cells \in Seq(Cells) /\ Cell = 1 /\ cells[1] = c
  BY <1>1, <1>3 DEF Cell
<1>5. /\ info \in InfoRecords /\ \A x \in Fields : info.cell[x] = 0
      /\ info.cell \in [Fields -> {0}]
      /\ info.imsi = 0 /\ info.iccid = 0 /\ info.phone = 0 /\ info.network = 0 /\ info.old = 0
  BY <1>2 DEF Nothing, InfoRecords
<1>6. info.cell \in [Fields -> Seen]
  BY <1>4, <1>5 DEF Seen
<1>7. CellShape
  <2>1. Cell \in 1 .. MaxCells /\ \A i \in 1 .. Cell : cells[i] \in CellsOf(family)
    BY <1>1, <1>4, CellConstantsOK
  <2>2. /\ quiet \in 0 .. MaxSignalRetry /\ low \in 0 .. (CsqRetries + 1)
        /\ troubles \in 0 .. MaxTroubles
    BY <1>2, CellConstantsOK
  <2>3. /\ {info.network, info.old} \subseteq 0 .. 4
        /\ {info.imsi, info.iccid, info.phone} \subseteq {0, 1, 2}
    BY <1>5
  <2>4. currentSim \in {1, 2} /\ pc \in {"startup", "at", "up", "poll"} /\ pc # "at" /\ pc # "poll"
    BY <1>2
  <2>5. switchFlag \in BOOLEAN /\ upTimer \in BOOLEAN /\ clean \in BOOLEAN
    BY <1>2
  <2>6. CellTypeOK
    BY <1>2, <1>6, <2>1, <2>2, <2>3, <2>4, <2>5, Zenon DEF CellTypeOK
  <2> QED
    BY <1>4, <1>5, <2>4, <2>6 DEF CellShape
<1>8. NeverRead
  BY <1>5 DEF NeverRead, Fields
<1> QED
  BY <1>2, <1>7, <1>8 DEF CellInv, PollIsFresh, CardIsCurrent

\* What is known of the cell is the modem's, of the cell it was read from.
THEOREM CellInductive == CellSpec => []CellInv
<1>1. CellInit => CellInv
  BY CellBegins
<1>2. CellInv /\ [CellNext]_cellVars => CellInv'
  <2> SUFFICES ASSUME CellInv, [CellNext]_cellVars PROVE CellInv'
    OBVIOUS
  <2>1. CASE CellNext
    BY <2>1, PollStep, ListStep, VerdictStep, OtherSteps DEF CellNext
  <2>2. CASE UNCHANGED cellVars
    BY <2>2 DEF cellVars, CellInv, CellShape, CellTypeOK, NeverRead, PollIsFresh, CardIsCurrent,
                Fresh, LeftBehind, Served, Net, Cell, Seen
  <2> QED
    BY <2>1, <2>2
<1> QED
  BY <1>1, <1>2, PTL DEF CellSpec

\* Whatever cells a modem of whatever family goes through, and whatever it does not
\* answer: what a poll publishes of the signal is of the cell that serves, but for the field
\* that AT+CSQ leaves on the other scale, and what is published of the card is of the
\* card in use.
THEOREM CellStaysCurrent == CellSpec => []CellIsCurrent
<1>1. CellInv => CellIsCurrent
  <2> SUFFICES ASSUME CellInv PROVE CellIsCurrent
    OBVIOUS
  <2>1. SignalIsFresh
    BY DEF CellInv, PollIsFresh, Fresh, SignalIsFresh
  <2> QED
    BY <2>1 DEF CellInv, CellShape, CellIsCurrent
<1> QED
  BY <1>1, CellInductive, PTL
=============================================================================
