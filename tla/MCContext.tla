------------------------------ MODULE MCContext ------------------------------
(* The context of a dial, for TLC: what the modem is told of it, what it says of   *)
(* the link it has got, and the messages that pass beside it.  A behaviour is of   *)
(* one of the three; the others stay in a state of theirs.                         *)
(* Two operators, one of them known to be Verizon's, with lines of different       *)
(* length; a modem that lists the contexts 1 and 4.                                *)
EXTENDS DialPath, LinkParams, Sms

VARIABLE turn  \* the one that moves

MCCards    == <<"vzw", "plain">>
MCNetwork  == [vzw |-> <<"vzwinternet">>, plain |-> <<"plainnet", "pu", "pp">>]
MCProfiles == <<Profile("user", "u", "p"), Profile(Blank, None, None)>>
MCOperator == <<"auto", "auto">>
MCCids     == <<1, 4>>

ContextInit ==
  /\ turn \in {"path", "link", "sms"}
  /\ PathInit /\ (turn # "path" => family = "EC25" /\ ~keyed)
  /\ ParamsInit /\ (turn # "link" => linkFamily = "EC25")
  /\ SmsInit /\ (turn # "sms" => ~config.enable /\ ~config.online /\ config.mode = "text")

ContextNext ==
  \/ turn = "path" /\ PathNext   /\ UNCHANGED <<linkVars, smsVars, turn>>
  \/ turn = "link" /\ ParamsNext /\ UNCHANGED <<pathVars, smsVars, turn>>
  \/ turn = "sms"  /\ SmsNext    /\ UNCHANGED <<pathVars, linkVars, turn>>

\* ParamsFairness, and the fairness of SmsSpec, each for its behaviours.
ContextFairness ==
  /\ WF_linkVars(turn = "link" /\ PollPlainAny) /\ WF_linkVars(turn = "link" /\ BreakOff)
  /\ WF_smsVars(turn = "sms" /\ SmsTimerAny) /\ SF_smsVars(turn = "sms" /\ SmsAnswered)

ContextSpec ==
  ContextInit /\ [][ContextNext]_<<pathVars, linkVars, smsVars, turn>> /\ ContextFairness
===============================================================================
