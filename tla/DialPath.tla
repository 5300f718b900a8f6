------------------------------- MODULE DialPath -------------------------------
(***************************************************************************)
(* What a dial tells the modem (ih_redial.c, ppp.c): which profile and     *)
(* which PDP context the card uses, what is written to the modem's         *)
(* contexts when the IMSI has been read and again when the data connection *)
(* is activated, and the rule that binds a context to the link of an       *)
(* RM520N.  The modem keeps its contexts from one dial to the next, and    *)
(* may refuse any command; hardly any refusal stops a dial.                *)
(* PDP types, dialling strings and the waits between commands are left out.*)
(***************************************************************************)
EXTENDS Integers, Sequences, SequencesExt

CONSTANTS
  Families,  \* modem families that are considered
  Keys,      \* may the build have a key that makes it choose the context itself?
  CardOf,    \* operator of the card in each slot
  Verizon,   \* operators match_vzw_plmn() knows
  Network,   \* operator -> its line of /etc/networks.drv, or NoLine
  Profiles,  \* profiles the user has set up, by index; TypeNone where he has not
  Indices,   \* profile a card may be told to use: 0 means automatic
  Operator,  \* SIM_OPER_*: what the user says of the card in each slot
  MaxDials   \* bound: dials

Slots == {1, 2}
Cids  == {0, 1, 2, 3, 6}  \* DEFAULT_CID 1, VZW_CLASS3_CID 3, VZW_CLASS6_CID 6

None     == ""
Blank    == "use-blank-apn"
NoLine   == <<>>
TypeNone == [apn |-> None, user |-> None, password |-> None, dialno |-> 0]  \* PROFILE_TYPE_NONE

ASSUME DialPathConstantsOK ==
  /\ Keys \subseteq BOOLEAN /\ Keys # {} /\ MaxDials \in Nat
  /\ Indices \subseteq {-1, 0} \cup DOMAIN Profiles
  /\ DOMAIN CardOf = Slots /\ DOMAIN Operator = Slots

VARIABLES
  family,       \* gl_modem_code
  keyed,        \* FS39, NAVA, NATO, NRQ1, FQ38 or FQ39 is in the licence
  phase,        \* "listing" (AT commands), "pdp" (IMSI read, contexts not set), "dial", "dialed"
  current_sim,
  imsi,         \* modem_info.imsi: the operator it shows, None when cleared
  index,        \* profile_idx, profile_2nd_idx
  second,       \* profile_wwan2_idx and dual_wwan_enable: -1 when off
  auto,         \* auto_profile
  default_cid,  \* gl.default_cid
  modem,        \* contexts, the RM520N's rule, and whether the link is connected
  dialed,       \* the last dial: its context, its profile, were all commands answered?
  dials

pathVars == <<family, keyed, phase, current_sim, imsi, index, second, auto, default_cid,
              modem, dialed, dials>>

NoCreds == <<>>
Profile(apn, user, password) ==
  [apn |-> apn, user |-> user, password |-> password, dialno |-> 1]
DefaultProfile == Profile("default", "gprs", "gprs")
Unused == Profile(None, None, None)
NoDial == [cid |-> 0, profile |-> Unused, other |-> TypeNone, whole |-> FALSE]

\* A user name without a password, or the reverse, counts as neither.
Creds(p) == IF p.user = None \/ p.password = None THEN NoCreds ELSE <<p.user, p.password>>

-----------------------------------------------------------------------------
\* Which profile, which context.

Qmi == {"EC20", "EC25", "RM500", "RG500", "EP06", "NL668"}
Dhcp == {"PLS8", "ME909", "ELS31", "RM500U", "RM520N", "FM650", "LP41"}
Bridge == {"ELS81", "TOBYL201"}
Mipc == {"FG360"}
Cdma == {"MC2716", "MC5635", "PVS8", "WPD200"}
Ppp == {f \in Families : f \notin Qmi \cup Dhcp \cup Bridge \cup Mipc}

ProfileAt(i) ==
  IF i = 0 THEN auto
  ELSE IF i < 0 \/ Profiles[i] = TypeNone THEN DefaultProfile ELSE Profiles[i]

TheProfile == ProfileAt(index[current_sim])
HasSecond  == second[current_sim] >= 0
TheSecond  == ProfileAt(second[current_sim])

PdpContextId ==
  CASE Operator[current_sim] = "verizon" -> 3
    [] Operator[current_sim] = "others"  -> 1
    [] OTHER -> IF imsi \in Verizon THEN 3 ELSE 1
SecondContextId == 6

\* The context active_pdp_text() and active_modem_data_connection() set up.
ContextId == IF keyed THEN PdpContextId ELSE 1

-----------------------------------------------------------------------------
\* auto_select_net_apn(): the operator's line, field by field.  A line ends in a
\* semicolon, which a line of two fields leaves in its user name.

NetLine(op) == IF family \in Cdma \/ op = None THEN NoLine ELSE Network[op]

UseDefault(a) ==
  IF family \in Cdma THEN [a EXCEPT !.apn = None, !.user = "card", !.password = "card"]
  ELSE [a EXCEPT !.apn = "uninet", !.user = "gprs", !.password = "gprs"]

UseLine(line, a) ==
  [a EXCEPT !.apn = line[1],
            !.user = CASE Len(line) = 1 -> None
                       [] Len(line) = 2 -> line[2] \o ";"
                       [] OTHER -> line[2],
            !.password = IF Len(line) > 2 THEN line[3] ELSE @]

SelectNetApn(op, a) ==
  LET base == [a EXCEPT !.dialno = IF family = "LE910" THEN 3 ELSE 1]
  IN  IF NetLine(op) = NoLine THEN UseDefault(base) ELSE UseLine(NetLine(op), base)

-----------------------------------------------------------------------------
\* Commands: each sets the APN or the credentials of a context (<<>>: leaves them),
\* the rule, or the link; a refused one changes nothing.

Set(cid, apn, creds) == <<[what |-> "set", cid |-> cid, apn |-> apn, creds |-> creds]>>
SetPdp(cid, apn)     == Set(cid, <<apn>>, <<>>)
Rule(cid)            == <<[what |-> "rule", cid |-> cid]>>
Link(cid)            == <<[what |-> "link", cid |-> cid]>>  \* 0: disconnect
FunctionReset        == Link(0)

Nothing == <<>>
Unblank(apn) == IF apn = Blank THEN None ELSE apn

SetsApn(c, cid)   == c.what = "set" /\ c.cid = cid /\ c.apn # <<>>
SetsCreds(c, cid) == c.what = "set" /\ c.cid = cid /\ c.creds # <<>>

\* The modem after the commands, of which it refused those in `no': everything is
\* as the last command set it.
Told(m, cmds, no) ==
  LET obeyed == DOMAIN cmds \ no
      apns   == [cid \in Cids |-> {i \in obeyed : SetsApn(cmds[i], cid)}]
      creds  == [cid \in Cids |-> {i \in obeyed : SetsCreds(cmds[i], cid)}]
      rules  == {i \in obeyed : cmds[i].what = "rule"}
      links  == {i \in obeyed : cmds[i].what = "link"}
  IN  [apn   |-> [cid \in Cids |-> IF apns[cid] = {} THEN m.apn[cid]
                                   ELSE cmds[Max(apns[cid])].apn[1]],
       creds |-> [cid \in Cids |-> IF creds[cid] = {} THEN m.creds[cid]
                                   ELSE cmds[Max(creds[cid])].creds[1]],
       rule  |-> IF rules = {} THEN m.rule ELSE cmds[Max(rules)].cid,
       link  |-> IF links = {} THEN m.link ELSE cmds[Max(links)].cid]

\* At most one refusal in a sequence.
Refusals(cmds) == {{}} \cup {{i} : i \in DOMAIN cmds}

\* setup_modem_auth_parameters()
NamesApn     == {"RM500U", "LP41", "FG360"}     \* the command carries the APN too
NeverCleared == {"LARAR2", "TOBYL201", "LP41"}  \* no command without credentials
HasAuth == NamesApn \cup NeverCleared \cup
  {"U8300", "U8300C", "EC20", "EC25", "RM500", "RM520N", "RG500", "EP06", "PLS8", "ME909",
   "ELS31", "ELS61", "ELS81", "FM650", "NL668"}

AuthContext(cid) ==
  CASE family = "ME909" -> 0
    [] family = "ELS31" -> 3
    [] family \in NeverCleared -> 1
    [] OTHER -> cid

AuthCommand(p, cid) ==
  Set(AuthContext(cid),
      IF family \notin NamesApn THEN <<>>
      ELSE IF family = "FG360" /\ imsi \in Verizon THEN <<"IMS">> ELSE <<p.apn>>,
      <<Creds(p)>>)

\* Mutant: no modem has its credentials cleared.
SetAuthKeepsOld(p, cid) ==
  IF family \notin HasAuth \/ Creds(p) = NoCreds THEN Nothing ELSE AuthCommand(p, cid)

SetAuth(p, cid) ==
  IF family \notin HasAuth \/ (family \in NeverCleared /\ Creds(p) = NoCreds) THEN Nothing
  ELSE AuthCommand(p, cid)

-----------------------------------------------------------------------------
\* active_pdp_text(): once the IMSI is known (the CFUN=0 of the two u-blox
\* families), before registration.

PdpFamilies ==
  {"U8300", "U8300C", "PLS8", "ELS61", "ELS81", "ELS31", "LE910", "ME209", "LP41", "EC20",
   "EC25", "RM500", "RM520N", "RM500U", "RG500", "FM650", "FG360", "EP06", "TOBYL201",
   "LARAR2", "ME909", "NL668"}
AuthFirst == PdpFamilies \ {"LE910", "ME209", "LP41", "TOBYL201", "LARAR2", "NL668"}
Resets == {"ME909", "EC20", "U8300", "U8300C"}
DualApn == {"RM500", "RM520N", "RG500", "EP06"}

OnSecondBearer(p) == family \in {"U8300", "U8300C"} /\ p.dialno = 2

AuthText(p) ==
  IF family \notin AuthFirst THEN Nothing
  ELSE SetAuth(p, IF family \in {"U8300", "U8300C"} THEN (IF p.dialno = 2 THEN 2 ELSE 1)
                  ELSE ContextId)
       \o (IF family \in {"RM500", "RM520N"} /\ HasSecond
           THEN SetAuth(TheSecond, SecondContextId) ELSE Nothing)

ApnText(p) ==
  IF p.apn = None \/ family \in {"LE910", "ELS31", "FG360"} THEN Nothing
  ELSE IF OnSecondBearer(p) THEN (IF auto.apn # None THEN SetPdp(1, auto.apn) ELSE Nothing)
  ELSE CASE family \in {"PLS8", "ELS61", "ELS81"} ->
              Link(0) \o SetPdp(2, None) \o SetPdp(1, Unblank(p.apn))
         [] family = "ME909" -> SetPdp(0, p.apn)
         [] family \in {"U8300", "U8300C", "TOBYL201", "LARAR2"} -> SetPdp(1, Unblank(p.apn))
         [] family \in DualApn ->
              (IF ContextId = 3 THEN SetPdp(1, "IMS") ELSE Nothing)
              \o SetPdp(SecondContextId, IF HasSecond THEN TheSecond.apn ELSE None)
              \o SetPdp(ContextId, p.apn)
         [] OTHER -> SetPdp(1, p.apn)

TextCommands == IF family \notin PdpFamilies THEN Nothing
                ELSE AuthText(TheProfile) \o ApnText(TheProfile)

\* The APN the modem had, compared with the profile's, decides on a reset.
NeedReset(m, cid, p) ==
  /\ family \in Resets /\ p.apn # None /\ ~OnSecondBearer(p)
  /\ m.apn[cid] \notin {None, p.apn}

TextAndReset(cmds, cid, p) ==
  LET all == cmds \o (IF NeedReset(modem, cid, p) THEN FunctionReset ELSE Nothing)
  IN  \E no \in Refusals(all) : modem' = Told(modem, all, no)

\* Its side effect: profile_idx is a local variable that is always 0.
ErasesAuto(p) == family \in {"LE910", "ELS31"} /\ p.apn # None

Ublox == {"LARAR2", "TOBYL201"}

\* The answer to the IMSI query: the APN is chosen and, but for the two u-blox
\* families, the contexts are set at once.
ReadImsi ==
  /\ phase = "listing"
  /\ imsi' = CardOf[current_sim]
  /\ LET a == SelectNetApn(CardOf[current_sim], auto)
         p == IF index[current_sim] = 0 THEN a ELSE TheProfile
     IN  auto' = IF ErasesAuto(p) THEN [a EXCEPT !.apn = None] ELSE a
  /\ UNCHANGED <<family, keyed, current_sim, index, second, default_cid, dialed, dials>>
  /\ IF family \in Ublox THEN phase' = "pdp" /\ UNCHANGED modem
     ELSE phase' = "dial" /\ TextAndReset(TextCommands', ContextId', TheProfile')

\* The answer to CFUN=0.
SetupUblox ==
  /\ phase = "pdp" /\ phase' = "dial"
  /\ TextAndReset(TextCommands, ContextId, TheProfile)
  /\ UNCHANGED <<family, keyed, current_sim, imsi, index, second, auto, default_cid, dialed,
                 dials>>

-----------------------------------------------------------------------------
\* The dial.

Dialed(cid, whole) ==
  dialed' = [cid |-> cid, profile |-> TheProfile,
             other |-> IF HasSecond THEN TheSecond ELSE TypeNone, whole |-> whole]

Begin ==
  /\ phase = "dial" /\ phase' = "dialed"
  /\ dials < MaxDials /\ dials' = dials + 1
  /\ UNCHANGED <<family, keyed, current_sim, imsi, index, second, auto>>

\* active_modem_data_connection() up to the connect command.
PdpSetup(p) ==
  (IF p.apn # None THEN SetPdp(ContextId, Unblank(p.apn)) ELSE Nothing)
  \o (IF HasSecond THEN SetPdp(SecondContextId, TheSecond.apn) ELSE Nothing)
  \o SetAuth(p, ContextId)
  \o (IF HasSecond THEN SetAuth(TheSecond, SecondContextId) ELSE Nothing)

Connect(p) ==
  CASE family \in {"PLS8", "ELS61", "ELS81"} -> Link(0) \o Link(1)
    [] family = "ME909"  -> Set(1, <<p.apn>>, <<Creds(p)>>) \o Link(1)
    [] family = "LP41"   -> Link(1)
    [] family \in {"FM650", "RM500U"} -> Link(0) \o Link(ContextId)
    [] OTHER -> Nothing

\* The context that carries the data: ih-qmi is told its own.
LinkContext ==
  CASE family \in Qmi \cup Mipc -> PdpContextId
    [] family \in {"PLS8", "ELS61", "ELS81", "ME909", "LP41"} -> 1
    [] OTHER -> ContextId

\* Two unanswered `AT' give the set up, not the dial; mipc_wwan gets its profile
\* with the start, and nothing before it.
ActivateData ==
  /\ family \in Qmi \cup Dhcp \cup {"ELS81", "FG360"} /\ family # "RM520N"
  /\ Begin
  /\ \/ /\ family # "FG360"
        /\ LET cmds == PdpSetup(TheProfile) \o Connect(TheProfile)
           IN  \E no \in Refusals(cmds) :
                 /\ modem' = Told(modem, cmds, no)
                 /\ Dialed(LinkContext, no = {})
     \/ /\ family = "FG360"
        /\ modem' = Told(modem, Set(PdpContextId, <<TheProfile.apn>>, <<Creds(TheProfile)>>), {})
        /\ Dialed(LinkContext, TRUE)
     \/ UNCHANGED modem /\ Dialed(LinkContext, FALSE)
  /\ UNCHANGED default_cid

\* modem_qmap_connect(): the rule is deleted and set when the context is not the
\* one remembered; a refused rule ends it, and the dial goes on all the same.
QmapCommands ==
  PdpSetup(TheProfile) \o (IF default_cid # ContextId
                           THEN Rule(0) \o Rule(ContextId) ELSE Link(0)) \o Link(ContextId)

RuleRefused(no) == default_cid # ContextId /\ Len(QmapCommands) - 1 \in no

QmapModem(no) ==
  Told(modem, QmapCommands, IF RuleRefused(no) THEN no \cup {Len(QmapCommands)} ELSE no)

Remembered(no) == IF RuleRefused(no) THEN default_cid ELSE ContextId

\* One of its commands may be refused, or two of the last.
ActivateQmap ==
  /\ family = "RM520N"
  /\ Begin
  /\ LET n == Len(QmapCommands)
     IN  \/ \E no \in {{i} : i \in 1 .. n} \cup SUBSET (n - 2 .. n) :
              /\ modem' = QmapModem(no) /\ default_cid' = Remembered(no)
              /\ Dialed(ContextId, no = {})
         \/ UNCHANGED <<modem, default_cid>> /\ Dialed(ContextId, FALSE)

\* The chat script of pppd: an ERROR ends it.
Chat(p) ==
  (IF p.apn = None \/ family \in {"ELS61", "LARAR2", "TOBYL201"} THEN Nothing
   ELSE CASE family \in {"LE910", "ELS31"} -> SetPdp(3, p.apn)
          [] OnSecondBearer(p) -> SetPdp(2, p.apn)
          [] family \in {"U8300", "U8300C"} /\ ~OnSecondBearer(p) /\ p.apn = Blank -> Nothing
          [] OTHER -> SetPdp(1, p.apn))
  \o Link(p.dialno)

DialPpp ==
  /\ family \in Ppp
  /\ Begin
  /\ LET script == Chat(TheProfile)
     IN  \E n \in 0 .. Len(script) :
           /\ modem' = Told(modem, SubSeq(script, 1, n), {})
           /\ Dialed(TheProfile.dialno, n = Len(script))
  /\ UNCHANGED default_cid

\* The u-blox in bridge mode connects by itself; its parameters are read.
DialBridge ==
  /\ family = "TOBYL201" /\ Begin
  /\ UNCHANGED modem /\ Dialed(1, FALSE) /\ UNCHANGED default_cid

-----------------------------------------------------------------------------
\* The dial is over, or was never made: STARTUP clears what was read of the card,
\* and may change the card.
Startup ==
  /\ phase \in {"pdp", "dial", "dialed"}
  /\ phase' = "listing" /\ imsi' = None
  /\ current_sim' \in Slots
  /\ dialed' = NoDial
  /\ UNCHANGED <<family, keyed, index, second, auto, default_cid, modem, dials>>

\* The settings of the card in use change; what is set of the other is as good as
\* set when it comes into use.
Configure ==
  /\ phase \in {"listing", "dial"}
  /\ \/ \E i \in Indices \ {index[current_sim]} :
          index' = [index EXCEPT ![current_sim] = i] /\ UNCHANGED second
     \/ \E j \in {-1, 1} \ {second[current_sim]} :
          second' = [second EXCEPT ![current_sim] = j] /\ UNCHANGED index
  /\ UNCHANGED <<family, keyed, phase, current_sim, imsi, auto, default_cid, modem, dialed,
                 dials>>

PathInit ==
  /\ family \in Families /\ keyed \in Keys
  /\ phase = "listing" /\ current_sim = 1 /\ imsi = None
  /\ index = [s \in Slots |-> 0] /\ second = [s \in Slots |-> -1]
  /\ auto = Unused
  /\ default_cid = -1
  /\ modem \in [apn : {[c \in Cids |-> None]}, creds : {[c \in Cids |-> NoCreds]},
                rule : IF family = "RM520N" THEN {0, 1} ELSE {0}, link : {0}]
  /\ dialed = NoDial /\ dials = 0

PathNext ==
  \/ ReadImsi \/ SetupUblox
  \/ ActivateData \/ ActivateQmap \/ DialPpp \/ DialBridge
  \/ Startup \/ Configure

PathSpec == PathInit /\ [][PathNext]_pathVars

-----------------------------------------------------------------------------
\* Families whose link context the daemon fixes, those whose commands name the
\* context they are for, and those that dial with the words "use-blank-apn", or with
\* the APN the context had.
FixedContext == {"PLS8", "ELS61", "ELS81", "ME909", "LP41"}
TwoContexts  == Qmi \cup {"RM520N", "RM500U", "FM650"}
BlankIsLost  == NamesApn \cup {"ME909"} \cup Ppp

\* No command of the last dial was refused: the context the link uses has the
\* profile's APN, and the modem the profile's credentials or none, whatever it
\* kept of the card or profile dialed before; so has the second context.  Holds of
\* QMI modems in builds with a key only, of those with a fixed context in the others;
\* the chat script of the four families left out sets no APN, or another context's,
\* and that of the others sets the first, whichever the user has it dial.
ContextIsOfProfile ==
  LET p == dialed.profile
      q == dialed.other
  IN  /\ phase = "dialed" /\ dialed.whole
      /\ IF family \in Qmi THEN keyed ELSE family \in FixedContext => ~keyed
      /\ family \notin {"LE910", "ELS61"} \cup Ublox
      /\ family \in Ppp => p.dialno = IF OnSecondBearer(p) THEN 2 ELSE 1
      /\ q # TypeNone => family \in TwoContexts
      /\ p.apn \notin {None} \cup (IF family \in BlankIsLost THEN {Blank} ELSE {})
      => /\ modem.apn[dialed.cid] = Unblank(p.apn)
         /\ family \in (HasAuth \ NeverCleared) \ Ppp =>
              modem.creds[AuthContext(dialed.cid)] = Creds(p)
         /\ q # TypeNone => modem.apn[SecondContextId] = q.apn

\* The automatic profile is the present card's: the APN and the credentials of the
\* card before never go on air with it.  (LE910 and ELS31 erase it.)
AutoIsOfCard ==
  /\ imsi # None /\ family \notin Cdma \cup {"LE910", "ELS31"}
  /\ Len(Network[imsi]) \in {1, 3}
  => LET line == Network[imsi]
     IN  /\ auto.apn = line[1]
         /\ Creds(auto) = IF Len(line) = 1 THEN NoCreds
                          ELSE Creds(Profile(line[1], line[2], line[3]))

\* The rule an RM520N is left with is never that of a context other than the one
\* remembered: a dial to the remembered context would go over it.
RuleIsNotAnothers == default_cid >= 0 => modem.rule \in {0, default_cid}

\* Every dial is the dial of the card in use: with its profile, the operator's
\* profile only where the user leaves the choice, and the modem's rule of this card.
DialIsOfCard == ContextIsOfProfile /\ AutoIsOfCard /\ RuleIsNotAnothers
===============================================================================
