------------------------------- MODULE AtList -------------------------------
(***************************************************************************)
(* The AT command list: how the daemon questions the modem before it       *)
(* dials.  A pass works through gl_at_lists: the timer writes a command    *)
(* and tries it again, the read callback collects the answer and hands it  *)
(* to the command's handler, and the end of the list lets the dial begin.  *)
(*                                                                         *)
(* The modem executes what is on the wire in its own time, so an answer    *)
(* may come in pieces, late, not at all, or among unsolicited reports of   *)
(* the registration.  A SIM card that asks for its PIN makes the handler   *)
(* of AT+CPIN? talk to the modem on the same port, waiting up to 3 s for   *)
(* each "OK" while the event loop stands still.                            *)
(*                                                                         *)
(* An answer is a sequence of tokens <<word, number>>.  Of each list only  *)
(* the commands that decide something are kept; "COPS" stands for those    *)
(* whose failure is skipped.  The registration slots of a list are RegSlot *)
(* and RegSlot + 1.                                                        *)
(***************************************************************************)
EXTENDS Integers, Sequences, SequencesExt, FiniteSetsExt

CONSTANTS
  AtFamilies,  \* the modems, by the way they check the registration
  NetTypes,    \* values of network_type and network_type2
  SameTypes,   \* TRUE: both SIM cards have the same network type
  Csq,         \* modem_config.csq of a dual SIM router, 0: none
  Roaming,     \* modem_config.roam_enable of the current SIM card
  Cards,       \* the initial states of the SIM card
  Counters,    \* the PIN counter queries a modem may know
  MaxRetry,    \* max_retry of a command
  LowRetry,    \* 5: the try from which a low signal is accepted
  ApnRetry,    \* ELS31_UPDATE_APN_MAX_RETRY
  Slow,        \* the modems whose answers may come after they were given up
  MaxChanges,  \* bound: how often the registration changes
  MaxWire,     \* bound: commands the modem has not executed
  MaxTty       \* bound: tokens nobody has read

AtSims     == {1, 2}
RegSlot  == 4
Queries  == {"CREG", "CGREG", "CEREG"}
Networks == {"none", "lte", "old", "roam"}
Stored   == {"READY", "PIN", "PUK", "NETSUB", "NONE"}
\* The order in which check_modem_sim() asks for the PIN counter.
Chain    == <<"SPIC", "CPNNUM", "UPINCNT", "QPINC">>

ASSUME AtConstantsOK ==
  /\ AtFamilies \subseteq {"LUA10", "U8300", "PLS8", "EC25", "ELS31"}
  /\ NetTypes \subseteq {"AUTO", "4G", "3G"}
  /\ SameTypes \in BOOLEAN /\ Roaming \in BOOLEAN /\ Slow \subseteq AtFamilies
  /\ Cards \subseteq Stored \ {"PUK"} /\ Counters \subseteq Range(Chain)
  /\ MaxRetry \in Nat \ {0} /\ LowRetry \in Nat /\ Csq \in Nat /\ ApnRetry \in Nat
  /\ MaxChanges \in Nat /\ MaxWire \in Nat \ {0} /\ MaxTty \in Nat \ {0}

VARIABLES
  setup,    \* [family, types, cur, pin, counter, slow]: what a run does not change
  atState,  \* gl_redial_state
  list,     \* gl_at_lists, a static array that is rewritten in place
  idx,      \* gl_at_index
  try,      \* gl_at_try_n
  atErrno,  \* gl_at_errno
  apnCnt,   \* gl_els31_update_apn_cnt
  armed,    \* gl_ev_at is added
  buf,      \* gl_at_buf
  sync,     \* the question a handler is waiting on, or "none"
  wire,     \* commands written and not yet executed by the modem
  tty,      \* what the modem said and nobody has read
  modem,    \* [card, pins, reg, changes]: the SIM card, the PINs left, where it
            \* is registered, how often that has changed
  earned    \* history: what the modem has shown in this pass

atDaemon == <<list, idx, try, atErrno, apnCnt, armed, buf, sync>>
vars   == <<setup, atState, atDaemon, wire, tty, modem, earned>>

-----------------------------------------------------------------------------
(* The lists and their commands.                                           *)

NetworkType == setup.types[setup.cur]

\* gl_lte_u8300_at_lists, gl_lte_lua10_at_lists, gl_lte_pls8_at_lists, ...
StaticList(f) ==
  <<"AT", "CPIN", "CSQ">> \o
  CASE f \in {"LUA10", "U8300", "PLS8"} -> <<"CEREG", "CREG", "COPS">>
    [] f = "EC25"  -> <<"CREG_AUTO", "COPS">>
    [] f = "ELS31" -> <<"CEREG", "AT", "COPS", "SICA", "CGPADDR3", "CGPADDR2">>

\* gl_at_cmds: what a command that nobody answers leaves in gl_at_errno.
ErrCode(c) ==
  CASE c = "AT" -> "NOMODEM"
    [] c = "CPIN" -> "NOSIM"
    [] c = "CSQ" -> "NOSIGNAL"
    [] c \in Queries \cup {"SICA"} -> "NOREG"
    [] c = "CGPADDR2" -> "NOVALIDIP"
    [] OTHER -> "NAK"

\* gl_creg_at_lists, as fixup_at_list() fills it for an EC25.
AutoQueries ==
  CASE NetworkType = "4G" -> <<"CEREG">>
    [] NetworkType = "3G" -> <<"CGREG">>
    [] NetworkType = "AUTO" -> <<"CEREG", "CGREG", "CREG">>

\* fixup_at_list(): the registration slots, by the network type of the card
\* in use.
FixupAtList(l) ==
  LET slots(a, b) == [l EXCEPT ![RegSlot] = a, ![RegSlot + 1] = b]
      lte == NetworkType \in {"4G", "AUTO"}
  IN CASE setup.family = "LUA10" ->
            slots(IF lte THEN "CEREG" ELSE "AT", IF NetworkType = "4G" THEN "AT" ELSE "CREG")
       [] setup.family = "U8300" ->
            IF lte THEN slots("CEREG", "AT") ELSE slots("AT", "CGREG")
       [] setup.family = "PLS8" ->
            IF lte THEN slots("CEREG", "AT") ELSE slots("AT", "CREG")
       [] OTHER -> l

AtEnd == idx > Len(list)

\* find_at_cmd2(): CREG_AUTO takes the text and the handler of one query after
\* the other, and keeps its own retries and error code.
Written(n) == IF list[idx] = "CREG_AUTO" THEN AutoQueries[(n % Len(AutoQueries)) + 1]
              ELSE list[idx]

-----------------------------------------------------------------------------
(* The handlers, on the text a callback has collected.                     *)

Has(b, w) == \E i \in DOMAIN b : b[i][1] = w
\* The number of the first token of that word (strstr and atoi).
Number(b, w) == b[SelectInSeq(b, LAMBDA t : t[1] = w)][2]

\* check_modem_signal().
CheckSignal(b) ==
  LET sig == Number(b, "CSQ") IN
  IF ~Has(b, "CSQ") \/ sig = 0 THEN "NOSIGNAL"
  ELSE IF Csq > 0 THEN (IF sig < Csq THEN "LOWSIGNAL" ELSE "OK")
  ELSE IF sig >= 10 \/ try >= LowRetry THEN "OK" ELSE "LOWSIGNAL"

\* check_modem_reg(): 1 is registered at home, 5 roaming.
CheckReg(b) ==
  LET status == Number(b, "REG") IN
  IF ~Has(b, "REG") THEN "NOREG"
  ELSE IF status = 1 \/ (status = 5 /\ Roaming) THEN "OK"
  ELSE IF status = 5 THEN "ROAM" ELSE "NOREG"

\* check_modem_cgpaddr_status().
CheckAddress(b) == IF Has(b, "CGPADDR") /\ Number(b, "CGPADDR") = 1 THEN "OK" ELSE "NAK"

Verdict(c, b) ==
  CASE c = "CSQ" -> CheckSignal(b)
    [] c \in Queries -> CheckReg(b)
    [] c \in {"CGPADDR2", "CGPADDR3"} -> CheckAddress(b)
    [] OTHER -> "OK"

-----------------------------------------------------------------------------
(* The timer: redial_handle() in its arms STARTUP, READY and AT.           *)

\* clear_at_state().
ClearAtState ==
  /\ buf' = <<>> /\ idx' = 1 /\ try' = 0 /\ atErrno' = "OK"

\* A timer runs out when the answers that are due have come and have been read,
\* unless the modem is slow; no timer runs while a handler waits.
TimerMayRun ==
  sync = "none" /\ (setup.slow \/ (wire = <<>> /\ (armed => tty = <<>>)))

\* STARTUP deletes the event, the modem is brought up: READY.
StartOver ==
  /\ atState = "STARTUP" /\ TimerMayRun
  /\ atState' = "READY" /\ list' = FixupAtList(list) /\ ClearAtState
  /\ armed' = FALSE
  /\ UNCHANGED <<setup, apnCnt, sync, wire, tty, modem, earned>>

\* The port is opened, the pass begins.
ReadyPort ==
  /\ atState = "READY" /\ TimerMayRun
  /\ atState' = "AT" /\ list' = FixupAtList(list) /\ ClearAtState
  /\ earned' = {}
  /\ UNCHANGED <<setup, apnCnt, armed, sync, wire, tty, modem>>

\* The card in use is not the right one: the port stays open and its event
\* added until STARTUP runs.
SwitchSim ==
  /\ atState \in {"READY", "AT"} /\ sync = "none"
  /\ atState' = "STARTUP"
  /\ UNCHANGED <<setup, atDaemon, wire, tty, modem, earned>>

\* modem_write() throws away what has not been read, and writes.
Send ==
  /\ atState = "AT" /\ TimerMayRun /\ ~AtEnd /\ try < MaxRetry /\ Len(wire) < MaxWire
  /\ wire' = Append(wire, Written(try)) /\ tty' = <<>>
  /\ try' = try + 1 /\ atErrno' = ErrCode(list[idx]) /\ buf' = <<>> /\ armed' = TRUE
  /\ UNCHANGED <<setup, atState, list, idx, apnCnt, sync, modem, earned>>

\* CEREG has failed too often: the modems that may be registered otherwise try
\* something else in the slot that follows.  The network type that is looked
\* at is that of SIM 1.
Fallback(l) ==
  LET type1 == setup.types[1]
      next(c) == [l EXCEPT ![RegSlot + 1] = c]
  IN CASE setup.family = "LUA10" /\ type1 = "AUTO" -> {l}
       [] setup.family = "U8300" /\ type1 \in {"AUTO", "3G"} -> {next("CGREG")}
       [] setup.family = "PLS8" /\ type1 \in {"AUTO", "4G"} -> {next("CREG")}
       [] setup.family = "ELS31" /\ l[idx + 1] = "AT" -> {l}
       [] OTHER -> {}

Unimportant == atErrno \in {"OK", "NAK"}
Fallbacks   == IF list[idx] = "CEREG" THEN Fallback(list) ELSE {}

\* The tries are used up: the next command, or the modem is scanned again.
GiveUp ==
  /\ atState = "AT" /\ TimerMayRun /\ ~AtEnd /\ try = MaxRetry
  /\ armed' = FALSE
  /\ \/ /\ Unimportant
        /\ idx' = idx + 1 /\ try' = 0
        /\ UNCHANGED <<atState, list>>
     \/ /\ ~Unimportant
        /\ list' \in Fallbacks
        /\ idx' = idx + 1 /\ try' = 0
        /\ UNCHANGED atState
     \/ /\ ~Unimportant /\ Fallbacks = {}
        /\ atState' = "STARTUP"
        /\ try' = try + 1
        /\ UNCHANGED <<list, idx>>
  /\ UNCHANGED <<setup, atErrno, apnCnt, buf, sync, wire, tty, modem, earned>>

\* The end of the list: the port is closed, DHCP, GET_STATIC_PARAMS or PPP is next.
ListDone ==
  /\ atState = "AT" /\ TimerMayRun /\ AtEnd
  /\ atState' = "DIAL" /\ ClearAtState /\ armed' = FALSE
  /\ UNCHANGED <<setup, list, apnCnt, sync, wire, tty, modem, earned>>

\* The link is lost or could not be made.
RedialAt ==
  /\ atState = "DIAL" /\ atState' = "STARTUP"
  /\ UNCHANGED <<setup, atDaemon, wire, tty, modem, earned>>

\* do_redial_procedure(), change_redial_state(): a pass is broken off.
BreakOff ==
  /\ atState \in {"READY", "AT"} /\ sync = "none"
  /\ atState' = "STARTUP" /\ ClearAtState /\ armed' = FALSE
  /\ UNCHANGED <<setup, list, apnCnt, sync, wire, tty, modem, earned>>

-----------------------------------------------------------------------------
(* The read callback and the handler of AT+CPIN?.                          *)

Registered == {<<"REG", 1>>} \cup (IF Roaming THEN {<<"REG", 5>>} ELSE {})

\* Where an answered command leads.  The ELS31 activates its context again
\* while the command behind it shows no address.
NextIdx ==
  IF setup.family # "ELS31" THEN idx + 1
  ELSE CASE list[idx] = "CGPADDR2" -> IF apnCnt < ApnRetry THEN idx - 2 ELSE idx + 1
         [] list[idx] = "CGPADDR3" -> idx + 2
         [] OTHER -> idx + 1

\* Mutant: the context is activated again for ever.
NextApnCntUnbounded == apnCnt

NextApnCnt ==
  IF setup.family # "ELS31" \/ list[idx] \notin {"CGPADDR2", "CGPADDR3"} THEN apnCnt
  ELSE IF list[idx] = "CGPADDR2" /\ apnCnt < ApnRetry THEN apnCnt + 1 ELSE 0

\* The handler is done: the next command, or another try when the timer runs out.
Finish(verdict) ==
  /\ atErrno' = verdict
  /\ IF verdict = "OK" THEN idx' = NextIdx /\ apnCnt' = NextApnCnt /\ try' = 0
     ELSE UNCHANGED <<idx, apnCnt, try>>
  /\ buf' = <<>> /\ armed' = FALSE /\ sync' = "none"

\* The handler writes a command itself and waits: nothing is thrown away first.
AskModem(c) ==
  /\ Len(wire) < MaxWire
  /\ sync' = c /\ wire' = Append(wire, c)
  /\ armed' = FALSE
  /\ UNCHANGED <<idx, try, atErrno, apnCnt>>

\* process_unlock_modem(): only some modems have a command for it.
Unlocks == setup.family = "EC25"

\* The answer is complete: its handler is called.
Handle(b) ==
  LET c == Written(try - 1) IN
  IF c # "CPIN" THEN Finish(Verdict(c, b)) /\ UNCHANGED wire
  ELSE IF Has(b, "READY") THEN Finish("OK") /\ UNCHANGED wire
  ELSE IF Has(b, "SIM_PIN") THEN AskModem(Chain[1]) /\ buf' = b
  ELSE IF Has(b, "PH_NETSUB") /\ Unlocks THEN AskModem("CLCK") /\ buf' = b
  ELSE Finish("NOSIM") /\ UNCHANGED wire

\* redial_at_callback(): k tokens have come.  It may run in STARTUP, when the
\* port has been left open.
ReadTty(k) ==
  /\ atState \in {"AT", "STARTUP"} /\ armed /\ sync = "none"
  /\ k \in 1..Len(tty)
  /\ tty' = SubSeq(tty, k + 1, Len(tty))
  /\ LET b == buf \o SubSeq(tty, 1, k) IN
     \/ /\ Has(b, "OK") /\ ~AtEnd /\ Handle(b)
     \/ /\ Has(b, "OK") /\ AtEnd
        /\ buf' = <<>>
        /\ UNCHANGED <<idx, try, atErrno, apnCnt, armed, sync, wire>>
     \/ /\ ~Has(b, "OK")
        /\ buf' = b
        /\ UNCHANGED <<idx, try, atErrno, apnCnt, armed, sync, wire>>
  /\ UNCHANGED <<setup, atState, list, modem, earned>>

\* Mutant: the last PIN but none is tried.
PinAllowedToTheLast(n) == n > 0 /\ n <= 3

\* check_return2() has read an "OK", with what came before and after it; the
\* PIN is entered while the counter is 2 or 3.
PinAllowed(n) == n > 1 /\ n <= 3

SyncAnswer(k) ==
  /\ sync # "none" /\ Has(tty, "OK")
  /\ k \in SelectInSeq(tty, LAMBDA t : t[1] = "OK")..Len(tty)
  /\ tty' = SubSeq(tty, k + 1, Len(tty))
  /\ LET ans == SubSeq(tty, 1, k) IN
     \/ /\ sync = "PIN" /\ Finish("OK") /\ UNCHANGED wire
     \/ /\ sync = "CLCK" /\ Finish("NOSIM") /\ UNCHANGED wire
     \/ /\ sync \in Range(Chain)
        /\ IF Has(ans, sync) /\ PinAllowed(Number(ans, sync)) /\ setup.pin # "none"
           THEN AskModem("PIN") /\ UNCHANGED buf
           ELSE Finish("NOSIM") /\ UNCHANGED wire
  /\ UNCHANGED <<setup, atState, list, modem, earned>>

\* No "OK" within 3 s: what came is lost; the next counter query is tried, and
\* a lock that cannot be removed is passed over.
SyncTimeout ==
  /\ sync # "none" /\ ~Has(tty, "OK") /\ (setup.slow \/ wire = <<>>)
  /\ tty' = <<>>
  /\ \/ /\ sync = "PIN" /\ Finish("NOSIM") /\ UNCHANGED wire
     \/ /\ sync = "CLCK" /\ Finish("OK") /\ UNCHANGED wire
     \/ /\ sync \in Range(Chain)
        /\ IF sync = Last(Chain) THEN Finish("NOSIM") /\ UNCHANGED wire
           ELSE AskModem(Chain[SelectInSeq(Chain, LAMBDA c : c = sync) + 1]) /\ UNCHANGED buf
  /\ UNCHANGED <<setup, atState, list, modem, earned>>

-----------------------------------------------------------------------------
(* The modem: external, as the commands above expect it.                   *)

OkToken == <<"OK", 0>>
RegToken ==
  <<"REG", CASE modem.reg = "none" -> 0 [] modem.reg = "roam" -> 5 [] OTHER -> 1>>

\* CEREG sees the LTE network only, the others the older ones only.
QueryToken(c) ==
  IF (c = "CEREG" /\ modem.reg = "old") \/ (c # "CEREG" /\ modem.reg = "lte")
  THEN <<"REG", 0>> ELSE RegToken

\* The answers the modem may give to a command.
Answers(c) ==
  CASE c = "CPIN" -> {CASE modem.card = "READY"  -> <<<<"READY", 0>>, OkToken>>
                        [] modem.card = "PIN"    -> <<<<"SIM_PIN", 0>>, OkToken>>
                        [] modem.card = "PUK"    -> <<<<"SIM_PUK", 0>>, OkToken>>
                        [] modem.card = "NETSUB" -> <<<<"PH_NETSUB", 0>>, OkToken>>
                        [] modem.card = "NONE"   -> <<>>}
    [] c = "CSQ" -> {<<<<"CSQ", n>>, OkToken>> : n \in {0, 5, 20}}
    [] c \in Queries -> {<<QueryToken(c), OkToken>>}
    [] c \in {"CGPADDR2", "CGPADDR3"} -> {<<<<"CGPADDR", n>>, OkToken>> : n \in {0, 1}}
    [] c \in Range(Chain) ->
         {IF c = setup.counter THEN <<<<c, modem.pins>>, OkToken>> ELSE <<>>}
    [] c = "PIN" -> {IF setup.pin = "right" /\ modem.card = "PIN" THEN <<OkToken>> ELSE <<>>}
    [] c = "CLCK" -> {<<>>, <<OkToken>>}
    [] OTHER -> {<<OkToken>>}

\* What a PIN does to the card.
TryPin(m) ==
  IF m.card # "PIN" THEN m
  ELSE IF setup.pin = "right" THEN [m EXCEPT !.card = "READY", !.pins = 3]
  ELSE [m EXCEPT !.pins = @ - 1, !.card = IF m.pins = 1 THEN "PUK" ELSE "PIN"]

\* What an answer shows: a card that is ready, a signal, a registration.
Shown(ans) ==
  (IF Has(ans, "READY") THEN {"sim"} ELSE {})
  \cup (IF Has(ans, "CSQ") /\ Number(ans, "CSQ") > 0 THEN {"signal"} ELSE {})
  \cup (IF \E t \in Registered : t \in Range(ans) THEN {"reg"} ELSE {})

Execute ==
  /\ wire # <<>>
  /\ \E ans \in Answers(Head(wire)) :
       /\ Len(tty) + Len(ans) <= MaxTty
       /\ tty' = tty \o ans
       /\ modem' = CASE Head(wire) = "PIN" -> TryPin(modem)
                     [] Head(wire) = "CLCK" /\ ans # <<>> -> [modem EXCEPT !.card = "READY"]
                     [] OTHER -> modem
       /\ earned' = earned \cup Shown(ans)
            \cup (IF Head(wire) \in {"PIN", "CLCK"} /\ ans # <<>> THEN {"sim"} ELSE {})
  /\ wire' = Tail(wire)
  /\ UNCHANGED <<setup, atState, atDaemon>>

\* The modem answers "ERROR" or nothing at all.
Mute ==
  /\ wire # <<>> /\ Head(wire) \notin {"PIN", "CLCK"}
  /\ wire' = Tail(wire)
  /\ earned' = earned \cup (IF Head(wire) \in Queries THEN {"mute"} ELSE {})
  /\ UNCHANGED <<setup, atState, atDaemon, tty, modem>>

\* The modem registers or loses the network, and may report it unasked.
Register(r) ==
  /\ r # modem.reg /\ modem.changes < MaxChanges
  /\ modem' = [modem EXCEPT !.reg = r, !.changes = @ + 1]
  /\ \/ UNCHANGED <<tty, earned>>
     \/ /\ Len(tty) < MaxTty
        /\ tty' = Append(tty, RegToken')
        /\ earned' = earned \cup Shown(<<RegToken'>>)
  /\ UNCHANGED <<setup, atState, atDaemon, wire>>

-----------------------------------------------------------------------------
Init ==
  /\ setup \in [family : AtFamilies, types : [AtSims -> NetTypes], cur : AtSims,
                pin : {"right", "wrong", "none"}, counter : Counters, slow : BOOLEAN]
  /\ setup.slow => setup.family \in Slow
  /\ SameTypes => setup.types[1] = setup.types[2] /\ setup.cur = 1
  /\ modem \in [card : Cards, pins : 1..3, reg : Networks, changes : {0}]
  /\ modem.card # "PIN" =>
       setup.pin = "none" /\ modem.pins = 3 /\ setup.counter = CHOOSE q \in Counters : TRUE
  /\ atState = "STARTUP" /\ list = StaticList(setup.family)
  /\ idx = 1 /\ try = 0 /\ atErrno = "OK" /\ apnCnt = 0
  /\ armed = FALSE /\ buf = <<>> /\ sync = "none"
  /\ wire = <<>> /\ tty = <<>> /\ earned = {}

Next ==
  \/ StartOver \/ ReadyPort \/ SwitchSim \/ Send \/ GiveUp \/ ListDone \/ RedialAt \/ BreakOff
  \/ \E k \in 1..MaxTty : ReadTty(k) \/ SyncAnswer(k)
  \/ SyncTimeout
  \/ Execute \/ Mute \/ \E r \in Networks : Register(r)

Spec == Init /\ [][Next]_vars

\* The timer of the event loop runs out, what has come is read, a handler waits 3 s and no longer, and
\* what is on the wire is executed or lost.
Fairness ==
  /\ WF_vars(Send \/ GiveUp \/ ListDone)
  /\ WF_vars(\E k \in 1..MaxTty : ReadTty(k))
  /\ WF_vars(SyncTimeout) /\ WF_vars(\E k \in 1..MaxTty : SyncAnswer(k))
  /\ WF_vars(Execute \/ Mute)

FairSpec == Spec /\ Fairness

-----------------------------------------------------------------------------
AtTypeOK ==
  /\ atState \in {"STARTUP", "READY", "AT", "DIAL"}
  /\ list \in Seq({"AT", "CPIN", "CSQ", "CREG_AUTO", "COPS", "SICA", "CGPADDR2", "CGPADDR3"} \cup Queries)
  /\ idx \in 1..(Len(list) + 1) /\ try \in 0..(MaxRetry + 1) /\ apnCnt \in 0..ApnRetry
  /\ atErrno \in {"OK", "NAK", "NOMODEM", "NOSIM", "NOSIGNAL", "LOWSIGNAL", "NOREG", "ROAM", "NOVALIDIP"}
  /\ armed \in BOOLEAN
  /\ sync \in {"none", "PIN", "CLCK"} \cup Range(Chain)
  /\ Len(wire) <= MaxWire /\ Len(tty) <= MaxTty
  /\ modem \in [card : Stored, pins : 0..3, reg : Networks, changes : 0..MaxChanges]
  /\ earned \subseteq {"sim", "signal", "reg", "mute"}

\* A dial begins only after the modem has shown, in this very pass, a card that
\* is ready, a signal and a registration that may be used: no answer to an
\* earlier command or of an earlier pass is taken for it.  The exceptions are the
\* code's: a network lock that could not be removed passes for a ready card, a
\* late "OK" for the answer to the PIN; a registration that is asked for by
\* CREG_AUTO is skipped if it is not answered (in time), and the ELS31 does
\* without one.
DialIsEarned ==
  atState = "DIAL" =>
    /\ "signal" \in earned
    /\ "sim" \in earned \/ modem.card = "NETSUB" \/ (setup.slow /\ modem.card \in {"PIN", "PUK"})
    /\ \/ "reg" \in earned
       \/ setup.family = "EC25" /\ ("mute" \in earned \/ setup.slow)
       \/ setup.family = "ELS31"

\* "PIN code count=1, Donot try!" (modem.c): a wrong PIN never locks the card. The code keeps
\* it as long as the modem answers in time.  It loses it when answers come late:
\* send_at_cmd_sync2() takes the first "OK" for the answer to what it asked last, so
\* a counter that was read before the last PIN was tried allows the next one.
PinIsSpared == modem.card # "PUK" /\ modem.pins > 0

\* Every pass comes to an end: a dial, or a new scan of the modem.
PassEnds == atState = "AT" ~> atState # "AT"

\* A dial has been earned, and no card was lost on the way to it, unless the modem
\* answers late.
ListIsCareful == AtTypeOK /\ DialIsEarned /\ (setup.slow \/ PinIsSpared)
=============================================================================
