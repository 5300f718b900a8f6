-------------------------------- MODULE VifBus --------------------------------
(***************************************************************************)
(* The dialer and a service that follows its links (vif_shared.c): the     *)
(* broadcasts VIF_LINK_CHANGE, the request by which a service that starts  *)
(* late asks for the present state, the replica it keeps, and the restart  *)
(* of either of them.                                                      *)
(***************************************************************************)
EXTENDS Dialer

CONSTANTS
  MaxChan,     \* bound: messages on their way to the service
  MaxRestarts  \* bound: restarts of the service and of the daemon

ASSUME BusConstantsOK == MaxChan \in Nat /\ MaxRestarts \in Nat

VARIABLES
  chan,     \* FIFO of link changes on their way to the service
  replica,  \* gl_vif_info: what it knows of each WWAN
  asked,    \* its VIF_LINK_CHANGE_REQ has not been answered
  restarts  \* how many restarts there have been

busVars == <<vars, chan, replica, asked, restarts>>

\* A VIF_INFO as the properties need it; `via' is not in the code.
Info    == [up : BOOLEAN, via : {"publish", "reply"}]
Unknown == [up |-> FALSE, via |-> "publish"]
Message == [iface : Wwans, info : Info]

BusTypeOK ==
  /\ chan \in Seq(Message) /\ Len(chan) <= MaxChan
  /\ replica \in [Wwans -> Info]
  /\ asked \in BOOLEAN /\ restarts \in 0 .. MaxRestarts

\* The service registers and asks every publisher (ih_vif_req_link_change_info).
BusInit ==
  /\ Init
  /\ chan = <<>> /\ replica = [w \in Wwans |-> Unknown]
  /\ asked = TRUE /\ restarts = 0

-----------------------------------------------------------------------------
\* The WWANs a step of the daemon broadcasts: those it changes, and the ones it
\* reports down again as it starts and as a connection ends.
Sent == {w \in Wwans : (w \in pub) # (w \in pub')}
        \cup (IF st = "INIT" /\ st' = "WAIT_CONFIG" THEN {"wwan1"} ELSE {})
        \cup (IF st = "CONNECTED" /\ st' = "STARTUP" /\ requests' = requests
              THEN Dialed ELSE {})

Told(S, up, via) ==
  LET msg(w)  == [iface |-> w, info |-> [up |-> w \in up, via |-> via]]
      of(w)   == IF w \in S THEN <<msg(w)>> ELSE <<>>
  IN of("wwan1") \o of("wwan2")

\* Mutant: the message is made before the link state is changed.
DaemonStepStale ==
  /\ Next
  /\ chan' = chan \o Told(Sent, pub, "publish")
  /\ Len(chan') <= MaxChan
  /\ UNCHANGED <<replica, asked, restarts>>

\* A step of the daemon, with the broadcasts it makes (ih_ipc_publish).
DaemonStep ==
  /\ Next
  /\ chan' = chan \o Told(Sent, pub', "publish")
  /\ Len(chan') <= MaxChan
  /\ UNCHANGED <<replica, asked, restarts>>

\* IPC_MSG_VIF_LINK_CHANGE_REQ: vif_info.status is sent as it is, whether or not
\* it has been broadcast.
Reply ==
  /\ asked /\ st # "REBOOT" /\ asked' = FALSE
  /\ chan' = chan \o Told({"wwan1"} \cup (IF dualWwan THEN {"wwan2"} ELSE {}), vif, "reply")
  /\ Len(chan') <= MaxChan
  /\ UNCHANGED <<vars, replica, restarts>>

\* sync_vif_link_change_handle(): one slot for each interface, overwritten.
Deliver ==
  /\ chan # <<>> /\ chan' = Tail(chan)
  /\ replica' = [replica EXCEPT ![Head(chan).iface] = Head(chan).info]
  /\ UNCHANGED <<vars, asked, restarts>>

\* The service restarts with an empty table and asks again (vif_link_change_
\* register(), vif_svc_event_handle()).
ServiceRestart ==
  /\ restarts < MaxRestarts /\ restarts' = restarts + 1
  /\ chan' = <<>> /\ replica' = [w \in Wwans |-> Unknown] /\ asked' = TRUE
  /\ UNCHANGED vars

\* What survives of the daemon is in its dump and its pid files: the first
\* WWAN's status is reset, the second one's is as it was when dumped, and the
\* sub-daemons are killed.  The services see it come back and ask again.
DaemonRestart ==
  /\ restarts < MaxRestarts /\ restarts' = restarts + 1
  /\ st' = "INIT"
  /\ child' = [s \in Slots |-> "none"] /\ mail' \in Farewell(Slots, <<>>)
  /\ vif' \in {{}, vif \ {"wwan1"}} /\ tmr' = {}
  /\ cfg' = [cfg EXCEPT !.held = FALSE]
  /\ dial' = "NONE" /\ dualWwan' = FALSE /\ simSwitch' = FALSE /\ force' = FALSE
  /\ redialCnt' = 0 /\ waitCnt' = 0
  /\ asked' = TRUE
  /\ UNCHANGED <<pub, requests, chan, replica>>

BusNext == DaemonStep \/ Reply \/ Deliver \/ ServiceRestart \/ DaemonRestart

BusSpec == BusInit /\ [][BusNext]_busVars

-----------------------------------------------------------------------------
(* Properties.                                                             *)

\* The replica of a service that has read its messages is what was broadcast
\* last, through any restart of the daemon (vif_shared.c l.351-470).
ReplicaIsPublished ==
  chan = <<>> => \A w \in Wwans : replica[w].via = "publish" =>
                                    (replica[w].up => w \in pub)

\* A service that started late and was told of the link in an answer agrees
\* with the others while the dialer is connected: it never believes in a first
\* WWAN they were told is down (ih_redial.c l.4539-4563).
LateServiceAgrees ==
  chan = <<>> /\ st = "CONNECTED" /\ replica["wwan1"].up => "wwan1" \in pub

\* Nobody is promised a link that is not there, through any restart of the daemon:
\* INIT withdraws the first WWAN of the daemon that died before anything is dialed.
\* It does not withdraw the second (l.8866-8881), which may stay promised after a
\* restart while the state machine scans and dials.
RestartWithdraws ==
  st \notin {"CONNECTED", "INIT"} =>
    pub \subseteq (IF restarts = 0 THEN {} ELSE {"wwan2"})

\* Whichever way a service has come to know a link, by a broadcast or by the answer
\* to its question, it agrees with the dialer (vif_shared.c l.351-470).
ReplicaAgrees == BusTypeOK /\ ReplicaIsPublished /\ LateServiceAgrees
=============================================================================
