----------------------------- MODULE SwitchTables -----------------------------
(***************************************************************************)
(* Three tables other services keep of the switch's protocols: the LLDP    *)
(* MIB (lldp_shared.c) and the G.8032 ring instances (g8032d_shared.c) as  *)
(* the SNMP agent serves them, and the places of VLANs in the VLAN table   *)
(* (if_common.c).  The agent follows what the protocols publish; nothing   *)
(* asks them for what they published before.                               *)
(***************************************************************************)
EXTENDS Integers, FiniteSets, Sequences, FiniteSetsExt

CONSTANTS
  LldpPorts,   \* ports with LLDP
  Neighbours,  \* systems that may be attached to them
  Instances,   \* ring instances
  Ids,         \* VLAN ids that ask for a place
  MaxPlaces,   \* MAX_NUM_VLAN_ALLOWED: places there are
  MaxPosts     \* bound: messages published

ASSUME TablesConstantsOK ==
  /\ LldpPorts \subseteq Nat \ {0} /\ Instances \subseteq Nat \ {0} /\ Ids \subseteq 1 .. 4094
  /\ MaxPlaces \in Nat \ {0} /\ MaxPosts \in Nat

VARIABLES
  follows,  \* the agent has registered its handlers and subscriptions
  early,    \* it did so before anything was published, and still does
  post,     \* messages on their way to it
  posts,    \* messages published so far
  here,     \* neighbours the LLDP service has, and whether their address was published
  ringCfg,  \* the ring service's own instances
  mib,      \* the agent's copy
  shown,    \* every <<index, neighbour>> it has shown
  places,   \* vlan_table_map_info
  given     \* the place each VLAN id was last given, 0 after its removal

lldpVars  == <<follows, early, post, posts, here, ringCfg, mib, shown>>
tabVars   == <<follows, early, post, posts, here, ringCfg, mib, shown, places, given>>

NoMember  == "none"
NoShown == [who |-> NoMember, index |-> 0]
Config == [flag : {"txDelay", "msgTxHold"}, value : {1}]

-----------------------------------------------------------------------------
\* What the protocols publish; an agent that does not follow misses it.

Publish(m) ==
  /\ posts < MaxPosts /\ posts' = posts + 1
  /\ post' = IF follows THEN Append(post, m) ELSE post
  /\ UNCHANGED <<follows, early, mib, shown, places, given>>

\* A neighbour appears, is refreshed or replaces another.
Attach ==
  \E p \in LldpPorts, n \in Neighbours :
    /\ here' = [here EXCEPT ![p] = [who |-> n, told |-> FALSE]]
    /\ Publish([kind |-> "remote", port |-> p, who |-> n]) /\ UNCHANGED ringCfg

\* Its management address follows it.
Address ==
  \E p \in LldpPorts :
    /\ here[p].who # NoMember /\ ~here[p].told
    /\ here' = [here EXCEPT ![p].told = TRUE]
    /\ Publish([kind |-> "addr", port |-> p, who |-> here[p].who]) /\ UNCHANGED ringCfg

Detach ==
  \E p \in LldpPorts :
    /\ here[p].who # NoMember /\ here' = [here EXCEPT ![p] = [who |-> NoMember, told |-> FALSE]]
    /\ Publish([kind |-> "gone", port |-> p]) /\ UNCHANGED ringCfg

\* Counters and their reset, settings, the local system and its ports.
Other ==
  /\ \E m \in {[kind |-> "count"], [kind |-> "clear"], [kind |-> "time"]}
              \cup {[kind |-> "set", cfg |-> c] : c \in Config}
              \cup {[kind |-> k, port |-> p] : k \in {"portStats", "localPort", "delLocalPort"}, p \in LldpPorts}
              \cup {[kind |-> k] : k \in {"local", "localAddr", "delLocal"}} : Publish(m)
  /\ UNCHANGED <<here, ringCfg>>

\* An instance of the ring is configured, enabled or disabled.
RingConfigured ==
  \E i \in Instances, c \in [vlan : {0, 10}, on : BOOLEAN, ports : {{1, 2}}] :
    /\ ringCfg' = [ringCfg EXCEPT ![i] = c]
    /\ Publish([kind |-> "ring", id |-> i, cfg |-> c]) /\ UNCHANGED here

-----------------------------------------------------------------------------
\* The handlers.

\* ipc_sync_lldp_remotesys_handle(): every message makes a row with an index of
\* its own, also when it refreshes a neighbour.
SyncRemote(m) ==
  mib' = [mib EXCEPT !.remIndex = @ + 1,
                     !.remote[m.port] = [who |-> m.who, index |-> mib.remIndex + 1]]

\* ipc_sync_lldp_remote_manaddr_handle()
SyncAddress(m) == mib' = [mib EXCEPT !.addr[m.port] = m.who]

\* ipc_del_lldp_remotesys_handle(): the row and its address go together.
DelRemote(m) == mib' = [mib EXCEPT !.remote[m.port] = NoShown, !.addr[m.port] = NoMember]

\* ipc_sync_lldp_mib_handle(): counters only count, a change time that is new is
\* passed on.
SyncGlobal(m) ==
  mib' = CASE m.kind = "count" -> [mib EXCEPT !.inserts = @ + 1]
           [] m.kind = "clear" -> [mib EXCEPT !.inserts = 0]
           [] m.kind = "time"  -> [mib EXCEPT !.changes = 1]
           [] m.kind = "set"   -> [mib EXCEPT !.set[m.cfg.flag] = m.cfg.value]

\* ipc_sync_lldp_localsys_*_handle(), ipc_update_lldp_mib_port_handle(): an entry
\* names its port once it is filled, which is what its getters ask.
SyncPortRow(m) == mib' = [mib EXCEPT !.filled = @ \cup {<<m.kind, m.port>>}]
DelPortRow(m)  == mib' = [mib EXCEPT !.filled = @ \ {<<"localPort", m.port>>}]
SyncLocal(m) == mib' = [mib EXCEPT !.local = @ \cup {m.kind}]
DelLocal(m)  == mib' = [mib EXCEPT !.local = {}]

\* ipc_sync_g8032_config_mib_handle()
SyncInstance(m) == mib' = [mib EXCEPT !.ring[m.id] = [index |-> m.id, cfg |-> m.cfg]]

Handle(m) ==
  \/ m.kind = "remote" /\ SyncRemote(m)
  \/ m.kind = "addr" /\ SyncAddress(m)
  \/ m.kind = "gone" /\ DelRemote(m)
  \/ m.kind \in {"count", "clear", "time", "set"} /\ SyncGlobal(m)
  \/ m.kind \in {"portStats", "localPort"} /\ SyncPortRow(m)
  \/ m.kind = "delLocalPort" /\ DelPortRow(m)
  \/ m.kind \in {"local", "localAddr"} /\ SyncLocal(m)
  \/ m.kind = "delLocal" /\ DelLocal(m)
  \/ m.kind = "ring" /\ SyncInstance(m)

\* The row of a port, as the getters give it (get_lldpRemIndex() and the others).
RemoteRow(copy, p) == <<copy.remote[p].index, copy.remote[p].who>>
RemoteAddress(p)   == mib.addr[p]

Receive ==
  /\ post # <<>> /\ post' = Tail(post) /\ Handle(Head(post))
  /\ shown' = shown \cup ({RemoteRow(mib', p) : p \in LldpPorts} \ {<<0, NoMember>>})
  /\ UNCHANGED <<follows, early, posts, here, ringCfg, places, given>>

\* ipc_sync_lldp_mib_register() and g8032_sync_config_mib_register()
Register ==
  /\ ~follows /\ follows' = TRUE /\ early' = (posts = 0)
  /\ UNCHANGED <<post, posts, here, ringCfg, mib, shown, places, given>>

\* ipc_sync_lldp_mib_unregister(): the copy stays as it is.
Unregister ==
  /\ follows /\ follows' = FALSE /\ early' = FALSE
  /\ UNCHANGED <<post, posts, here, ringCfg, mib, shown, places, given>>

\* Configuration of an instance the agent has never heard of is an error
\* (get_config_G8032Instance*()).
RingConfig(i) == IF mib.ring[i].index = i THEN mib.ring[i].cfg ELSE [vlan |-> 0, on |-> FALSE, ports |-> {}]

\* g8032_instance_is_valid() and g8032_svlan_port()
InstanceIsValid(i) == mib.ring[i].cfg.on /\ mib.ring[i].cfg.vlan # 0

-----------------------------------------------------------------------------
\* Places in the VLAN table.

\* Mutant: the place is the number of entries in use.
FreePlaceByCount(t) == Cardinality({i \in DOMAIN t : t[i].vid # 0}) + 1

\* The first entry without a VLAN, 0 if there is none.
FreePlace(t) ==
  LET Free == {i \in DOMAIN t : t[i].vid = 0} IN IF Free = {} THEN 0 ELSE Min(Free)

\* get_vlan_info_idx_by_vid(): a VLAN that has no place is given one.
GetPlace ==
  \E v \in Ids :
    LET Known == {i \in DOMAIN places : places[i].vid = v}
        Free  == {i \in DOMAIN places : places[i].vid = 0}
    IN /\ \/ Known # {} /\ given' = [given EXCEPT ![v] = places[Min(Known)].idx] /\ UNCHANGED places
          \/ Known = {} /\ Free = {} /\ given' = [given EXCEPT ![v] = -1] /\ UNCHANGED places
          \/ /\ Known = {} /\ Free # {}
             /\ places' = [places EXCEPT ![Min(Free)] = [vid |-> v, idx |-> FreePlace(places)]]
             /\ given' = [given EXCEPT ![v] = FreePlace(places)]
       /\ UNCHANGED lldpVars

\* del_vlan_info_idx_by_vid()
DelPlace ==
  \E v \in Ids :
    /\ given[v] # 0 /\ given' = [given EXCEPT ![v] = 0]
    /\ places' = [i \in DOMAIN places |->
                    IF places[i].vid = v THEN [vid |-> 0, idx |-> 0] ELSE places[i]]
    /\ UNCHANGED lldpVars

TabInit ==
  /\ follows = FALSE /\ early = FALSE /\ post = <<>> /\ posts = 0 /\ shown = {}
  /\ here = [p \in LldpPorts |-> [who |-> NoMember, told |-> FALSE]]
  /\ ringCfg = [i \in Instances |-> [vlan |-> 0, on |-> FALSE, ports |-> {}]]
  /\ mib = [remIndex |-> 0, remote |-> [p \in LldpPorts |-> NoShown],
            addr |-> [p \in LldpPorts |-> NoMember], inserts |-> 0, changes |-> 0,
            set |-> [f \in {"txDelay", "msgTxHold"} |-> 0], filled |-> {}, local |-> {},
            ring |-> [i \in Instances |-> [index |-> 0, cfg |-> ringCfg[i]]]]
  /\ places = [i \in 1 .. MaxPlaces |-> [vid |-> 0, idx |-> 0]]
  /\ given = [v \in Ids |-> 0]

MibNext ==
  \/ Attach \/ Address \/ Detach \/ Other \/ RingConfigured
  \/ Receive \/ Register \/ Unregister

PlaceNext == GetPlace \/ DelPlace

TabNext == MibNext \/ PlaceNext

TabSpec == TabInit /\ [][TabNext]_tabVars

-----------------------------------------------------------------------------
\* A manager that walks the table reads one column after the other: as long as the
\* index of a port's row is the same, the row is of the same neighbour.  An agent
\* that has followed from the start shows no address without its neighbour, and
\* with nothing on its way it shows the neighbours and rings there are.  An agent that
\* came later has missed what was said before, and nobody tells it again; and the
\* address beside a neighbour is its predecessor's until its own is published.
RowsAreWhole ==
  /\ \A r, s \in shown : r[1] = s[1] => r[2] = s[2]
  /\ early /\ follows =>
       /\ \A p \in LldpPorts : RemoteAddress(p) # NoMember => mib.remote[p].index # 0
       /\ post = <<>> => /\ \A p \in LldpPorts : mib.remote[p].who = here[p].who
                         /\ \A i \in Instances : RingConfig(i) = ringCfg[i]
                         /\ \A i \in Instances : InstanceIsValid(i) => ringCfg[i].on

\* No two VLANs have the same place, whatever the order of removals.
PlacesAreDistinct ==
  \A v, w \in Ids : v # w /\ given[v] > 0 => given[v] # given[w]

\* The tables beside the ports stay whole however rows come and go (if_common.c).
TablesAreSound == RowsAreWhole /\ PlacesAreDistinct
===============================================================================
