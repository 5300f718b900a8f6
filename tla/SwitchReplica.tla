----------------------------- MODULE SwitchReplica -----------------------------
(***************************************************************************)
(* The Ethernet ports of the router as every service sees them             *)
(* (if_common.c): the numbering of the ports, the printed form of a set of *)
(* ports and its parser, and the replica of the VLANs, trunks and ring     *)
(* ports a service keeps from what the interface, LACP and ring services   *)
(* publish.  A service hears of changes through hooks; `heard' is what one *)
(* that knows nothing but its hooks believes.  A trunk has two publishers, *)
(* and the interface service hears of LACP's like everybody else, by a     *)
(* message; `crossed' are the trunks of which it has published its own     *)
(* idea with LACP's still unread.                                          *)
(***************************************************************************)
EXTENDS Integers, FiniteSets, Sequences, SequencesExt, FiniteSetsExt

CONSTANTS
  Tables,    \* port tables of products: sequences of PORT_MAP entries
  MaxSlot,   \* MAX_SLOT
  MaxType,   \* IF_PORT_TYPE_MAX
  MaxPort,   \* the last bit of a PBMP
  Vids,      \* VLAN ids in play
  Tids,      \* trunk ids in play
  MaxTrunk,  \* MAX_TRUNK_GROUP
  MaxNews    \* bound: changes that are published

ASSUME SwitchConstantsOK ==
  /\ Vids \subseteq 1 .. 4094 /\ MaxTrunk \in Nat /\ Tids \subseteq 1 .. MaxTrunk
  /\ MaxSlot \in Nat /\ MaxType \in Nat /\ MaxPort \in Nat /\ MaxNews \in Nat

VARIABLES
  table,    \* product_info.port_map: what the product has
  map,      \* g_port_conf and g_if_slot_info, built from it
  ifs,      \* the interface service's own VLANs and trunks
  inbox,    \* its mailbox: the trunks LACP has published
  crossed,  \* ghost: trunks it spoke of before it had read LACP's last word
  lag,      \* the LACP service's own aggregators
  claimed,  \* VLANs and ports the ring service has registered
  box,      \* mailbox of the service under study
  rep,      \* its replica
  heard,    \* what its hooks were told
  joined,   \* "out", "subscribed" or "synced" (if_sync_register)
  news      \* changes published so far

swVars == <<table, map, ifs, inbox, crossed, lag, claimed, box, rep, heard, joined, news>>

-----------------------------------------------------------------------------
\* The port map.

PortEntries ==
  [type : 1 .. MaxType, slot : 1 .. MaxSlot, port : 1 .. MaxPort, dev : Nat, devPort : Nat,
   cpu : BOOLEAN, cascade : BOOLEAN]

OfSlot(t, s, k) == {i \in DOMAIN t : t[i].slot = s /\ t[i].type = k}

\* In a product's table the ports of each slot and type are numbered from 1 without
\* a gap, and no two entries are the same port of a switch chip.
ASSUME TablesAreProper ==
  \A t \in Tables :
    /\ t \in Seq(PortEntries)
    /\ \A s \in 1 .. MaxSlot, k \in 1 .. MaxType :
         {t[i].port : i \in OfSlot(t, s, k)} = 1 .. Cardinality(OfSlot(t, s, k))
    /\ \A i, j \in DOMAIN t : t[i].dev = t[j].dev /\ t[i].devPort = t[j].devPort => i = j

NoPort == -1

\* One port of a group: its logical number is its panel number above the base of
\* the group; a number that is taken is not given again.
AddPort(acc, e) ==
  LET l == e.port + acc.next
  IN IF l \in DOMAIN acc.conf THEN acc
     ELSE [acc EXCEPT !.conf = [x \in DOMAIN @ \cup {l} |-> IF x = l THEN e ELSE @[x]],
                      !.count = @ + 1]

AddEntry(t, acc, s, k, i) == IF i \in OfSlot(t, s, k) THEN AddPort(acc, t[i]) ELSE acc

\* The slots and types the loops go through.
InRange(t, s, k) ==
  /\ \E i, j \in DOMAIN t : t[i].slot <= s /\ s <= t[j].slot
  /\ \E i, j \in DOMAIN t : t[i].type <= k /\ k <= t[j].type

\* g_if_slot_info has room for the slots and types there are, and the loops fill it
\* from its start: a table that skips a slot or a type between two others would be
\* written past its end.  No product of the sources has one.
ASSUME TablesHaveNoGap ==
  \A t \in Tables, s \in 1 .. MaxSlot, k \in 1 .. MaxType :
    InRange(t, s, k) => \E i, j \in DOMAIN t : t[i].slot = s /\ t[j].type = k

\* All ports of one slot and type; the next group starts above them.
AddGroup(t, acc, s, k) ==
  LET after[i \in 0 .. Len(t)] ==
        IF i = 0 THEN [acc EXCEPT !.count = 0] ELSE AddEntry(t, after[i - 1], s, k, i)
      done == after[Len(t)]
  IN IF ~InRange(t, s, k) THEN acc
     ELSE [done EXCEPT !.base[<<s, k>>] = acc.next, !.next = acc.next + done.count]

AddSlot(t, acc, s) ==
  LET after[k \in 0 .. MaxType] == IF k = 0 THEN acc ELSE AddGroup(t, after[k - 1], s, k)
  IN after[MaxType]

NoPorts == [conf |-> <<>>, base |-> [g \in (1 .. MaxSlot) \X (1 .. MaxType) |-> NoPort],
            count |-> 0, next |-> 0]
Numbered(t) ==
  LET after[s \in 0 .. MaxSlot] == IF s = 0 THEN NoPorts ELSE AddSlot(t, after[s - 1], s)
  IN after[MaxSlot]

\* if_slot_portmap_init()
PortMap(t) ==
  LET m == Numbered(t)
      CpuPorts == {l \in DOMAIN m.conf : m.conf[l].cpu}
      Cascade  == {l \in DOMAIN m.conf : m.conf[l].cascade}
  IN [conf |-> m.conf, base |-> m.base, cpu |-> CpuPorts, cascade |-> Cascade,
      full |-> DOMAIN m.conf \ (CpuPorts \cup Cascade)]

\* port_is_valid(), get_logical_port_number() and get_panel_port_number()
Valid(l)  == l \in DOMAIN map.conf
Logical(type, slot, port) ==
  LET base == map.base[<<slot, type>>]
  IN IF base = NoPort \/ ~Valid(base + port) THEN NoPort ELSE base + port
Panel(l)  == map.conf[l]
MultiChip == Cardinality({map.conf[l].dev : l \in DOMAIN map.conf}) > 1

\* The application port a switch chip's port belongs to (dev_port_to_app_port()).
OfDevice(dev, port) ==
  LET S == {l \in DOMAIN map.conf : map.conf[l].dev = dev /\ map.conf[l].devPort = port}
  IN IF S = {} THEN NoPort ELSE Min(S)

\* get_app_pbmp_by_type_slot()
OfGroup(type, slot) ==
  {l \in DOMAIN map.conf : map.conf[l].type = type /\ map.conf[l].slot = slot}

-----------------------------------------------------------------------------
\* A set of ports as text: for each type a list of <<slot, first, last>>.

\* slot_pbmp_to_str(): a port follows on the last run or begins one of its own.
NextRun(slot, ports, text, p) ==
  LET n == Len(text)
  IN IF p \notin ports THEN text
     ELSE IF n > 0 /\ text[n][3] = p - 1 THEN [text EXCEPT ![n] = <<slot, @[2], p>>]
     ELSE Append(text, <<slot, p, p>>)

Runs(slot, ports) ==
  LET upto[p \in 0 .. MaxPort] == IF p = 0 THEN <<>> ELSE NextRun(slot, ports, upto[p - 1], p)
  IN upto[MaxPort]

\* What app_pbmp_to_str_original() leaves out of a set before it prints it.
Hidden == map.cpu \cup (IF MultiChip THEN map.cascade ELSE {})

\* The trunks it prints in place of their members, each taking its ports away.
ShowTrunk(acc, t) ==
  IF t \in Tids /\ rep.trunk[t].member \cap acc.left # {}
  THEN [left |-> acc.left \ rep.trunk[t].member, shown |-> acc.shown \cup {t}]
  ELSE acc

ShownTrunks(S) ==
  LET upto[t \in 0 .. MaxTrunk] ==
        IF t = 0 THEN [left |-> S \ Hidden, shown |-> {}] ELSE ShowTrunk(upto[t - 1], t)
  IN upto[MaxTrunk]

Types == {map.conf[l].type : l \in DOMAIN map.conf}
Slots == {map.conf[l].slot : l \in DOMAIN map.conf}

PrintSlot(type, S, text, s) ==
  LET own == S \cap OfGroup(type, s)
  IN IF own = {} THEN text ELSE text \o Runs(s, {Panel(l).port : l \in own})

Printed(type, S) ==
  LET upto[s \in 0 .. MaxSlot] == IF s = 0 THEN <<>> ELSE PrintSlot(type, S, upto[s - 1], s)
  IN upto[MaxSlot]

\* Mutant: a single port is not taken for a run.
ParseRunOfMany(type, acc, r) ==
  LET base == map.base[<<r[1], type>>]
      ok   == Logical(type, r[1], r[3]) # NoPort /\ acc.last <= r[2] /\ r[2] < r[3]
  IN IF ~acc.ok \/ ~ok THEN [acc EXCEPT !.ok = FALSE]
     ELSE [ok |-> TRUE, last |-> r[3], ports |-> acc.ports \cup {base + p : p \in r[2] .. r[3]}]

\* One run of get_ifrange_portmap_from_str().  Its last port bounds the next run
\* from below, whatever slot that one is of.
ParseRun(type, acc, r) ==
  LET base == map.base[<<r[1], type>>]
      ok   == /\ Logical(type, r[1], r[2]) # NoPort /\ Logical(type, r[1], r[3]) # NoPort
              /\ acc.last <= r[2] /\ r[2] <= r[3]
  IN IF ~acc.ok \/ ~ok THEN [acc EXCEPT !.ok = FALSE]
     ELSE [ok |-> TRUE, last |-> r[3], ports |-> acc.ports \cup {base + p : p \in r[2] .. r[3]}]

Unread == [ok |-> TRUE, last |-> 0, ports |-> {}]
Parsed(type, text) ==
  LET after[i \in 0 .. Len(text)] ==
        IF i = 0 THEN Unread ELSE ParseRun(type, after[i - 1], text[i])
  IN after[Len(text)]

-----------------------------------------------------------------------------
\* The replica.

Roles   == {"none", "untagged", "tagged", "unmodified"}
Ports   == DOMAIN map.conf
NoVlan  == [valid |-> FALSE, role |-> [l \in Ports |-> "none"], flag |-> FALSE]
\* VLAN 1 has every port from the start.
DefaultVlan == [NoVlan EXCEPT !.valid = TRUE,
                              !.role = [l \in Ports |-> IF l \in map.full THEN "untagged" ELSE "none"]]
With(info, r) == {l \in Ports : info.role[l] = r}
Members(info) == Ports \ With(info, "none")

\* trunk_in_vlan() and trunk_get_vlan_member_type(): a trunk has the role all its
\* ports have.
TrunkRole(t, v) ==
  LET m == rep.trunk[t].member
      R == {r \in Roles \ {"none"} : m \subseteq With(rep.vlan[v], r)}
  IN IF m = {} \/ R = {} THEN "none" ELSE CHOOSE r \in R : TRUE

Event(what, ports) == [what |-> what, ports |-> ports]
When(c, what)      == Event(IF c THEN what ELSE "nothing", {})
Moved(what, a, b)  == Event(IF a \ b # {} THEN what ELSE "nothing", a \ b)

\* Mutant: a VLAN is destroyed before its ports leave it.
VlanEventsEarly(old, new) ==
  LET T(i) == With(i, "tagged")
      U(i) == With(i, "untagged")
  IN <<When(new.valid /\ ~old.valid, "create"), When(old.valid /\ ~new.valid, "destroy"),
       Moved("joinT", T(new), T(old)), Moved("leaveT", T(old), T(new)),
       Moved("joinU", U(new), U(old)), Moved("leaveU", U(old), U(new))>>

\* vlan_change_process(): what the hooks are called with, in this order.  A port
\* that is neither tagged nor untagged raises no event.
VlanEvents(old, new) ==
  LET T(i) == With(i, "tagged")
      U(i) == With(i, "untagged")
  IN <<When(new.valid /\ ~old.valid, "create"),
       Moved("joinT", T(new), T(old)), Moved("leaveT", T(old), T(new)),
       Moved("joinU", U(new), U(old)), Moved("leaveU", U(old), U(new)),
       When(old.valid /\ ~new.valid, "destroy")>>

\* A listener that keeps what it hears of a VLAN that exists.
HearPorts(h, S, e, join, leave) ==
  IF ~h.exists THEN S
  ELSE IF e.what = join THEN S \cup e.ports
  ELSE IF e.what = leave THEN S \ e.ports ELSE S
HearEvent(h, e) ==
  [exists   |-> e.what = "create" \/ (h.exists /\ e.what # "destroy"),
   tagged   |-> HearPorts(h, h.tagged, e, "joinT", "leaveT"),
   untagged |-> HearPorts(h, h.untagged, e, "joinU", "leaveU")]
HearEvents(h, e) ==
  HearEvent(HearEvent(HearEvent(HearEvent(HearEvent(HearEvent(h, e[1]), e[2]), e[3]), e[4]), e[5]), e[6])

NoNews == [exists |-> FALSE, tagged |-> {}, untagged |-> {}]

\* sync_vlan_msg_handle(): the whole entry is copied, the ring's flag included.
SyncVlan(m) ==
  /\ rep' = [rep EXCEPT !.vlan[m.id] = m.info]
  /\ heard' = [heard EXCEPT !.vlan[m.id] = HearEvents(@, VlanEvents(rep.vlan[m.id], m.info))]

\* sync_trunk_msg_handle() and trunk_change_process(): only LACP sets the flag.
SyncTrunk(m) ==
  LET old  == rep.trunk[m.id].member
      lacp == IF m.from = "LACP" THEN m.member # {} ELSE rep.trunk[m.id].lacp
  IN /\ rep' = [rep EXCEPT !.trunk[m.id] = [member |-> m.member, lacp |-> lacp]]
     /\ heard' = [heard EXCEPT !.trunk[m.id] = (@ \cup (m.member \ old)) \ (old \ m.member)]

\* sync_port_msg_handle()
SyncPort(m) ==
  /\ rep' = IF Valid(m.id) THEN [rep EXCEPT !.desc[m.id] = m.desc] ELSE rep
  /\ UNCHANGED heard

\* sync_vlan_use_msg_handle()
SyncUse(m) ==
  /\ rep' = [rep EXCEPT !.vlan[m.id].flag = m.on]
  /\ UNCHANGED heard

\* sync_port_role_msg_handle(): whoever is unregistered, the side is emptied.
SyncRing(m) ==
  /\ rep' = IF Valid(m.id) THEN [rep EXCEPT !.ring[m.side] = IF m.on THEN m.id ELSE 0] ELSE rep
  /\ UNCHANGED heard

\* lacp_ag_id_msg()
SyncLag(m) == rep' = [rep EXCEPT !.lag = m.info] /\ UNCHANGED heard

Deliver ==
  /\ box # <<>> /\ box' = Tail(box)
  /\ LET m == Head(box)
     IN \/ m.kind = "vlan"  /\ SyncVlan(m)
        \/ m.kind = "trunk" /\ SyncTrunk(m)
        \/ m.kind = "port"  /\ SyncPort(m)
        \/ m.kind = "use"   /\ SyncUse(m)
        \/ m.kind = "ring"  /\ SyncRing(m)
        \/ m.kind = "lag"   /\ SyncLag(m)
  /\ UNCHANGED <<table, map, ifs, inbox, crossed, lag, claimed, joined, news>>

-----------------------------------------------------------------------------
\* What is published (ih_ipc_publish); a service that has not subscribed misses it.

Post(m) == box' = IF joined = "out" THEN box ELSE Append(box, m)
Change  == news < MaxNews /\ news' = news + 1
Rest    == UNCHANGED <<table, map, rep, heard, joined>>
Quiet   == UNCHANGED <<inbox, crossed>>

VlanMsg(v, info)  == [kind |-> "vlan", id |-> v, info |-> info]
TrunkMsg(t, m, s) == [kind |-> "trunk", id |-> t, member |-> m, from |-> s]
PortMsg(l, d)     == [kind |-> "port", id |-> l, desc |-> d]

\* The interface service creates a VLAN, changes one port's role in it, or
\* destroys it with all its ports.
VlanEdits(i) ==
  {[i EXCEPT !.valid = TRUE], NoVlan} \cup {[i EXCEPT !.role[l] = r] : l \in map.full, r \in Roles}
VlanChanges ==
  \E v \in Vids : \E info \in VlanEdits(ifs.vlan[v]) :
    /\ Change /\ info # ifs.vlan[v] /\ (info = NoVlan \/ info.valid)
    /\ ifs' = [ifs EXCEPT !.vlan[v] = info]
    /\ Post(VlanMsg(v, info)) /\ Rest /\ Quiet /\ UNCHANGED <<lag, claimed>>

\* LACP's last word about a trunk is still in the mailbox of the interface service.
Unheard(t) == \E i \in DOMAIN inbox : inbox[i].id = t

\* The interface service sets a trunk.
TrunkChanges ==
  \E t \in Tids, m \in SUBSET map.full :
    /\ Change /\ m # ifs.trunk[t]
    /\ ifs' = [ifs EXCEPT !.trunk[t] = m]
    /\ Post(TrunkMsg(t, m, "IF"))
    /\ crossed' = IF Unheard(t) THEN crossed \cup {t} ELSE crossed \ {t}
    /\ Rest /\ UNCHANGED <<inbox, lag, claimed>>

\* LACP publishes the ports it has aggregated (publish_trunk_info()), to the
\* interface service as to the others.
LacpTrunks ==
  \E t \in Tids, m \in SUBSET map.full :
    /\ Change /\ Post(TrunkMsg(t, m, "LACP"))
    /\ inbox' = Append(inbox, TrunkMsg(t, m, "LACP"))
    /\ crossed' = crossed \ {t}
    /\ Rest /\ UNCHANGED <<ifs, lag, claimed>>

\* The interface service reads of it (sync_trunk_msg_handle()).
IfTakesTrunk ==
  /\ inbox # <<>> /\ inbox' = Tail(inbox)
  /\ LET m == Head(inbox) IN ifs' = [ifs EXCEPT !.trunk[m.id] = m.member]
  /\ Rest /\ UNCHANGED <<crossed, lag, claimed, box, news>>

PortChanges ==
  \E l \in Ports :
    /\ Change /\ ifs' = [ifs EXCEPT !.desc[l] = ~@]
    /\ Post(PortMsg(l, ~ifs.desc[l]))
    /\ Rest /\ Quiet /\ UNCHANGED <<lag, claimed>>

\* lacp_add_lacp_info() and lacp_del_lacp_info(): the whole table is published.
LagChanges ==
  \E t \in Tids, l \in map.full : \E m \in {lag[t] \cup {l}, lag[t] \ {l}} :
    /\ Change /\ m # lag[t] /\ lag' = [lag EXCEPT ![t] = m]
    /\ Post([kind |-> "lag", info |-> lag']) /\ Rest /\ Quiet /\ UNCHANGED <<ifs, claimed>>

\* The ring service claims or releases a VLAN, or a port as one of its two sides.
RingChanges ==
  /\ Change /\ Rest /\ Quiet /\ UNCHANGED <<ifs, lag>>
  /\ \/ \E v \in Vids :
          /\ claimed' = [claimed EXCEPT !.vlan[v] = ~@]
          /\ Post([kind |-> "use", id |-> v, on |-> ~claimed.vlan[v]])
     \/ \E side \in {"left", "right"}, l \in map.full :
          /\ claimed.port[side] \in {0, l}
          /\ claimed' = [claimed EXCEPT !.port[side] = IF @ = 0 THEN l ELSE 0]
          /\ Post([kind |-> "ring", side |-> side, id |-> l, on |-> claimed.port[side] = 0])

-----------------------------------------------------------------------------
\* if_sync_register(): subscribe, wait for the interface service, ask it.
Subscribe ==
  /\ joined = "out" /\ joined' = "subscribed"
  /\ UNCHANGED <<table, map, ifs, inbox, crossed, lag, claimed, box, rep, heard, news>>

\* The interface service answers by publishing all it has: each VLAN, trunk and port
\* once.  (The order within each of the three makes no difference to the copy.)
Listed(f) == [i \in 1 .. Cardinality(DOMAIN f) |-> f[SetToSeq(DOMAIN f)[i]]]
Everything ==
  Listed([v \in Vids |-> VlanMsg(v, ifs.vlan[v])])
  \o Listed([t \in Tids |-> TrunkMsg(t, ifs.trunk[t], "IF")])
  \o Listed([l \in Ports |-> PortMsg(l, ifs.desc[l])])
Answer ==
  /\ joined = "subscribed" /\ joined' = "synced"
  /\ box' = box \o Everything
  /\ crossed' = {t \in Tids : Unheard(t)}
  /\ UNCHANGED <<table, map, ifs, inbox, lag, claimed, rep, heard, news>>

SwInit ==
  /\ table \in Tables /\ map = PortMap(table)
  /\ ifs = [vlan |-> [v \in Vids |-> IF v = 1 THEN DefaultVlan ELSE NoVlan], trunk |-> [t \in Tids |-> {}],
            desc |-> [l \in Ports |-> FALSE]]
  /\ lag = [t \in Tids |-> {}]
  /\ claimed = [vlan |-> [v \in Vids |-> FALSE], port |-> [s \in {"left", "right"} |-> 0]]
  /\ box = <<>> /\ inbox = <<>> /\ crossed = {}
  /\ rep = [vlan |-> [v \in Vids |-> NoVlan], trunk |-> [t \in Tids |-> [member |-> {}, lacp |-> FALSE]],
            desc |-> ifs.desc, ring |-> claimed.port, lag |-> lag]
  /\ heard = [vlan |-> [v \in Vids |-> NoNews], trunk |-> [t \in Tids |-> {}]]
  /\ joined = "out" /\ news = 0

SwNext ==
  \/ Deliver \/ VlanChanges \/ TrunkChanges \/ LacpTrunks \/ IfTakesTrunk
  \/ PortChanges \/ LagChanges \/ RingChanges \/ Subscribe \/ Answer

SwSpec == SwInit /\ [][SwNext]_swVars

-----------------------------------------------------------------------------
\* A service that only listens to its hooks knows which VLANs there are, which
\* ports are tagged and untagged in them, and which ports form a trunk: the order
\* and the differences of vlan_change_process() and trunk_change_process() leave
\* nothing out, whatever becomes of a port between two messages.
ListenerAgrees ==
  /\ \A v \in Vids :
       /\ heard.vlan[v].exists = rep.vlan[v].valid
       /\ heard.vlan[v].tagged = With(rep.vlan[v], "tagged")
       /\ heard.vlan[v].untagged = With(rep.vlan[v], "untagged")
  /\ \A t \in Tids : heard.trunk[t] = rep.trunk[t].member

\* Once the interface service has answered and the mailbox is empty, a service has
\* the VLANs and ports the interface service has, however late it came, and its
\* trunks once that one has read of LACP's as well.  Not so a trunk the interface
\* service published, in an answer or of its own, while LACP's message was on its
\* way: LACP's word ends up with the one and the interface service's with the other,
\* until either speaks of the trunk again.
LateCopyIsComplete ==
  joined = "synced" /\ box = <<>> =>
    /\ \A v \in Vids : rep.vlan[v].valid = ifs.vlan[v].valid /\ rep.vlan[v].role = ifs.vlan[v].role
    /\ \A t \in Tids : ~Unheard(t) /\ t \notin crossed => rep.trunk[t].member = ifs.trunk[t]
    /\ rep.desc = ifs.desc

\* The ports of a VLAN as they are printed, trunks in place of their ports, cover
\* its ports; what is printed of one type on one slot is read back as the ports it
\* was printed from; every port of the product has a number of its own, which its
\* place on the panel and its place on the switch chip both lead to (if_common.c
\* l.399-710, 1404-1476, 4148-4273).
PrintedIsReadBack ==
  /\ \A i \in DOMAIN table :
       LET l == Logical(table[i].type, table[i].slot, table[i].port)
       IN l # NoPort /\ Panel(l) = table[i] /\ OfDevice(table[i].dev, table[i].devPort) = l
  /\ \A v \in Vids :
       LET m == Members(rep.vlan[v])
           s == ShownTrunks(m)
       IN /\ \A ty \in Types, sl \in Slots :
               LET own  == s.left \cap OfGroup(ty, sl)
                   read == Parsed(ty, Printed(ty, own))
               IN read.ok /\ read.ports = own
          /\ m \ Hidden \subseteq s.left \cup UNION {rep.trunk[t].member : t \in s.shown}
          /\ \A t \in s.shown : TrunkRole(t, v) # "none" => rep.trunk[t].member \subseteq m

\* A service that follows the switch ports has the state they are in, whether it
\* was there from the start or asked later (sw_ipc.c, if_common.c l.2780-3010).
CopyAgrees == ListenerAgrees /\ LateCopyIsComplete
================================================================================
