-------------------------------- MODULE Lease6 --------------------------------
(***************************************************************************)
(* The IPv6 addresses of an RM500U link (ih_redial.c l.3740-4359,          *)
(* ipv6_common.c): odhcp6c's script reports what DHCPv6 and the router     *)
(* advertisements have told; wwan0_odhcp6c_event_handle() compares it with *)
(* VIF_INFO and stores, configures and broadcasts what is new, whatever    *)
(* the dialer is doing.  An IPv4 client may run beside it, and both share  *)
(* one status.  Lifetimes, hop limits and route metrics are left out.      *)
(***************************************************************************)
EXTENDS Integers, FiniteSetsExt

CONSTANTS
  Nets,   \* prefixes an address can have
  Slots6  \* CFG_PER_ADDR, DHCPV6C_LIST_NUM and MAX_IPV6_ADDR_PER_IF

ASSUME Lease6ConstantsOK == Slots6 \in Nat \ {0}

Unset   == <<>>
Own(n)  == <<n, "own">>
WithId(n) == <<n, "static id">>   \* add_ipv6_str_interface_id_to_address()
Index   == 1 .. Slots6

VARIABLES
  config6,  \* prefix_share, static_if_id_enable, and a pdp type with IPv4
  phase6,   \* "startup", "dial", "connecting", "connected"
  run4,     \* udhcpc runs (gl_ppp_pid > 0)
  run6,     \* odhcp6c runs (gl_odhcp6c_pid > 0)
  late,     \* a script of an odhcp6c that was stopped has not reported yet
  up,       \* VIF_INFO.status
  dyn,      \* VIF_INFO.ip6_addr.dynamic_ifaddr: address, prefix length and MTU
  extras,   \* dhcp_dns, ra_dns and ra_route: one of each
  dev,      \* addresses of the interface
  told      \* addresses in the last broadcast, and whether it said up

lease6Vars == <<config6, phase6, run4, run6, late, up, dyn, extras, dev, told>>

FreeSlot  == [ip |-> Unset, len |-> 0, mtu |-> 0]
NoExtras  == [dns |-> Unset, rdns |-> Unset, route |-> Unset]
Entries(d) == {<<d[i].ip, d[i].len>> : i \in {j \in Index : d[j].ip # Unset}}
Said(isUp, d) == [up |-> isUp, addrs |-> IF isUp THEN Entries(d) ELSE {}]

\* What the script reports: addresses of DHCPv6, each once, one of a router
\* advertisement, DNS servers, a route and an MTU.  (An event
\* with a delegated prefix other than the configured one is discarded as a whole.)
Lists == {l \in [Index -> {Unset} \cup {Own(n) : n \in Nets}] :
            \A i, j \in Index : i # j /\ l[i] = l[j] => l[i] = Unset}
Infos == [address : Lists, ra : {l \in Lists : \A i \in Index \ {1} : l[i] = Unset},
          extras : {NoExtras, [dns |-> <<"D">>, rdns |-> <<"D">>, route |-> <<"G">>]},
          mtu : {0, 1}]

\* Which of the two addresses at an index is stored, and which is looked for.
Heard(info, i)  == IF info.ra[i] # Unset THEN info.ra[i] ELSE info.address[i]
Sought(info, i) == IF info.address[i] # Unset THEN info.address[i] ELSE info.ra[i]
HeardEntries(info) == {<<Heard(info, i), 64>> : i \in {j \in Index : Heard(info, j) # Unset}}
SoughtEntries(info) == {<<Sought(info, i), 64>> : i \in {j \in Index : Sought(info, j) # Unset}}

Lease6TypeOK ==
  /\ config6 \in [share : BOOLEAN, static : BOOLEAN, v4 : BOOLEAN]
  /\ phase6 \in {"startup", "dial", "connecting", "connected"}
  /\ {run4, run6, late, up} \subseteq BOOLEAN
  /\ Entries(dyn) \cup dev \subseteq
       {<<ip, len>> : ip \in {Own(n) : n \in Nets} \cup {WithId(n) : n \in Nets}, len \in {64, 128}}
  /\ told.up \in BOOLEAN

Lease6Init ==
  /\ config6 \in [share : BOOLEAN, static : BOOLEAN, v4 : BOOLEAN] /\ ~(config6.share /\ config6.static)
  /\ phase6 = "startup" /\ run4 = FALSE /\ run6 = FALSE /\ late = FALSE /\ up = FALSE
  /\ dyn = [i \in Index |-> FreeSlot] /\ extras = NoExtras /\ dev = {}
  /\ told = [up |-> FALSE, addrs |-> {}]

-----------------------------------------------------------------------------
\* The event handler.

AllFlags == {"addr", "mtu"} \cup DOMAIN NoExtras

\* Mutant: an address that is no longer reported is not noticed.
NeedUpdateOfNew(info) ==
  {f \in {"addr"} : ~ (SoughtEntries(info) \subseteq Entries(dyn))}
  \cup {f \in {"mtu"} : \E i \in Index : dyn[i].ip # Unset /\ dyn[i].mtu # info.mtu}
  \cup {f \in DOMAIN NoExtras : extras[f] # info.extras[f]}

\* need_update(): every reported address is stored and every stored one reported.
NeedUpdate(info) ==
  {f \in {"addr"} : ~ (SoughtEntries(info) \subseteq Entries(dyn)
                       /\ Entries(dyn) \subseteq HeardEntries(info))}
  \cup {f \in {"mtu"} : \E i \in Index : dyn[i].ip # Unset /\ dyn[i].mtu # info.mtu}
  \cup {f \in DOMAIN NoExtras : extras[f] # info.extras[f]}

\* del_dhcpv6_info2inf()
Forgotten(d, flags) ==
  [i \in Index |-> [ip  |-> IF "addr" \in flags THEN Unset ELSE d[i].ip,
                    len |-> IF "addr" \in flags THEN 0 ELSE d[i].len,
                    mtu |-> IF "mtu" \in flags THEN 0 ELSE d[i].mtu]]

\* iface_set_all_ip6_parameters(): a new address takes the first free slot, and is
\* dropped when there is none.
Put(d, ip, len) ==
  LET free == {i \in Index : d[i].ip = Unset}
  IN  IF <<ip, len>> \in Entries(d) \/ free = {} THEN d
      ELSE [d EXCEPT ![Min(free)] = [ip |-> ip, len |-> len, mtu |-> @.mtu]]

\* One round of add_dhcpv6_info2inf(): before each address the one that is built
\* from its prefix and the static interface id.
PutAt(d, info, i) ==
  LET len   == IF config6.share THEN 128 ELSE 64
      ip    == Heard(info, i)
      first == IF config6.static THEN Put(d, WithId(ip[1]), len) ELSE d
  IN  IF ip = Unset THEN d ELSE Put(first, ip, len)

Added(d, info, flags) ==
  LET put[n \in 0 .. Slots6] == IF n = 0 THEN d ELSE PutAt(put[n - 1], info, n)
      addressed == IF "addr" \in flags THEN put[Slots6] ELSE d
  IN  [i \in Index |-> [addressed[i] EXCEPT !.mtu = IF "mtu" \in flags THEN info.mtu ELSE @]]

ExtrasAfter(info, flags) ==
  [f \in DOMAIN NoExtras |-> IF f \in flags THEN info.extras[f] ELSE extras[f]]

\* redl_iface_update_state(): in whatever state the dialer is.
UpdateState(d) ==
  /\ dev' = Entries(d)
  /\ up' = (up \/ Entries(d) # {})
  /\ told' = IF Entries(d) # {} THEN Said(TRUE, d) ELSE told

\* A script that was started before its client was stopped reports later.
Reports ==
  /\ run6 \/ late
  /\ late' \in (IF run6 THEN {late, FALSE} ELSE {FALSE})

\* "bound": BOUND and REBOUND replace everything; "updated": INFORMED, UPDATED and
\* RA_UPDATED replace what need_update() found.
Flags(evt, info)    == IF evt = "bound" THEN AllFlags ELSE NeedUpdate(info)
Merged(info, flags) == Added(Forgotten(dyn, flags), info, flags)

\* Only a change of an address is told.
Merge(evt, info) ==
  LET flags == Flags(evt, info)
      after == Merged(info, flags)
  IN  /\ Reports
      /\ dyn' = after /\ extras' = ExtrasAfter(info, flags)
      /\ IF "addr" \in flags THEN UpdateState(after) ELSE UNCHANGED <<dev, up, told>>
      /\ UNCHANGED <<config6, phase6, run4, run6>>

\* STARTED, UNBOUND and STOPED: neither the interface nor the others are told.
Forget6 ==
  /\ Reports
  /\ dyn' = Forgotten(dyn, AllFlags) /\ extras' = NoExtras
  /\ UNCHANGED <<config6, phase6, run4, run6, up, dev, told>>

-----------------------------------------------------------------------------
\* The dialer, as far as it concerns the addresses.

\* MODEM_STARTUP: clear_cellular_net_info().
Startup6 ==
  /\ phase6 = "startup" /\ phase6' = "dial"
  /\ dyn' = Forgotten(dyn, AllFlags) /\ extras' = NoExtras
  /\ UNCHANGED <<config6, run4, run6, late, up, dev, told>>

\* DHCP: start_dhcpc().
StartClients ==
  /\ phase6 = "dial" /\ phase6' = "connecting" /\ run4' = config6.v4 /\ run6' = TRUE
  /\ UNCHANGED <<config6, late, up, dyn, extras, dev, told>>

\* stop_child_by_sub_daemon() with stop_odhcp6c(), by a request or a timer.
StopClients ==
  /\ run4' = FALSE /\ run6' = FALSE /\ late' = (late \/ run6)
  /\ dyn' = [i \in Index |-> FreeSlot] /\ extras' = NoExtras
Stop ==
  /\ phase6 \in {"connecting", "connected"} /\ (run4 \/ run6) /\ StopClients
  /\ UNCHANGED <<config6, phase6, up, dev, told>>

\* A lease of udhcpc, and its loss, which ends a connected link.
Bound4 ==
  /\ run4 /\ up' = TRUE
  /\ UNCHANGED <<config6, phase6, run4, run6, late, dyn, extras, dev, told>>
Deconfig4 ==
  /\ run4 /\ up' = FALSE
  /\ IF phase6 = "connected" THEN StopClients ELSE UNCHANGED <<run4, run6, late, dyn, extras>>
  /\ UNCHANGED <<config6, phase6, dev, told>>

\* A client ends by itself.
ClientExits ==
  /\ \/ run4 /\ run4' = FALSE /\ UNCHANGED <<run6, late>>
     \/ run6 /\ run6' = FALSE /\ late' = TRUE /\ UNCHANGED run4
  /\ UNCHANGED <<config6, phase6, up, dyn, extras, dev, told>>

Connect6 ==
  /\ phase6 = "connecting" /\ (run4 \/ run6) /\ up
  /\ phase6' = "connected" /\ told' = Said(TRUE, dyn)
  /\ UNCHANGED <<config6, run4, run6, late, up, dyn, extras, dev>>

\* The link ends when neither client is left.
BreakOff6 ==
  /\ phase6 \in {"connecting", "connected"} /\ ~run4 /\ ~run6
  /\ phase6' = "startup" /\ up' = FALSE
  /\ told' = IF phase6 = "connected" THEN Said(FALSE, dyn) ELSE told
  /\ UNCHANGED <<config6, run4, run6, late, dyn, extras, dev>>

MergeAny == \E evt \in {"bound", "updated"}, info \in Infos : Merge(evt, info)

Lease6Next ==
  \/ MergeAny \/ Forget6 \/ Startup6 \/ StartClients \/ Stop \/ Bound4 \/ Deconfig4
  \/ ClientExits \/ Connect6 \/ BreakOff6

Lease6Spec == Lease6Init /\ [][Lease6Next]_lease6Vars

-----------------------------------------------------------------------------
(* Properties.                                                             *)

\* After an event the stored addresses are those it has reported, no more and no
\* fewer, whichever slots they were in before (l.3748-3995: one pass looks for what
\* is new, another for what is gone).  A static interface id is left out: its
\* addresses need twice the slots, and those that do not fit are dropped.  So is a
\* prefix that is shared with the LAN: the addresses are then stored with a length of
\* 128, which is not the one need_update() looks for, and every event flushes them.
EventIsKept ==
  ~config6.static /\ ~config6.share =>
    \A info \in Infos : Entries(Merged(info, NeedUpdate(info))) = HeardEntries(info)

\* An event that reports what is stored does not flush the interface, broadcast the
\* link and clear the connection table, in whatever order it lists the addresses: but
\* for static interface ids and shared prefixes, as above.
RepeatIsQuiet ==
  ~config6.static /\ ~config6.share =>
    \A info \in Infos :
      Entries(dyn) = HeardEntries(info) /\ HeardEntries(info) = SoughtEntries(info)
        => "addr" \notin NeedUpdate(info)

\* An address of a connected link has been configured and told to the others, also
\* when the event arrived before the link was connected or after it was stopped.
AddressIsTold ==
  phase6 = "connected" /\ Entries(dyn) # {} => dev = Entries(dyn) /\ told = Said(TRUE, dyn)

\* The IPv6 side of the link follows the reports of odhcp6c: an address in use is
\* announced, a report is not lost, and one that says nothing new is not announced.
LeaseIsFollowed == Lease6TypeOK /\ AddressIsTold /\ EventIsKept /\ RepeatIsQuiet
=============================================================================
