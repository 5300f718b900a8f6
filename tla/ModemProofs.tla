----------------------------- MODULE ModemProofs -----------------------------
(***************************************************************************)
(* Proofs that a modem that has been brought up is one to dial with, for   *)
(* any modems and any number of hangs, switches and restarts, that a       *)
(* pending task is not forgotten, and that the AT command list lets a dial *)
(* begin only when the modem has earned it and spares the card its last    *)
(* PIN, for any modem, line and number of tries; and that the scan of the  *)
(* USB bus finds the modem among any devices.                              *)
(***************************************************************************)
EXTENDS AtList, BringUp, ModemTasks, UsbScan, LoopTheorems, SequenceTheorems

-----------------------------------------------------------------------------
(* The hardware.                                                           *)

IsHw(h) ==
  /\ h = [modem |-> h.modem, slot |-> h.slot, read |-> h.read, live |-> h.live, nv |-> h.nv,
          devs |-> h.devs]
  /\ h.modem \in {"off", "booting", "up", "hung"}
  /\ h.slot \in Sims /\ h.read \in Sims \cup {0} /\ h.live \in BOOLEAN /\ h.nv \in BOOLEAN

Known == Plain \cup Pulse \cup {"FG360"}

\* The settings and the slot as they are; the modem is as before, has read its card
\* anew, or is without power or booting.
Served(h, g) ==
  /\ IsHw(g)
  /\ g.slot = h.slot /\ g.live = h.live /\ g.nv = h.nv /\ g.devs \in {h.devs, {}}
  /\ \/ g.modem = h.modem /\ g.read \in {h.read, h.slot}
     \/ g.modem \in {"off", "booting"}

\* One field of the hardware is changed.
LEMMA OneField ==
  ASSUME NEW h, IsHw(h), NEW e
  PROVE  /\ [h EXCEPT !.modem = e] = [modem |-> e, slot |-> h.slot, read |-> h.read,
                                      live |-> h.live, nv |-> h.nv, devs |-> h.devs]
         /\ [h EXCEPT !.slot = e] = [modem |-> h.modem, slot |-> e, read |-> h.read,
                                     live |-> h.live, nv |-> h.nv, devs |-> h.devs]
         /\ [h EXCEPT !.read = e] = [modem |-> h.modem, slot |-> h.slot, read |-> e,
                                     live |-> h.live, nv |-> h.nv, devs |-> h.devs]
         /\ [h EXCEPT !.live = e] = [modem |-> h.modem, slot |-> h.slot, read |-> h.read,
                                     live |-> e, nv |-> h.nv, devs |-> h.devs]
         /\ [h EXCEPT !.nv = e] = [modem |-> h.modem, slot |-> h.slot, read |-> h.read,
                                   live |-> h.live, nv |-> e, devs |-> h.devs]
         /\ [h EXCEPT !.devs = e] = [modem |-> h.modem, slot |-> h.slot, read |-> h.read,
                                     live |-> h.live, nv |-> h.nv, devs |-> e]
<1>1. PICK m, s, r, l, n, d : h = [modem |-> m, slot |-> s, read |-> r, live |-> l, nv |-> n, devs |-> d]
  BY DEF IsHw
<1> QED
  BY <1>1

\* Power.
LEMMA PowerFacts ==
  ASSUME NEW h, IsHw(h)
  PROVE  /\ Served(h, PowerUp(h)) /\ Served(h, PowerDown(h)) /\ Served(h, CfunReset(h))
         /\ PowerDown(h).modem = "off" /\ PowerUp(h).modem # "off"
         /\ h.modem = "off" => PowerUp(h).modem = "booting"
         /\ h.modem # "off" => PowerUp(h) = h
         /\ CfunReset(h).modem = h.modem /\ CfunReset(h).devs = h.devs
         /\ h.modem = "up" => CfunReset(h).read = h.slot
         /\ h.modem # "up" => CfunReset(h) = h
<1>1. Served(h, PowerDown(h)) /\ PowerDown(h).modem = "off"
  <2> DEFINE a == [h EXCEPT !.modem = "off"]
             b == [a EXCEPT !.read = 0]
             c == [b EXCEPT !.devs = {}]
  <2>1. PowerDown(h) = c
    BY DEF PowerDown
  <2>2. IsHw(a) /\ a.modem = "off" /\ a.slot = h.slot /\ a.live = h.live /\ a.nv = h.nv
    BY OneField DEF IsHw
  <2> HIDE DEF a
  <2>3. IsHw(b) /\ b.modem = "off" /\ b.slot = h.slot /\ b.live = h.live /\ b.nv = h.nv
    BY <2>2, OneField DEF IsHw
  <2> HIDE DEF b
  <2>4. /\ IsHw(c) /\ c.modem = "off" /\ c.slot = h.slot /\ c.live = h.live /\ c.nv = h.nv
        /\ c.devs = {}
    BY <2>3, OneField DEF IsHw
  <2> HIDE DEF c
  <2> QED
    BY <2>1, <2>4 DEF Served
<1>2. /\ Served(h, PowerUp(h)) /\ PowerUp(h).modem # "off"
      /\ h.modem = "off" => PowerUp(h).modem = "booting"
      /\ h.modem # "off" => PowerUp(h) = h
  <2>1. CASE h.modem = "off"
    <3>1. PowerUp(h) = [modem |-> "booting", slot |-> h.slot, read |-> h.read, live |-> h.live,
                        nv |-> h.nv, devs |-> h.devs]
      BY <2>1, OneField DEF PowerUp
    <3> QED
      BY <3>1, <2>1 DEF Served, IsHw
  <2>2. CASE h.modem # "off"
    <3>1. PowerUp(h) = h
      BY <2>2 DEF PowerUp
    <3> QED
      BY <3>1, <2>2 DEF Served
  <2> QED
    BY <2>1, <2>2
<1>3. /\ Served(h, CfunReset(h))
      /\ CfunReset(h).modem = h.modem /\ CfunReset(h).devs = h.devs
      /\ h.modem = "up" => CfunReset(h).read = h.slot
      /\ h.modem # "up" => CfunReset(h) = h
  <2>1. CASE h.modem = "up"
    <3>1. CfunReset(h) = [modem |-> h.modem, slot |-> h.slot, read |-> h.slot, live |-> h.live,
                          nv |-> h.nv, devs |-> h.devs]
      BY <2>1, OneField DEF CfunReset
    <3> QED
      BY <3>1, <2>1 DEF Served, IsHw
  <2>2. CASE h.modem # "up"
    <3>1. CfunReset(h) = h
      BY <2>2 DEF CfunReset
    <3> QED
      BY <3>1, <2>2 DEF Served
  <2> QED
    BY <2>1, <2>2
<1> QED
  BY <1>1, <1>2, <1>3

\* A power cycle.
LEMMA CycleFacts ==
  ASSUME NEW h, IsHw(h)
  PROVE  Served(h, PowerUp(PowerDown(h))) /\ PowerUp(PowerDown(h)).modem = "booting"
<1>1. Served(h, PowerDown(h)) /\ PowerDown(h).modem = "off" /\ IsHw(PowerDown(h))
  BY PowerFacts DEF Served
<1>2. /\ Served(PowerDown(h), PowerUp(PowerDown(h)))
      /\ PowerUp(PowerDown(h)).modem = "booting"
  BY <1>1, PowerFacts
<1> QED
  BY <1>1, <1>2 DEF Served

\* set_modem() of a modem it knows: a forced reset leaves none of them running but
\* FG360.
LEMMA SetModemFacts ==
  ASSUME NEW h, IsHw(h), NEW fam \in Known
  PROVE  /\ Served(h, MStart(fam, h)) /\ Served(h, MReset(fam, h)) /\ Served(h, MForceReset(fam, h))
         /\ fam # "FG360" => MStart(fam, MForceStop(fam, h)) = PowerUp(PowerDown(h))
         /\ fam # "FG360" => MForceReset(fam, h).modem \in {"off", "booting"}
<1>1. Served(h, h)
  BY DEF Served
<1>2. Served(h, MStart(fam, h))
  BY <1>1, PowerFacts DEF MStart
<1>3. fam # "FG360" => MStart(fam, MForceStop(fam, h)) = PowerUp(PowerDown(h))
  BY DEF MStart, MForceStop, Known
<1>4. /\ Served(h, MReset(fam, h))
      /\ fam = "FM650" => MReset(fam, h).modem \in {"off", "booting"}
  <2>1. CASE fam \in {"U8300", "FM650"}
    <3>1. MReset(fam, h) = IF h.modem = "off" THEN h ELSE PowerUp(PowerDown(h))
      BY <2>1 DEF MReset, Plain, Pulse
    <3> QED
      BY <3>1, <1>1, CycleFacts
  <2>2. CASE fam \in Plain \ {"U8300", "FM650"}
    <3>1. MReset(fam, h) = h
      BY <2>2 DEF MReset, Plain, Pulse
    <3> QED
      BY <3>1, <2>2, <1>1
  <2>3. CASE fam \in Pulse
    <3>1. MReset(fam, h) = MStart(fam, MForceStop(fam, h))
      BY <2>3 DEF MReset, Pulse, Plain
    <3>2. fam # "FG360" /\ fam # "FM650"
      BY <2>3 DEF Pulse
    <3> QED
      BY <3>1, <3>2, <1>3, CycleFacts
  <2>4. CASE fam = "FG360"
    <3>1. MReset(fam, h) = CfunReset(h)
      BY <2>4 DEF MReset, Pulse, Plain
    <3> QED
      BY <3>1, <2>4, PowerFacts
  <2> QED
    BY <2>1, <2>2, <2>3, <2>4 DEF Known
<1>5. /\ Served(h, MForceReset(fam, h))
      /\ fam # "FG360" => MForceReset(fam, h).modem \in {"off", "booting"}
  <2>1. CASE fam \in (Plain \cup Pulse) \ {"FM650"}
    <3>1. MForceReset(fam, h) = MStart(fam, MForceStop(fam, h))
      BY <2>1 DEF MForceReset, Plain, Pulse
    <3>2. fam # "FG360"
      BY <2>1 DEF Plain, Pulse
    <3> QED
      BY <3>1, <3>2, <1>3, CycleFacts
  <2>2. CASE fam \in {"FM650", "FG360"}
    <3>1. MForceReset(fam, h) = MReset(fam, h)
      BY <2>2 DEF MForceReset, Plain, Pulse
    <3> QED
      BY <3>1, <2>2, <1>4
  <2> QED
    BY <2>1, <2>2 DEF Known
<1> QED
  BY <1>2, <1>3, <1>4, <1>5

\* modem_dualsim_switch(): a modem that goes on with the card it has read is to be
\* reset later.
LEMMA SwitchFacts ==
  ASSUME NEW k, NEW h, IsHw(h), NEW sim \in Sims, k.fam \in Known
  PROVE  LET g == Switched(k, h, sim) IN
         /\ IsHw(g) /\ g.live = h.live /\ g.nv = h.nv /\ g.devs \in {h.devs, {}}
         /\ k.fam # "FG360" /\ ~k.wr3 => g.slot = sim
         /\ g.modem = h.modem \/ g.modem \in {"off", "booting"}
         /\ k.fam # "FG360" /\ g.modem \notin {"off", "booting"} => SwitchNeedsCfun(k)
<1> DEFINE g == Switched(k, h, sim)
           slotted(x) == IF k.wr3 THEN x ELSE [x EXCEPT !.slot = sim]
<1>1. ASSUME NEW x, IsHw(x)
      PROVE  /\ IsHw(slotted(x)) /\ slotted(x).live = x.live /\ slotted(x).nv = x.nv
             /\ slotted(x).devs = x.devs /\ slotted(x).modem = x.modem
             /\ ~k.wr3 => slotted(x).slot = sim
  <2>1. CASE k.wr3
    BY <1>1, <2>1
  <2>2. CASE ~k.wr3
    <3>1. slotted(x) = [modem |-> x.modem, slot |-> sim, read |-> x.read, live |-> x.live,
                        nv |-> x.nv, devs |-> x.devs]
      BY <2>2, <1>1, OneField
    <3> HIDE DEF slotted
    <3> QED
      BY <3>1, <1>1, <2>2 DEF IsHw
  <2> QED
    BY <2>1, <2>2
<1>2. CASE k.fam = "FG360"
  <2> DEFINE x == IF h.modem = "up" THEN [h EXCEPT !.slot = sim] ELSE h
  <2>1. g = CfunReset(x)
    BY <1>2 DEF Switched, CfunModems
  <2>2. /\ IsHw(x) /\ x.live = h.live /\ x.nv = h.nv /\ x.devs = h.devs /\ x.modem = h.modem
    <3>1. CASE h.modem = "up"
      <4>1. x = [modem |-> h.modem, slot |-> sim, read |-> h.read, live |-> h.live,
                 nv |-> h.nv, devs |-> h.devs]
        BY <3>1, OneField
      <4> HIDE DEF x
      <4> QED
        BY <4>1 DEF IsHw
    <3>2. CASE h.modem # "up"
      BY <3>2
    <3> QED
      BY <3>1, <3>2
  <2> HIDE DEF x
  <2>3. Served(x, g)
    BY <2>1, <2>2, PowerFacts
  <2> QED
    BY <2>2, <2>3, <1>2 DEF Served
<1>3. CASE k.fam \in CfunModems
  <2>1. g = slotted(h) /\ SwitchNeedsCfun(k)
    BY <1>3 DEF Switched, CfunModems, SwitchNeedsCfun
  <2> QED
    BY <2>1, <1>1
<1>4. CASE k.fam \notin CfunModems \cup {"FG360"}
  <2> DEFINE y == MForceStop(k.fam, h)
  <2>1. g = MStart(k.fam, slotted(y))
    BY <1>4 DEF Switched
  <2>2. y = PowerDown(h)
    BY <1>4 DEF MForceStop, Known
  <2>3. Served(h, y) /\ y.modem = "off" /\ IsHw(y)
    BY <2>2, PowerFacts DEF Served
  <2> DEFINE z == slotted(y)
  <2>4. /\ IsHw(z) /\ z.live = h.live /\ z.nv = h.nv /\ z.devs \in {h.devs, {}}
        /\ z.modem = "off" /\ (~k.wr3 => z.slot = sim)
    BY <2>3, <1>1 DEF Served
  <2> HIDE DEF z
  <2>5. g = MStart(k.fam, z)
    BY <2>1 DEF z
  <2>6. g = PowerUp(z)
    BY <2>5, <1>4 DEF MStart, Known
  <2>7. Served(z, g) /\ g.modem = "booting"
    BY <2>6, <2>4, PowerFacts
  <2> QED
    BY <2>4, <2>7 DEF Served
<1> QED
  BY <1>2, <1>3, <1>4

\* What the STARTUP arm does to the modem: one that is to be reset is, unless it is
\* FG360, and a reset that was to come is not forgotten.
LEMMA RecoverFacts ==
  ASSUME kit.fam \in Known, NEW h, IsHw(h), NEW c \in BOOLEAN, NEW due \in BOOLEAN,
         NEW r \in Recovered(h, c, due)
  PROVE  /\ Served(h, r[1]) /\ r[2] \in BOOLEAN /\ (c => r[2])
         /\ NeedsReset /\ kit.fam # "FG360" => r[1].modem \in {"off", "booting"}
<1>1. CASE NeedsReset
  <2>1. r = <<MForceReset(kit.fam, h), c>>
    BY <1>1 DEF Recovered
  <2> QED
    BY <2>1, SetModemFacts
<1>2. CASE ~NeedsReset
  <2>1. r \in {<<h, c>>, <<CfunReset(h), c>>, <<h, TRUE>>, <<MForceReset(kit.fam, h), c>>}
    <3>1. CASE errno \in {"NOSIM", "NOREG", "NOSIGNAL"}
      BY <1>2, <3>1 DEF Recovered
    <3>2. CASE errno = "NOVALIDIP"
      BY <1>2, <3>2 DEF Recovered
    <3>3. CASE errno = "OK"
      BY <1>2, <3>3 DEF Recovered
    <3>4. CASE errno \notin {"NOSIM", "NOREG", "NOSIGNAL", "NOVALIDIP", "OK"}
      BY <1>2, <3>4 DEF Recovered
    <3> QED
      BY <3>1, <3>2, <3>3, <3>4
  <2>2. Served(h, h)
    BY DEF Served
  <2>3. Served(h, CfunReset(h))
    BY PowerFacts
  <2>4. Served(h, MForceReset(kit.fam, h))
    BY SetModemFacts
  <2>5. CASE r = <<h, c>>
    <3>1. r[1] = h /\ r[2] = c
      BY <2>5
    <3> QED
      BY <3>1, <2>2, <1>2, Zenon
  <2>6. CASE r = <<CfunReset(h), c>>
    <3>1. r[1] = CfunReset(h) /\ r[2] = c
      BY <2>6
    <3> QED
      BY <3>1, <2>3, <1>2, Zenon
  <2>7. CASE r = <<h, TRUE>>
    <3>1. r[1] = h /\ r[2] = TRUE
      BY <2>7
    <3> QED
      BY <3>1, <2>2, <1>2, Zenon
  <2>8. CASE r = <<MForceReset(kit.fam, h), c>>
    <3>1. r[1] = MForceReset(kit.fam, h) /\ r[2] = c
      BY <2>8
    <3> QED
      BY <3>1, <2>4, <1>2, Zenon
  <2> QED
    BY <2>1, <2>5, <2>6, <2>7, <2>8, Zenon
<1> QED
  BY <1>1, <1>2

-----------------------------------------------------------------------------
(* The invariant.                                                          *)

\* The modems whose SIM switch the router sets.
Switches == kit.fam # "FG360" /\ ~kit.wr3

UpTypeOK ==
  /\ kit \in Kits /\ st \in States /\ IsHw(hw) /\ cur \in Sims
  /\ enabled \in BOOLEAN /\ dualsim \in BOOLEAN /\ reset \in BOOLEAN /\ cfun \in BOOLEAN
  /\ forgot \in BOOLEAN /\ ctx \in Contexts /\ linked \subseteq {1, 2}

\* The switch is at the card in use; a modem has read that card, or is to be reset
\* before it is READY; unless a restart has forgotten that.
CardInv ==
  /\ enabled /\ st \in {"MODEM_INIT", "READY", "ON"} => hw.modem \in {"up", "hung"}
  /\ Switches => hw.slot = cur \/ forgot
  /\ Switches /\ hw.modem = "up" => hw.read = hw.slot \/ cfun \/ forgot
  /\ CardIsRead

\* A setting that was found wrong is stored, and until the modem has booted with it
\* a reset is to come, unless it was forgotten or is not made at all.
NotReset == kit.fam = "EC20" /\ kit.exempt
NvInv ==
  /\ hw.nv /\ ~hw.live /\ hw.modem \in {"up", "hung"} => reset \/ forgot \/ NotReset
  /\ kit.fam = "FG360" => hw.nv = hw.live
  /\ reset => st = "STARTUP"
  /\ check = "set" => NotReset
  /\ /\ st \in {"READY", "ON"} /\ enabled /\ hw.modem = "up" /\ Checked
     /\ check # "unasked" /\ ~(kit.fam = "RM520N" /\ check = "refused")
     => hw.nv
  /\ /\ st = "ON" /\ enabled /\ hw.modem = "up" /\ kit.fam \in {"EC20", "U8300C"}
     /\ check # "unasked" /\ ~kit.exempt
     => hw.nv

Several == kit.fam \in {"RM500", "EP06", "FG360"}
\* EP06 with one context: its base device is used, whose name is not saved.
OnBase == kit.fam = "EP06" /\ ~kit.dual
RawNames == IF kit.fam = "EP06" THEN {<<"wwan">>} \cup {<<"wwan", n>> : n \in Nat}
            ELSE {<<IF kit.fam = "RM500" THEN "mhi" ELSE "ccmni", n>> : n \in Nat}

\* A device has the driver's name or that of an uplink, and its alias tells the
\* driver's.
IsDevice(d) ==
  /\ d = [raw |-> d.raw, alias |-> d.alias, name |-> d.name]
  /\ d.raw \in RawNames /\ d.alias \in {NoAlias, d.raw}
  /\ d.name \in {d.raw, SysOf(kit.fam, 1), SysOf(kit.fam, 2)}
  /\ d.name # d.raw /\ ~OnBase => d.alias = d.raw
  /\ d.name # d.raw /\ OnBase => d.raw = <<"wwan">>
  /\ kit.fam = "EP06" /\ d.raw = <<"wwan">> => d.alias = NoAlias

\* No two devices have a name in common.
DevInv(devs) ==
  /\ \A d \in devs : IsDevice(d)
  /\ \A d, e \in devs : d.raw = e.raw \/ d.name = e.name => d = e

LinkInv ==
  /\ linked # {} => st = "ON" /\ enabled
  /\ 2 \in linked => 1 \in linked
  /\ Several => DevInv(hw.devs)
  /\ LinkIsOfContext

UpInv == UpTypeOK /\ CardInv /\ NvInv /\ LinkInv

-----------------------------------------------------------------------------
(* The names of the devices.                                               *)

Sys(wwan) == SysOf(kit.fam, wwan)

LEMMA NamesDiffer ==
  ASSUME Several
  PROVE  Sys(1) # Sys(2) /\ \A raw \in RawNames : raw # NoAlias /\ raw # Sys(1) /\ raw # Sys(2)
<1>1. \A w : Sys(w) = <<IF kit.fam = "FG360" THEN "mipc_apn" ELSE "rmnet_apn", w>>
  BY DEF Several, Sys, SysOf, CellName, If
<1> QED
  BY <1>1 DEF RawNames, NoAlias

\* Of the names with a number, none begins with another.
LEMMA RawPrefix ==
  ASSUME NEW a \in RawNames, NEW b \in RawNames, a # <<"wwan">>, IsPrefix(a, b)
  PROVE  a = b
<1>1. PICK p : \E n \in Nat : a = <<p, n>>
  BY DEF RawNames
<1>2. PICK q : b = <<q>> \/ \E m \in Nat : b = <<q, m>>
  BY DEF RawNames
<1>a. PICK n \in Nat : a = <<p, n>>
  BY <1>1
<1>3. Len(a) = 2 /\ a[1] = p /\ a[2] = n
  BY <1>a
<1>4. b # <<q>>
  BY <1>3 DEF IsPrefix
<1>5. PICK m \in Nat : b = <<q, m>>
  BY <1>2, <1>4
<1>6. b[1] = q /\ b[2] = m
  BY <1>5
<1>7. SubSeq(a, 1, 2) = SubSeq(b, 1, 2)
  BY <1>3 DEF IsPrefix
<1>8. a \in Seq({p, n, q, m}) /\ b \in Seq({p, n, q, m}) /\ Len(b) = 2
  BY <1>a, <1>5
<1>9. /\ SubSeq(a, 1, 2)[1] = a[1] /\ SubSeq(a, 1, 2)[2] = a[2]
      /\ SubSeq(b, 1, 2)[1] = b[1] /\ SubSeq(b, 1, 2)[2] = b[2]
  BY <1>3, <1>8, SubSeqProperties
<1> QED
  BY <1>a, <1>5, <1>3, <1>6, <1>7, <1>9

LEMMA AliasIsRaw ==
  ASSUME NEW d, IsDevice(d), NEW raw \in RawNames, raw # <<"wwan">>, AliasIs(d, raw)
  PROVE  d.raw = raw /\ d.alias = raw
<1>1. d.alias = d.raw /\ d.raw \in RawNames
  BY DEF IsDevice, AliasIs
<1>2. IsPrefix(raw, d.raw)
  BY <1>1 DEF AliasIs
<1> QED
  BY <1>1, <1>2, RawPrefix

\* ip link set .. name ..
LEMMA SetNameFacts ==
  ASSUME NEW devs, DevInv(devs), NEW from, NEW to,
         \A d \in devs : d.name = from => IsDevice([d EXCEPT !.name = to])
  PROVE  /\ DevInv(SetName(devs, from, to))
         /\ \A e \in SetName(devs, from, to) :
              e \in devs \/ (e.name = to /\ \E d \in devs : d.name = from /\ e.raw = d.raw)
         /\ to # NoAlias /\ Called(devs, to) = {} /\ Called(devs, from) # {}
              => \A e \in SetName(devs, from, to) : e.name # from
<1>1. CASE SetName(devs, from, to) = devs
           /\ ~(to # NoAlias /\ Called(devs, to) = {} /\ Called(devs, from) # {})
  BY <1>1
<1>2. CASE to # NoAlias /\ Called(devs, to) = {} /\ Called(devs, from) # {}
  <2> DEFINE new(d) == IF d.name = from THEN [d EXCEPT !.name = to] ELSE d
             s == {new(d) : d \in devs}
  <2>1. SetName(devs, from, to) = s
    BY <1>2 DEF SetName
  <2>2. from # to
    BY <1>2
  <2>3. ASSUME NEW d \in devs
        PROVE  /\ IsDevice(new(d)) /\ new(d).raw = d.raw
               /\ d.name = from => new(d).name = to
               /\ d.name # from => new(d) = d
    <3>1. IsDevice(d)
      BY DEF DevInv
    <3>2. [d EXCEPT !.name = to] = [raw |-> d.raw, alias |-> d.alias, name |-> to]
      BY <3>1 DEF IsDevice
    <3> QED
      BY <3>1, <3>2
  <2>4. \A d \in devs : d.name # to
    BY <1>2 DEF Called
  <2> HIDE DEF new
  <2>5. DevInv(s)
    <3>1. \A e \in s : IsDevice(e)
      BY <2>3
    <3>2. ASSUME NEW d \in devs, NEW e \in devs, new(d).raw = new(e).raw \/ new(d).name = new(e).name
          PROVE  d = e
      <4>1. d.raw = e.raw \/ d.name = e.name
        BY <2>3, <2>4, <3>2
      <4> QED
        BY <4>1 DEF DevInv
    <3>3. \A x, y \in s : x.raw = y.raw \/ x.name = y.name => x = y
      BY <3>2
    <3> QED
      BY <3>1, <3>3 DEF DevInv
  <2>6. \A e \in s : e \in devs \/ (e.name = to /\ \E d \in devs : d.name = from /\ e.raw = d.raw)
    BY <2>3
  <2>7. \A e \in s : e.name # from
    BY <2>3, <2>2
  <2> QED
    BY <2>1, <2>5, <2>6, <2>7
<1> QED
  BY <1>1, <1>2 DEF SetName

\* check_cell_sys_name() gives the uplink's name to the device of its context and to
\* no other, and takes the other uplink's name from no device.
LEMMA CheckFacts ==
  ASSUME NEW devs, NEW pcie, NEW wwan, NEW id, DevInv(devs), Several, wwan \in {1, 2},
         wwan = 2 => kit.dual, kit.dual \in BOOLEAN, id \in Nat
  PROVE  /\ DevInv(CheckCellSysName(kit.fam, kit.dual, pcie, devs, wwan, id).devs)
         /\ \A d \in Called(CheckCellSysName(kit.fam, kit.dual, pcie, devs, wwan, id).devs, Sys(wwan)) :
              d.raw = RawOf(kit.fam, kit.dual, id)
         /\ \A d \in CheckCellSysName(kit.fam, kit.dual, pcie, devs, wwan, id).devs :
              d.name = Sys(3 - wwan) => d \in devs
<1> DEFINE sys == Sys(wwan)
           raw == RawOf(kit.fam, kit.dual, id)
           had == Called(devs, sys)
           first == CHOOSE d \in had : TRUE
           reverted == IF had = {} THEN devs ELSE SetName(devs, sys, first.alias)
           new == CheckCellSysName(kit.fam, kit.dual, pcie, devs, wwan, id).devs
<1> SUFFICES /\ DevInv(new)
             /\ \A d \in Called(new, Sys(wwan)) : d.raw = RawOf(kit.fam, kit.dual, id)
             /\ \A d \in new : d.name = Sys(3 - wwan) => d \in devs
  BY Zenon
<1>1. raw \in RawNames /\ (raw = <<"wwan">> <=> OnBase)
  BY DEF RawOf, RawNames, Several, OnBase
<1>2. sys \in {Sys(1), Sys(2)} /\ Sys(3 - wwan) \in {Sys(1), Sys(2)} /\ sys # Sys(3 - wwan)
  BY NamesDiffer
<1>3. IF \E d \in had : AliasIs(d, raw) THEN new = devs
      ELSE \/ new = reverted
           \/ /\ new = SetName(reverted, raw, sys)
              /\ \E d \in reverted : d.name = d.raw /\ AliasIs(d, raw)
  <2> DEFINE same == \E d \in had : AliasIs(d, raw)
             result == CheckCellSysName(kit.fam, kit.dual, pcie, devs, wwan, id)
  <2>1. kit.fam \in {"RM500", "EP06", "FG360", "RM500U"} /\ kit.fam # "RM500U"
    BY DEF Several
  <2>2. result = IF kit.fam \notin {"RM500", "EP06", "FG360", "RM500U"}
                     \/ (kit.fam = "RM500U" /\ pcie) \/ same
                  THEN [ok |-> TRUE, devs |-> devs]
                  ELSE RenameIface(kit.fam, reverted, sys, raw)
    BY Zenon DEF CheckCellSysName, Sys
  <2>3. \/ RenameIface(kit.fam, reverted, sys, raw).devs = reverted
        \/ /\ RenameIface(kit.fam, reverted, sys, raw).devs = SetName(reverted, raw, sys)
           /\ \E d \in reverted : d.name = d.raw /\ AliasIs(d, raw)
    <3> HIDE DEF sys, raw, reverted
    <3>1. kit.fam # "RM500U"
      BY DEF Several
    <3> QED
      BY <3>1 DEF RenameIface
  <2>4. CASE same
    <3>1. result = [ok |-> TRUE, devs |-> devs]
      <4> HIDE DEF same, result
      <4> QED
        BY <2>2, <2>4
    <3>2. new = devs
      <4>1. new = result.devs
        OBVIOUS
      <4> HIDE DEF new, result
      <4> QED
        BY <3>1, <4>1
    <3> QED
      BY <2>4, <3>2, Zenon
  <2>5. CASE ~same
    <3>1. result = RenameIface(kit.fam, reverted, sys, raw)
      <4> HIDE DEF same, result
      <4> QED
        BY <2>1, <2>2, <2>5
    <3>2. new = RenameIface(kit.fam, reverted, sys, raw).devs
      BY <3>1, Zenon
    <3>3. \/ new = reverted
          \/ /\ new = SetName(reverted, raw, sys)
             /\ \E d \in reverted : d.name = d.raw /\ AliasIs(d, raw)
      <4> HIDE DEF new, reverted, raw, sys
      <4> QED
        BY <2>3, <3>2
    <3> QED
      BY <2>5, <3>3, Zenon
  <2> QED
    BY <2>4, <2>5, Zenon
<1> HIDE DEF raw, new, first
<1>4. \A d \in devs : IsDevice(d)
  BY DEF DevInv
<1>5. DevInv(reverted) /\ (\A d \in reverted : d.name = sys => OnBase)
      /\ \A d \in reverted : d \in devs \/ d.name \in RawNames
  <2>1. CASE had = {}
    BY <2>1 DEF Called
  <2>2. CASE had # {}
    <3>1. first \in devs /\ first.name = sys /\ had = {first}
      BY <2>2 DEF Called, first, DevInv
    <3>2. IsDevice(first) /\ first.raw \in RawNames /\ first.raw # sys
      BY <3>1, <1>4, NamesDiffer, <1>2 DEF IsDevice
    <3>3. CASE OnBase
      <4>1. first.alias = NoAlias
        BY <3>1, <3>2, <3>3 DEF IsDevice, OnBase
      <4>2. reverted = devs
        BY <4>1 DEF SetName
      <4> QED
        BY <4>2, <3>3
    <3>4. CASE ~OnBase
      <4>1. first.alias = first.raw /\ first.alias # NoAlias
        BY <3>1, <3>2, <3>4, NamesDiffer DEF IsDevice
      <4>2. Called(devs, first.raw) = {}
        <5>1. ASSUME NEW e \in devs, e.name = first.raw
              PROVE  FALSE
          <6>1. IsDevice(e)
            BY <1>4
          <6>2. e.raw = first.raw
            BY <6>1, <5>1, <3>2, NamesDiffer DEF IsDevice, Sys
          <6>3. e = first
            BY <6>2, <3>1 DEF DevInv
          <6> QED
            BY <6>3, <5>1, <3>1, <3>2
        <5> QED
          BY <5>1 DEF Called
      <4>3. \A d \in devs : d.name = sys => IsDevice([d EXCEPT !.name = first.raw])
        <5>1. [first EXCEPT !.name = first.raw]
                = [raw |-> first.raw, alias |-> first.alias, name |-> first.raw]
          BY <3>2 DEF IsDevice
        <5>2. IsDevice([first EXCEPT !.name = first.raw])
          BY <5>1, <3>2 DEF IsDevice
        <5>3. \A d \in devs : d.name = sys => d = first
          BY <3>1 DEF Called
        <5> QED
          BY <5>2, <5>3
      <4>4. reverted = SetName(devs, sys, first.raw)
        BY <2>2, <4>1
      <4>5. /\ DevInv(reverted)
            /\ \A e \in reverted : e \in devs \/ e.name = first.raw
            /\ \A e \in reverted : e.name # sys
        BY <4>1, <4>2, <4>3, <4>4, <2>2, SetNameFacts
      <4> QED
        BY <4>5, <3>2
    <3> QED
      BY <3>3, <3>4
  <2> QED
    BY <2>1, <2>2
<1> HIDE DEF reverted
<1>6. CASE \E d \in had : AliasIs(d, raw)
  <2>1. PICK d \in devs : d.name = sys /\ AliasIs(d, raw)
    BY <1>6 DEF Called
  <2>2. IsDevice(d)
    BY <1>4
  <2>3. ~OnBase
    BY <2>1, <2>2, <1>2, NamesDiffer DEF IsDevice, OnBase, AliasIs, Sys
  <2>4. d.raw = raw
    BY <2>1, <2>2, <2>3, <1>1, AliasIsRaw
  <2>5. \A e \in Called(devs, sys) : e = d
    BY <2>1 DEF Called, DevInv
  <2> QED
    BY <1>3, <1>6, <2>4, <2>5 DEF raw
<1>7. CASE ~ \E d \in had : AliasIs(d, raw)
  <2>1. \A d \in reverted : d.name = sys => d.raw = raw
    <3>1. ASSUME NEW d \in reverted, d.name = sys
          PROVE  d.raw = raw
      <4>1. OnBase /\ IsDevice(d)
        BY <3>1, <1>5 DEF DevInv
      <4> QED
        BY <4>1, <3>1, <1>1, <1>2, NamesDiffer DEF IsDevice
    <3> QED
      BY <3>1
  <2>2. CASE new = reverted
    <3>1. \A d \in Called(new, sys) : d.raw = raw
      BY <2>1, <2>2 DEF Called
    <3>2. \A d \in new : d.name = Sys(3 - wwan) => d \in devs
      BY <2>2, <1>5, <1>2, NamesDiffer
    <3> QED
      BY <3>1, <3>2, <2>2, <1>5 DEF raw
  <2>3. CASE /\ new = SetName(reverted, raw, sys)
             /\ \E d \in reverted : d.name = d.raw /\ AliasIs(d, raw)
    <3>1. ASSUME NEW d \in reverted, d.name = raw
          PROVE  d.raw = raw /\ IsDevice([d EXCEPT !.name = sys])
      <4>1. IsDevice(d)
        BY <1>5 DEF DevInv
      <4>2. d.raw = raw
        BY <4>1, <3>1, <1>1, NamesDiffer DEF IsDevice, Sys
      <4>3. ~OnBase => d.alias = d.raw
        <5>1. ASSUME ~OnBase
              PROVE  d.alias = d.raw
          <6>1. PICK e \in reverted : e.name = e.raw /\ AliasIs(e, raw)
            BY <2>3
          <6>2. IsDevice(e)
            BY <1>5 DEF DevInv
          <6>3. e.raw = raw /\ e.alias = raw
            BY <6>1, <6>2, <5>1, <1>1, AliasIsRaw
          <6>4. e = d
            BY <6>3, <4>2, <1>5 DEF DevInv
          <6> QED
            BY <6>3, <6>4
        <5> QED
          BY <5>1
      <4>4. [d EXCEPT !.name = sys] = [raw |-> d.raw, alias |-> d.alias, name |-> sys]
        BY <4>1 DEF IsDevice
      <4>5. IsDevice([raw |-> d.raw, alias |-> d.alias, name |-> sys])
        BY <4>1, <4>2, <4>3, <1>1, <1>2 DEF IsDevice, Sys
      <4> QED
        BY <4>2, <4>4, <4>5
    <3>2. /\ DevInv(new)
          /\ \A e \in new : e \in reverted \/ (e.name = sys /\ \E d \in reverted : d.name = raw /\ e.raw = d.raw)
      BY <2>3, <3>1, <1>5, SetNameFacts
    <3>3. \A d \in Called(new, sys) : d.raw = raw
      BY <3>1, <3>2, <2>1 DEF Called
    <3>4. \A d \in new : d.name = Sys(3 - wwan) => d \in devs
      BY <3>2, <1>5, <1>2, NamesDiffer
    <3> QED
      BY <3>2, <3>3, <3>4 DEF raw
  <2> QED
    BY <2>2, <2>3, <1>3, <1>7
<1> QED
  BY <1>6, <1>7

\* save_raw_name_to_ifalias().
LEMMA SaveFacts ==
  ASSUME NEW devs, DevInv(devs)
  PROVE  DevInv(SaveRawName(devs))
<1> DEFINE new(d) == IF d.name = d.raw /\ d.raw # <<"wwan">> THEN [d EXCEPT !.alias = d.raw] ELSE d
<1>1. ASSUME NEW d \in devs
      PROVE  IsDevice(new(d)) /\ new(d).raw = d.raw /\ new(d).name = d.name
  <2>1. IsDevice(d)
    BY DEF DevInv
  <2>2. [d EXCEPT !.alias = d.raw] = [raw |-> d.raw, alias |-> d.raw, name |-> d.name]
    BY <2>1 DEF IsDevice
  <2>3. CASE d.name = d.raw /\ d.raw # <<"wwan">>
    <3>1. IsDevice([raw |-> d.raw, alias |-> d.raw, name |-> d.name])
      BY <2>1, <2>3 DEF IsDevice
    <3> QED
      BY <3>1, <2>2, <2>3
  <2>4. CASE ~(d.name = d.raw /\ d.raw # <<"wwan">>)
    BY <2>1, <2>4
  <2> QED
    BY <2>3, <2>4
<1>2. SaveRawName(devs) = {new(d) : d \in devs}
  BY DEF SaveRawName
<1> HIDE DEF new
<1> QED
  BY <1>1, <1>2 DEF DevInv

\* The driver's devices.
LEMMA BootFacts ==
  ASSUME Several, kit.dual \in BOOLEAN
  PROVE  DevInv(RawDevices(kit.fam, kit.dual))
<1>1. ASSUME NEW d \in RawDevices(kit.fam, kit.dual)
      PROVE  \E raw \in RawNames : d = [raw |-> raw, alias |-> NoAlias, name |-> raw]
  <2>1. QmapMode \in Nat /\ MipcMax \in Nat
    BY RenameConstantsOK
  <2>2. CASE kit.fam = "RM500"
    BY <1>1, <2>1, <2>2 DEF RawDevices, Dev, RawNames
  <2>3. CASE kit.fam = "EP06"
    BY <1>1, <2>1, <2>3 DEF RawDevices, Dev, RawNames
  <2>4. CASE kit.fam = "FG360"
    BY <1>1, <2>1, <2>4 DEF RawDevices, Dev, RawNames
  <2> QED
    BY <2>2, <2>3, <2>4 DEF Several
<1>2. ASSUME NEW raw \in RawNames
      PROVE  IsDevice([raw |-> raw, alias |-> NoAlias, name |-> raw])
  BY DEF IsDevice
<1> QED
  BY <1>1, <1>2 DEF DevInv

-----------------------------------------------------------------------------
(* The steps.                                                              *)

LEMMA KitFacts ==
  ASSUME kit \in Kits
  PROVE  kit.fam \in Known /\ {kit.wr3, kit.dual, kit.exempt} \subseteq BOOLEAN
BY BringUpConstantsOK DEF Known

LEMMA SameKit ==
  ASSUME kit' = kit, NEW devs, hw'.devs = devs, Several => DevInv(devs)
  PROVE  (Several => DevInv(hw.devs))'
<1>1. (Several' <=> Several) /\ RawNames' = RawNames /\ (OnBase' <=> OnBase)
  BY DEF Several, RawNames, OnBase
<1>2. ASSUME NEW d, IsDevice(d)
      PROVE  IsDevice(d)'
  BY <1>1, <1>2 DEF IsDevice
<1> QED
  BY <1>1, <1>2 DEF DevInv

\* Without a dial the devices need only be those of before, or none.
LEMMA NoLinks ==
  ASSUME LinkInv, kit' = kit, linked' = {}, hw'.devs \in {hw.devs, {}}
  PROVE  LinkInv'
<1>1. (Several => DevInv(hw.devs))'
  <2>1. CASE hw'.devs = hw.devs
    BY <2>1 DEF LinkInv, Several, DevInv, IsDevice, OnBase, RawNames
  <2>2. CASE hw'.devs = {}
    BY <2>2 DEF DevInv
  <2> QED
    BY <2>1, <2>2
<1> QED
  BY <1>1 DEF LinkInv, LinkIsOfContext

\* .. and with one they stay as they are.
LEMMA SameLinks ==
  ASSUME LinkInv, kit' = kit, linked' = linked, hw'.devs = hw.devs, ctx' = ctx,
         linked # {} => st' = "ON" /\ enabled'
  PROVE  LinkInv'
BY DEF LinkInv, LinkIsOfContext, Several, DevInv, IsDevice, OnBase, RawNames

LEMMA UpInitHolds ==
  ASSUME UpInit
  PROVE  UpInv
<1>1. PICK nv \in BOOLEAN :
        hw = [modem |-> IF StartsOff(kit) THEN "off" ELSE "booting",
              slot |-> 1, read |-> 0, live |-> nv, nv |-> nv, devs |-> {}]
  BY DEF UpInit
<1>2. /\ hw.modem \in {"off", "booting"} /\ hw.slot = 1 /\ hw.read = 0 /\ hw.live = nv
      /\ hw.nv = nv /\ hw.devs = {}
  BY <1>1
<1>3. IsHw(hw)
  BY <1>1, <1>2, BringUpConstantsOK DEF IsHw
<1>4. UpTypeOK
  BY <1>3, BringUpConstantsOK DEF UpInit, UpTypeOK, States
<1>5. CardInv
  BY <1>2 DEF UpInit, CardInv, CardIsRead, Switches
<1>6. NvInv
  BY <1>2 DEF UpInit, NvInv, NotReset
<1>7. LinkInv
  BY <1>2 DEF UpInit, LinkInv, DevInv, LinkIsOfContext
<1> QED
  BY <1>4, <1>5, <1>6, <1>7 DEF UpInv

LEMMA BootKeeps ==
  ASSUME UpInv, Boot
  PROVE  UpInv'
<1> USE DEF UpInv, daemon, seen
<1>1. ~(enabled /\ st \in {"MODEM_INIT", "READY", "ON"}) /\ linked = {}
  BY DEF Boot, CardInv, LinkInv
<1>2. hw' = [modem |-> "up", slot |-> hw.slot, read |-> hw.slot, live |-> hw.nv, nv |-> hw.nv,
             devs |-> Devices]
  <2> DEFINE a == [hw EXCEPT !.modem = "up"]
             b == [a EXCEPT !.read = hw.slot]
             c == [b EXCEPT !.live = hw.nv]
  <2>1. hw' = [c EXCEPT !.devs = Devices]
    BY DEF Boot
  <2>2. /\ IsHw(a)
        /\ a = [modem |-> "up", slot |-> hw.slot, read |-> hw.read, live |-> hw.live,
                nv |-> hw.nv, devs |-> hw.devs]
    BY OneField DEF UpTypeOK, IsHw
  <2> HIDE DEF a
  <2>3. /\ IsHw(b)
        /\ b = [modem |-> "up", slot |-> hw.slot, read |-> hw.slot, live |-> hw.live,
                nv |-> hw.nv, devs |-> hw.devs]
    BY <2>2, OneField DEF UpTypeOK, IsHw
  <2> HIDE DEF b
  <2>4. /\ IsHw(c)
        /\ c = [modem |-> "up", slot |-> hw.slot, read |-> hw.slot, live |-> hw.nv,
                nv |-> hw.nv, devs |-> hw.devs]
    BY <2>3, OneField DEF UpTypeOK, IsHw
  <2> HIDE DEF c
  <2>5. [c EXCEPT !.devs = Devices]
          = [modem |-> c.modem, slot |-> c.slot, read |-> c.read, live |-> c.live, nv |-> c.nv,
             devs |-> Devices]
    BY <2>4, OneField
  <2> QED
    BY <2>1, <2>4, <2>5
<1>3. /\ hw'.modem = "up" /\ hw'.slot = hw.slot /\ hw'.read = hw.slot /\ hw'.live = hw.nv
      /\ hw'.nv = hw.nv /\ hw'.devs = Devices
  BY <1>2
<1>4. UpTypeOK'
  BY <1>2, <1>3 DEF Boot, UpTypeOK, IsHw
<1>5. CardInv'
  BY <1>1, <1>3 DEF Boot, CardInv, CardIsRead, Switches
<1>6. NvInv'
  BY <1>1, <1>3 DEF Boot, NvInv, NotReset, Checked
<1>7. LinkInv'
  <2>1. Several => DevInv(Devices)
    <3>1. ASSUME Several
          PROVE  DevInv(Devices)
      <4>1. Devices = RawDevices(kit.fam, kit.dual)
        BY <3>1 DEF Devices, Several
      <4>2. kit.dual \in BOOLEAN
        BY KitFacts DEF UpTypeOK
      <4> QED
        BY <3>1, <4>1, <4>2, BootFacts
    <3> QED
      BY <3>1
  <2>2. linked' = {} /\ kit' = kit
    BY <1>1 DEF Boot
  <2> HIDE DEF UpInv
  <2>3. hw'.devs = Devices /\ (Several' <=> Several)
    BY <1>3, <2>2 DEF Several
  <2>4. DevInv(hw.devs)' <=> DevInv(Devices)
    BY <2>2, <2>3 DEF DevInv, IsDevice, OnBase, RawNames
  <2>5. LinkIsOfContext'
    BY <2>2 DEF LinkIsOfContext
  <2> QED
    BY <2>1, <2>2, <2>3, <2>4, <2>5 DEF LinkInv
<1> QED
  BY <1>4, <1>5, <1>6, <1>7

LEMMA EventsKeep ==
  ASSUME UpInv, Hang \/ WantSwitch \/ Wake \/ Leave
  PROVE  UpInv'
<1> USE DEF UpInv, daemon, seen
<1>1. CASE Hang
  <2>1. /\ hw' = [modem |-> "hung", slot |-> hw.slot, read |-> hw.read, live |-> hw.live,
                  nv |-> hw.nv, devs |-> hw.devs]
        /\ hw.modem = "up"
    BY <1>1, OneField DEF Hang, UpTypeOK
  <2>2. /\ hw'.modem = "hung" /\ hw'.slot = hw.slot /\ hw'.live = hw.live /\ hw'.nv = hw.nv
        /\ hw'.devs = hw.devs /\ hw'.read = hw.read
    BY <2>1
  <2>3. UpTypeOK'
    BY <1>1, <2>1, <2>2 DEF Hang, UpTypeOK, IsHw
  <2>4. CardInv'
    BY <1>1, <2>1, <2>2 DEF Hang, CardInv, CardIsRead, Switches
  <2>5. NvInv'
    BY <1>1, <2>1, <2>2 DEF Hang, NvInv, NotReset, Checked
  <2>6. LinkInv'
    BY <1>1, <2>2, SameLinks DEF Hang, LinkInv
  <2> QED
    BY <2>3, <2>4, <2>5, <2>6
<1>2. CASE WantSwitch
  <2>1. UpTypeOK' /\ CardInv' /\ NvInv'
    BY <1>2 DEF WantSwitch, UpTypeOK, CardInv, CardIsRead, Switches, NvInv, NotReset, Checked
  <2>2. LinkInv'
    BY <1>2, SameLinks DEF WantSwitch, LinkInv
  <2> QED
    BY <2>1, <2>2
<1>3. CASE Wake
  <2>1. UpTypeOK' /\ CardInv' /\ NvInv'
    BY <1>3 DEF Wake, UpTypeOK, States, CardInv, CardIsRead, Switches, NvInv, NotReset, Checked
  <2>2. linked = {}
    BY <1>3 DEF Wake, LinkInv
  <2>3. LinkInv'
    BY <1>3, <2>2, NoLinks DEF Wake
  <2> QED
    BY <2>1, <2>3
<1>4. CASE Leave
  <2>1. UpTypeOK' /\ CardInv' /\ NvInv'
    BY <1>4 DEF Leave, UpTypeOK, States, CardInv, CardIsRead, Switches, NvInv, NotReset, Checked
  <2>3. LinkInv'
    BY <1>4, NoLinks DEF Leave
  <2> QED
    BY <2>1, <2>3
<1> QED
  BY <1>1, <1>2, <1>3, <1>4

LEMMA RestartKeeps ==
  ASSUME UpInv, Restart
  PROVE  UpInv'
<1> USE DEF UpInv, daemon, seen
<1>1. /\ reset' = FALSE /\ st' = "INIT" /\ forgot' \in BOOLEAN /\ check' = "fine"
      /\ ~forgot' => ~forgot /\ ~reset /\ (IF dualsim THEN cur = 1 ELSE ~cfun)
      /\ linked' = {} /\ UNCHANGED <<kit, cur, dualsim, enabled, ctx>>
  <2>1. /\ reset' = FALSE /\ st' = "INIT" /\ linked' = {} /\ check' = "fine"
        /\ UNCHANGED <<kit, cur, dualsim, enabled, ctx>>
    BY DEF Restart
  <2>2. forgot' = (forgot \/ reset \/ (IF dualsim THEN cur # 1 ELSE cfun))
    BY DEF Restart
  <2>3. forgot' \in BOOLEAN
    BY <2>2, Zenon
  <2>4. ASSUME ~forgot'
        PROVE  ~forgot /\ ~reset /\ (IF dualsim THEN cur = 1 ELSE ~cfun)
    BY <2>2, <2>4, Zenon
  <2> QED
    BY <2>1, <2>3, <2>4
<1>2. IsHw(hw) /\ kit.fam \in Known
  BY KitFacts DEF UpTypeOK
<1>3. CASE dualsim /\ kit.fam # "FG360"
  <2>1. hw' = Switched(kit, hw, 1) /\ cfun' = SwitchNeedsCfun(kit)
    BY <1>3 DEF Restart
  <2>2. /\ IsHw(hw') /\ hw'.live = hw.live /\ hw'.nv = hw.nv /\ hw'.devs \in {hw.devs, {}}
        /\ Switches => hw'.slot = 1
        /\ hw'.modem = hw.modem \/ hw'.modem \in {"off", "booting"}
        /\ hw'.modem \notin {"off", "booting"} => SwitchNeedsCfun(kit)
    BY <2>1, <1>2, <1>3, SwitchFacts, BringUpConstantsOK DEF Switches
  <2>3. UpTypeOK'
    <3>1. cfun' \in BOOLEAN
      <4>1. SwitchNeedsCfun(kit) \in BOOLEAN
        BY DEF SwitchNeedsCfun
      <4> QED
        BY <2>1, <4>1, Zenon
    <3> QED
      BY <1>1, <2>2, <3>1 DEF UpTypeOK, States
  <2>4. CardInv'
    <3>1. Switches /\ hw'.modem = "up" => cfun'
      BY <2>1, <2>2
    <3> QED
      BY <1>1, <1>3, <2>2, <3>1 DEF CardInv, CardIsRead, Switches
  <2>5. NvInv'
    BY <1>1, <2>2 DEF NvInv, NotReset
  <2>6. LinkInv'
    BY <1>1, <2>2, NoLinks
  <2> QED
    BY <2>3, <2>4, <2>5, <2>6
<1>4. CASE ~(dualsim /\ kit.fam # "FG360")
  <2>1. hw' = hw /\ cfun' = FALSE
    BY <1>4 DEF Restart
  <2>2. UpTypeOK'
    BY <1>1, <2>1 DEF UpTypeOK, States
  <2>3. CardInv'
    BY <1>1, <1>4, <2>1 DEF CardInv, CardIsRead, Switches
  <2>4. NvInv'
    BY <1>1, <2>1 DEF NvInv, NotReset
  <2>5. LinkInv'
    BY <1>1, <2>1, NoLinks
  <2> QED
    BY <2>2, <2>3, <2>4, <2>5
<1> QED
  BY <1>3, <1>4

LEMMA InitArmKeeps ==
  ASSUME UpInv, InitArm
  PROVE  UpInv'
<1> USE DEF UpInv, daemon, seen
<1>1. /\ st = "INIT" /\ st' = "WAIT_CONFIG" /\ UNCHANGED <<kit, daemon, seen, ctx>>
  BY DEF InitArm
<1>2. IsHw(hw) /\ kit.fam \in Known /\ linked = {}
  BY <1>1, KitFacts DEF UpTypeOK, LinkInv
<1>3. Served(hw, hw')
  <2> DEFINE h == MStart(kit.fam, hw)
  <2>1. Served(hw, hw) /\ Served(hw, h) /\ IsHw(h) /\ Served(h, MReset(kit.fam, h))
    BY <1>2, SetModemFacts DEF Served
  <2>2. hw' \in {hw, h, MReset(kit.fam, h)}
    BY DEF InitArm
  <2>3. Served(hw, MReset(kit.fam, h))
    <3> HIDE DEF h
    <3> QED
      BY <2>1 DEF Served
  <2> HIDE DEF h
  <2> QED
    BY <2>1, <2>2, <2>3
<1>4. UpTypeOK'
  BY <1>1, <1>3 DEF UpTypeOK, States, Served
<1>5. CardInv'
  BY <1>1, <1>3 DEF CardInv, CardIsRead, Switches, Served
<1>6. NvInv'
  BY <1>1, <1>3 DEF NvInv, NotReset, Served
<1>7. LinkInv'
  BY <1>1, <1>2, <1>3, NoLinks DEF Served
<1> QED
  BY <1>4, <1>5, <1>6, <1>7

LEMMA StartupKeeps ==
  ASSUME UpInv, Startup
  PROVE  UpInv'
<1> USE DEF UpInv
<1>1. PICK switch \in BOOLEAN, due \in BOOLEAN :
        LET sim == IF switch THEN 3 - cur ELSE cur
            h   == IF switch THEN Switched(kit, hw, sim) ELSE hw
            c   == cfun \/ (switch /\ SwitchNeedsCfun(kit))
        IN cur' = sim /\ \E r \in Recovered(h, c, due) : hw' = r[1] /\ cfun' = r[2]
  BY DEF Startup
<1> DEFINE sim == IF switch THEN 3 - cur ELSE cur
           h == IF switch THEN Switched(kit, hw, sim) ELSE hw
           c == cfun \/ (switch /\ SwitchNeedsCfun(kit))
<1>2. PICK r \in Recovered(h, c, due) : hw' = r[1] /\ cfun' = r[2]
  BY <1>1
<1>3. /\ st = "STARTUP" /\ st' = "LOAD_DRV" /\ linked' = {} /\ reset' = FALSE
      /\ check' = "fine" /\ UNCHANGED <<kit, dualsim, enabled, ctx, forgot>>
  BY DEF Startup
<1>4. IsHw(hw) /\ kit.fam \in Known /\ cur \in {1, 2}
  BY KitFacts, BringUpConstantsOK DEF UpTypeOK
<1>5. sim \in Sims /\ cur' = sim
  BY <1>1, <1>4, BringUpConstantsOK
<1> HIDE DEF sim
<1>6. /\ IsHw(h) /\ h.live = hw.live /\ h.nv = hw.nv /\ h.devs \in {hw.devs, {}}
      /\ Switches => h.slot = sim \/ forgot
      /\ h.modem = hw.modem \/ h.modem \in {"off", "booting"}
      /\ Switches /\ h.modem = "up" => h.read = h.slot \/ c \/ forgot
  <2>1. CASE switch
    BY <2>1, <1>4, <1>5, SwitchFacts DEF Switches
  <2>2. CASE ~switch
    <3>1. h = hw /\ sim = cur
      BY <2>2 DEF sim
    <3> HIDE DEF h
    <3> QED
      BY <2>2, <3>1, <1>4 DEF CardInv
  <2> QED
    BY <2>1, <2>2
<1>7. c \in BOOLEAN
  BY Zenon DEF UpTypeOK, SwitchNeedsCfun
<1> HIDE DEF h, c
<1>8. /\ Served(h, hw') /\ cfun' \in BOOLEAN /\ (c => cfun')
      /\ NeedsReset /\ kit.fam # "FG360" => hw'.modem \in {"off", "booting"}
  <2>1. /\ Served(h, r[1]) /\ r[2] \in BOOLEAN /\ (c => r[2])
        /\ NeedsReset /\ kit.fam # "FG360" => r[1].modem \in {"off", "booting"}
    BY <1>2, <1>4, <1>6, <1>7, RecoverFacts
  <2> QED
    BY <1>2, <2>1, Zenon
<1>9. UpTypeOK'
  BY <1>3, <1>5, <1>8 DEF UpTypeOK, States, Served
<1>10. CardInv'
  <2>1. Switches' <=> Switches
    BY <1>3 DEF Switches
  <2>2. Switches => hw'.slot = cur' \/ forgot
    BY <1>5, <1>6, <1>8 DEF Served
  <2>3. Switches /\ hw'.modem = "up" => hw'.read = hw'.slot \/ cfun' \/ forgot
    BY <1>6, <1>8 DEF Served
  <2> QED
    BY <1>3, <2>1, <2>2, <2>3 DEF CardInv, CardIsRead
<1>11. NvInv'
  <2>1. hw'.nv = hw.nv /\ hw'.live = hw.live
    BY <1>6, <1>8 DEF Served
  <2>2. hw'.nv /\ ~hw'.live => hw'.modem \in {"off", "booting"} \/ forgot \/ NotReset
    <3>1. CASE reset
      BY <3>1, <2>1, <1>8 DEF NvInv, NotReset, NeedsReset
    <3>2. CASE ~reset
      BY <3>2, <2>1, <1>6, <1>8 DEF NvInv, NotReset, Served, UpTypeOK, IsHw
    <3> QED
      BY <3>1, <3>2
  <2> QED
    BY <1>3, <2>1, <2>2 DEF NvInv, NotReset
<1>12. LinkInv'
  BY <1>3, <1>6, <1>8, NoLinks DEF Served
<1> QED
  BY <1>9, <1>10, <1>11, <1>12

LEMMA RebootKeeps ==
  ASSUME UpInv, Reboot
  PROVE  UpInv'
<1> USE DEF UpInv
<1>1. /\ st' = "INIT" /\ cur' = 1 /\ reset' = FALSE /\ cfun' = FALSE /\ linked' = {}
      /\ forgot' = FALSE /\ check' = "fine"
      /\ UNCHANGED <<kit, dualsim, enabled, ctx>>
  BY DEF Reboot
<1>2. /\ IsHw(hw') /\ hw'.modem = "booting" /\ hw'.nv = hw.nv /\ hw'.live = hw.live
      /\ hw'.devs \in {hw.devs, {}}
      /\ kit.fam # "FG360" => hw'.slot = 1
  <2> DEFINE off == PowerDown(hw)
             on == [off EXCEPT !.modem = "booting"]
             slot == IF kit.fam = "FG360" THEN off.slot ELSE 1
  <2>1. hw' = [on EXCEPT !.slot = IF kit.fam = "FG360" THEN @ ELSE 1]
    BY DEF Reboot
  <2>2. Served(hw, off) /\ IsHw(off)
    BY PowerFacts DEF UpTypeOK, Served
  <2> HIDE DEF off
  <2>3. on = [modem |-> "booting", slot |-> off.slot, read |-> off.read, live |-> off.live,
              nv |-> off.nv, devs |-> off.devs]
    BY <2>2, OneField
  <2>4. IsHw(on) /\ on.slot = off.slot
    <3> HIDE DEF on
    <3> QED
      BY <2>2, <2>3 DEF IsHw
  <2>5. hw' = [on EXCEPT !.slot = slot]
    BY <2>1, <2>4
  <2> HIDE DEF on
  <2>6. hw' = [modem |-> on.modem, slot |-> slot, read |-> on.read, live |-> on.live,
               nv |-> on.nv, devs |-> on.devs]
    BY <2>4, <2>5, OneField
  <2> QED
    BY <2>2, <2>3, <2>6, BringUpConstantsOK DEF Served, IsHw
<1>3. UpTypeOK'
  BY <1>1, <1>2, BringUpConstantsOK DEF UpTypeOK, States
<1>4. CardInv'
  BY <1>1, <1>2 DEF CardInv, CardIsRead, Switches
<1>5. NvInv'
  BY <1>1, <1>2 DEF NvInv, NotReset
<1>6. LinkInv'
  BY <1>1, <1>2, NoLinks
<1> QED
  BY <1>3, <1>4, <1>5, <1>6

\* The arms that only look at the modem.
LEMMA LooksKeep ==
  ASSUME UpInv, WaitConfig \/ LoadDrv \/ WaitAt
  PROVE  UpInv'
<1> USE DEF UpInv, daemon, seen
<1>1. /\ UNCHANGED <<kit, hw, cur, dualsim, enabled, reset, cfun, ctx, linked, check, forgot>>
      /\ st \in {"WAIT_CONFIG", "LOAD_DRV", "WAIT_AT"}
      /\ st' \in {"STARTUP", "WAIT_AT", "MODEM_INIT"}
      /\ enabled /\ st' = "MODEM_INIT" => hw.modem = "up"
  <2>1. CASE WaitConfig
    BY <2>1 DEF WaitConfig
  <2>2. CASE LoadDrv
    BY <2>2 DEF LoadDrv, BackToStartup
  <2>3. CASE WaitAt
    BY <2>3 DEF WaitAt, BackToStartup
  <2> QED
    BY <2>1, <2>2, <2>3
<1>2. linked = {}
  BY <1>1 DEF LinkInv
<1>3. UpTypeOK'
  BY <1>1 DEF UpTypeOK, States
<1>4. CardInv'
  BY <1>1 DEF CardInv, CardIsRead, Switches
<1>5. NvInv'
  BY <1>1 DEF NvInv, NotReset
<1>6. LinkInv'
  BY <1>1, <1>2, NoLinks
<1> QED
  BY <1>3, <1>4, <1>5, <1>6

LEMMA ModemInitKeeps ==
  ASSUME UpInv, ModemInit
  PROVE  UpInv'
<1> USE DEF UpInv
<1>1. st = "MODEM_INIT" /\ linked = {} /\ ~reset /\ IsHw(hw)
      /\ kit.wr3 \in BOOLEAN /\ UNCHANGED <<kit, cur, dualsim, enabled, dev, linked, forgot, ctx>>
  <2>1. st = "MODEM_INIT" /\ UNCHANGED <<kit, cur, dualsim, enabled, dev, linked, forgot, ctx>>
    BY DEF ModemInit, BackToStartup, seen
  <2> QED
    BY <2>1, KitFacts DEF UpTypeOK, LinkInv, NvInv
<1>2. CASE BackToStartup
  <2>1. /\ UNCHANGED <<kit, hw, cur, dualsim, enabled, reset, cfun, ctx, linked, check, forgot, dev>>
        /\ st' = "STARTUP"
    BY <1>2 DEF BackToStartup, seen
  <2>2. UpTypeOK' /\ CardInv' /\ NvInv'
    BY <2>1 DEF UpTypeOK, States, CardInv, CardIsRead, Switches, NvInv, NotReset
  <2>3. LinkInv'
    BY <1>1, <2>1, NoLinks
  <2> QED
    BY <2>2, <2>3
<1>3. CASE ~BackToStartup
  <2>a. PICK how \in CheckEnds :
          LET h == Changed(Saved(hw), how)
          IN IF how \in {"set", "again", "missing"}
             THEN /\ hw' = h /\ st' = "STARTUP" /\ cfun' = cfun /\ check' = check
                  /\ reset' = (reset \/ how # "missing")
             ELSE /\ hw' = IF cfun THEN CfunReset(Slotted(h)) ELSE Slotted(h)
                  /\ cfun' = FALSE /\ reset' = reset /\ check' = how /\ st' \in {"READY", "SLEEP"}
    BY <1>3 DEF ModemInit
  <2> DEFINE set == how = "set"
             h == Changed(Saved(hw), how)
  <2>b. set => Checked /\ hw.modem = "up"
    BY DEF CheckEnds, Checked
  <2>c. CheckEnds \subseteq {"fine", "set", "again", "refused", "unasked", "missing"}
    BY DEF CheckEnds
  <2>1. \/ /\ hw' = h /\ check' = check /\ reset' \in BOOLEAN /\ (set => reset') /\ st' = "STARTUP" /\ cfun' = cfun
        \/ /\ how \in {"fine", "refused", "unasked"} /\ check' = how
           /\ hw' = (IF cfun THEN CfunReset(Slotted(h)) ELSE Slotted(h))
           /\ cfun' = FALSE /\ reset' = reset /\ st' \in {"READY", "SLEEP"}
    BY <1>1, <2>a, <2>c
  <2>2. /\ IsHw(Saved(hw)) /\ Saved(hw).modem = hw.modem /\ Saved(hw).slot = hw.slot
        /\ Saved(hw).read = hw.read /\ Saved(hw).live = hw.live /\ Saved(hw).nv = hw.nv
        /\ Saved(hw).devs \in {hw.devs, SaveRawName(hw.devs)}
    <3>1. CASE Saved(hw) = hw
      BY <3>1, <1>1
    <3>2. CASE Saved(hw) = [hw EXCEPT !.devs = SaveRawName(@)]
      <4>1. Saved(hw) = [modem |-> hw.modem, slot |-> hw.slot, read |-> hw.read, live |-> hw.live,
                         nv |-> hw.nv, devs |-> SaveRawName(hw.devs)]
        BY <3>2, <1>1, OneField
      <4> QED
        BY <4>1, <1>1 DEF IsHw
    <3> QED
      BY <3>1, <3>2 DEF Saved
  <2>3. /\ IsHw(h) /\ h.modem = hw.modem /\ h.slot = hw.slot /\ h.read = hw.read
        /\ h.live = hw.live /\ h.nv = (hw.nv \/ set)
        /\ h.devs \in {hw.devs, SaveRawName(hw.devs)}
    <3>1. CASE set
      <4>1. h = [modem |-> hw.modem, slot |-> hw.slot, read |-> hw.read, live |-> hw.live,
                 nv |-> TRUE, devs |-> Saved(hw).devs]
        <5> DEFINE a == Saved(hw)
        <5>1. h = [a EXCEPT !.nv = TRUE] /\ IsHw(a)
          BY <2>2, <3>1 DEF Changed
        <5> HIDE DEF a, h
        <5>2. h = [modem |-> a.modem, slot |-> a.slot, read |-> a.read, live |-> a.live,
                   nv |-> TRUE, devs |-> a.devs]
          BY <5>1, OneField
        <5> QED
          BY <5>2, <2>2 DEF a
      <4> HIDE DEF h
      <4> QED
        BY <4>1, <2>2, <3>1 DEF IsHw
    <3>2. CASE ~set
      <4>1. h = Saved(hw) /\ hw.nv = (hw.nv \/ set)
        BY <3>2, <1>1 DEF IsHw, Changed
      <4> QED
        BY <4>1, <2>2
    <3> QED
      BY <3>1, <3>2
  <2> HIDE DEF h
  <2>4. Several => DevInv(hw.devs) /\ DevInv(SaveRawName(hw.devs))
    BY SaveFacts DEF LinkInv
  <2>5. ASSUME hw'.devs = h.devs
        PROVE  LinkInv'
    <3>1. (Several => DevInv(hw.devs))'
      <4>1. Several => DevInv(h.devs)
        BY <2>3, <2>4
      <4> QED
        BY <1>1, <2>5, <4>1, SameKit
    <3> QED
      BY <1>1, <3>1 DEF LinkInv, LinkIsOfContext
  <2> HIDE DEF set
  <2>6. CASE hw' = h /\ check' = check /\ reset' \in BOOLEAN /\ (set => reset') /\ st' = "STARTUP" /\ cfun' = cfun
    <3>2. UpTypeOK'
      BY <1>1, <2>3, <2>6 DEF UpTypeOK, States
    <3>3. CardInv'
      BY <1>1, <2>3, <2>6 DEF CardInv, CardIsRead, Switches
    <3>4. NvInv'
      <4>1. kit.fam = "FG360" => ~set
        BY <2>b DEF Checked
      <4>2. hw'.live = hw.live /\ hw'.modem = hw.modem /\ hw'.nv = (hw.nv \/ set)
        BY <2>3, <2>6
      <4>3. CASE set
        BY <1>1, <2>6, <4>1, <4>2, <4>3 DEF NvInv, NotReset
      <4>4. CASE ~set
        <5>1. hw'.nv = hw.nv
          BY <1>1, <4>2, <4>4 DEF IsHw
        <5> QED
          BY <1>1, <2>6, <4>2, <5>1 DEF NvInv, NotReset
      <4> QED
        BY <4>3, <4>4
    <3> QED
      BY <2>5, <2>6, <3>2, <3>3, <3>4
  <2>7. CASE /\ how \in {"fine", "refused", "unasked"} /\ check' = how
             /\ hw' = (IF cfun THEN CfunReset(Slotted(h)) ELSE Slotted(h))
             /\ cfun' = FALSE /\ reset' = reset /\ st' \in {"READY", "SLEEP"}
    <3> DEFINE g == Slotted(h)
    <3>1. /\ IsHw(g) /\ g.modem = h.modem /\ g.live = h.live /\ g.nv = h.nv /\ g.devs = h.devs
          /\ ~kit.wr3 => g.slot = h.slot /\ g.read = h.read
          /\ kit.wr3 /\ h.modem = "up" => g.slot = cur /\ g.read = cur
      <4>1. CASE kit.wr3 /\ h.modem = "up"
        <5> DEFINE a == [h EXCEPT !.slot = cur]
        <5>1. a = [modem |-> h.modem, slot |-> cur, read |-> h.read, live |-> h.live,
                   nv |-> h.nv, devs |-> h.devs]
          BY <2>3, OneField
        <5>2. g = [a EXCEPT !.read = cur]
          BY <4>1 DEF Slotted
        <5> HIDE DEF a
        <5>3. IsHw(a)
          BY <5>1, <2>3 DEF IsHw, UpTypeOK
        <5>4. g = [modem |-> h.modem, slot |-> cur, read |-> cur, live |-> h.live,
                   nv |-> h.nv, devs |-> h.devs]
          BY <5>1, <5>2, <5>3, OneField
        <5> HIDE DEF g
        <5> QED
          BY <5>4, <2>3, <4>1 DEF IsHw, UpTypeOK
      <4>2. CASE ~(kit.wr3 /\ h.modem = "up")
        <5>1. g = h
          BY <4>2 DEF Slotted
        <5> HIDE DEF g
        <5> QED
          BY <5>1, <4>2, <2>3
      <4> QED
        BY <4>1, <4>2
    <3> HIDE DEF g
    <3>2. hw' = IF cfun THEN CfunReset(g) ELSE g
      BY <2>7 DEF g
    <3>3. /\ IsHw(hw') /\ hw'.modem = hw.modem /\ hw'.slot = g.slot /\ hw'.live = hw.live
          /\ hw'.nv = h.nv /\ hw'.devs = h.devs
          /\ hw'.read \in {g.read, g.slot}
          /\ cfun /\ hw.modem = "up" => hw'.read = g.slot
          /\ ~cfun => hw'.read = g.read
      <4>1. CASE cfun
        <5>1. hw' = CfunReset(g)
          BY <3>2, <4>1
        <5>2. Served(g, hw') /\ hw'.modem = g.modem /\ hw'.devs = g.devs
              /\ (g.modem = "up" => hw'.read = g.slot)
              /\ (g.modem # "up" => hw' = g)
          BY <5>1, <3>1, PowerFacts
        <5> QED
          BY <5>2, <3>1, <2>3, <4>1 DEF Served
      <4>2. CASE ~cfun
        <5>1. hw' = g
          BY <3>2, <4>2
        <5> QED
          BY <5>1, <3>1, <2>3, <4>2
      <4> QED
        BY <4>1, <4>2
    <3>4. UpTypeOK'
      BY <1>1, <2>7, <3>3 DEF UpTypeOK, States
    <3>5. CardInv'
      <4>1. enabled => hw'.modem \in {"up", "hung"}
        BY <1>1, <3>3 DEF CardInv
      <4>2. Switches => hw'.slot = cur \/ forgot
        BY <2>3, <3>1, <3>3 DEF CardInv, Switches
      <4>3. Switches /\ hw'.modem = "up" => hw'.read = hw'.slot \/ forgot
        <5>1. CASE cfun
          BY <5>1, <3>3
        <5>2. CASE ~cfun
          BY <5>2, <2>3, <3>1, <3>3 DEF CardInv, Switches
        <5> QED
          BY <5>1, <5>2
      <4>4. kit.wr3 /\ hw'.modem = "up" => hw'.read = cur
        BY <2>3, <3>1, <3>3
      <4> QED
        BY <1>1, <2>7, <4>1, <4>2, <4>3, <4>4 DEF CardInv, CardIsRead, Switches
    <3>6. NvInv'
      <4>1. ~set
        BY <2>7 DEF set
      <4>2. hw'.nv = hw.nv
        BY <4>1, <2>3, <3>3, <1>1 DEF IsHw
      <4>3. ~reset' /\ st' # "ON" /\ (kit.fam = "FG360" => hw'.nv = hw'.live)
        BY <1>1, <2>7, <4>2, <3>3 DEF NvInv, NotReset
      <4>4. hw'.nv /\ ~hw'.live /\ hw'.modem \in {"up", "hung"} => forgot \/ NotReset
        BY <1>1, <4>2, <3>3 DEF NvInv, NotReset
      <4>5. /\ Checked' /\ hw'.modem = "up"
            /\ check' # "unasked" /\ ~(kit.fam = "RM520N" /\ check' = "refused")
            => hw'.nv
        <5>1. Checked' <=> Checked
          BY <1>1 DEF Checked
        <5>2. Checked /\ hw.modem = "up" /\ how = "fine" => hw.nv
          BY DEF CheckEnds, Checked
        <5>3. how = "refused" => kit.fam = "RM520N"
          BY DEF CheckEnds
        <5> QED
          BY <2>7, <4>2, <3>3, <5>1, <5>2, <5>3
      <4> QED
        BY <1>1, <2>7, <4>3, <4>4, <4>5 DEF NvInv, NotReset
    <3>7. LinkInv'
      BY <2>5, <3>3
    <3> QED
      BY <3>4, <3>5, <3>6, <3>7
  <2> QED
    BY <2>1, <2>6, <2>7
<1> QED
  BY <1>2, <1>3

LEMMA ReadyKeeps ==
  ASSUME UpInv, Ready
  PROVE  UpInv'
<1> USE DEF UpInv
<1>1. st = "READY" /\ linked = {} /\ ~reset /\ IsHw(hw)
      /\ UNCHANGED <<kit, cur, dualsim, enabled, cfun, dev, linked, forgot, ctx>>
  <2>1. st = "READY" /\ UNCHANGED <<kit, cur, dualsim, enabled, cfun, dev, linked, forgot, ctx>>
    BY DEF Ready, BackToStartup, seen
  <2> QED
    BY <2>1 DEF UpTypeOK, LinkInv, NvInv
<1>2. CASE BackToStartup
  <2>1. st' = "STARTUP" /\ hw' = hw /\ reset' = reset /\ check' = check
    BY <1>2 DEF BackToStartup, seen
  <2>2. UpTypeOK' /\ CardInv'
    BY <1>1, <2>1 DEF UpTypeOK, States, CardInv, CardIsRead, Switches
  <2>3. NvInv'
    BY <1>1, <2>1 DEF NvInv, NotReset
  <2>4. LinkInv'
    BY <1>1, <2>1, NoLinks
  <2> QED
    BY <2>2, <2>3, <2>4
<1>3. CASE ~BackToStartup
  <2>1. PICK how \in NvEnds :
          /\ hw' = Changed(hw, how)
          /\ IF how \in {"set", "again"} /\ ~NotReset
             THEN st' = "STARTUP" /\ reset' = TRUE /\ check' = check
             ELSE st' = "ON" /\ reset' = reset /\ check' = how
    BY <1>3 DEF Ready, NotReset
  <2>2. /\ IsHw(hw') /\ hw'.modem = hw.modem /\ hw'.slot = hw.slot /\ hw'.read = hw.read
        /\ hw'.live = hw.live /\ hw'.devs = hw.devs
        /\ hw'.nv = (hw.nv \/ how = "set")
    <3>1. CASE how = "set"
      <4>1. hw' = [modem |-> hw.modem, slot |-> hw.slot, read |-> hw.read, live |-> hw.live,
                   nv |-> TRUE, devs |-> hw.devs]
        BY <1>1, <2>1, <3>1, OneField DEF Changed
      <4> QED
        BY <1>1, <3>1, <4>1 DEF IsHw
    <3>2. CASE how # "set"
      <4>1. hw' = hw
        BY <2>1, <3>2 DEF Changed
      <4>2. hw.nv = (hw.nv \/ how = "set")
        BY <1>1, <3>2 DEF IsHw
      <4> QED
        BY <1>1, <4>1, <4>2
    <3> QED
      BY <3>1, <3>2
  <2>3. CASE how \in {"set", "again"} /\ ~NotReset
    <3>1. st' = "STARTUP" /\ reset' = TRUE /\ check' = check
      BY <2>1, <2>3
    <3>2. UpTypeOK' /\ CardInv'
      BY <1>1, <2>2, <3>1 DEF UpTypeOK, States, CardInv, CardIsRead, Switches
    <3>3. kit.fam = "FG360" => hw'.nv = hw'.live
      <4>1. ASSUME kit.fam = "FG360", how = "set" PROVE hw.live
        <5>1. NvEnds = {check}
          BY <4>1 DEF NvEnds, NvChecked
        <5> QED
          BY <5>1, <4>1 DEF NvInv, NotReset
      <4> QED
        BY <1>1, <2>2, <4>1 DEF NvInv, IsHw
    <3>4. NvInv'
      BY <1>1, <3>1, <3>3 DEF NvInv, NotReset
    <3>5. LinkInv'
      BY <1>1, <2>2, NoLinks
    <3> QED
      BY <3>2, <3>4, <3>5
  <2>4. CASE ~(how \in {"set", "again"} /\ ~NotReset)
    <3>1. st' = "ON" /\ reset' = reset /\ check' = how
      BY <2>1, <2>4
    <3>2. UpTypeOK' /\ CardInv'
      BY <1>1, <2>2, <3>1 DEF UpTypeOK, States, CardInv, CardIsRead, Switches
    <3>3. how = "set" => NotReset
      BY <2>4
    <3>4. Checked => check' = check
      <4>1. Checked => ~NvChecked
        BY DEF Checked, NvChecked
      <4> QED
        BY <3>1, <4>1 DEF NvEnds
    <3>5. NvChecked /\ hw.modem = "up" /\ how # "unasked" /\ ~kit.exempt => hw.nv
      <4>1. NvChecked /\ hw.modem = "up" => how \in {"unasked"} \cup (IF hw.nv THEN {"fine"} ELSE {"set", "again"})
        BY DEF NvEnds
      <4> QED
        BY <2>4, <4>1 DEF NotReset
    <3>6. NvInv'
      <4>1. Checked' <=> Checked
        BY <1>1 DEF Checked
      <4>2. hw'.nv /\ ~hw'.live /\ hw'.modem \in {"up", "hung"} => reset' \/ forgot' \/ NotReset'
        BY <1>1, <2>2, <3>1, <3>3 DEF NvInv, NotReset, IsHw
      <4>3. kit.fam = "FG360" => hw'.nv = hw'.live
        BY <1>1, <2>2, <3>3 DEF NvInv, NotReset, IsHw
      <4>4. /\ enabled' /\ hw'.modem = "up" /\ Checked'
            /\ check' # "unasked" /\ ~(kit.fam = "RM520N" /\ check' = "refused")
            => hw'.nv
        BY <1>1, <2>2, <3>4, <4>1 DEF NvInv
      <4>5. /\ enabled' /\ hw'.modem = "up" /\ kit.fam \in {"EC20", "U8300C"}
            /\ check' # "unasked" /\ ~kit.exempt
            => hw'.nv
        BY <1>1, <2>2, <3>1, <3>5 DEF NvChecked
      <4> QED
        BY <1>1, <3>1, <3>3, <4>2, <4>3, <4>4, <4>5 DEF NvInv, NotReset
    <3>7. LinkInv'
      BY <1>1, <2>2, NoLinks
    <3> QED
      BY <3>2, <3>6, <3>7
  <2> QED
    BY <2>3, <2>4
<1> QED
  BY <1>2, <1>3

\* A dial: the name it gives does not touch the device of the other uplink.
LEMMA DialKeeps ==
  ASSUME UpInv, NEW wwan \in {1, 2}, Dial(wwan)
  PROVE  UpInv'
<1> USE DEF UpInv
<1> DEFINE id == IF wwan = 2 THEN SecondContext ELSE ctx
           r == CheckCellSysName(kit.fam, kit.dual, "PCIE" \in dev, hw.devs, wwan, id)
<1>1. /\ st = "ON" /\ enabled /\ hw.modem = "up" /\ wwan \notin linked
      /\ wwan = 2 => kit.dual /\ 1 \in linked
      /\ hw' = [hw EXCEPT !.devs = r.devs]
      /\ linked' \in {linked, linked \cup {wwan}}
      /\ UNCHANGED <<kit, st, cur, dualsim, enabled, reset, cfun, dev, check, forgot, ctx>>
  BY DEF Dial, daemon
<1> HIDE DEF r
<1>2. IsHw(hw) /\ kit.dual \in BOOLEAN /\ ctx \in {1, 3}
  BY KitFacts DEF UpTypeOK, Contexts
<1>3. /\ hw' = [modem |-> hw.modem, slot |-> hw.slot, read |-> hw.read, live |-> hw.live,
                nv |-> hw.nv, devs |-> r.devs]
  BY <1>1, <1>2, OneField
<1>4. /\ IsHw(hw') /\ hw'.modem = hw.modem /\ hw'.slot = hw.slot /\ hw'.read = hw.read
      /\ hw'.live = hw.live /\ hw'.nv = hw.nv /\ hw'.devs = r.devs
  BY <1>2, <1>3 DEF IsHw
<1>5. UpTypeOK' /\ CardInv'
  BY <1>1, <1>4 DEF UpTypeOK, CardInv, CardIsRead, Switches
<1>6. NvInv'
  BY <1>1, <1>4 DEF NvInv, NotReset, Checked
<1>7. linked' # {} => st' = "ON" /\ enabled'
  BY <1>1
<1>8. (2 \in linked' => 1 \in linked') /\ linked \subseteq {1, 2}
  BY <1>1 DEF LinkInv, UpTypeOK
<1>9. CASE Several
  <2>1. id \in Nat
    BY <1>2 DEF SecondContext
  <2>2. /\ DevInv(r.devs)
        /\ \A d \in Called(r.devs, Sys(wwan)) : d.raw = RawOf(kit.fam, kit.dual, id)
        /\ \A d \in r.devs : d.name = Sys(3 - wwan) => d \in hw.devs
    <3> DEFINE p == "PCIE" \in dev
               n == CheckCellSysName(kit.fam, kit.dual, p, hw.devs, wwan, id)
    <3>1. DevInv(hw.devs)
      BY <1>9 DEF LinkInv
    <3>2. r = n
      BY DEF r
    <3> HIDE DEF p, id
    <3>3. /\ DevInv(n.devs)
          /\ \A d \in Called(n.devs, Sys(wwan)) : d.raw = RawOf(kit.fam, kit.dual, id)
          /\ \A d \in n.devs : d.name = Sys(3 - wwan) => d \in hw.devs
      <4> DEFINE devs  == hw.devs
                 after == n.devs
      <4>1. /\ wwan = 2 => kit.dual
            /\ kit.dual \in BOOLEAN
        BY <1>1, <1>2
      <4>2. after = CheckCellSysName(kit.fam, kit.dual, p, devs, wwan, id).devs /\ DevInv(devs)
        BY <3>1
      <4> HIDE DEF n, devs, after
      <4>3. /\ DevInv(after)
            /\ \A d \in Called(after, Sys(wwan)) : d.raw = RawOf(kit.fam, kit.dual, id)
            /\ \A d \in after : d.name = Sys(3 - wwan) => d \in devs
        BY <4>1, <4>2, <1>9, <2>1, CheckFacts
      <4> QED
        BY <4>3 DEF devs, after
    <3> HIDE DEF n
    <3> QED
      BY <3>2, <3>3
  <2>3. (Several => DevInv(hw.devs))'
    BY <1>1, <1>4, <2>2, SameKit
  <2>4. ASSUME NEW w \in linked', NEW d \in Called(hw'.devs, Sys(w))
        PROVE  d.raw = RawOf(kit.fam, kit.dual, IF w = 2 THEN SecondContext ELSE ctx)
    <3>1. w \in {1, 2}
      BY <1>1, <1>8
    <3>2. CASE w = wwan
      BY <3>2, <1>4, <2>2, <2>4
    <3>3. CASE w # wwan
      <4>1. w = 3 - wwan /\ w \in linked
        BY <1>1, <3>1, <3>3
      <4>2. d \in Called(hw.devs, Sys(w))
        BY <4>1, <1>4, <2>2, <2>4 DEF Called
      <4> QED
        BY <4>1, <4>2, <1>9 DEF LinkInv, LinkIsOfContext, Sys, Several
    <3> QED
      BY <3>2, <3>3
  <2>5. LinkIsOfContext'
    BY <1>1, <2>4 DEF LinkIsOfContext, Sys
  <2> QED
    BY <1>5, <1>6, <1>7, <1>8, <2>3, <2>5 DEF LinkInv
<1>10. CASE ~Several
  <2>1. LinkInv'
    BY <1>1, <1>7, <1>8, <1>10 DEF LinkInv, LinkIsOfContext, Several
  <2> QED
    BY <1>5, <1>6, <2>1
<1> QED
  BY <1>9, <1>10

-----------------------------------------------------------------------------
(* The theorems.                                                           *)

\* The invariant of the bring-up holds in every behaviour, whatever is refused or
\* left unanswered and whenever the daemon is restarted: what a restart loses is in
\* it (main(), ih_redial.c l.10464-10470; redial_handle(), l.8946-9608).
THEOREM UpInductive == UpSpec => []UpInv
<1>1. UpInit => UpInv
  BY UpInitHolds
<1>2. UpInv /\ [UpNext]_upVars => UpInv'
  <2> SUFFICES ASSUME UpInv, [UpNext]_upVars
               PROVE  UpInv'
    OBVIOUS
  <2>1. CASE Boot
    BY <2>1, BootKeeps
  <2>2. CASE Hang \/ WantSwitch \/ Wake \/ Leave
    BY <2>2, EventsKeep
  <2>3. CASE Restart
    BY <2>3, RestartKeeps
  <2>4. CASE InitArm
    BY <2>4, InitArmKeeps
  <2>5. CASE WaitConfig \/ LoadDrv \/ WaitAt
    BY <2>5, LooksKeep
  <2>6. CASE Startup
    BY <2>6, StartupKeeps
  <2>7. CASE Reboot
    BY <2>7, RebootKeeps
  <2>8. CASE ModemInit
    BY <2>8, ModemInitKeeps
  <2>9. CASE Ready
    BY <2>9, ReadyKeeps
  <2>10. CASE \E wwan \in {1, 2} : Dial(wwan)
    BY <2>10, DialKeeps
  <2>11. CASE UNCHANGED upVars
    BY <2>11 DEF upVars, UpInv, UpTypeOK, CardInv, CardIsRead, Switches, NvInv, NotReset, Checked, LinkInv,
                 LinkIsOfContext, Several, DevInv, IsDevice, OnBase, RawNames
  <2> QED
    BY <2>1, <2>2, <2>3, <2>4, <2>5, <2>6, <2>7, <2>8, <2>9, <2>10, <2>11 DEF UpNext, Arms
<1> QED
  BY <1>1, <1>2, PTL DEF UpSpec

\* A modem the dialer is READY with has read the card that is wanted and runs with
\* the settings it needs, unless it refused them or did not answer, or a restart has
\* forgotten the slot or the reset that was to come; and its devices carry the names
\* of their contexts in any case: for any modems and any number of hangs, switches,
\* refusals and restarts (ih_redial.c l.8946-9608, modem.c l.1827-1863, 3879-4125).
THEOREM ModemStaysPrepared == UpSpec => []ModemIsPrepared
<1>1. UpInv => ModemIsPrepared
  <2> SUFFICES ASSUME UpInv
               PROVE  ModemIsPrepared
    OBVIOUS
  <2>1. st \in {"READY", "ON"} => ~reset
    BY DEF UpInv, NvInv
  <2>2. ReadyIsConfigured
    <3>1. /\ hw.nv /\ ~hw.live /\ hw.modem = "up" /\ ~reset => forgot \/ NotReset
          /\ Checked => ~NotReset
      BY DEF UpInv, NvInv, Checked, NotReset
    <3> QED
      BY <2>1, <3>1 DEF UpInv, NvInv, ReadyIsConfigured, NotReset
  <2> QED
    BY <2>2 DEF UpInv, CardInv, LinkInv, ModemIsPrepared
<1> QED
  BY <1>1, UpInductive, PTL

\* A task that is pending when the dialer has its link has its timer armed
\* (start_redial_pending_task() and its like, ih_redial.c l.5262-5375).
THEOREM PendingAlwaysTried == TasksSpec => []PendingIsTried
<1>1. TasksInit => PendingIsTried
  BY DEF TasksInit, PendingIsTried
<1>2. PendingIsTried /\ [TasksNext]_taskVars => PendingIsTried'
  <2> SUFFICES ASSUME PendingIsTried, [TasksNext]_taskVars
               PROVE  PendingIsTried'
    OBVIOUS
  <2>1. CASE AskPending
    BY <2>1 DEF PendingIsTried, AskPending, StartTask, StopTask
  <2>2. CASE TaskTimer
    <3>1. PICK done : tasks' = tasks \ done /\ timer' = (tasks \ done # {})
      BY <2>2 DEF TaskTimer
    <3> QED
      BY <3>1 DEF PendingIsTried
  <2>3. CASE ReadyTasks
    BY <2>3 DEF PendingIsTried, ReadyTasks
  <2>4. CASE ListEnds
    BY <2>4 DEF PendingIsTried, ListEnds, StartTask
  <2>5. CASE ComeUp \/ Redial \/ ChangeState
    BY <2>5 DEF PendingIsTried, ComeUp, Redial, ChangeState
  <2>6. CASE UNCHANGED taskVars
    BY <2>6 DEF PendingIsTried, taskVars
  <2> QED
    BY <2>1, <2>2, <2>3, <2>4, <2>5, <2>6 DEF TasksNext
<1> QED
  BY <1>1, <1>2, PTL DEF TasksSpec

-----------------------------------------------------------------------------
(* The AT command list.                                                    *)

Words    == {"OK", "READY", "SIM_PIN", "SIM_PUK", "PH_NETSUB", "CSQ", "REG", "CGPADDR"} \cup Range(Chain)
Commands == {"AT", "CPIN", "CSQ", "CREG_AUTO", "COPS", "SICA", "CGPADDR2", "CGPADDR3"} \cup Queries
Texts    == Seq(Words \X Nat)
Writable == Commands \cup {"PIN", "CLCK"} \cup Range(Chain)

IsSetup(s) ==
  /\ s.family \in AtFamilies /\ s.types \in [AtSims -> NetTypes] /\ s.cur \in AtSims
  /\ s.pin \in {"right", "wrong", "none"} /\ s.counter \in Counters /\ s.slow \in BOOLEAN
  /\ s.types[1] = s.types[2]

\* A list is that of its family; only the two slots of the registration are ever written.
HasSlots == setup.family \in {"LUA10", "U8300", "PLS8"}
IsList(l) ==
  CASE setup.family = "EC25"  -> l = <<"AT", "CPIN", "CSQ", "CREG_AUTO", "COPS">>
    [] setup.family = "ELS31" -> l = <<"AT", "CPIN", "CSQ", "CEREG", "AT", "COPS", "SICA", "CGPADDR3", "CGPADDR2">>
    [] OTHER -> \E a \in {"AT"} \cup Queries, b \in {"AT", "CREG", "CGREG"} :
                   l = <<"AT", "CPIN", "CSQ", a, b, "COPS">>

\* Once it is filled in, one slot at least asks for the registration.
Asks(l) ==
  /\ l[4] = "AT" => l[5] # "AT"
  /\ setup.family = "LUA10" /\ NetworkType = "AUTO" => l[5] # "AT"

AtDaemonTypes ==
  /\ IsSetup(setup) /\ IsList(list)
  /\ atState \in {"STARTUP", "READY", "AT", "DIAL"}
  /\ idx \in 1..(Len(list) + 1) /\ try \in 0..(MaxRetry + 1) /\ apnCnt \in 0..ApnRetry
  /\ atErrno \in {"OK", "NAK", "NOMODEM", "NOSIM", "NOSIGNAL", "LOWSIGNAL", "NOREG", "ROAM", "NOVALIDIP"}
  /\ armed \in BOOLEAN /\ buf \in Texts
  /\ sync \in {"none", "PIN", "CLCK"} \cup Range(Chain)
  /\ armed => try > 0 /\ sync = "none" /\ atState \in {"AT", "STARTUP"} /\ idx <= Len(list)
  /\ sync # "none" => atState \in {"AT", "STARTUP"} /\ idx = 2

AtModemTypes ==
  /\ wire \in Seq(Writable) /\ Len(wire) <= MaxWire
  /\ tty \in Texts /\ Len(tty) <= MaxTty
  /\ modem \in [card : Stored, pins : 0..3, reg : Networks, changes : 0..MaxChanges]
  /\ modem.card = "PIN" => modem.pins > 0
  /\ earned \subseteq {"sim", "signal", "reg", "mute"}

\* What a token says has been earned, or is true of the card.
Truth(t, e, card) ==
  /\ t[1] = "READY" => "sim" \in e
  /\ t[1] = "SIM_PIN" => "sim" \in e \/ card \in {"PIN", "PUK"}
  /\ t[1] = "PH_NETSUB" => "sim" \in e \/ card = "NETSUB"
  /\ t[1] = "CSQ" /\ t[2] # 0 => "signal" \in e
  /\ t \in Registered => "reg" \in e
AllTrue(b, e, card) == \A i \in DOMAIN b : Truth(b[i], e, card)
TextsAreTrue ==
  armed \/ sync # "none" => AllTrue(tty, earned, modem.card) /\ AllTrue(buf, earned, modem.card)
SimShown == "sim" \in earned
SyncIsTrue ==
  /\ sync = "CLCK" => SimShown \/ modem.card = "NETSUB"
  /\ sync \in {"PIN"} \cup Range(Chain) => SimShown \/ modem.card \in {"PIN", "PUK"}

\* The last try has left an error.
TryFails ==
  atState = "AT" /\ try > 0 =>
    /\ atErrno # "OK"
    /\ idx <= Len(list) /\ list[idx] \notin {"CREG_AUTO", "COPS", "CGPADDR2", "CGPADDR3"} => atErrno # "NAK"

\* What a pass has behind it.
Behind(n) == (atState = "AT" /\ idx > n) \/ atState = "DIAL"
SimEarned == SimShown \/ modem.card = "NETSUB" \/ (setup.slow /\ modem.card \in {"PIN", "PUK"})
RegEarned == "reg" \in earned
PassInv ==
  /\ Behind(2) => SimEarned
  /\ Behind(3) => "signal" \in earned
  /\ setup.family = "EC25" /\ Behind(4) => RegEarned \/ "mute" \in earned \/ setup.slow
  /\ HasSlots =>
       /\ Behind(5) => RegEarned
       /\ atState = "AT" /\ idx = 5 => RegEarned \/ list[5] # "AT"
       /\ atState = "AT" => Asks(list)

\* A modem that answers in time has one command on its wire, and nothing but
\* reports behind the end of an answer.
OneCommand ==
  /\ Len(wire) <= 1
  /\ sync # "none" => wire \in {<<>>, <<sync>>}
Lined ==
  \A i \in DOMAIN tty : tty[i][1] # "REG" =>
    wire = <<>> /\ \A j \in DOMAIN tty : tty[j][1] = "OK" => i <= j
PinAnswered == sync = "PIN" /\ Has(tty, "OK") => SimShown
QueryAnswered ==
  atState = "AT" /\ idx <= Len(list) /\ list[idx] = "CREG_AUTO" /\ try > 0 /\ atErrno = "NAK" =>
    armed /\ (wire = <<Written(try - 1)>> \/ Has(tty, "OK") \/ "mute" \in earned)
Prompt ==
  ~setup.slow =>
    OneCommand /\ Lined /\ (sync = "none" => ~Has(buf, "OK")) /\ PinAnswered /\ QueryAnswered

PinInv ==
  ~setup.slow =>
    /\ PinIsSpared
    /\ wire = <<"PIN">> => modem.card # "PIN" \/ modem.pins > 1
    /\ \A i \in DOMAIN tty : tty[i][1] \in Range(Chain) => tty[i][2] = modem.pins

AtInv == AtDaemonTypes /\ AtModemTypes /\ TextsAreTrue /\ SyncIsTrue /\ TryFails /\ PassInv /\ Prompt /\ PinInv

-----------------------------------------------------------------------------
LEMMA ChainIs == Range(Chain) = {"SPIC", "CPNNUM", "UPINCNT", "QPINC"}
<1>1. DOMAIN Chain = {1, 2, 3, 4}
  BY DEF Chain
<1> QED
  BY <1>1 DEF Range, Chain

\* The number of a word is that of a token with the word.
LEMMA NumberIs ==
  ASSUME NEW b \in Texts, NEW w, Has(b, w)
  PROVE  \E i \in DOMAIN b : b[i][1] = w /\ Number(b, w) = b[i][2]
<1> DEFINE I == {i \in 1 .. Len(b) : b[i][1] = w}
<1>1. Len(b) \in Nat /\ DOMAIN b = 1 .. Len(b)
  BY LenProperties DEF Texts
<1>2. I # {} /\ I \in SUBSET (1 .. Len(b))
  BY <1>1 DEF Has
<1>3. SelectInSeq(b, LAMBDA t : t[1] = w) = Min(I)
  BY <1>2 DEF SelectInSeq
<1> HIDE DEF I
<1>4. Min(I) \in I
  BY <1>1, <1>2, MinIsMember
<1>5. Min(I) \in DOMAIN b /\ b[Min(I)][1] = w
  BY <1>1, <1>4 DEF I
<1> QED
  BY <1>3, <1>5 DEF Number

LEMMA OkIsSelected ==
  ASSUME NEW b \in Texts, Has(b, "OK"), NEW k \in SelectInSeq(b, LAMBDA t : t[1] = "OK") .. Len(b)
  PROVE  k \in 1 .. Len(b) /\ \E j \in 1 .. k : b[j][1] = "OK"
<1> DEFINE I == {i \in 1 .. Len(b) : b[i][1] = "OK"}
<1>1. Len(b) \in Nat /\ DOMAIN b = 1 .. Len(b)
  BY LenProperties DEF Texts
<1>2. I # {} /\ I \in SUBSET (1 .. Len(b))
  BY <1>1 DEF Has
<1>3. SelectInSeq(b, LAMBDA t : t[1] = "OK") = Min(I)
  BY <1>2 DEF SelectInSeq
<1> DEFINE m == Min(I)
<1>4. k \in m .. Len(b)
  BY <1>3
<1> HIDE DEF I
<1>5. m \in I
  BY <1>1, <1>2, MinIsMember
<1>6. m \in 1 .. Len(b) /\ b[m][1] = "OK"
  BY <1>5 DEF I
<1> HIDE DEF m
<1> QED
  BY <1>1, <1>4, <1>6

\* What is left when the first k tokens have been read.
IsRest(r, t, k) ==
  /\ r \in Texts /\ Len(r) = Len(t) - k
  /\ \A i \in 1 .. Len(r) : r[i] = t[i + k]

LEMMA RestIs ==
  ASSUME NEW t \in Texts, NEW k \in 1 .. Len(t)
  PROVE  /\ IsRest(SubSeq(t, k + 1, Len(t)), t, k)
         /\ SubSeq(t, 1, k) \in Texts /\ Len(SubSeq(t, 1, k)) = k
         /\ \A i \in 1 .. k : SubSeq(t, 1, k)[i] = t[i]
<1>1. Len(t) \in Nat /\ \A i \in 1 .. Len(t) : t[i] \in Words \X Nat
  BY LenProperties, ElementOfSeq DEF Texts
<1>2. k + 1 \in Int /\ Len(t) \in Int /\ k \in Int /\ 1 \in Int
  BY <1>1
<1>3. \A i \in (k + 1) .. Len(t) : t[i] \in Words \X Nat
  BY <1>1
<1>4. \A i \in 1 .. k : t[i] \in Words \X Nat
  BY <1>1
<1>5. /\ SubSeq(t, k + 1, Len(t)) \in Texts
      /\ Len(SubSeq(t, k + 1, Len(t))) = IF k + 1 <= Len(t) THEN Len(t) - (k + 1) + 1 ELSE 0
      /\ \A i \in 1 .. Len(t) - (k + 1) + 1 : SubSeq(t, k + 1, Len(t))[i] = t[k + 1 + i - 1]
  BY <1>2, <1>3, SubSeqProperties DEF Texts
<1>6. /\ SubSeq(t, 1, k) \in Texts
      /\ Len(SubSeq(t, 1, k)) = IF 1 <= k THEN k - 1 + 1 ELSE 0
      /\ \A i \in 1 .. k - 1 + 1 : SubSeq(t, 1, k)[i] = t[1 + i - 1]
  BY <1>2, <1>4, SubSeqProperties DEF Texts
<1>7. IsRest(SubSeq(t, k + 1, Len(t)), t, k)
  BY <1>1, <1>5 DEF IsRest
<1> QED
  BY <1>1, <1>6, <1>7

LEMMA JoinIs ==
  ASSUME NEW s \in Texts, NEW t \in Texts
  PROVE  /\ s \o t \in Texts /\ Len(s \o t) = Len(s) + Len(t)
         /\ \A i \in DOMAIN s : i \in DOMAIN (s \o t) /\ (s \o t)[i] = s[i]
         /\ \A i \in DOMAIN t : i + Len(s) \in DOMAIN (s \o t) /\ (s \o t)[i + Len(s)] = t[i]
         /\ \A i \in DOMAIN (s \o t) :
              \/ i \in DOMAIN s /\ (s \o t)[i] = s[i]
              \/ i - Len(s) \in DOMAIN t /\ (s \o t)[i] = t[i - Len(s)]
<1>1. /\ Len(s) \in Nat /\ Len(t) \in Nat /\ DOMAIN s = 1 .. Len(s) /\ DOMAIN t = 1 .. Len(t)
  BY LenProperties DEF Texts
<1>2. /\ s \o t \in Texts /\ Len(s \o t) = Len(s) + Len(t)
      /\ \A i \in 1 .. Len(s) + Len(t) : (s \o t)[i] = IF i <= Len(s) THEN s[i] ELSE t[i - Len(s)]
  BY ConcatProperties DEF Texts
<1>3. DOMAIN (s \o t) = 1 .. Len(s) + Len(t)
  BY <1>2, LenProperties DEF Texts
<1> DEFINE u == s \o t
<1> HIDE DEF u
<1>4. \A i \in DOMAIN s : i \in DOMAIN u /\ u[i] = s[i]
  BY <1>1, <1>2, <1>3 DEF u
<1>5. \A i \in DOMAIN t : i + Len(s) \in DOMAIN u /\ u[i + Len(s)] = t[i]
  BY <1>1, <1>2, <1>3 DEF u
<1>6. \A i \in DOMAIN u : (i \in DOMAIN s /\ u[i] = s[i]) \/ (i - Len(s) \in DOMAIN t /\ u[i] = t[i - Len(s)])
  BY <1>1, <1>2, <1>3 DEF u
<1> QED
  BY <1>2, <1>4, <1>5, <1>6 DEF u

LEMMA ListFacts ==
  ASSUME IsSetup(setup), NEW l, IsList(l)
  PROVE  /\ Len(l) \in {5, 6, 9} /\ l \in Seq(Commands) /\ l[1] = "AT"
         /\ setup.family = "EC25" => Len(l) = 5 /\ l[4] = "CREG_AUTO"
         /\ setup.family = "ELS31" => Len(l) = 9
         /\ setup.family \notin {"EC25", "ELS31"} =>
              Len(l) = 6 /\ l[4] \in {"AT"} \cup Queries /\ l[5] \in {"AT", "CREG", "CGREG"}
         /\ \A i \in 1 .. Len(l) :
              /\ l[i] \in Commands
              /\ l[i] = "CPIN" <=> i = 2
              /\ l[i] = "CSQ" <=> i = 3
              /\ l[i] = "CEREG" => i = 4
              /\ l[i] = "CREG_AUTO" => setup.family = "EC25" /\ i = 4
              /\ l[i] = "CGPADDR2" => setup.family = "ELS31" /\ i = 9
              /\ l[i] = "CGPADDR3" => setup.family = "ELS31" /\ i = 8
<1>1. CASE setup.family = "EC25"
  <2>1. l = <<"AT", "CPIN", "CSQ", "CREG_AUTO", "COPS">>
    BY <1>1 DEF IsList
  <2>2. Len(l) = 5 /\ l \in Seq(Commands)
    BY <2>1 DEF Commands
  <2> QED
    BY <1>1, <2>1, <2>2 DEF Commands
<1>2. CASE setup.family = "ELS31"
  <2>1. l = <<"AT", "CPIN", "CSQ", "CEREG", "AT", "COPS", "SICA", "CGPADDR3", "CGPADDR2">>
    BY <1>2 DEF IsList
  <2>2. Len(l) = 9 /\ l \in Seq(Commands)
    BY <2>1 DEF Commands, Queries
  <2> QED
    BY <1>2, <2>1, <2>2 DEF Commands, Queries
<1>3. CASE setup.family \notin {"EC25", "ELS31"}
  <2>1. PICK a \in {"AT"} \cup Queries, b \in {"AT", "CREG", "CGREG"} : l = <<"AT", "CPIN", "CSQ", a, b, "COPS">>
    BY <1>3 DEF IsList
  <2>2. Len(l) = 6 /\ l \in Seq(Commands)
    BY <2>1 DEF Commands, Queries
  <2> QED
    BY <1>3, <2>1, <2>2 DEF Commands, Queries
<1> QED
  BY <1>1, <1>2, <1>3

WithSlots(l, a, b) == [l EXCEPT ![RegSlot] = a, ![RegSlot + 1] = b]

LEMMA SlotsKept ==
  ASSUME IsSetup(setup), NEW l, IsList(l), setup.family \notin {"EC25", "ELS31"},
         NEW a \in {"AT"} \cup Queries, NEW b \in {"AT", "CREG", "CGREG"}
  PROVE  WithSlots(l, a, b) = <<"AT", "CPIN", "CSQ", a, b, "COPS">> /\ IsList(WithSlots(l, a, b))
<1>1. PICK c \in {"AT"} \cup Queries, d \in {"AT", "CREG", "CGREG"} : l = <<"AT", "CPIN", "CSQ", c, d, "COPS">>
  BY DEF IsList
<1>2. WithSlots(l, a, b) = <<"AT", "CPIN", "CSQ", a, b, "COPS">>
  BY <1>1 DEF WithSlots, RegSlot
<1> QED
  BY <1>2 DEF IsList

LEMMA FixupKeeps ==
  ASSUME IsSetup(setup), NEW l, IsList(l)
  PROVE  IsList(FixupAtList(l)) /\ Len(FixupAtList(l)) = Len(l) /\ (HasSlots => Asks(FixupAtList(l)))
<1> DEFINE slots(a, b) == WithSlots(l, a, b)
           f == FixupAtList(l)
<1>1. NetworkType \in {"AUTO", "4G", "3G"}
  BY AtConstantsOK DEF IsSetup, NetworkType, AtSims
<1>2. CASE setup.family \in {"EC25", "ELS31"}
  <2>1. f = l
    BY <1>2 DEF FixupAtList
  <2> QED
    BY <1>2, <2>1 DEF HasSlots
<1>3. CASE HasSlots
  <2>1. \E a \in {"AT"} \cup Queries, b \in {"AT", "CREG", "CGREG"} :
          /\ f = slots(a, b) /\ (a = "AT" => b # "AT")
          /\ setup.family = "LUA10" /\ NetworkType = "AUTO" => b # "AT"
    <3>1. CASE setup.family = "LUA10" /\ NetworkType = "AUTO"
      <4>1. f = slots("CEREG", "CREG")
        BY <3>1 DEF FixupAtList, WithSlots
      <4> QED
        BY <3>1, <4>1 DEF Queries
    <3>2. CASE NetworkType = "4G" \/ (NetworkType = "AUTO" /\ setup.family # "LUA10")
      <4>1. f = slots("CEREG", "AT")
        BY <1>3, <3>2 DEF FixupAtList, HasSlots, WithSlots
      <4> QED
        BY <3>2, <4>1 DEF Queries
    <3>3. CASE NetworkType = "3G"
      <4>1. f = slots("AT", "CREG") \/ f = slots("AT", "CGREG")
        BY <1>3, <3>3 DEF FixupAtList, HasSlots, WithSlots
      <4> QED
        BY <3>3, <4>1 DEF Queries
    <3> QED
      BY <1>1, <3>1, <3>2, <3>3
  <2>2. PICK a \in {"AT"} \cup Queries, b \in {"AT", "CREG", "CGREG"} :
          /\ f = slots(a, b) /\ (a = "AT" => b # "AT")
          /\ setup.family = "LUA10" /\ NetworkType = "AUTO" => b # "AT"
    BY <2>1
  <2>3. f = <<"AT", "CPIN", "CSQ", a, b, "COPS">> /\ IsList(f)
    <3>1. setup.family \notin {"EC25", "ELS31"}
      BY <1>3 DEF HasSlots
    <3> QED
      BY <2>2, <3>1, SlotsKept
  <2>4. Len(f) = 6 /\ Len(l) = 6
    BY <1>3, <2>3, ListFacts DEF HasSlots
  <2> QED
    BY <2>2, <2>3, <2>4 DEF Asks
<1> QED
  BY <1>2, <1>3, AtConstantsOK DEF IsSetup, HasSlots

\* What CREG_AUTO writes is one of the queries, whichever try it is.
LEMMA QueryAsked ==
  ASSUME IsSetup(setup), NEW n \in Int, list[idx] = "CREG_AUTO"
  PROVE  Written(n) \in Queries
<1>1. NetworkType \in {"AUTO", "4G", "3G"}
  BY AtConstantsOK DEF IsSetup, NetworkType, AtSims
<1>2. AutoQueries \in {<<"CEREG">>, <<"CGREG">>, <<"CEREG", "CGREG", "CREG">>}
  BY <1>1 DEF AutoQueries
<1>3. Len(AutoQueries) \in {1, 3} /\ \A i \in 1 .. Len(AutoQueries) : AutoQueries[i] \in Queries
  BY <1>2 DEF Queries
<1>4. (n % Len(AutoQueries)) + 1 \in 1 .. Len(AutoQueries)
  BY <1>3
<1> QED
  BY <1>3, <1>4 DEF Written

LEMMA HasNothing == \A w : ~Has(<<>>, w)
  BY DEF Has

LEMMA NothingIsText == <<>> \in Texts /\ Len(<<>>) = 0 /\ DOMAIN <<>> = {}
  BY DEF Texts

LEMMA AppendIs ==
  ASSUME NEW S, NEW s \in Seq(S), NEW e \in S
  PROVE  /\ Append(s, e) \in Seq(S) /\ Len(Append(s, e)) = Len(s) + 1
         /\ s = <<>> => Append(s, e) = <<e>>
         /\ \A i \in DOMAIN Append(s, e) : Append(s, e)[i] = e \/ (i \in DOMAIN s /\ Append(s, e)[i] = s[i])
         /\ \A i \in DOMAIN s : i \in DOMAIN Append(s, e) /\ Append(s, e)[i] = s[i]
<1>1. Append(s, e) \in Seq(S) /\ Len(Append(s, e)) = Len(s) + 1
  OBVIOUS
<1>2. s = <<>> => Append(s, e) = <<e>>
  OBVIOUS
<1>3. \A i \in DOMAIN Append(s, e) : Append(s, e)[i] = e \/ (i \in DOMAIN s /\ Append(s, e)[i] = s[i])
  OBVIOUS
<1>4. \A i \in DOMAIN s : i \in DOMAIN Append(s, e) /\ Append(s, e)[i] = s[i]
  OBVIOUS
<1> QED
  BY <1>1, <1>2, <1>3, <1>4

\* What only depends on what no step of the timer touches: the modem, its line, the setup.
LEMMA ModemUntouched ==
  ASSUME AtInv, UNCHANGED <<setup, wire, tty, modem>>, earned' \in SUBSET earned
  PROVE  AtModemTypes' /\ PinInv' /\ Lined' = Lined
<1>1. AtModemTypes'
  BY DEF AtInv, AtModemTypes
<1>2. PinInv'
  BY DEF AtInv, PinInv, PinIsSpared
<1> QED
  BY <1>1, <1>2 DEF Lined

\* clear_at_state() leaves an empty list position.
LEMMA ClearKeepsTypes ==
  ASSUME AtInv, ClearAtState, UNCHANGED <<setup, apnCnt, sync>>, sync = "none", armed' = FALSE,
         atState' \in {"STARTUP", "READY", "AT", "DIAL"}, IsList(list)', Len(list') = Len(list)
  PROVE  AtDaemonTypes'
<1>1. Len(list) \in {5, 6, 9}
  BY ListFacts DEF AtInv, AtDaemonTypes
<1>2. idx' \in 1 .. (Len(list') + 1) /\ try' \in 0 .. (MaxRetry + 1) /\ apnCnt' \in 0 .. ApnRetry
  BY <1>1, AtConstantsOK DEF ClearAtState, AtInv, AtDaemonTypes
<1>3. IsSetup(setup)'
  BY DEF AtInv, AtDaemonTypes, IsSetup
<1>4. atErrno' = "OK" /\ buf' = <<>>
  BY DEF ClearAtState
<1> QED
  BY <1>2, <1>3, <1>4, NothingIsText DEF AtDaemonTypes

\* The steps that lead out of the pass.
LEMMA LeavingSteps ==
  ASSUME AtInv, StartOver \/ SwitchSim \/ RedialAt \/ BreakOff
  PROVE  AtInv'
<1>1. /\ UNCHANGED <<setup, wire, tty, modem, earned>> /\ UNCHANGED <<sync, apnCnt>>
      /\ atState' \in {"STARTUP", "READY"}
  BY DEF StartOver, SwitchSim, RedialAt, BreakOff, atDaemon
<1>2. AtModemTypes' /\ PinInv' /\ Lined' = Lined
  BY <1>1, ModemUntouched
<1>3. AtDaemonTypes'
  <2>1. CASE StartOver
    <3>1. IsList(list)' /\ Len(list') = Len(list) /\ sync = "none"
      BY <2>1, FixupKeeps DEF StartOver, AtInv, AtDaemonTypes, TimerMayRun, IsList, NetworkType
    <3> QED
      BY <1>1, <2>1, <3>1, ClearKeepsTypes DEF StartOver
  <2>2. CASE BreakOff
    <3>1. IsList(list)' /\ list' = list
      BY <1>1, <2>2 DEF BreakOff, AtInv, AtDaemonTypes, IsList
    <3> QED
      BY <1>1, <2>2, <3>1, ClearKeepsTypes DEF BreakOff
  <2>3. CASE SwitchSim \/ RedialAt
    <3>1. UNCHANGED <<list, idx, try, atErrno, apnCnt, armed, buf, sync>> /\ atState' = "STARTUP"
      BY <2>3 DEF SwitchSim, RedialAt, atDaemon
    <3>2. IsSetup(setup)' /\ IsList(list)'
      BY <1>1, <3>1 DEF AtInv, AtDaemonTypes, IsSetup, IsList
    <3>3. armed \/ sync # "none" => atState \in {"AT", "STARTUP"}
      BY DEF AtInv, AtDaemonTypes
    <3> QED
      BY <3>1, <3>2, <3>3 DEF AtInv, AtDaemonTypes
  <2> QED
    BY <2>1, <2>2, <2>3
<1>4. TextsAreTrue'
  <2>1. CASE StartOver \/ BreakOff
    BY <1>1, <2>1 DEF StartOver, BreakOff, TimerMayRun, TextsAreTrue
  <2>2. CASE SwitchSim \/ RedialAt
    BY <1>1, <2>2 DEF SwitchSim, RedialAt, atDaemon, AtInv, TextsAreTrue
  <2> QED
    BY <2>1, <2>2
<1>5. SyncIsTrue' /\ TryFails' /\ PassInv'
  BY <1>1 DEF AtInv, SyncIsTrue, TryFails, PassInv, SimShown, Behind
<1>6. Prompt'
  <2>1. CASE StartOver \/ BreakOff
    <3>1. buf' = <<>>
      BY <2>1 DEF StartOver, BreakOff, ClearAtState
    <3> QED
      BY <1>1, <1>2, <3>1, HasNothing DEF AtInv, Prompt, OneCommand, PinAnswered, QueryAnswered, SimShown
  <2>2. CASE SwitchSim \/ RedialAt
    BY <1>1, <1>2, <2>2 DEF SwitchSim, RedialAt, atDaemon, AtInv, Prompt, OneCommand, PinAnswered, QueryAnswered, SimShown
  <2> QED
    BY <2>1, <2>2
<1> QED
  BY <1>2, <1>3, <1>4, <1>5, <1>6 DEF AtInv

LEMMA ReadyPortKeeps ==
  ASSUME AtInv, ReadyPort
  PROVE  AtInv'
<1>1. /\ UNCHANGED <<setup, wire, tty, modem>> /\ UNCHANGED <<sync, apnCnt>> /\ sync = "none" /\ armed' = FALSE
      /\ atState' = "AT" /\ list' = FixupAtList(list) /\ buf' = <<>> /\ idx' = 1 /\ try' = 0 /\ atErrno' = "OK"
      /\ earned' = {}
  BY DEF ReadyPort, ClearAtState, TimerMayRun, AtInv, AtDaemonTypes
<1>2. AtModemTypes' /\ PinInv' /\ Lined' = Lined
  BY <1>1, ModemUntouched
<1>3. IsList(list)' /\ Len(list') = Len(list) /\ (HasSlots => Asks(list'))
  BY <1>1, FixupKeeps DEF AtInv, AtDaemonTypes, IsList, NetworkType
<1>5. AtDaemonTypes'
  BY <1>1, <1>3, ClearKeepsTypes DEF ReadyPort
<1>6. TextsAreTrue' /\ SyncIsTrue' /\ TryFails'
  BY <1>1, ChainIs, AtConstantsOK DEF TextsAreTrue, SyncIsTrue, TryFails
<1>7. PassInv'
  BY <1>1, <1>3 DEF PassInv, Behind, HasSlots, Asks, NetworkType
<1>8. Prompt'
  BY <1>1, <1>2, HasNothing DEF AtInv, Prompt, OneCommand, PinAnswered, QueryAnswered, SimShown
<1> QED
  BY <1>2, <1>5, <1>6, <1>7, <1>8 DEF AtInv

LEMMA SendKeeps ==
  ASSUME AtInv, Send
  PROVE  AtInv'
<1> DEFINE c == Written(try)
<1>1. /\ UNCHANGED <<setup, atState, list, idx, apnCnt, sync, modem, earned>>
      /\ atState = "AT" /\ sync = "none" /\ idx \in 1 .. Len(list) /\ try \in 0 .. MaxRetry - 1 /\ Len(wire) < MaxWire
      /\ wire' = Append(wire, c) /\ tty' = <<>> /\ try' = try + 1 /\ atErrno' = ErrCode(list[idx])
      /\ buf' = <<>> /\ armed' = TRUE /\ (setup.slow \/ wire = <<>>)
  <2>1. Len(list) \in {5, 6, 9} /\ MaxRetry \in Nat
    BY ListFacts, AtConstantsOK DEF AtInv, AtDaemonTypes
  <2>2. idx \in 1 .. Len(list) /\ try \in 0 .. MaxRetry - 1
    BY <2>1 DEF Send, AtEnd, AtInv, AtDaemonTypes
  <2> QED
    BY <2>2 DEF Send, TimerMayRun
<1>2. c \in Commands /\ (list[idx] = "CREG_AUTO" => c \in Queries) /\ c # "PIN"
  <2>1. CASE list[idx] # "CREG_AUTO"
    BY <1>1, <2>1, ListFacts DEF Written, AtInv, AtDaemonTypes, Commands, Queries
  <2>2. CASE list[idx] = "CREG_AUTO"
    <3>1. c \in Queries
      <4>1. IsSetup(setup) /\ try \in Int
        BY <1>1, AtConstantsOK DEF AtInv, AtDaemonTypes
      <4> QED
        BY <2>2, <4>1, QueryAsked
    <3> QED
      BY <3>1 DEF Queries, Commands
  <2> QED
    BY <2>1, <2>2
<1> HIDE DEF c
<1>3. wire' \in Seq(Writable) /\ Len(wire') = Len(wire) + 1 /\ (wire = <<>> => wire' = <<c>>)
  <2>1. wire \in Seq(Writable) /\ c \in Writable
    BY <1>2 DEF AtInv, AtModemTypes, Writable
  <2> QED
    BY <1>1, <2>1, AppendIs
<1>4. AtDaemonTypes'
  <2>1. ErrCode(list[idx]) \in {"NAK", "NOMODEM", "NOSIM", "NOSIGNAL", "NOREG", "NOVALIDIP"}
    BY DEF ErrCode
  <2>2. IsSetup(setup)' /\ IsList(list)' /\ idx' \in 1 .. (Len(list') + 1) /\ apnCnt' \in 0 .. ApnRetry
    BY <1>1 DEF AtInv, AtDaemonTypes, IsSetup, IsList
  <2>3. try' \in 0 .. (MaxRetry + 1) /\ try' > 0
    BY <1>1, AtConstantsOK
  <2> QED
    BY <1>1, <2>1, <2>2, <2>3, NothingIsText DEF AtInv, AtDaemonTypes
<1>5. AtModemTypes'
  <2>1. Len(wire') <= MaxWire /\ Len(tty') <= MaxTty
    <3>1. Len(wire) \in Nat
      BY LenProperties DEF AtInv, AtModemTypes
    <3> QED
      BY <1>1, <1>3, <3>1, NothingIsText, AtConstantsOK
  <2> QED
    BY <1>1, <1>3, <2>1, NothingIsText DEF AtInv, AtModemTypes
<1>6. TextsAreTrue' /\ SyncIsTrue'
  <2>1. DOMAIN tty' = {} /\ DOMAIN buf' = {}
    BY <1>1, NothingIsText
  <2>2. sync' = "none"
    BY <1>1
  <2>3. TextsAreTrue'
    BY <2>1 DEF TextsAreTrue, AllTrue
  <2>4. SyncIsTrue'
    BY <2>2, ChainIs DEF SyncIsTrue
  <2> QED
    BY <2>3, <2>4
<1>7. TryFails'
  <2>1. list[idx] \in Commands
    BY <1>1, ListFacts DEF AtInv, AtDaemonTypes
  <2>2. ErrCode(list[idx]) # "OK"
    BY DEF ErrCode
  <2>3. list[idx] \notin {"CREG_AUTO", "COPS", "CGPADDR2", "CGPADDR3"} => ErrCode(list[idx]) # "NAK"
    BY <2>1 DEF ErrCode, Commands, Queries
  <2> QED
    BY <1>1, <2>2, <2>3 DEF TryFails
<1>8. PassInv'
  BY <1>1 DEF AtInv, PassInv, Behind, SimEarned, SimShown, RegEarned, HasSlots, Asks, NetworkType
<1>9. Prompt'
  <2> SUFFICES ASSUME ~setup.slow PROVE OneCommand' /\ Lined' /\ PinAnswered' /\ QueryAnswered' /\ ~Has(buf', "OK")
    BY <1>1 DEF Prompt
  <2>1. wire' = <<c>> /\ Len(wire') = 1
    BY <1>1, <1>3
  <2>2. QueryAnswered'
    <3>1. Written(try - 1)' = c
      <4>1. try' - 1 = try
        BY <1>1, AtConstantsOK
      <4>2. AutoQueries' = AutoQueries
        BY <1>1 DEF AutoQueries, NetworkType
      <4>3. list' = list /\ idx' = idx
        BY <1>1
      <4> QED
        BY <4>1, <4>2, <4>3 DEF Written, c
    <3> QED
      BY <1>1, <2>1, <3>1 DEF QueryAnswered
  <2> QED
    BY <1>1, <2>1, <2>2, HasNothing DEF OneCommand, Lined, PinAnswered
<1>10. PinInv'
  BY <1>1, <1>2, <1>3 DEF AtInv, PinInv, PinIsSpared
<1> QED
  BY <1>4, <1>5, <1>6, <1>7, <1>8, <1>9, <1>10 DEF AtInv

LEMMA SameType == ASSUME IsSetup(setup) PROVE setup.types[1] = NetworkType
  BY DEF IsSetup, NetworkType, AtSims

\* A fallback leaves a query in the second slot.
LEMMA FallbackIs ==
  ASSUME IsSetup(setup), IsList(list), HasSlots => Asks(list), list[idx] = "CEREG", idx \in 1 .. Len(list),
         NEW l \in Fallback(list)
  PROVE  idx = 4 /\ setup.family # "EC25" /\ IsList(l) /\ Len(l) = Len(list) /\ (HasSlots => Asks(l) /\ l[5] # "AT")
<1>1. idx = 4
  BY ListFacts
<1>2. CASE setup.family = "ELS31"
  <2>1. l = list
    BY <1>2 DEF Fallback
  <2> QED
    BY <1>1, <1>2, <2>1 DEF HasSlots
<1>3. CASE setup.family = "LUA10"
  <2>1. l = list /\ NetworkType = "AUTO"
    BY <1>3, SameType DEF Fallback
  <2> QED
    BY <1>1, <1>3, <2>1 DEF HasSlots, Asks
<1>4. CASE setup.family \in {"U8300", "PLS8"}
  <2>1. PICK c \in {"CREG", "CGREG"} : l = [list EXCEPT ![RegSlot + 1] = c]
    BY <1>4 DEF Fallback
  <2>2. PICK a \in {"AT"} \cup Queries, b \in {"AT", "CREG", "CGREG"} : list = <<"AT", "CPIN", "CSQ", a, b, "COPS">>
    BY <1>4 DEF IsList
  <2>3. l = <<"AT", "CPIN", "CSQ", a, c, "COPS">>
    BY <2>1, <2>2 DEF RegSlot
  <2>4. IsList(l) /\ Len(l) = 6 /\ Len(list) = 6 /\ l[5] # "AT"
    BY <1>4, <2>2, <2>3 DEF IsList
  <2> QED
    BY <1>1, <1>4, <2>4 DEF Asks
<1>5. setup.family # "EC25"
  BY DEF Fallback
<1> QED
  BY <1>2, <1>3, <1>4, <1>5, AtConstantsOK DEF IsSetup

\* A step to the next command: what is behind, and what is not checked.
LEMMA GiveUpKeeps ==
  ASSUME AtInv, GiveUp
  PROVE  AtInv'
<1>1. /\ UNCHANGED <<setup, atErrno, apnCnt, buf, sync, wire, tty, modem, earned>>
      /\ atState = "AT" /\ sync = "none" /\ armed' = FALSE /\ try = MaxRetry /\ try > 0
      /\ ~setup.slow => wire = <<>> /\ (armed => tty = <<>>)
  BY AtConstantsOK DEF GiveUp, TimerMayRun
<1>2. idx \in 1 .. Len(list) /\ Len(list) \in {5, 6, 9}
  <2>1. Len(list) \in {5, 6, 9}
    BY ListFacts DEF AtInv, AtDaemonTypes
  <2> QED
    BY <2>1 DEF GiveUp, AtEnd, AtInv, AtDaemonTypes
<1>3. /\ \/ Unimportant /\ idx' = idx + 1 /\ try' = 0 /\ UNCHANGED <<atState, list>>
         \/ ~Unimportant /\ list' \in Fallbacks /\ idx' = idx + 1 /\ try' = 0 /\ UNCHANGED atState
         \/ atState' = "STARTUP" /\ try' = try + 1 /\ UNCHANGED <<list, idx>>
  BY DEF GiveUp
<1>4. AtModemTypes' /\ PinInv' /\ Lined' = Lined
  BY <1>1, ModemUntouched
<1>5. HasSlots => Asks(list)
  BY <1>1 DEF AtInv, PassInv
<1>6. ASSUME list' \in Fallbacks
      PROVE  idx = 4 /\ setup.family # "EC25" /\ IsList(list') /\ Len(list') = Len(list)
             /\ (HasSlots => Asks(list') /\ list'[5] # "AT")
  <2>1. list[idx] = "CEREG" /\ list' \in Fallback(list)
    BY <1>6 DEF Fallbacks
  <2> QED
    BY <1>2, <1>5, <2>1, FallbackIs DEF AtInv, AtDaemonTypes
<1>7. AtDaemonTypes'
  <2>1. IsList(list') /\ Len(list') = Len(list)
    BY <1>3, <1>6 DEF AtInv, AtDaemonTypes
  <2>2. IsList(list)' /\ IsSetup(setup)'
    BY <1>1, <2>1 DEF IsList, IsSetup, AtInv, AtDaemonTypes
  <2>3. idx' \in 1 .. (Len(list') + 1)
    BY <1>2, <1>3, <2>1
  <2>4. try' \in 0 .. (MaxRetry + 1) /\ apnCnt' \in 0 .. ApnRetry
    BY <1>1, <1>3, AtConstantsOK DEF AtInv, AtDaemonTypes
  <2>5. atState' \in {"AT", "STARTUP"}
    BY <1>1, <1>3
  <2> QED
    BY <1>1, <2>2, <2>3, <2>4, <2>5 DEF AtInv, AtDaemonTypes
<1>8. TextsAreTrue'
  BY <1>1 DEF TextsAreTrue
<1>9. SyncIsTrue'
  BY <1>1, ChainIs DEF SyncIsTrue
<1>10. TryFails'
  BY <1>1, <1>3 DEF TryFails
<1>11. PassInv'
  <2>1. CASE Unimportant /\ idx' = idx + 1 /\ try' = 0 /\ UNCHANGED <<atState, list>>
    <3>1. atErrno = "NAK" /\ list[idx] \in {"CREG_AUTO", "COPS", "CGPADDR2", "CGPADDR3"}
      <4>1. atErrno # "OK" /\ (idx <= Len(list) /\ list[idx] \notin {"CREG_AUTO", "COPS", "CGPADDR2", "CGPADDR3"} => atErrno # "NAK")
        BY <1>1 DEF AtInv, TryFails
      <4>2. idx <= Len(list)
        BY <1>2
      <4> QED
        BY <2>1, <4>1, <4>2 DEF Unimportant
    <3>2. idx >= 4 /\ (HasSlots => idx >= 6)
      <4>1. idx # 1 /\ idx # 2 /\ idx # 3
        BY <1>2, <3>1, ListFacts DEF AtInv, AtDaemonTypes
      <4>2. HasSlots => idx # 4 /\ idx # 5
        BY <3>1, ListFacts DEF AtInv, AtDaemonTypes, HasSlots, Queries
      <4>3. idx >= 4
        BY <1>2, <4>1
      <4>4. ASSUME HasSlots PROVE idx >= 6
        BY <1>2, <4>2, <4>3, <4>4
      <4> QED
        BY <4>3, <4>4
    <3>3. setup.family = "EC25" /\ idx = 4 => RegEarned \/ "mute" \in earned \/ setup.slow
      <4> SUFFICES ASSUME setup.family = "EC25", idx = 4, ~setup.slow PROVE "mute" \in earned
        OBVIOUS
      <4>1. list[idx] = "CREG_AUTO"
        BY ListFacts DEF AtInv, AtDaemonTypes
      <4>2. armed /\ (wire = <<Written(try - 1)>> \/ Has(tty, "OK") \/ "mute" \in earned)
        BY <1>1, <1>2, <3>1, <4>1 DEF AtInv, Prompt, QueryAnswered
      <4> QED
        BY <1>1, <4>2, HasNothing
    <3>4. Behind(2) /\ Behind(3) /\ (idx > 4 => Behind(4)) /\ (HasSlots => Behind(5))
      BY <1>1, <1>2, <3>2 DEF Behind
    <3>5. (Behind(4) <=> idx > 4) /\ atState' = "AT" /\ (idx' # 5 \/ ~HasSlots)
      BY <1>1, <1>2, <2>1, <3>2 DEF Behind
    <3>6. SimEarned' /\ "signal" \in earned' /\ (setup.family = "EC25" => (RegEarned \/ "mute" \in earned \/ setup.slow)')
      <4>1. idx = 4 \/ idx > 4
        BY <1>2, <3>2
      <4> QED
        BY <1>1, <3>3, <3>4, <4>1 DEF AtInv, PassInv, SimEarned, SimShown, RegEarned
    <3>7. HasSlots => RegEarned' /\ Asks(list)'
      BY <1>1, <1>5, <2>1, <3>4 DEF AtInv, PassInv, RegEarned, Asks, NetworkType
    <3> QED
      BY <1>1, <3>6, <3>7 DEF PassInv, HasSlots
  <2>2. CASE list' \in Fallbacks /\ idx' = idx + 1 /\ try' = 0 /\ UNCHANGED atState
    <3>1. idx = 4 /\ idx' = 5
      BY <1>6, <2>2
    <3>2. Behind(2) /\ Behind(3) /\ ~Behind(5)' /\ setup.family # "EC25"
      BY <1>1, <1>6, <2>2, <3>1 DEF Behind
    <3>3. SimEarned' /\ "signal" \in earned'
      BY <1>1, <3>2 DEF AtInv, PassInv, SimEarned, SimShown
    <3>4. HasSlots' => Asks(list)' /\ list'[5] # "AT"
      BY <1>1, <1>6, <2>2 DEF Asks, NetworkType, HasSlots
    <3> QED
      BY <1>1, <3>2, <3>3, <3>4 DEF PassInv
  <2>3. CASE atState' = "STARTUP"
    BY <2>3 DEF PassInv, Behind
  <2> QED
    BY <1>3, <2>1, <2>2, <2>3
<1>12. Prompt'
  BY <1>1, <1>3, <1>4 DEF AtInv, Prompt, OneCommand, PinAnswered, QueryAnswered, SimShown
<1> QED
  BY <1>4, <1>7, <1>8, <1>9, <1>10, <1>11, <1>12 DEF AtInv

LEMMA ListDoneKeeps ==
  ASSUME AtInv, ListDone
  PROVE  AtInv'
<1>1. /\ UNCHANGED <<setup, list, apnCnt, sync, wire, tty, modem, earned>>
      /\ atState = "AT" /\ atState' = "DIAL" /\ sync = "none" /\ armed' = FALSE /\ buf' = <<>> /\ idx > Len(list)
  BY DEF ListDone, TimerMayRun, ClearAtState, AtEnd
<1>2. Len(list) \in {5, 6, 9}
  BY ListFacts DEF AtInv, AtDaemonTypes
<1>3. AtModemTypes' /\ PinInv' /\ Lined' = Lined
  BY <1>1, ModemUntouched
<1>4. AtDaemonTypes'
  <2>1. IsList(list)'
    BY <1>1 DEF IsList, AtInv, AtDaemonTypes
  <2> QED
    BY <1>1, <2>1, ClearKeepsTypes DEF ListDone
<1>5. TextsAreTrue' /\ TryFails'
  BY <1>1 DEF TextsAreTrue, TryFails
<1>6. SyncIsTrue'
  BY <1>1, ChainIs DEF SyncIsTrue
<1>7. PassInv'
  <2>1. Behind(2) /\ Behind(3) /\ Behind(4) /\ (HasSlots => Behind(5))
    <3>1. idx \in Int
      BY <1>2 DEF AtInv, AtDaemonTypes
    <3>4. idx > Len(list)
      BY <1>1
    <3>5. \A n \in {5, 6, 9}, i \in Int : i > n => i > 2 /\ i > 3 /\ i > 4
      OBVIOUS
    <3>2. idx > 2 /\ idx > 3 /\ idx > 4
      BY <1>2, <3>1, <3>4, <3>5
    <3>3. ASSUME HasSlots PROVE idx > 5
      <4>1. Len(list) = 6
        BY <3>3, ListFacts DEF AtInv, AtDaemonTypes, HasSlots
      <4> QED
        BY <3>4, <3>1, <4>1
    <3> QED
      BY <1>1, <3>2, <3>3 DEF Behind
  <2>2. SimEarned' /\ "signal" \in earned' /\ (setup.family = "EC25" => (RegEarned \/ "mute" \in earned \/ setup.slow)')
        /\ (HasSlots => RegEarned')
    BY <1>1, <2>1 DEF AtInv, PassInv, SimEarned, SimShown, RegEarned
  <2> QED
    BY <1>1, <2>2 DEF PassInv, HasSlots
<1>8. Prompt'
  BY <1>1, <1>3, HasNothing DEF AtInv, Prompt, OneCommand, PinAnswered, QueryAnswered, SimShown
<1> QED
  BY <1>3, <1>4, <1>5, <1>6, <1>7, <1>8 DEF AtInv

\* What the modem does leaves what it has said true.
Lasts(e, card, e2, card2) ==
  /\ e \subseteq e2
  /\ card \in {"PIN", "PUK"} => "sim" \in e2 \/ card2 \in {"PIN", "PUK"}
  /\ card = "NETSUB" => "sim" \in e2 \/ card2 = "NETSUB"

LEMMA TruthLasts ==
  ASSUME NEW e, NEW card, NEW e2, NEW card2, Lasts(e, card, e2, card2), NEW b, AllTrue(b, e, card)
  PROVE  AllTrue(b, e2, card2)
  BY DEF Lasts, AllTrue, Truth

\* A step of the modem: the daemon stands still.
LEMMA ModemSteps ==
  ASSUME AtInv, UNCHANGED <<setup, atState, atDaemon>>, Lasts(earned, modem.card, earned', modem'.card),
         AtModemTypes', Prompt', PinInv',
         armed \/ sync # "none" => AllTrue(tty', earned', modem'.card)
  PROVE  AtInv'
<1>1. UNCHANGED <<list, idx, try, atErrno, apnCnt, armed, buf, sync>>
  BY DEF atDaemon
<1>2. AtDaemonTypes'
  BY <1>1 DEF AtInv, AtDaemonTypes, IsSetup, IsList
<1>3. TextsAreTrue'
  <2>1. armed \/ sync # "none" => AllTrue(buf, earned', modem'.card)
    BY TruthLasts DEF AtInv, TextsAreTrue
  <2> QED
    BY <1>1, <2>1 DEF TextsAreTrue
<1>4. SyncIsTrue'
  BY <1>1 DEF AtInv, SyncIsTrue, SimShown, Lasts
<1>5. TryFails'
  BY <1>1 DEF AtInv, TryFails
<1>6. PassInv'
  BY <1>1 DEF AtInv, PassInv, Behind, SimEarned, SimShown, RegEarned, HasSlots, Asks, NetworkType, Lasts
<1> QED
  BY <1>2, <1>3, <1>4, <1>5, <1>6 DEF AtInv

LEMMA TailIs ==
  ASSUME wire \in Seq(Writable), wire # <<>>
  PROVE  /\ Head(wire) \in Writable /\ Tail(wire) \in Seq(Writable) /\ Len(Tail(wire)) = Len(wire) - 1
         /\ Len(wire) \in Nat \ {0}
         /\ Len(wire) <= 1 => wire = <<Head(wire)>> /\ Tail(wire) = <<>>
<1>1. Head(wire) \in Writable /\ Tail(wire) \in Seq(Writable) /\ Len(Tail(wire)) = Len(wire) - 1
  BY HeadTailProperties
<1>2. Len(wire) \in Nat \ {0}
  BY EmptySeq
<1>3. ASSUME Len(wire) <= 1 PROVE wire = <<Head(wire)>> /\ Tail(wire) = <<>>
  <2>1. Len(wire) = 1 /\ Len(Tail(wire)) = 0
    BY <1>1, <1>2, <1>3
  <2>2. Tail(wire) = <<>>
    BY <1>1, <2>1, EmptySeq
  <2>3. <<Head(wire)>> \in Seq(Writable) /\ Len(<<Head(wire)>>) = 1 /\ <<Head(wire)>>[1] = wire[1]
    BY <1>1
  <2>4. wire = <<Head(wire)>>
    BY <2>1, <2>3, SeqEqual
  <2> QED
    BY <2>2, <2>4
<1> QED
  BY <1>1, <1>2, <1>3

LEMMA MuteKeeps ==
  ASSUME AtInv, Mute
  PROVE  AtInv'
<1>1. /\ UNCHANGED <<setup, atState, atDaemon, tty, modem>> /\ wire # <<>> /\ wire' = Tail(wire)
      /\ Head(wire) # "PIN" /\ earned' = earned \cup (IF Head(wire) \in Queries THEN {"mute"} ELSE {})
  BY DEF Mute
<1>2. UNCHANGED <<list, idx, try, atErrno, apnCnt, armed, buf, sync>>
  BY <1>1 DEF atDaemon
<1>3. /\ Head(wire) \in Writable /\ Tail(wire) \in Seq(Writable) /\ Len(Tail(wire)) = Len(wire) - 1
      /\ Len(wire) \in Nat \ {0}
      /\ Len(wire) <= 1 => wire = <<Head(wire)>> /\ Tail(wire) = <<>>
  BY <1>1, TailIs DEF AtInv, AtModemTypes
<1>4. Lasts(earned, modem.card, earned', modem'.card)
  BY <1>1 DEF Lasts
<1>5. AtModemTypes'
  <2>1. Len(wire') <= MaxWire
    BY <1>1, <1>3, AtConstantsOK DEF AtInv, AtModemTypes
  <2>2. earned' \subseteq {"sim", "signal", "reg", "mute"}
    BY <1>1 DEF AtInv, AtModemTypes
  <2> QED
    BY <1>1, <1>3, <2>1, <2>2 DEF AtInv, AtModemTypes
<1>6. Prompt'
  <2> SUFFICES ASSUME ~setup.slow
               PROVE  OneCommand' /\ Lined' /\ (sync' = "none" => ~Has(buf', "OK")) /\ PinAnswered' /\ QueryAnswered'
    BY <1>1 DEF Prompt
  <2>1. wire = <<Head(wire)>> /\ wire' = <<>> /\ Len(wire') = 0
    BY <1>1, <1>3 DEF AtInv, Prompt, OneCommand
  <2>2. OneCommand' /\ Lined' /\ (sync' = "none" => ~Has(buf', "OK")) /\ PinAnswered'
    BY <1>1, <1>2, <2>1 DEF AtInv, Prompt, OneCommand, Lined, PinAnswered, SimShown
  <2>3. QueryAnswered'
    <3> SUFFICES ASSUME atState = "AT", idx <= Len(list), list[idx] = "CREG_AUTO", try > 0, atErrno = "NAK"
                 PROVE  armed /\ (Has(tty, "OK") \/ "mute" \in earned')
      BY <1>1, <1>2 DEF QueryAnswered
    <3>1. armed /\ (wire = <<Written(try - 1)>> \/ Has(tty, "OK") \/ "mute" \in earned)
      BY DEF AtInv, Prompt, QueryAnswered
    <3>2. CASE wire = <<Written(try - 1)>>
      <4>1. Head(wire) = Written(try - 1)
        BY <3>2
      <4>2. IsSetup(setup) /\ try - 1 \in Int
        BY AtConstantsOK DEF AtInv, AtDaemonTypes
      <4>3. Head(wire) \in Queries
        BY <4>1, <4>2, QueryAsked
      <4> QED
        BY <1>1, <3>1, <4>3
    <3> QED
      BY <1>1, <3>1, <3>2
  <2> QED
    BY <2>2, <2>3
<1>7. PinInv'
  <2> SUFFICES ASSUME ~setup.slow PROVE PinInv'
    BY <1>1 DEF PinInv
  <2>1. wire' = <<>>
    BY <1>1, <1>3 DEF AtInv, Prompt, OneCommand
  <2> QED
    BY <1>1, <2>1 DEF AtInv, PinInv, PinIsSpared
<1>8. armed \/ sync # "none" => AllTrue(tty', earned', modem'.card)
  BY <1>1, <1>4, TruthLasts DEF AtInv, TextsAreTrue
<1> QED
  BY <1>1, <1>4, <1>5, <1>6, <1>7, <1>8, ModemSteps

LEMMA RegisterKeeps ==
  ASSUME AtInv, NEW r \in Networks, Register(r)
  PROVE  AtInv'
<1> DEFINE t == RegToken'
<1>1. /\ UNCHANGED <<setup, atState, atDaemon, wire>>
      /\ modem' = [modem EXCEPT !.reg = r, !.changes = @ + 1] /\ modem.changes < MaxChanges
      /\ \/ tty' = tty /\ earned' = earned
         \/ Len(tty) < MaxTty /\ tty' = Append(tty, t) /\ earned' = earned \cup Shown(<<t>>)
  BY DEF Register
<1>2. UNCHANGED <<list, idx, try, atErrno, apnCnt, armed, buf, sync>>
  BY <1>1 DEF atDaemon
<1>3. t \in Words \X Nat /\ t[1] = "REG"
  BY DEF RegToken, Words
<1> HIDE DEF t
<1>4. Shown(<<t>>) \subseteq {"sim", "signal", "reg"} /\ (t \in Registered => "reg" \in Shown(<<t>>))
  BY DEF Shown, Range
<1>5. modem'.card = modem.card /\ modem'.pins = modem.pins
      /\ modem' \in [card : Stored, pins : 0..3, reg : Networks, changes : 0..MaxChanges]
  <2>1. modem.changes + 1 \in 0 .. MaxChanges
    BY <1>1, AtConstantsOK DEF AtInv, AtModemTypes
  <2> QED
    BY <1>1, <2>1 DEF AtInv, AtModemTypes
<1>6. Lasts(earned, modem.card, earned', modem'.card)
  BY <1>1, <1>5 DEF Lasts
<1>7. /\ tty' \in Texts /\ Len(tty') <= MaxTty
      /\ \A i \in DOMAIN tty' : (tty'[i] = t /\ t \in Words \X Nat /\ earned' = earned \cup Shown(<<t>>))
                               \/ (i \in DOMAIN tty /\ tty'[i] = tty[i])
      /\ \A i \in DOMAIN tty : i \in DOMAIN tty' /\ tty'[i] = tty[i]
  <2>1. CASE tty' = tty /\ earned' = earned
    BY <2>1 DEF AtInv, AtModemTypes
  <2>2. CASE Len(tty) < MaxTty /\ tty' = Append(tty, t) /\ earned' = earned \cup Shown(<<t>>)
    <3>1. tty \in Texts /\ Len(tty) \in Nat
      BY LenProperties DEF AtInv, AtModemTypes, Texts
    <3>2. /\ tty' \in Texts /\ Len(tty') = Len(tty) + 1
          /\ \A i \in DOMAIN tty' : tty'[i] = t \/ (i \in DOMAIN tty /\ tty'[i] = tty[i])
          /\ \A i \in DOMAIN tty : i \in DOMAIN tty' /\ tty'[i] = tty[i]
      BY <1>3, <2>2, <3>1, AppendIs DEF Texts
    <3>3. Len(tty') <= MaxTty
      BY <2>2, <3>1, <3>2, AtConstantsOK
    <3> QED
      BY <1>3, <2>2, <3>2, <3>3
  <2> QED
    BY <1>1, <2>1, <2>2
<1>8. AtModemTypes'
  <2>1. earned' \subseteq {"sim", "signal", "reg", "mute"}
    BY <1>1, <1>4 DEF AtInv, AtModemTypes
  <2> QED
    BY <1>1, <1>5, <1>7, <2>1 DEF AtInv, AtModemTypes
<1>9. Prompt'
  <2> SUFFICES ASSUME ~setup.slow
               PROVE  OneCommand' /\ Lined' /\ (sync' = "none" => ~Has(buf', "OK")) /\ PinAnswered' /\ QueryAnswered'
    BY <1>1 DEF Prompt
  <2>1. OneCommand' /\ (sync' = "none" => ~Has(buf', "OK"))
    BY <1>1, <1>2 DEF AtInv, Prompt, OneCommand
  <2>2. Lined'
    BY <1>1, <1>3, <1>7 DEF AtInv, Prompt, Lined
  <2>3. (Has(tty, "OK") <=> Has(tty', "OK")) /\ earned \subseteq earned'
    BY <1>1, <1>3, <1>7 DEF Has
  <2>4. PinAnswered'
    BY <1>2, <2>3 DEF AtInv, Prompt, PinAnswered, SimShown
  <2>5. QueryAnswered'
    BY <1>1, <1>2, <2>3 DEF AtInv, Prompt, QueryAnswered, Written, AutoQueries, NetworkType
  <2> QED
    BY <2>1, <2>2, <2>4, <2>5
<1>10. PinInv'
  <2> SUFFICES ASSUME ~setup.slow PROVE PinInv'
    BY <1>1 DEF PinInv
  <2>1. \A i \in DOMAIN tty' : tty'[i][1] \in Range(Chain) => tty'[i][2] = modem'.pins
    BY <1>3, <1>5, <1>7, ChainIs DEF AtInv, PinInv
  <2> QED
    BY <1>1, <1>5, <2>1 DEF AtInv, PinInv, PinIsSpared
<1>11. armed \/ sync # "none" => AllTrue(tty', earned', modem'.card)
  <2> SUFFICES ASSUME armed \/ sync # "none" PROVE AllTrue(tty', earned', modem'.card)
    OBVIOUS
  <2>1. AllTrue(tty, earned', modem'.card)
    BY <1>6, TruthLasts DEF AtInv, TextsAreTrue
  <2>2. earned' = earned \cup Shown(<<t>>) => Truth(t, earned', modem'.card)
    BY <1>3, <1>4 DEF Truth
  <2> QED
    BY <1>7, <2>1, <2>2 DEF AllTrue
<1> QED
  BY <1>1, <1>6, <1>8, <1>9, <1>10, <1>11, ModemSteps

\* The modem answers nothing, a bare OK, or one token before its OK.
AnswerOf(t, c) ==
  /\ t \in Words \X Nat /\ t[1] # "OK"
  /\ t[1] \in Range(Chain) => t[2] = modem.pins
  /\ t[1] = "READY" => modem.card = "READY"
  /\ t[1] = "SIM_PIN" => c = "CPIN" /\ modem.card = "PIN"
  /\ t[1] = "PH_NETSUB" => c = "CPIN" /\ modem.card = "NETSUB"

LEMMA AnswerIs ==
  ASSUME IsSetup(setup), modem \in [card : Stored, pins : 0..3, reg : Networks, changes : 0..MaxChanges],
         NEW c \in Writable, NEW ans \in Answers(c)
  PROVE  /\ \/ ans = <<>> /\ c \notin Queries
            \/ ans = <<OkToken>> /\ c \notin Queries
            \/ \E t \in Words \X Nat : ans = <<t, OkToken>> /\ AnswerOf(t, c) /\ c # "PIN"
         /\ c = "PIN" /\ setup.pin = "right" /\ modem.card = "PIN" => ans # <<>>
<1>1. CASE c = "CPIN"
  <2>1. modem.card \in {"READY", "PIN", "PUK", "NETSUB", "NONE"}
    BY DEF Stored
  <2>2. \/ ans = <<>>
        \/ ans = <<<<"READY", 0>>, OkToken>> /\ modem.card = "READY"
        \/ ans = <<<<"SIM_PIN", 0>>, OkToken>> /\ modem.card = "PIN"
        \/ ans = <<<<"SIM_PUK", 0>>, OkToken>>
        \/ ans = <<<<"PH_NETSUB", 0>>, OkToken>> /\ modem.card = "NETSUB"
    BY <1>1, <2>1, ChainIs DEF Answers, Queries
  <2>3. \A w \in {"READY", "SIM_PIN", "SIM_PUK", "PH_NETSUB"} : <<w, 0>> \in Words \X Nat /\ <<w, 0>>[1] = w /\ w # "OK" /\ w \notin Range(Chain)
    BY ChainIs DEF Words
  <2>4. ans = <<>> \/ \E w \in {"READY", "SIM_PIN", "SIM_PUK", "PH_NETSUB"} :
          ans = <<<<w, 0>>, OkToken>> /\ AnswerOf(<<w, 0>>, c)
    BY <1>1, <2>2, <2>3 DEF AnswerOf
  <2> QED
    BY <1>1, <2>3, <2>4 DEF Queries
<1>2. CASE c = "CSQ"
  <2>1. PICK n \in {0, 5, 20} : ans = <<<<"CSQ", n>>, OkToken>>
    BY <1>2, ChainIs DEF Answers, Queries
  <2>2. AnswerOf(<<"CSQ", n>>, c) /\ <<"CSQ", n>> \in Words \X Nat
    BY <2>1, ChainIs DEF AnswerOf, Words
  <2> QED
    BY <1>2, <2>1, <2>2
<1>3. CASE c \in Queries
  <2>1. ans = <<QueryToken(c), OkToken>>
    BY <1>3, ChainIs DEF Answers, Queries
  <2>2. QueryToken(c)[1] = "REG" /\ QueryToken(c) \in Words \X Nat
    BY DEF QueryToken, RegToken, Words
  <2>3. AnswerOf(QueryToken(c), c)
    BY <2>2, ChainIs DEF AnswerOf
  <2> QED
    BY <1>3, <2>1, <2>2, <2>3 DEF Queries
<1>4. CASE c \in {"CGPADDR2", "CGPADDR3"}
  <2>1. PICK n \in {0, 1} : ans = <<<<"CGPADDR", n>>, OkToken>>
    BY <1>4, ChainIs DEF Answers, Queries
  <2>2. AnswerOf(<<"CGPADDR", n>>, c) /\ <<"CGPADDR", n>> \in Words \X Nat
    BY <2>1, ChainIs DEF AnswerOf, Words
  <2> QED
    BY <1>4, <2>1, <2>2
<1>5. CASE c \in Range(Chain)
  <2>1. ans = <<<<c, modem.pins>>, OkToken>> \/ ans = <<>>
    BY <1>5, ChainIs DEF Answers, Queries
  <2>2. AnswerOf(<<c, modem.pins>>, c) /\ <<c, modem.pins>> \in Words \X Nat
    BY <1>5, ChainIs DEF AnswerOf, Words
  <2> QED
    BY <1>5, <2>1, <2>2, ChainIs DEF Queries
<1>6. CASE c \in {"PIN", "CLCK"}
  <2>1. ans \in {<<>>, <<OkToken>>}
    BY <1>6, ChainIs DEF Answers, Queries
  <2>2. c = "PIN" /\ setup.pin = "right" /\ modem.card = "PIN" => ans = <<OkToken>>
    BY <1>6, ChainIs DEF Answers, Queries
  <2>3. <<OkToken>> # <<>>
    OBVIOUS
  <2>4. c \notin Queries
    BY <1>6 DEF Queries
  <2>5. ans = <<>> \/ ans = <<OkToken>>
    BY <2>1
  <2>6. c = "PIN" /\ setup.pin = "right" /\ modem.card = "PIN" => ans # <<>>
    BY <2>2, <2>3
  <2> QED
    BY <2>4, <2>5, <2>6
<1>7. CASE c \in {"AT", "CREG_AUTO", "COPS", "SICA"}
  <2>1. ans = <<OkToken>>
    BY <1>7, ChainIs DEF Answers, Queries
  <2> QED
    BY <1>7, <2>1 DEF Queries
<1> QED
  BY <1>1, <1>2, <1>3, <1>4, <1>5, <1>6, <1>7 DEF Writable, Commands

LEMMA ShownIs ==
  ASSUME NEW t \in Words \X Nat, t[1] # "OK"
  PROVE  /\ t[1] = "READY" => "sim" \in Shown(<<t, OkToken>>)
         /\ t[1] = "CSQ" /\ t[2] # 0 => "signal" \in Shown(<<t, OkToken>>)
         /\ t \in Registered => "reg" \in Shown(<<t, OkToken>>)
<1> DEFINE ans == <<t, OkToken>>
<1>1. ans \in Texts /\ DOMAIN ans = {1, 2} /\ ans[1] = t /\ ans[2] = OkToken /\ OkToken[1] = "OK"
  BY DEF Texts, Words, OkToken
<1>2. \A w : t[1] = w => Has(ans, w)
  BY <1>1 DEF Has
<1> HIDE DEF ans
<1>3. t[1] = "READY" => "sim" \in Shown(ans)
  BY <1>2 DEF Shown
<1>4. ASSUME t[1] = "CSQ", t[2] # 0 PROVE "signal" \in Shown(ans)
  <2>1. \E i \in DOMAIN ans : ans[i][1] = "CSQ" /\ Number(ans, "CSQ") = ans[i][2]
    BY <1>1, <1>2, <1>4, NumberIs
  <2>2. Number(ans, "CSQ") = t[2]
    BY <1>1, <2>1
  <2>3. t[2] > 0
    BY <1>4
  <2> QED
    BY <1>2, <1>4, <2>2, <2>3 DEF Shown
<1>5. t \in Registered => "reg" \in Shown(ans)
  BY <1>1 DEF Shown, Range
<1> QED
  BY <1>3, <1>4, <1>5 DEF ans

LEMMA ShownSome == \A b : Shown(b) \subseteq {"sim", "signal", "reg"}
  BY DEF Shown

\* The PIN that is executed: what becomes of the card.
LEMMA TryPinIs ==
  ASSUME AtInv
  PROVE  /\ TryPin(modem) \in [card : Stored, pins : 0..3, reg : Networks, changes : 0..MaxChanges]
         /\ TryPin(modem).card = "PIN" => TryPin(modem).pins > 0
         /\ modem.card # "PIN" => TryPin(modem) = modem
         /\ modem.card = "PIN" /\ setup.pin # "right" =>
              /\ TryPin(modem).card \in {"PIN", "PUK"}
              /\ modem.pins > 1 => TryPin(modem).card = "PIN" /\ TryPin(modem).pins > 0
         /\ modem.card = "PIN" /\ setup.pin = "right" => TryPin(modem).card = "READY" /\ TryPin(modem).pins = 3
<1>1. modem \in [card : Stored, pins : 0..3, reg : Networks, changes : 0..MaxChanges]
      /\ (modem.card = "PIN" => modem.pins > 0)
  BY DEF AtInv, AtModemTypes
<1>2. CASE modem.card # "PIN"
  BY <1>1, <1>2 DEF TryPin
<1>3. CASE modem.card = "PIN" /\ setup.pin = "right"
  <2> DEFINE m == [modem EXCEPT !.card = "READY"]
  <2>1. TryPin(modem) = [m EXCEPT !.pins = 3]
    BY <1>3 DEF TryPin
  <2>2. m \in [card : Stored, pins : 0..3, reg : Networks, changes : 0..MaxChanges] /\ m.card = "READY"
    BY <1>1 DEF Stored
  <2> HIDE DEF m
  <2> QED
    BY <1>3, <2>1, <2>2
<1>4. CASE modem.card = "PIN" /\ setup.pin # "right"
  <2>1. modem.pins \in 1 .. 3
    BY <1>1, <1>4
  <2> DEFINE n == modem.pins - 1
             card == IF modem.pins = 1 THEN "PUK" ELSE "PIN"
             m == [modem EXCEPT !.pins = n]
  <2>2. TryPin(modem) = [m EXCEPT !.card = card]
    BY <1>4 DEF TryPin
  <2>3. n \in 0 .. 2 /\ (modem.pins > 1 => n > 0 /\ modem.pins # 1) /\ (modem.pins # 1 => n > 0)
    BY <2>1
  <2> HIDE DEF n
  <2>4. m \in [card : Stored, pins : 0..3, reg : Networks, changes : 0..MaxChanges] /\ m.pins = n
    BY <1>1, <2>3
  <2>5. card \in {"PIN", "PUK"} /\ (modem.pins # 1 <=> card = "PIN")
    OBVIOUS
  <2> HIDE DEF m, card
  <2>6. TryPin(modem) \in [card : Stored, pins : 0..3, reg : Networks, changes : 0..MaxChanges]
        /\ TryPin(modem).card = card /\ TryPin(modem).pins = n
    BY <2>2, <2>4, <2>5 DEF Stored
  <2> QED
    BY <1>4, <2>3, <2>5, <2>6
<1> QED
  BY <1>2, <1>3, <1>4

\* What an answer adds to the line: its tokens are true, and nothing follows its OK.
LEMMA AnswerAdds ==
  ASSUME AtInv, Execute
  PROVE  \E ans \in Texts, c \in Writable :
           /\ c = Head(wire) /\ wire # <<>> /\ wire' = Tail(wire) /\ UNCHANGED <<setup, atState, atDaemon>>
           /\ tty' = tty \o ans /\ Len(tty) + Len(ans) <= MaxTty
           /\ ans \in Answers(c)
           /\ Shown(ans) \subseteq earned' /\ earned \subseteq earned'
           /\ earned' \subseteq {"sim", "signal", "reg", "mute"}
           /\ c \in {"PIN", "CLCK"} /\ ans # <<>> => "sim" \in earned'
           /\ modem' = IF c = "PIN" THEN TryPin(modem)
                       ELSE IF c = "CLCK" /\ ans # <<>> THEN [modem EXCEPT !.card = "READY"] ELSE modem
<1>1. wire # <<>> /\ wire' = Tail(wire) /\ UNCHANGED <<setup, atState, atDaemon>>
  BY DEF Execute
<1>2. PICK ans \in Answers(Head(wire)) :
       /\ Len(tty) + Len(ans) <= MaxTty
       /\ tty' = tty \o ans
       /\ modem' = CASE Head(wire) = "PIN" -> TryPin(modem)
                     [] Head(wire) = "CLCK" /\ ans # <<>> -> [modem EXCEPT !.card = "READY"]
                     [] OTHER -> modem
       /\ earned' = earned \cup Shown(ans)
            \cup (IF Head(wire) \in {"PIN", "CLCK"} /\ ans # <<>> THEN {"sim"} ELSE {})
  BY DEF Execute
<1> DEFINE c == Head(wire)
<1>3. c \in Writable
  BY <1>1, TailIs DEF AtInv, AtModemTypes
<1>4. IsSetup(setup) /\ modem \in [card : Stored, pins : 0..3, reg : Networks, changes : 0..MaxChanges]
  BY DEF AtInv, AtDaemonTypes, AtModemTypes
<1>5. modem' = IF c = "PIN" THEN TryPin(modem)
               ELSE IF c = "CLCK" /\ ans # <<>> THEN [modem EXCEPT !.card = "READY"] ELSE modem
  BY <1>2
<1>6. /\ earned \subseteq earned' /\ Shown(ans) \subseteq earned'
      /\ c \in {"PIN", "CLCK"} /\ ans # <<>> => "sim" \in earned'
  BY <1>2
<1>7. earned' \subseteq {"sim", "signal", "reg", "mute"}
  BY <1>2, ShownSome DEF AtInv, AtModemTypes
<1>8. tty' = tty \o ans /\ Len(tty) + Len(ans) <= MaxTty /\ ans \in Answers(c)
  BY <1>2
<1> HIDE DEF c
<1>9. ans \in Texts
  <2>1. ans = <<>> \/ ans = <<OkToken>> \/ \E t \in Words \X Nat : ans = <<t, OkToken>>
    BY <1>3, <1>4, <1>8, AnswerIs
  <2>2. OkToken \in Words \X Nat
    BY DEF OkToken, Words
  <2>3. <<OkToken>> \in Seq(Words \X Nat)
    BY <2>2
  <2>4. ASSUME NEW t \in Words \X Nat PROVE <<t, OkToken>> \in Seq(Words \X Nat)
    BY <2>2
  <2> QED
    BY <2>1, <2>3, <2>4, NothingIsText DEF Texts
<1> QED
  BY <1>1, <1>3, <1>5, <1>6, <1>7, <1>8, <1>9 DEF c

LEMMA ExecuteKeeps ==
  ASSUME AtInv, Execute
  PROVE  AtInv'
<1>1. PICK ans \in Texts, c \in Writable :
           /\ c = Head(wire) /\ wire # <<>> /\ wire' = Tail(wire) /\ UNCHANGED <<setup, atState, atDaemon>>
           /\ tty' = tty \o ans /\ Len(tty) + Len(ans) <= MaxTty
           /\ ans \in Answers(c)
           /\ Shown(ans) \subseteq earned' /\ earned \subseteq earned'
           /\ earned' \subseteq {"sim", "signal", "reg", "mute"}
           /\ c \in {"PIN", "CLCK"} /\ ans # <<>> => "sim" \in earned'
           /\ modem' = IF c = "PIN" THEN TryPin(modem)
                       ELSE IF c = "CLCK" /\ ans # <<>> THEN [modem EXCEPT !.card = "READY"] ELSE modem
  BY AnswerAdds
<1>2. UNCHANGED <<list, idx, try, atErrno, apnCnt, armed, buf, sync>>
  BY <1>1 DEF atDaemon
<1>3. /\ Tail(wire) \in Seq(Writable) /\ Len(Tail(wire)) = Len(wire) - 1 /\ Len(wire) \in Nat \ {0}
      /\ Len(wire) <= 1 => wire = <<c>> /\ Tail(wire) = <<>>
  BY <1>1, TailIs DEF AtInv, AtModemTypes
<1>4. modem \in [card : Stored, pins : 0..3, reg : Networks, changes : 0..MaxChanges] /\ (modem.card = "PIN" => modem.pins > 0)
  BY DEF AtInv, AtModemTypes
<1>5. /\ \/ ans = <<>> /\ c \notin Queries
         \/ ans = <<OkToken>> /\ c \notin Queries
         \/ \E t \in Words \X Nat : ans = <<t, OkToken>> /\ AnswerOf(t, c) /\ c # "PIN"
      /\ c = "PIN" /\ setup.pin = "right" /\ modem.card = "PIN" => ans # <<>>
  BY <1>1, <1>4, AnswerIs DEF AtInv, AtDaemonTypes
<1>6. OkToken[1] = "OK" /\ OkToken \in Words \X Nat
  BY DEF OkToken, Words
<1>7. \A i \in DOMAIN ans :
        \/ ans[i] = OkToken /\ i = Len(ans)
        \/ \E t \in Words \X Nat : ans = <<t, OkToken>> /\ ans[i] = t /\ AnswerOf(t, c) /\ i = 1
  <2>1. CASE ans = <<>>
    BY <2>1, NothingIsText
  <2>2. CASE ans = <<OkToken>>
    BY <2>2
  <2>3. CASE \E t \in Words \X Nat : ans = <<t, OkToken>> /\ AnswerOf(t, c)
    <3>1. PICK t \in Words \X Nat : ans = <<t, OkToken>> /\ AnswerOf(t, c)
      BY <2>3
    <3>2. DOMAIN ans = {1, 2} /\ ans[1] = t /\ ans[2] = OkToken /\ Len(ans) = 2
      BY <3>1
    <3> QED
      BY <3>1, <3>2
  <2> QED
    BY <1>5, <2>1, <2>2, <2>3
<1>8. /\ modem' \in [card : Stored, pins : 0..3, reg : Networks, changes : 0..MaxChanges]
      /\ modem'.card = "PIN" => modem'.pins > 0
      /\ Lasts(earned, modem.card, earned', modem'.card)
  <2>1. CASE c = "PIN"
    <3>1. setup.pin = "right" /\ modem.card = "PIN" => "sim" \in earned'
      BY <1>1, <1>5, <2>1
    <3> QED
      BY <1>1, <2>1, <3>1, TryPinIs DEF Lasts
  <2>2. CASE c = "CLCK" /\ ans # <<>>
    <3>1. modem' = [modem EXCEPT !.card = "READY"] /\ "sim" \in earned'
      BY <1>1, <2>2
    <3> QED
      BY <1>1, <1>4, <3>1 DEF Lasts, Stored
  <2>3. CASE c # "PIN" /\ ~(c = "CLCK" /\ ans # <<>>)
    <3>1. modem' = modem
      BY <1>1, <2>3
    <3> QED
      BY <1>1, <1>4, <3>1 DEF Lasts
  <2> QED
    BY <2>1, <2>2, <2>3
<1>9. /\ tty \in Texts /\ tty' \in Texts /\ Len(tty') = Len(tty) + Len(ans)
      /\ \A i \in DOMAIN tty : i \in DOMAIN tty' /\ tty'[i] = tty[i]
      /\ \A i \in DOMAIN ans : i + Len(tty) \in DOMAIN tty' /\ tty'[i + Len(tty)] = ans[i]
      /\ \A i \in DOMAIN tty' :
           \/ i \in DOMAIN tty /\ tty'[i] = tty[i]
           \/ i - Len(tty) \in DOMAIN ans /\ tty'[i] = ans[i - Len(tty)]
  <2>1. tty \in Texts
    BY DEF AtInv, AtModemTypes
  <2> QED
    BY <1>1, <2>1, JoinIs
<1>10. AtModemTypes'
  <2>1. Len(wire') <= MaxWire
    BY <1>1, <1>3, AtConstantsOK DEF AtInv, AtModemTypes
  <2>2. Len(tty') <= MaxTty
    BY <1>1, <1>9
  <2> QED
    BY <1>1, <1>3, <1>8, <1>9, <2>1, <2>2 DEF AtModemTypes
<1>11. armed \/ sync # "none" => AllTrue(tty', earned', modem'.card)
  <2> SUFFICES ASSUME armed \/ sync # "none" PROVE AllTrue(tty', earned', modem'.card)
    OBVIOUS
  <2>1. AllTrue(tty, earned', modem'.card)
    BY <1>8, TruthLasts DEF AtInv, TextsAreTrue
  <2>2. Truth(OkToken, earned', modem'.card)
    BY DEF Truth, OkToken, Registered
  <2>3. ASSUME NEW t \in Words \X Nat, ans = <<t, OkToken>>, AnswerOf(t, c)
        PROVE  Truth(t, earned', modem'.card)
    <3>1. /\ t[1] = "READY" => "sim" \in earned'
          /\ t[1] = "CSQ" /\ t[2] # 0 => "signal" \in earned'
          /\ t \in Registered => "reg" \in earned'
      BY <1>1, <2>3, ShownIs DEF AnswerOf
    <3>2. t[1] \in {"SIM_PIN", "PH_NETSUB"} => c = "CPIN"
      BY <2>3 DEF AnswerOf
    <3>3. c = "CPIN" => modem' = modem
      BY <1>1
    <3> QED
      BY <2>3, <3>1, <3>2, <3>3 DEF Truth, AnswerOf
  <2>4. \A i \in DOMAIN ans : Truth(ans[i], earned', modem'.card)
    BY <1>7, <2>2, <2>3
  <2> QED
    BY <1>9, <2>1, <2>4 DEF AllTrue
<1>12. ASSUME ~setup.slow
       PROVE  /\ wire = <<c>> /\ wire' = <<>>
              /\ \A i \in DOMAIN tty : tty[i][1] = "REG"
              /\ \A i \in DOMAIN tty' : tty'[i][1] # "REG" =>
                   i - Len(tty) \in DOMAIN ans /\ tty'[i] = ans[i - Len(tty)]
              /\ ~Has(tty, "OK")
  <2>1. wire = <<c>> /\ wire' = <<>>
    BY <1>1, <1>3, <1>12 DEF AtInv, Prompt, OneCommand
  <2>2. \A i \in DOMAIN tty : tty[i][1] = "REG"
    BY <1>1, <1>12 DEF AtInv, Prompt, Lined
  <2> QED
    BY <1>9, <2>1, <2>2 DEF Has
<1>13. Prompt'
  <2> SUFFICES ASSUME ~setup.slow
               PROVE  OneCommand' /\ Lined' /\ (sync' = "none" => ~Has(buf', "OK")) /\ PinAnswered' /\ QueryAnswered'
    BY <1>1 DEF Prompt
  <2>1. OneCommand' /\ (sync' = "none" => ~Has(buf', "OK"))
    BY <1>2, <1>12, EmptySeq DEF AtInv, Prompt, OneCommand
  <2>2. Lined'
    <3> SUFFICES ASSUME NEW i \in DOMAIN tty', tty'[i][1] # "REG", NEW j \in DOMAIN tty', tty'[j][1] = "OK"
                 PROVE  i <= j
      BY <1>12 DEF Lined
    <3>1. i - Len(tty) \in DOMAIN ans /\ j - Len(tty) \in DOMAIN ans /\ tty'[j] = ans[j - Len(tty)]
      BY <1>12
    <3>2. j - Len(tty) = Len(ans)
      BY <1>7, <3>1 DEF AnswerOf
    <3>3. Len(ans) \in Nat /\ Len(tty) \in Nat /\ DOMAIN ans = 1 .. Len(ans) /\ DOMAIN tty' = 1 .. Len(tty')
      BY <1>9, LenProperties DEF Texts
    <3> QED
      BY <1>9, <3>1, <3>2, <3>3
  <2>3. PinAnswered'
    <3> SUFFICES ASSUME sync = "PIN", Has(tty', "OK") PROVE "sim" \in earned'
      BY <1>2 DEF PinAnswered, SimShown
    <3>1. c = "PIN"
      BY <1>12 DEF AtInv, Prompt, OneCommand
    <3>2. DOMAIN ans # {}
      BY <1>9, <1>12 DEF Has
    <3>3. ans # <<>>
      BY <3>2, NothingIsText
    <3> QED
      BY <1>1, <3>1, <3>3
  <2>4. QueryAnswered'
    <3> SUFFICES ASSUME atState = "AT", idx <= Len(list), list[idx] = "CREG_AUTO", try > 0, atErrno = "NAK"
                 PROVE  armed /\ (Has(tty', "OK") \/ "mute" \in earned')
      BY <1>1, <1>2 DEF QueryAnswered
    <3>1. armed /\ (wire = <<Written(try - 1)>> \/ "mute" \in earned)
      BY <1>12 DEF AtInv, Prompt, QueryAnswered
    <3>2. CASE wire = <<Written(try - 1)>>
      <4>1. c = Written(try - 1)
        BY <1>12, <3>2
      <4>2. IsSetup(setup) /\ try - 1 \in Int
        BY AtConstantsOK DEF AtInv, AtDaemonTypes
      <4>3. c \in Queries
        BY <4>1, <4>2, QueryAsked
      <4>4. PICK t \in Words \X Nat : ans = <<t, OkToken>>
        BY <1>5, <4>3
      <4>5. 2 \in DOMAIN ans /\ ans[2] = OkToken
        BY <4>4
      <4>6. 2 + Len(tty) \in DOMAIN tty' /\ tty'[2 + Len(tty)][1] = "OK"
        BY <1>6, <1>9, <4>5
      <4> QED
        BY <3>1, <4>6 DEF Has
    <3> QED
      BY <1>1, <3>1, <3>2
  <2> QED
    BY <2>1, <2>2, <2>3, <2>4
<1>14. PinInv'
  <2> SUFFICES ASSUME ~setup.slow PROVE PinInv'
    BY <1>1 DEF PinInv
  <2>1. PinIsSpared /\ (c = "PIN" => modem.card # "PIN" \/ modem.pins > 1)
    BY <1>12 DEF AtInv, PinInv
  <2>2. PinIsSpared'
    <3>1. CASE c = "PIN"
      <4>1. modem' = TryPin(modem)
        BY <1>1, <3>1
      <4>2. CASE modem.card # "PIN"
        BY <2>1, <4>1, <4>2, TryPinIs DEF PinIsSpared
      <4>3. CASE modem.card = "PIN" /\ setup.pin = "right"
        BY <4>1, <4>3, TryPinIs DEF PinIsSpared
      <4>4. CASE modem.card = "PIN" /\ setup.pin # "right"
        BY <2>1, <3>1, <4>1, <4>4, TryPinIs DEF PinIsSpared
      <4> QED
        BY <4>2, <4>3, <4>4
    <3>2. CASE c = "CLCK" /\ ans # <<>>
      <4>1. modem' = [modem EXCEPT !.card = "READY"]
        BY <1>1, <3>2
      <4> QED
        BY <1>4, <2>1, <4>1 DEF PinIsSpared
    <3>3. CASE c # "PIN" /\ ~(c = "CLCK" /\ ans # <<>>)
      <4>1. modem' = modem
        BY <1>1, <3>3
      <4> QED
        BY <2>1, <4>1 DEF PinIsSpared
    <3> QED
      BY <3>1, <3>2, <3>3
  <2>3. \A i \in DOMAIN tty' : tty'[i][1] \in Range(Chain) => tty'[i][2] = modem'.pins
    <3> SUFFICES ASSUME NEW i \in DOMAIN tty', tty'[i][1] \in Range(Chain) PROVE tty'[i][2] = modem'.pins
      OBVIOUS
    <3>1. tty'[i][1] # "REG" /\ tty'[i][1] # "OK"
      BY ChainIs
    <3>2. i - Len(tty) \in DOMAIN ans /\ tty'[i] = ans[i - Len(tty)]
      BY <1>12, <3>1
    <3>3. PICK t \in Words \X Nat : ans = <<t, OkToken>> /\ tty'[i] = t /\ AnswerOf(t, c)
      BY <1>6, <1>7, <3>1, <3>2
    <3>4. tty'[i][2] = modem.pins
      BY <3>3 DEF AnswerOf
    <3>5. modem'.pins = modem.pins
      <4>1. c # "PIN"
        BY <1>5, <1>6, <3>3
      <4> QED
        BY <1>1, <1>4, <4>1
    <3> QED
      BY <3>4, <3>5
  <2> QED
    BY <1>12, <2>2, <2>3 DEF PinInv
<1> QED
  BY <1>1, <1>8, <1>10, <1>11, <1>13, <1>14, ModemSteps

Errnos == {"OK", "NAK", "NOMODEM", "NOSIM", "NOSIGNAL", "LOWSIGNAL", "NOREG", "ROAM", "NOVALIDIP"}

\* What a pass needs before it may leave the command it is at.
MayPass ==
  /\ idx = 2 => SimEarned
  /\ idx = 3 => "signal" \in earned
  /\ setup.family = "EC25" /\ idx = 4 => RegEarned
  /\ HasSlots /\ idx \in {4, 5} /\ list[idx] # "AT" => RegEarned

\* What is left of the line is as it was in the line.
LEMMA RestKeeps ==
  ASSUME AtInv, NEW k \in 0 .. Len(tty), IsRest(tty', tty, k), UNCHANGED <<setup, modem, earned>>
  PROVE  /\ tty' \in Texts /\ Len(tty') <= MaxTty
         /\ \A i \in DOMAIN tty' : i + k \in DOMAIN tty /\ tty'[i] = tty[i + k]
         /\ wire' = wire /\ Lined => Lined'
         /\ \A i \in DOMAIN tty : i > k => i - k \in DOMAIN tty' /\ tty'[i - k] = tty[i]
<1>1. tty \in Texts /\ Len(tty) <= MaxTty
  BY DEF AtInv, AtModemTypes
<1>2. tty' \in Texts /\ Len(tty') = Len(tty) - k /\ \A i \in 1 .. Len(tty') : tty'[i] = tty[i + k]
  BY DEF IsRest
<1>3. Len(tty) \in Nat /\ Len(tty') \in Nat /\ DOMAIN tty = 1 .. Len(tty) /\ DOMAIN tty' = 1 .. Len(tty')
  BY <1>1, <1>2, LenProperties DEF Texts
<1>4. \A i \in DOMAIN tty' : i + k \in DOMAIN tty /\ tty'[i] = tty[i + k]
  BY <1>2, <1>3
<1>5. Len(tty') <= MaxTty
  BY <1>1, <1>2, <1>3, AtConstantsOK
<1>6. ASSUME wire' = wire, Lined PROVE Lined'
  <2> SUFFICES ASSUME NEW i \in DOMAIN tty', tty'[i][1] # "REG"
               PROVE  wire = <<>> /\ \A j \in DOMAIN tty' : tty'[j][1] = "OK" => i <= j
    BY <1>6 DEF Lined
  <2>1. i + k \in DOMAIN tty /\ tty[i + k][1] # "REG"
    BY <1>4
  <2>2. wire = <<>> /\ \A j \in DOMAIN tty : tty[j][1] = "OK" => i + k <= j
    BY <1>6, <2>1 DEF Lined
  <2>3. ASSUME NEW j \in DOMAIN tty', tty'[j][1] = "OK" PROVE i <= j
    <3>1. i + k <= j + k
      BY <1>4, <2>2, <2>3
    <3> QED
      BY <1>3, <3>1
  <2> QED
    BY <2>2, <2>3
<1>7. \A i \in DOMAIN tty : i > k => i - k \in DOMAIN tty' /\ tty'[i - k] = tty[i]
  BY <1>2, <1>3
<1> QED
  BY <1>2, <1>4, <1>5, <1>6, <1>7

\* Once a modem that is prompt has had its OK read, only reports are left.
LEMMA LineRead ==
  ASSUME AtInv, ~setup.slow, NEW k \in 0 .. Len(tty), IsRest(tty', tty, k),
         UNCHANGED <<setup, modem, earned>>, NEW j \in 1 .. k, tty[j][1] = "OK"
  PROVE  wire = <<>> /\ \A i \in DOMAIN tty' : tty'[i][1] = "REG"
<1>1. Lined
  BY DEF AtInv, Prompt
<1>2. \A i \in DOMAIN tty' : i + k \in DOMAIN tty /\ tty'[i] = tty[i + k]
  BY RestKeeps
<1>3. Len(tty) \in Nat /\ DOMAIN tty = 1 .. Len(tty) /\ DOMAIN tty' = 1 .. Len(tty')
  BY LenProperties DEF AtInv, AtModemTypes, Texts, IsRest
<1>4. j \in DOMAIN tty
  BY <1>3
<1>5. wire = <<>>
  BY <1>1, <1>4 DEF Lined
<1>6. ASSUME NEW i \in DOMAIN tty', tty'[i][1] # "REG" PROVE FALSE
  <2>1. i + k \in DOMAIN tty /\ tty[i + k][1] # "REG"
    BY <1>2, <1>6
  <2>2. i + k <= j
    BY <1>1, <1>4, <2>1 DEF Lined
  <2> QED
    BY <1>3, <2>2
<1> QED
  BY <1>5, <1>6

LEMMA PinKept ==
  ASSUME AtInv, NEW k \in 0 .. Len(tty), IsRest(tty', tty, k), UNCHANGED <<setup, modem, earned>>,
         ~setup.slow /\ wire' = <<"PIN">> => modem.card # "PIN" \/ modem.pins > 1
  PROVE  PinInv'
<1> SUFFICES ASSUME ~setup.slow PROVE PinInv'
  BY DEF PinInv
<1>1. \A i \in DOMAIN tty' : i + k \in DOMAIN tty /\ tty'[i] = tty[i + k]
  BY RestKeeps
<1>2. \A i \in DOMAIN tty' : tty'[i][1] \in Range(Chain) => tty'[i][2] = modem.pins
  BY <1>1 DEF AtInv, PinInv
<1> QED
  BY <1>2 DEF AtInv, PinInv, PinIsSpared

LEMMA NextIdxIs ==
  ASSUME AtInv, idx \in 1 .. Len(list)
  PROVE  /\ NextIdx \in 1 .. (Len(list) + 1)
         /\ NextIdx = idx + 1 \/ (setup.family = "ELS31" /\ idx \in {8, 9} /\ NextIdx \in {7, 10})
<1>1. CASE setup.family # "ELS31" \/ list[idx] \notin {"CGPADDR2", "CGPADDR3"}
  <2>1. NextIdx = idx + 1
    BY <1>1 DEF NextIdx
  <2>2. Len(list) \in {5, 6, 9}
    BY ListFacts DEF AtInv, AtDaemonTypes
  <2> QED
    BY <2>1, <2>2
<1>2. CASE setup.family = "ELS31" /\ list[idx] = "CGPADDR2"
  <2>1. idx = 9 /\ Len(list) = 9
    BY <1>2, ListFacts DEF AtInv, AtDaemonTypes
  <2>2. NextIdx \in {7, 10}
    BY <1>2, <2>1 DEF NextIdx
  <2> QED
    BY <1>2, <2>1, <2>2
<1>3. CASE setup.family = "ELS31" /\ list[idx] = "CGPADDR3"
  <2>1. idx = 8 /\ Len(list) = 9
    BY <1>3, ListFacts DEF AtInv, AtDaemonTypes
  <2>2. NextIdx = 10
    BY <1>3, <2>1 DEF NextIdx
  <2> QED
    BY <1>3, <2>1, <2>2
<1> QED
  BY <1>1, <1>2, <1>3

\* The pass has moved on from a command it may leave.
LEMMA PassMoves ==
  ASSUME AtInv, idx \in 1 .. Len(list), atState \in {"AT", "STARTUP"}, atState = "AT" => MayPass,
         UNCHANGED <<setup, atState, list, modem, earned>>, idx' = NextIdx
  PROVE  PassInv'
<1> SUFFICES ASSUME atState = "AT" PROVE PassInv'
  BY DEF PassInv, Behind
<1>1. idx \in Nat /\ idx >= 1
  <2>1. Len(list) \in {5, 6, 9}
    BY ListFacts DEF AtInv, AtDaemonTypes
  <2> QED
    BY <2>1
<1>2. idx' = idx + 1 \/ (setup.family = "ELS31" /\ idx \in {8, 9} /\ idx' \in {7, 10})
  BY NextIdxIs
<1>3. SimEarned' = SimEarned /\ RegEarned' = RegEarned /\ NetworkType' = NetworkType /\ Asks(list)' = Asks(list)
  BY DEF SimEarned, SimShown, RegEarned, NetworkType, Asks
<1>4. ASSUME Behind(2)' PROVE SimEarned'
  <2>1. idx = 2 \/ idx > 2
    <3>1. idx' > 2
      BY <1>4 DEF Behind
    <3> QED
      BY <1>1, <1>2, <3>1
  <2> QED
    BY <1>3, <2>1 DEF AtInv, PassInv, Behind, MayPass
<1>5. ASSUME Behind(3)' PROVE "signal" \in earned'
  <2>1. idx = 3 \/ idx > 3
    <3>1. idx' > 3
      BY <1>5 DEF Behind
    <3> QED
      BY <1>1, <1>2, <3>1
  <2> QED
    BY <2>1 DEF AtInv, PassInv, Behind, MayPass
<1>6. ASSUME setup.family = "EC25", Behind(4)' PROVE RegEarned \/ "mute" \in earned \/ setup.slow
  <2>1. idx = 4 \/ idx > 4
    <3>1. idx' > 4 /\ idx' = idx + 1
      BY <1>2, <1>6 DEF Behind
    <3> QED
      BY <1>1, <3>1
  <2> QED
    BY <1>6, <2>1 DEF AtInv, PassInv, Behind, MayPass
<1>7. ASSUME HasSlots
      PROVE  /\ Behind(5)' => RegEarned
             /\ idx' = 5 => RegEarned \/ list[5] # "AT"
             /\ Asks(list)
  <2>1. idx' = idx + 1
    BY <1>2, <1>7 DEF HasSlots
  <2>2. Asks(list)
    BY <1>7 DEF AtInv, PassInv
  <2>3. ASSUME Behind(5)' PROVE RegEarned
    <3>1. idx = 5 \/ idx > 5
      <4>1. idx' > 5
        BY <2>3 DEF Behind
      <4> QED
        BY <1>1, <2>1, <4>1
    <3>2. CASE idx = 5
      BY <1>7, <3>2 DEF AtInv, PassInv, MayPass
    <3>3. CASE idx > 5
      BY <1>7, <3>3 DEF AtInv, PassInv, Behind
    <3> QED
      BY <3>1, <3>2, <3>3
  <2>4. ASSUME idx' = 5 PROVE RegEarned \/ list[5] # "AT"
    <3>1. idx = 4
      BY <1>1, <2>1, <2>4
    <3> QED
      BY <1>7, <2>2, <3>1 DEF MayPass, Asks
  <2> QED
    BY <2>2, <2>3, <2>4
<1> QED
  BY <1>3, <1>4, <1>5, <1>6, <1>7 DEF PassInv, HasSlots

LEMMA FinishKeeps ==
  ASSUME AtInv, NEW v \in Errnos, Finish(v), UNCHANGED <<setup, atState, list, wire, modem, earned>>,
         NEW k \in 0 .. Len(tty), IsRest(tty', tty, k), idx \in 1 .. Len(list), atState \in {"AT", "STARTUP"},
         v = "OK" /\ atState = "AT" => MayPass,
         v = "NAK" => list[idx] \in {"CGPADDR2", "CGPADDR3"}
  PROVE  AtInv'
<1>1. atErrno' = v /\ buf' = <<>> /\ armed' = FALSE /\ sync' = "none"
      /\ \/ v = "OK" /\ idx' = NextIdx /\ apnCnt' = NextApnCnt /\ try' = 0
         \/ v # "OK" /\ UNCHANGED <<idx, apnCnt, try>>
  BY DEF Finish
<1>2. NextIdx \in 1 .. (Len(list) + 1)
  BY NextIdxIs
<1>3. NextApnCnt \in 0 .. ApnRetry
  BY AtConstantsOK DEF NextApnCnt, AtInv, AtDaemonTypes
<1>4. AtDaemonTypes'
  <2>1. IsList(list)' /\ IsSetup(setup)' /\ list' = list
    BY DEF IsList, IsSetup, AtInv, AtDaemonTypes
  <2>2. idx' \in 1 .. (Len(list') + 1)
    BY <1>1, <1>2, <2>1 DEF AtInv, AtDaemonTypes
  <2>3. try' \in 0 .. (MaxRetry + 1) /\ apnCnt' \in 0 .. ApnRetry
    BY <1>1, <1>3, AtConstantsOK DEF AtInv, AtDaemonTypes
  <2> QED
    BY <1>1, <2>1, <2>2, <2>3, NothingIsText DEF AtInv, AtDaemonTypes, Errnos
<1>5. AtModemTypes'
  BY RestKeeps DEF AtInv, AtModemTypes
<1>6. TextsAreTrue'
  BY <1>1 DEF TextsAreTrue
<1>7. SyncIsTrue'
  BY <1>1, ChainIs DEF SyncIsTrue
<1>8. TryFails'
  <2>1. CASE v = "OK"
    BY <1>1, <2>1 DEF TryFails
  <2>2. CASE v # "OK"
    <3>1. atErrno' # "OK" /\ (atErrno' = "NAK" => list'[idx'] \in {"CGPADDR2", "CGPADDR3"})
      BY <1>1, <2>2
    <3> QED
      BY <3>1 DEF TryFails
  <2> QED
    BY <2>1, <2>2
<1>9. PassInv'
  <2>1. CASE v = "OK"
    BY <1>1, <2>1, PassMoves
  <2>2. CASE v # "OK"
    BY <1>1, <2>2 DEF AtInv, PassInv, Behind, SimEarned, SimShown, RegEarned, HasSlots, Asks, NetworkType
  <2> QED
    BY <2>1, <2>2
<1>10. Prompt'
  <2>1. QueryAnswered'
    <3>1. CASE v = "OK"
      BY <1>1, <3>1 DEF QueryAnswered
    <3>2. CASE v # "OK"
      <4>1. atErrno' = "NAK" => list'[idx'] # "CREG_AUTO"
        BY <1>1, <3>2
      <4> QED
        BY <4>1 DEF QueryAnswered
    <3> QED
      BY <3>1, <3>2
  <2>2. ASSUME ~setup.slow PROVE Lined' /\ OneCommand'
    <3>1. Lined /\ OneCommand
      BY <2>2 DEF AtInv, Prompt
    <3> QED
      BY <1>1, <3>1, RestKeeps DEF OneCommand
  <2> QED
    BY <1>1, <2>1, <2>2, HasNothing DEF Prompt, PinAnswered
<1>11. PinInv'
  <2>1. ~setup.slow /\ wire' = <<"PIN">> => modem.card # "PIN" \/ modem.pins > 1
    BY DEF AtInv, PinInv
  <2> QED
    BY <2>1, PinKept
<1> QED
  BY <1>4, <1>5, <1>6, <1>7, <1>8, <1>9, <1>10, <1>11 DEF AtInv

LEMMA AskKeeps ==
  ASSUME AtInv, NEW c \in {"PIN", "CLCK"} \cup Range(Chain), AskModem(c),
         UNCHANGED <<setup, atState, list, modem, earned>>,
         NEW k \in 0 .. Len(tty), IsRest(tty', tty, k), idx = 2, atState \in {"AT", "STARTUP"},
         armed \/ sync # "none", buf' \in Texts, AllTrue(buf', earned, modem.card),
         c = "CLCK" => SimShown \/ modem.card = "NETSUB",
         c # "CLCK" => SimShown \/ modem.card \in {"PIN", "PUK"},
         ~setup.slow => wire = <<>> /\ \A i \in DOMAIN tty' : tty'[i][1] = "REG",
         ~setup.slow /\ c = "PIN" => modem.pins > 1
  PROVE  AtInv'
<1>1. sync' = c /\ wire' = Append(wire, c) /\ Len(wire) < MaxWire /\ armed' = FALSE /\ UNCHANGED <<idx, try, atErrno, apnCnt>>
  BY DEF AskModem
<1>2. c \in Writable /\ c # "none"
  BY ChainIs DEF Writable
<1>3. wire' \in Seq(Writable) /\ Len(wire') = Len(wire) + 1 /\ (wire = <<>> => wire' = <<c>>)
  BY <1>1, <1>2, AppendIs DEF AtInv, AtModemTypes
<1>4. AtDaemonTypes'
  <2>1. IsList(list)' /\ IsSetup(setup)' /\ list' = list
    BY DEF IsList, IsSetup, AtInv, AtDaemonTypes
  <2>2. idx' \in 1 .. (Len(list') + 1) /\ try' \in 0 .. (MaxRetry + 1) /\ apnCnt' \in 0 .. ApnRetry
    BY <1>1 DEF AtInv, AtDaemonTypes
  <2> QED
    BY <1>1, <2>1, <2>2 DEF AtInv, AtDaemonTypes
<1>5. AtModemTypes'
  <2>1. Len(wire') <= MaxWire
    <3>1. Len(wire) \in Nat
      BY LenProperties DEF AtInv, AtModemTypes
    <3> QED
      BY <1>1, <1>3, <3>1, AtConstantsOK
  <2> QED
    BY <1>3, <2>1, RestKeeps DEF AtInv, AtModemTypes
<1>6. TextsAreTrue'
  <2>1. AllTrue(tty, earned, modem.card)
    BY DEF AtInv, TextsAreTrue
  <2>2. AllTrue(tty', earned, modem.card)
    BY <2>1, RestKeeps DEF AllTrue
  <2> QED
    BY <2>2 DEF TextsAreTrue
<1>7. SyncIsTrue'
  <2>1. "CLCK" \notin {"PIN"} \cup Range(Chain)
    BY ChainIs
  <2> QED
    BY <1>1, <2>1 DEF SyncIsTrue, SimShown
<1>8. TryFails' /\ PassInv'
  BY <1>1 DEF AtInv, TryFails, PassInv, Behind, SimEarned, SimShown, RegEarned, HasSlots, Asks, NetworkType
<1>9. Prompt'
  <2> SUFFICES ASSUME ~setup.slow
               PROVE  OneCommand' /\ Lined' /\ (sync' = "none" => ~Has(buf', "OK")) /\ PinAnswered' /\ QueryAnswered'
    BY DEF Prompt
  <2>1. wire' = <<c>> /\ Len(wire') = 1 /\ \A i \in DOMAIN tty' : tty'[i][1] = "REG"
    BY <1>3
  <2>2. ~Has(tty', "OK")
    BY <2>1 DEF Has
  <2>3. list[2] = "CPIN"
    BY ListFacts DEF AtInv, AtDaemonTypes
  <2>4. QueryAnswered'
    BY <1>1, <2>3 DEF QueryAnswered
  <2> QED
    BY <1>1, <1>2, <2>1, <2>2, <2>4 DEF OneCommand, Lined, PinAnswered
<1>10. PinInv'
  <2>1. ~setup.slow /\ wire' = <<"PIN">> => modem.card # "PIN" \/ modem.pins > 1
    BY <1>3
  <2> QED
    BY <2>1, PinKept
<1> QED
  BY <1>4, <1>5, <1>6, <1>7, <1>8, <1>9, <1>10 DEF AtInv

\* A text with what has been taken from the line behind it.
IsTaken(b, u, t, k) ==
  /\ b \in Texts
  /\ \A i \in DOMAIN b : (\E j \in DOMAIN u : b[i] = u[j]) \/ \E j \in 1 .. k : b[i] = t[j]
  /\ \A j \in 1 .. k : \E i \in DOMAIN b : b[i] = t[j]

LEMMA TakenIs ==
  ASSUME NEW u \in Texts, NEW t \in Texts, NEW k \in 1 .. Len(t)
  PROVE  IsTaken(u \o SubSeq(t, 1, k), u, t, k)
<1> DEFINE s == SubSeq(t, 1, k)
<1>1. s \in Texts /\ Len(s) = k /\ \A i \in 1 .. k : s[i] = t[i]
  BY RestIs
<1>2. DOMAIN s = 1 .. k
  BY <1>1, LenProperties DEF Texts
<1> HIDE DEF s
<1> DEFINE c == u \o s
<1>3. /\ c \in Texts
      /\ \A i \in DOMAIN s : i + Len(u) \in DOMAIN c /\ c[i + Len(u)] = s[i]
      /\ \A i \in DOMAIN c : (i \in DOMAIN u /\ c[i] = u[i]) \/ (i - Len(u) \in DOMAIN s /\ c[i] = s[i - Len(u)])
  BY <1>1, JoinIs
<1> HIDE DEF c
<1>4. ASSUME NEW i \in DOMAIN c PROVE (\E j \in DOMAIN u : c[i] = u[j]) \/ \E j \in 1 .. k : c[i] = t[j]
  <2>1. CASE i \in DOMAIN u /\ c[i] = u[i]
    BY <2>1
  <2>2. CASE i - Len(u) \in DOMAIN s /\ c[i] = s[i - Len(u)]
    <3>1. PICK j \in DOMAIN s : c[i] = s[j]
      BY <2>2
    <3> QED
      BY <1>1, <1>2, <3>1
  <2> QED
    BY <1>3, <2>1, <2>2
<1>5. ASSUME NEW j \in 1 .. k PROVE \E i \in DOMAIN c : c[i] = t[j]
  <2>1. j \in DOMAIN s /\ s[j] = t[j]
    BY <1>1, <1>2
  <2>2. j + Len(u) \in DOMAIN c /\ c[j + Len(u)] = t[j]
    BY <1>3, <2>1
  <2> QED
    BY <2>2
<1>6. IsTaken(c, u, t, k)
  BY <1>3, <1>4, <1>5 DEF IsTaken
<1> QED
  BY <1>6 DEF c, s

\* What the callback has collected, and what it has left.
LEMMA BufferIs ==
  ASSUME AtInv, armed, NEW k \in 1 .. Len(tty), IsRest(tty', tty, k), NEW b, IsTaken(b, buf, tty, k)
  PROVE  /\ b \in Texts /\ AllTrue(b, earned, modem.card)
         /\ ~setup.slow /\ Has(b, "OK") => \E j \in 1 .. k : tty[j][1] = "OK"
         /\ Has(tty, "OK") => Has(b, "OK") \/ Has(tty', "OK")
<1>1. tty \in Texts /\ buf \in Texts /\ sync = "none"
  BY DEF AtInv, AtModemTypes, AtDaemonTypes
<1>2. /\ b \in Texts
      /\ \A i \in DOMAIN b : (\E j \in DOMAIN buf : b[i] = buf[j]) \/ \E j \in 1 .. k : b[i] = tty[j]
      /\ \A j \in 1 .. k : \E i \in DOMAIN b : b[i] = tty[j]
  BY DEF IsTaken
<1>3. Len(tty) \in Nat /\ DOMAIN tty = 1 .. Len(tty) /\ DOMAIN tty' = 1 .. Len(tty') /\ Len(tty') = Len(tty) - k
  BY <1>1, LenProperties DEF Texts, IsRest
<1>4. 1 .. k \subseteq DOMAIN tty
  BY <1>3
<1>5. AllTrue(tty, earned, modem.card) /\ AllTrue(buf, earned, modem.card)
  BY DEF AtInv, TextsAreTrue
<1>6. AllTrue(b, earned, modem.card)
  BY <1>2, <1>4, <1>5 DEF AllTrue
<1>7. ASSUME ~setup.slow, Has(b, "OK") PROVE \E j \in 1 .. k : tty[j][1] = "OK"
  <2>1. ~Has(buf, "OK")
    BY <1>1, <1>7 DEF AtInv, Prompt
  <2> QED
    BY <1>2, <1>7, <2>1 DEF Has
<1>8. ASSUME Has(tty, "OK") PROVE Has(b, "OK") \/ Has(tty', "OK")
  <2>1. PICK i \in DOMAIN tty : tty[i][1] = "OK"
    BY <1>8 DEF Has
  <2>2. CASE i \in 1 .. k
    BY <1>2, <2>1, <2>2 DEF Has
  <2>3. CASE i \notin 1 .. k
    <3>1. PICK n \in 1 .. Len(tty') : n + k = i
      <4>1. i - k \in 1 .. Len(tty') /\ (i - k) + k = i
        <5> DEFINE m == Len(tty)
                   m2 == Len(tty')
        <5>1. i \in 1 .. m /\ m \in Nat /\ k \in 1 .. m /\ m2 = m - k /\ i \notin 1 .. k
          BY <1>3, <2>3
        <5> HIDE DEF m, m2
        <5>2. i - k \in 1 .. m2 /\ (i - k) + k = i
          BY <5>1
        <5> QED
          BY <5>2 DEF m2
      <4> QED
        BY <4>1
    <3>2. tty'[n] = tty[i]
      BY <3>1 DEF IsRest
    <3> QED
      BY <1>3, <2>1, <3>2 DEF Has
  <2> QED
    BY <2>2, <2>3
<1> QED
  BY <1>2, <1>6, <1>7, <1>8

\* The handlers of the pass let go what has been earned.
LEMMA VerdictIs ==
  ASSUME AtInv, idx \in 1 .. Len(list), NEW b \in Texts, AllTrue(b, earned, modem.card),
         NEW c, c # "CPIN",
         (list[idx] # "CREG_AUTO" /\ c = list[idx]) \/ (list[idx] = "CREG_AUTO" /\ c \in Queries)
  PROVE  /\ Verdict(c, b) \in Errnos
         /\ Verdict(c, b) = "OK" => MayPass
         /\ Verdict(c, b) = "NAK" => list[idx] \in {"CGPADDR2", "CGPADDR3"}
<1>1. IsSetup(setup) /\ IsList(list)
  BY DEF AtInv, AtDaemonTypes
<1>2. idx # 2
  BY <1>1, ListFacts DEF Queries
<1>3. CASE c = "CSQ"
  <2>1. Verdict(c, b) = CheckSignal(b)
    BY <1>3 DEF Verdict, Queries
  <2>2. CheckSignal(b) \in {"NOSIGNAL", "LOWSIGNAL", "OK"}
    BY DEF CheckSignal
  <2>3. idx = 3
    BY <1>1, <1>3, ListFacts DEF Queries
  <2>4. ASSUME CheckSignal(b) = "OK" PROVE "signal" \in earned
    <3>1. Has(b, "CSQ") /\ Number(b, "CSQ") # 0
      BY <2>4 DEF CheckSignal
    <3>2. PICK i \in DOMAIN b : b[i][1] = "CSQ" /\ Number(b, "CSQ") = b[i][2]
      BY <3>1, NumberIs
    <3> QED
      BY <3>1, <3>2 DEF AllTrue, Truth
  <2> QED
    BY <2>1, <2>2, <2>3, <2>4 DEF Errnos, MayPass
<1>4. CASE c \in Queries
  <2>1. Verdict(c, b) = CheckReg(b)
    BY <1>4 DEF Verdict, Queries
  <2>2. CheckReg(b) \in {"NOREG", "ROAM", "OK"}
    BY DEF CheckReg
  <2>3. idx # 3
    BY <1>1, <1>4, ListFacts DEF Queries
  <2>4. ASSUME CheckReg(b) = "OK" PROVE "reg" \in earned
    <3>1. Has(b, "REG") /\ (Number(b, "REG") = 1 \/ (Number(b, "REG") = 5 /\ Roaming))
      BY <2>4 DEF CheckReg
    <3>2. PICK i \in DOMAIN b : b[i][1] = "REG" /\ Number(b, "REG") = b[i][2]
      BY <3>1, NumberIs
    <3>3. b[i] = <<"REG", Number(b, "REG")>>
      <4>1. b[i] \in Words \X Nat
        BY ElementOfSeq, LenProperties DEF Texts
      <4> QED
        BY <3>2, <4>1
    <3>4. b[i] \in Registered
      BY <3>1, <3>3 DEF Registered
    <3> QED
      BY <3>4 DEF AllTrue, Truth
  <2> QED
    BY <1>2, <2>1, <2>2, <2>3, <2>4 DEF Errnos, MayPass, RegEarned
<1>5. CASE c \in {"CGPADDR2", "CGPADDR3"}
  <2>1. Verdict(c, b) = CheckAddress(b)
    BY <1>5 DEF Verdict, Queries
  <2>2. CheckAddress(b) \in {"NAK", "OK"}
    BY DEF CheckAddress
  <2>3. list[idx] = c /\ setup.family = "ELS31" /\ idx \in {8, 9}
    BY <1>1, <1>5, ListFacts DEF Queries
  <2> QED
    BY <1>5, <2>1, <2>2, <2>3 DEF Errnos, MayPass, HasSlots
<1>6. CASE c \notin {"CSQ", "CGPADDR2", "CGPADDR3"} \cup Queries
  <2>1. Verdict(c, b) = "OK"
    BY <1>6 DEF Verdict
  <2>2. c = list[idx] /\ list[idx] # "CREG_AUTO" /\ idx # 3
    BY <1>1, <1>6, ListFacts
  <2>3. ~(setup.family = "EC25" /\ idx = 4)
    BY <1>1, <2>2, ListFacts
  <2>4. HasSlots /\ idx \in {4, 5} => list[idx] = "AT"
    BY <1>1, <1>6, <2>2, ListFacts DEF HasSlots, Queries
  <2> QED
    BY <1>2, <2>1, <2>2, <2>3, <2>4 DEF Errnos, MayPass
<1> QED
  BY <1>3, <1>4, <1>5, <1>6

\* The callback: a command is left behind, the handler of AT+CPIN? begins to ask, or there is more to come.
LEMMA ReadTtyKeeps ==
  ASSUME AtInv, NEW k \in 1 .. MaxTty, ReadTty(k)
  PROVE  AtInv'
<1> DEFINE b == buf \o SubSeq(tty, 1, k)
           c == Written(try - 1)
<1>1. /\ UNCHANGED <<setup, atState, list, modem, earned>> /\ atState \in {"AT", "STARTUP"} /\ armed /\ sync = "none"
      /\ k \in 1 .. Len(tty) /\ tty' = SubSeq(tty, k + 1, Len(tty))
  BY DEF ReadTty
<1>2. /\ IsRest(tty', tty, k) /\ b \in Texts /\ AllTrue(b, earned, modem.card)
      /\ ~setup.slow /\ Has(b, "OK") => \E j \in 1 .. k : tty[j][1] = "OK"
      /\ Has(tty, "OK") => Has(b, "OK") \/ Has(tty', "OK")
  <2>1. tty \in Texts /\ buf \in Texts
    BY DEF AtInv, AtModemTypes, AtDaemonTypes
  <2>2. IsRest(tty', tty, k) /\ IsTaken(b, buf, tty, k)
    BY <1>1, <2>1, RestIs, TakenIs
  <2> HIDE DEF b
  <2> QED
    BY <1>1, <2>2, BufferIs
<1>3. k \in 0 .. Len(tty) /\ idx \in 1 .. Len(list) /\ try \in Int /\ ~AtEnd
  <2>1. Len(tty) \in Nat /\ Len(list) \in {5, 6, 9} /\ MaxRetry \in Nat
    BY ListFacts, LenProperties, AtConstantsOK DEF AtInv, AtDaemonTypes, AtModemTypes, Texts
  <2>2. idx \in 1 .. (Len(list) + 1) /\ idx <= Len(list) /\ try \in 0 .. (MaxRetry + 1)
    BY <1>1 DEF AtInv, AtDaemonTypes
  <2>3. k \in 0 .. Len(tty)
    BY <1>1, <2>1
  <2>4. idx \in 1 .. Len(list) /\ ~(idx > Len(list)) /\ try \in Int
    BY <2>1, <2>2
  <2> QED
    BY <2>3, <2>4 DEF AtEnd
<1>4. \/ Has(b, "OK") /\ Handle(b)
      \/ ~Has(b, "OK") /\ buf' = b /\ UNCHANGED <<idx, try, atErrno, apnCnt, armed, sync, wire>>
  BY <1>3 DEF ReadTty
<1>5. (list[idx] # "CREG_AUTO" /\ c = list[idx]) \/ (list[idx] = "CREG_AUTO" /\ c \in Queries)
  <2>1. CASE list[idx] = "CREG_AUTO"
    <3>1. IsSetup(setup) /\ try - 1 \in Int
      BY <1>3 DEF AtInv, AtDaemonTypes
    <3> QED
      BY <2>1, <3>1, QueryAsked
  <2>2. CASE list[idx] # "CREG_AUTO"
    BY <2>2 DEF Written
  <2> QED
    BY <2>1, <2>2
<1>6. ASSUME ~setup.slow, Has(b, "OK") PROVE wire = <<>> /\ \A i \in DOMAIN tty' : tty'[i][1] = "REG"
  <2>1. PICK j \in 1 .. k : tty[j][1] = "OK"
    BY <1>2, <1>6
  <2> QED
    BY <1>1, <1>2, <1>3, <1>6, <2>1, LineRead
<1>7. CASE Has(b, "OK") /\ Handle(b)
  <2>1. CASE c # "CPIN"
    <3>1. Finish(Verdict(c, b)) /\ UNCHANGED wire
      BY <1>7, <2>1 DEF Handle
    <3> DEFINE v == Verdict(c, b)
    <3> HIDE DEF b, c
    <3>2. v \in Errnos /\ (v = "OK" => MayPass) /\ (v = "NAK" => list[idx] \in {"CGPADDR2", "CGPADDR3"})
      BY <1>2, <1>3, <1>5, <2>1, VerdictIs
    <3>3. Finish(v)
      BY <3>1
    <3> HIDE DEF v
    <3> QED
      BY <1>1, <1>2, <1>3, <3>1, <3>2, <3>3, FinishKeeps
  <2>2. CASE c = "CPIN"
    <3>1. idx = 2
      BY <1>3, <1>5, <2>2, ListFacts DEF AtInv, AtDaemonTypes, Queries
    <3>2. \/ Has(b, "READY") /\ Finish("OK") /\ UNCHANGED wire
          \/ Has(b, "SIM_PIN") /\ AskModem(Chain[1]) /\ buf' = b
          \/ Has(b, "PH_NETSUB") /\ AskModem("CLCK") /\ buf' = b
          \/ Finish("NOSIM") /\ UNCHANGED wire
      BY <1>7, <2>2 DEF Handle
    <3>3. CASE Has(b, "READY") /\ Finish("OK") /\ UNCHANGED wire
      <4>1. "sim" \in earned
        BY <1>2, <3>3 DEF Has, AllTrue, Truth
      <4>2. MayPass
        BY <3>1, <4>1 DEF MayPass, SimEarned, SimShown
      <4> QED
        BY <1>1, <1>2, <1>3, <3>3, <4>2, FinishKeeps DEF Errnos
    <3>4. CASE Has(b, "SIM_PIN") /\ AskModem(Chain[1]) /\ buf' = b
      <4>1. SimShown \/ modem.card \in {"PIN", "PUK"}
        BY <1>2, <3>4 DEF Has, AllTrue, Truth, SimShown
      <4>2. Chain[1] = "SPIC" /\ "SPIC" \in Range(Chain)
        BY ChainIs DEF Chain
      <4>3. AskModem("SPIC")
        BY <3>4, <4>2
      <4>4. buf' \in Texts /\ AllTrue(buf', earned, modem.card)
        BY <1>2, <3>4
      <4>5. ~setup.slow => wire = <<>> /\ \A i \in DOMAIN tty' : tty'[i][1] = "REG"
        BY <1>6, <1>7
      <4> QED
        BY <1>1, <1>2, <1>3, <3>1, <4>1, <4>2, <4>3, <4>4, <4>5, AskKeeps
    <3>5. CASE Has(b, "PH_NETSUB") /\ AskModem("CLCK") /\ buf' = b
      <4>1. SimShown \/ modem.card = "NETSUB"
        BY <1>2, <3>5 DEF Has, AllTrue, Truth, SimShown
      <4>4. buf' \in Texts /\ AllTrue(buf', earned, modem.card)
        BY <1>2, <3>5
      <4>5. ~setup.slow => wire = <<>> /\ \A i \in DOMAIN tty' : tty'[i][1] = "REG"
        BY <1>6, <1>7
      <4> QED
        BY <1>1, <1>2, <1>3, <3>1, <3>5, <4>1, <4>4, <4>5, AskKeeps
    <3>6. CASE Finish("NOSIM") /\ UNCHANGED wire
      BY <1>1, <1>2, <1>3, <3>6, FinishKeeps DEF Errnos
    <3> QED
      BY <3>2, <3>3, <3>4, <3>5, <3>6
  <2> QED
    BY <2>1, <2>2
<1>8. CASE ~Has(b, "OK") /\ buf' = b /\ UNCHANGED <<idx, try, atErrno, apnCnt, armed, sync, wire>>
  <2> HIDE DEF b
  <2>1. AtDaemonTypes'
    BY <1>1, <1>2, <1>8 DEF AtInv, AtDaemonTypes, IsSetup, IsList
  <2>2. AtModemTypes'
    BY <1>1, <1>2, <1>3, <1>8, RestKeeps DEF AtInv, AtModemTypes
  <2>3. TextsAreTrue'
    <3>1. AllTrue(tty, earned, modem.card)
      BY <1>1 DEF AtInv, TextsAreTrue
    <3>2. AllTrue(tty', earned, modem.card)
      BY <1>1, <1>2, <1>3, <3>1, RestKeeps DEF AllTrue
    <3> QED
      BY <1>1, <1>2, <1>8, <3>2 DEF TextsAreTrue
  <2>4. SyncIsTrue' /\ TryFails' /\ PassInv'
    BY <1>1, <1>8 DEF AtInv, SyncIsTrue, TryFails, PassInv, SimShown, Behind, SimEarned, RegEarned, HasSlots, Asks, NetworkType
  <2>5. Prompt'
    <3> SUFFICES ASSUME ~setup.slow
                 PROVE  OneCommand' /\ Lined' /\ (sync' = "none" => ~Has(buf', "OK")) /\ PinAnswered' /\ QueryAnswered'
      BY <1>1 DEF Prompt
    <3>1. OneCommand' /\ Lined'
      BY <1>1, <1>2, <1>3, <1>8, RestKeeps DEF AtInv, Prompt, OneCommand
    <3>2. PinAnswered'
      <4>1. sync' = "none"
        BY <1>1, <1>8
      <4> QED
        BY <4>1 DEF PinAnswered
    <3>3. QueryAnswered'
      <4>1. Written(try - 1)' = Written(try - 1)
        BY <1>1, <1>8 DEF Written, AutoQueries, NetworkType
      <4>2. QueryAnswered /\ (Has(tty, "OK") => Has(tty', "OK"))
        BY <1>2, <1>8 DEF AtInv, Prompt
      <4> QED
        BY <1>1, <1>8, <4>1, <4>2 DEF QueryAnswered
    <3> QED
      BY <1>8, <3>1, <3>2, <3>3
  <2>6. PinInv'
    <3>1. ~setup.slow /\ wire' = <<"PIN">> => modem.card # "PIN" \/ modem.pins > 1
      BY <1>8 DEF AtInv, PinInv
    <3> QED
      BY <1>1, <1>2, <1>3, <3>1, PinKept
  <2> QED
    BY <2>1, <2>2, <2>3, <2>4, <2>5, <2>6 DEF AtInv
<1> QED
  BY <1>4, <1>7, <1>8

\* check_return2() has its "OK": the handler goes on.
LEMMA SyncAnswerKeeps ==
  ASSUME AtInv, NEW k \in 1 .. MaxTty, SyncAnswer(k)
  PROVE  AtInv'
<1> DEFINE ans == SubSeq(tty, 1, k)
<1>1. /\ UNCHANGED <<setup, atState, list, modem, earned>> /\ sync # "none" /\ Has(tty, "OK")
      /\ k \in SelectInSeq(tty, LAMBDA t : t[1] = "OK") .. Len(tty) /\ tty' = SubSeq(tty, k + 1, Len(tty))
  BY DEF SyncAnswer
<1>2. /\ tty \in Texts /\ idx = 2 /\ atState \in {"AT", "STARTUP"} /\ IsSetup(setup) /\ IsList(list)
      /\ sync \in {"PIN", "CLCK"} \cup Range(Chain) /\ buf \in Texts
  BY <1>1 DEF AtInv, AtDaemonTypes, AtModemTypes
<1>3. k \in 1 .. Len(tty) /\ \E j \in 1 .. k : tty[j][1] = "OK"
  BY <1>1, <1>2, OkIsSelected
<1>4. IsRest(tty', tty, k) /\ ans \in Texts /\ Len(ans) = k /\ \A i \in 1 .. k : ans[i] = tty[i]
  BY <1>1, <1>2, <1>3, RestIs
<1>5. Len(tty) \in Nat /\ DOMAIN tty = 1 .. Len(tty) /\ DOMAIN ans = 1 .. k
  BY <1>2, <1>4, LenProperties DEF Texts
<1>6. k \in 0 .. Len(tty) /\ 1 .. k \subseteq DOMAIN tty
  BY <1>3, <1>5
<1>7. idx \in 1 .. Len(list)
  <2> DEFINE n == Len(list)
  <2>1. n \in {5, 6, 9}
    BY <1>2, ListFacts
  <2> HIDE DEF n
  <2>2. 2 \in 1 .. n
    BY <2>1
  <2> QED
    BY <1>2, <2>2 DEF n
<1>8. ASSUME ~setup.slow PROVE wire = <<>> /\ \A i \in DOMAIN tty' : tty'[i][1] = "REG"
  <2>1. PICK j \in 1 .. k : tty[j][1] = "OK"
    BY <1>3
  <2> QED
    BY <1>1, <1>4, <1>6, <1>8, <2>1, LineRead
<1>9. \/ sync = "PIN" /\ Finish("OK") /\ UNCHANGED wire
      \/ Finish("NOSIM") /\ UNCHANGED wire
      \/ /\ sync \in Range(Chain) /\ Has(ans, sync) /\ PinAllowed(Number(ans, sync))
         /\ AskModem("PIN") /\ UNCHANGED buf
  BY DEF SyncAnswer
<1> HIDE DEF ans
<1>10. CASE sync = "PIN" /\ Finish("OK") /\ UNCHANGED wire
  <2>1. SimEarned
    <3>1. CASE setup.slow
      BY <1>10, <3>1 DEF AtInv, SyncIsTrue, SimEarned
    <3>2. CASE ~setup.slow
      BY <1>1, <1>10, <3>2 DEF AtInv, Prompt, PinAnswered, SimEarned
    <3> QED
      BY <3>1, <3>2
  <2>2. MayPass
    BY <1>2, <2>1 DEF MayPass
  <2> QED
    BY <1>1, <1>2, <1>4, <1>6, <1>7, <1>10, <2>2, FinishKeeps DEF Errnos
<1>11. CASE Finish("NOSIM") /\ UNCHANGED wire
  BY <1>1, <1>2, <1>4, <1>6, <1>7, <1>11, FinishKeeps DEF Errnos
<1>12. CASE /\ sync \in Range(Chain) /\ Has(ans, sync) /\ PinAllowed(Number(ans, sync))
            /\ AskModem("PIN") /\ UNCHANGED buf
  <2>1. PICK i \in DOMAIN ans : ans[i][1] = sync /\ Number(ans, sync) = ans[i][2]
    BY <1>4, <1>12, NumberIs
  <2>2. i \in DOMAIN tty /\ tty[i][1] = sync /\ tty[i][2] = Number(ans, sync)
    BY <1>4, <1>5, <1>6, <2>1
  <2>3. ASSUME ~setup.slow PROVE modem.pins > 1
    <3>1. modem.pins = Number(ans, sync)
      BY <1>12, <2>2, <2>3 DEF AtInv, PinInv
    <3>2. Number(ans, sync) > 1
      BY <1>12 DEF PinAllowed
    <3> QED
      BY <3>1, <3>2
  <2>4. SimShown \/ modem.card \in {"PIN", "PUK"}
    BY <1>12 DEF AtInv, SyncIsTrue
  <2>5. buf' \in Texts /\ AllTrue(buf', earned, modem.card)
    BY <1>1, <1>2, <1>12 DEF AtInv, TextsAreTrue
  <2> QED
    BY <1>1, <1>2, <1>4, <1>6, <1>8, <1>12, <2>3, <2>4, <2>5, AskKeeps
<1> QED
  BY <1>9, <1>10, <1>11, <1>12

\* There is a query behind every one but the last.
LEMMA NextInChain ==
  ASSUME NEW q \in Range(Chain), q # Last(Chain)
  PROVE  Chain[SelectInSeq(Chain, LAMBDA c : c = q) + 1] \in Range(Chain)
<1> DEFINE I == {i \in 1 .. Len(Chain) : Chain[i] = q}
<1>1. Len(Chain) = 4 /\ Chain[1] = "SPIC" /\ Chain[2] = "CPNNUM" /\ Chain[3] = "UPINCNT" /\ Chain[4] = "QPINC"
  BY DEF Chain
<1>2. I # {} /\ I \in SUBSET (1 .. Len(Chain)) /\ q # "QPINC"
  <2>1. q # "QPINC"
    BY <1>1 DEF Last
  <2>2. I # {}
    BY <1>1, ChainIs
  <2> QED
    BY <2>1, <2>2
<1>3. SelectInSeq(Chain, LAMBDA c : c = q) = Min(I)
  BY <1>2 DEF SelectInSeq
<1> HIDE DEF I
<1>4. Min(I) \in I
  BY <1>1, <1>2, MinIsMember
<1> DEFINE m == Min(I)
<1>5. m \in 1 .. 4 /\ Chain[m] = q
  BY <1>1, <1>4 DEF I
<1> HIDE DEF m
<1>6. m \in {1, 2, 3}
  BY <1>1, <1>2, <1>5
<1>7. Chain[m + 1] \in Range(Chain)
  BY <1>1, <1>6, ChainIs
<1> QED
  BY <1>3, <1>7 DEF m

\* Nothing has come for 3 s.
LEMMA SyncTimeoutKeeps ==
  ASSUME AtInv, SyncTimeout
  PROVE  AtInv'
<1>1. /\ UNCHANGED <<setup, atState, list, modem, earned>> /\ sync # "none" /\ tty' = <<>>
      /\ ~setup.slow => wire = <<>>
  BY DEF SyncTimeout
<1>2. /\ tty \in Texts /\ idx = 2 /\ atState \in {"AT", "STARTUP"} /\ IsSetup(setup) /\ IsList(list)
      /\ sync \in {"PIN", "CLCK"} \cup Range(Chain) /\ buf \in Texts
  BY <1>1 DEF AtInv, AtDaemonTypes, AtModemTypes
<1> DEFINE k == Len(tty)
<1>3. k \in 0 .. Len(tty)
  BY <1>2, LenProperties DEF Texts
<1>4. IsRest(tty', tty, k) /\ DOMAIN tty' = {}
  BY <1>1, <1>3, NothingIsText DEF IsRest
<1> HIDE DEF k
<1>5. idx \in 1 .. Len(list)
  <2>1. Len(list) \in {5, 6, 9}
    BY <1>2, ListFacts
  <2>2. 2 \in 1 .. Len(list)
    BY <2>1
  <2> QED
    BY <1>2, <2>2
<1>6. \/ sync = "CLCK" /\ Finish("OK") /\ UNCHANGED wire
      \/ Finish("NOSIM") /\ UNCHANGED wire
      \/ /\ sync \in Range(Chain) /\ sync # Last(Chain) /\ UNCHANGED buf
         /\ AskModem(Chain[SelectInSeq(Chain, LAMBDA c : c = sync) + 1])
  BY DEF SyncTimeout
<1>7. CASE sync = "CLCK" /\ Finish("OK") /\ UNCHANGED wire
  <2>1. SimEarned
    BY <1>7 DEF AtInv, SyncIsTrue, SimEarned
  <2>2. MayPass
    BY <1>2, <2>1 DEF MayPass
  <2> QED
    BY <1>1, <1>2, <1>3, <1>4, <1>5, <1>7, <2>2, FinishKeeps DEF Errnos
<1>8. CASE Finish("NOSIM") /\ UNCHANGED wire
  BY <1>1, <1>2, <1>3, <1>4, <1>5, <1>8, FinishKeeps DEF Errnos
<1>9. CASE /\ sync \in Range(Chain) /\ sync # Last(Chain) /\ UNCHANGED buf
           /\ AskModem(Chain[SelectInSeq(Chain, LAMBDA c : c = sync) + 1])
  <2> DEFINE c == Chain[SelectInSeq(Chain, LAMBDA x : x = sync) + 1]
  <2>1. c \in Range(Chain)
    BY <1>9, NextInChain
  <2>2. AskModem(c)
    BY <1>9
  <2> HIDE DEF c
  <2>3. c # "CLCK" /\ c # "PIN"
    BY <2>1, ChainIs
  <2>4. SimShown \/ modem.card \in {"PIN", "PUK"}
    BY <1>9 DEF AtInv, SyncIsTrue
  <2>5. buf' \in Texts /\ AllTrue(buf', earned, modem.card)
    BY <1>1, <1>2, <1>9 DEF AtInv, TextsAreTrue
  <2> QED
    BY <1>1, <1>2, <1>3, <1>4, <2>1, <2>2, <2>3, <2>4, <2>5, AskKeeps
<1> QED
  BY <1>6, <1>7, <1>8, <1>9

LEMMA ThreeMore ==
  ASSUME NEW s \in Seq(Commands), Len(s) = 3, NEW t \in Seq(Commands), NEW u \in Seq(Commands), Len(u) = 3 + Len(t),
         \A i \in 1 .. 3 : u[i] = s[i], \A i \in 1 .. Len(t) : u[i + 3] = t[i]
  PROVE  s \o t = u
<1>1. /\ s \o t \in Seq(Commands) /\ Len(s \o t) = 3 + Len(t)
      /\ \A i \in 1 .. 3 + Len(t) : (s \o t)[i] = IF i <= 3 THEN s[i] ELSE t[i - 3]
  <2>1. /\ s \o t \in Seq(Commands) /\ Len(s \o t) = Len(s) + Len(t)
        /\ \A i \in 1 .. Len(s) + Len(t) : (s \o t)[i] = IF i <= Len(s) THEN s[i] ELSE t[i - Len(s)]
    BY ConcatProperties
  <2> QED
    BY <2>1, Zenon
<1> DEFINE c == s \o t
<1> HIDE DEF c
<1>2. c \in Seq(Commands) /\ Len(c) = Len(u) /\ \A i \in 1 .. 3 + Len(t) : c[i] = IF i <= 3 THEN s[i] ELSE t[i - 3]
  BY <1>1 DEF c
<1>3. Len(t) \in Nat
  BY LenProperties
<1>4. ASSUME NEW i \in 1 .. Len(c) PROVE c[i] = u[i]
  <2>1. CASE i <= 3
    BY <1>2, <1>3, <1>4, <2>1
  <2>2. CASE i > 3
    <3>1. i - 3 \in 1 .. Len(t) /\ (i - 3) + 3 = i /\ c[i] = t[i - 3]
      BY <1>2, <1>3, <1>4, <2>2
    <3>2. u[(i - 3) + 3] = t[i - 3]
      BY <3>1
    <3> QED
      BY <3>1, <3>2
  <2> QED
    BY <1>2, <1>3, <2>1, <2>2
<1>5. c = u
  BY <1>2, <1>4, SeqEqual
<1> QED
  BY <1>5 DEF c

\* The lists as they are in the program.
LEMMA ListsAre ==
  /\ <<"AT", "CPIN", "CSQ">> \o <<"CEREG", "CREG", "COPS">> = <<"AT", "CPIN", "CSQ", "CEREG", "CREG", "COPS">>
  /\ <<"AT", "CPIN", "CSQ">> \o <<"CREG_AUTO", "COPS">> = <<"AT", "CPIN", "CSQ", "CREG_AUTO", "COPS">>
  /\ <<"AT", "CPIN", "CSQ">> \o <<"CEREG", "AT", "COPS", "SICA", "CGPADDR3", "CGPADDR2">>
       = <<"AT", "CPIN", "CSQ", "CEREG", "AT", "COPS", "SICA", "CGPADDR3", "CGPADDR2">>
<1> DEFINE s == <<"AT", "CPIN", "CSQ">>
<1>1. s \in Seq(Commands) /\ Len(s) = 3 /\ s[1] = "AT" /\ s[2] = "CPIN" /\ s[3] = "CSQ"
  BY DEF Commands
<1>2. s \o <<"CEREG", "CREG", "COPS">> = <<"AT", "CPIN", "CSQ", "CEREG", "CREG", "COPS">>
  <2> DEFINE t == <<"CEREG", "CREG", "COPS">>
             u == <<"AT", "CPIN", "CSQ", "CEREG", "CREG", "COPS">>
  <2>1. t \in Seq(Commands) /\ u \in Seq(Commands) /\ Len(t) = 3 /\ Len(u) = 6
    BY DEF Commands, Queries
  <2>2. (\A i \in 1 .. 3 : u[i] = s[i]) /\ \A i \in 1 .. 3 : u[i + 3] = t[i]
    OBVIOUS
  <2> HIDE DEF s, t, u
  <2>3. Len(u) = 3 + Len(t) /\ \A i \in 1 .. Len(t) : u[i + 3] = t[i]
    BY <2>1, <2>2
  <2>4. s \o t = u
    BY <1>1, <2>1, <2>2, <2>3, ThreeMore
  <2> QED
    BY <2>4 DEF s, t, u
<1>3. s \o <<"CREG_AUTO", "COPS">> = <<"AT", "CPIN", "CSQ", "CREG_AUTO", "COPS">>
  <2> DEFINE t == <<"CREG_AUTO", "COPS">>
             u == <<"AT", "CPIN", "CSQ", "CREG_AUTO", "COPS">>
  <2>1. t \in Seq(Commands) /\ u \in Seq(Commands) /\ Len(t) = 2 /\ Len(u) = 5
    BY DEF Commands, Queries
  <2>2. (\A i \in 1 .. 3 : u[i] = s[i]) /\ \A i \in 1 .. 2 : u[i + 3] = t[i]
    OBVIOUS
  <2> HIDE DEF s, t, u
  <2>3. Len(u) = 3 + Len(t) /\ \A i \in 1 .. Len(t) : u[i + 3] = t[i]
    BY <2>1, <2>2
  <2>4. s \o t = u
    BY <1>1, <2>1, <2>2, <2>3, ThreeMore
  <2> QED
    BY <2>4 DEF s, t, u
<1>4. s \o <<"CEREG", "AT", "COPS", "SICA", "CGPADDR3", "CGPADDR2">>
        = <<"AT", "CPIN", "CSQ", "CEREG", "AT", "COPS", "SICA", "CGPADDR3", "CGPADDR2">>
  <2> DEFINE t == <<"CEREG", "AT", "COPS", "SICA", "CGPADDR3", "CGPADDR2">>
             u == <<"AT", "CPIN", "CSQ", "CEREG", "AT", "COPS", "SICA", "CGPADDR3", "CGPADDR2">>
  <2>1. t \in Seq(Commands) /\ u \in Seq(Commands) /\ Len(t) = 6 /\ Len(u) = 9
    BY DEF Commands, Queries
  <2>2. (\A i \in 1 .. 3 : u[i] = s[i]) /\ \A i \in 1 .. 6 : u[i + 3] = t[i]
    OBVIOUS
  <2> HIDE DEF s, t, u
  <2>3. Len(u) = 3 + Len(t) /\ \A i \in 1 .. Len(t) : u[i + 3] = t[i]
    BY <2>1, <2>2
  <2>4. s \o t = u
    BY <1>1, <2>1, <2>2, <2>3, ThreeMore
  <2> QED
    BY <2>4 DEF s, t, u
<1> QED
  BY <1>2, <1>3, <1>4

LEMMA AtInitially == ASSUME SameTypes, Init PROVE AtInv
<1>1. /\ atState = "STARTUP" /\ idx = 1 /\ try = 0 /\ atErrno = "OK" /\ apnCnt = 0 /\ armed = FALSE /\ buf = <<>>
      /\ sync = "none" /\ wire = <<>> /\ tty = <<>> /\ earned = {} /\ list = StaticList(setup.family)
  BY DEF Init
<1>2. IsSetup(setup)
  BY DEF Init, IsSetup
<1>3. IsList(list)
  <2>1. setup.family \in {"LUA10", "U8300", "PLS8", "EC25", "ELS31"}
    BY <1>2, AtConstantsOK DEF IsSetup
  <2>2. CASE setup.family \in {"LUA10", "U8300", "PLS8"}
    <3>1. list = <<"AT", "CPIN", "CSQ", "CEREG", "CREG", "COPS">>
      <4>1. list = <<"AT", "CPIN", "CSQ">> \o <<"CEREG", "CREG", "COPS">>
        BY <1>1, <2>2 DEF StaticList
      <4> QED
        BY <4>1, ListsAre
    <3>2. "CEREG" \in {"AT"} \cup Queries
      BY DEF Queries
    <3> QED
      BY <2>2, <3>1, <3>2 DEF IsList
  <2>3. CASE setup.family = "EC25"
    <3>1. list = <<"AT", "CPIN", "CSQ", "CREG_AUTO", "COPS">>
      <4>1. list = <<"AT", "CPIN", "CSQ">> \o <<"CREG_AUTO", "COPS">>
        BY <1>1, <2>3 DEF StaticList
      <4> QED
        BY <4>1, ListsAre
    <3> QED
      BY <2>3, <3>1 DEF IsList
  <2>4. CASE setup.family = "ELS31"
    <3>1. list = <<"AT", "CPIN", "CSQ", "CEREG", "AT", "COPS", "SICA", "CGPADDR3", "CGPADDR2">>
      <4>1. list = <<"AT", "CPIN", "CSQ">> \o <<"CEREG", "AT", "COPS", "SICA", "CGPADDR3", "CGPADDR2">>
        BY <1>1, <2>4 DEF StaticList
      <4> QED
        BY <4>1, ListsAre
    <3> QED
      BY <2>4, <3>1 DEF IsList
  <2> QED
    BY <2>1, <2>2, <2>3, <2>4
<1>4. AtDaemonTypes
  <2>1. Len(list) \in {5, 6, 9}
    BY <1>2, <1>3, ListFacts
  <2>2. 1 \in 1 .. (Len(list) + 1) /\ 0 \in 0 .. (MaxRetry + 1) /\ 0 \in 0 .. ApnRetry
    BY <2>1, AtConstantsOK
  <2> QED
    BY <1>1, <1>2, <1>3, <2>2, NothingIsText DEF AtDaemonTypes
<1>5. modem \in [card : Cards, pins : 1..3, reg : Networks, changes : {0}]
  BY DEF Init
<1>6. AtModemTypes
  <2>1. modem \in [card : Stored, pins : 0..3, reg : Networks, changes : 0..MaxChanges]
    BY <1>5, AtConstantsOK
  <2>2. modem.pins > 0
    BY <1>5
  <2>3. wire \in Seq(Writable) /\ Len(wire) <= MaxWire /\ Len(tty) <= MaxTty
    BY <1>1, NothingIsText, AtConstantsOK
  <2> QED
    BY <1>1, <2>1, <2>2, <2>3, NothingIsText DEF AtModemTypes
<1>7. TextsAreTrue
  BY <1>1 DEF TextsAreTrue
<1>8. SyncIsTrue /\ TryFails /\ PassInv
  BY <1>1, ChainIs DEF SyncIsTrue, TryFails, PassInv, Behind
<1>9. Prompt
  BY <1>1, HasNothing, NothingIsText DEF Prompt, OneCommand, Lined, PinAnswered, QueryAnswered
<1>10. PinInv
  <2>1. modem.card # "PUK" /\ modem.pins > 0
    BY <1>5, AtConstantsOK
  <2> QED
    BY <1>1, <2>1, NothingIsText DEF PinInv, PinIsSpared
<1> QED
  BY <1>4, <1>6, <1>7, <1>8, <1>9, <1>10 DEF AtInv

LEMMA AtStutters == ASSUME AtInv, UNCHANGED vars PROVE AtInv'
<1>1. UNCHANGED <<setup, atState, list, idx, try, atErrno, apnCnt, armed, buf, sync, wire, tty, modem, earned>>
  BY DEF vars, atDaemon
<1>2. AtDaemonTypes' /\ AtModemTypes'
  BY <1>1 DEF AtInv, AtDaemonTypes, AtModemTypes, IsSetup, IsList
<1>3. TextsAreTrue' /\ SyncIsTrue' /\ TryFails'
  BY <1>1 DEF AtInv, TextsAreTrue, SyncIsTrue, SimShown, TryFails
<1>4. PassInv' /\ PinInv'
  BY <1>1 DEF AtInv, PassInv, PinInv, Behind, SimEarned, SimShown, RegEarned, HasSlots, Asks, NetworkType, PinIsSpared
<1>5. Prompt'
  BY <1>1 DEF AtInv, Prompt, OneCommand, Lined, PinAnswered, QueryAnswered, SimShown, Written, AutoQueries, NetworkType
<1> QED
  BY <1>2, <1>3, <1>4, <1>5 DEF AtInv

LEMMA AtInvIsCareful == AtInv => ListIsCareful
<1> SUFFICES ASSUME AtInv PROVE ListIsCareful
  OBVIOUS
<1>1. AtTypeOK
  <2>1. list \in Seq({"AT", "CPIN", "CSQ", "CREG_AUTO", "COPS", "SICA", "CGPADDR2", "CGPADDR3"} \cup Queries)
    BY ListFacts DEF AtInv, AtDaemonTypes, Commands
  <2> QED
    BY <2>1 DEF AtInv, AtDaemonTypes, AtModemTypes, AtTypeOK
<1>2. DialIsEarned
  <2> SUFFICES ASSUME atState = "DIAL"
               PROVE  /\ "signal" \in earned
                      /\ "sim" \in earned \/ modem.card = "NETSUB" \/ (setup.slow /\ modem.card \in {"PIN", "PUK"})
                      /\ \/ "reg" \in earned
                         \/ setup.family = "EC25" /\ ("mute" \in earned \/ setup.slow)
                         \/ setup.family = "ELS31"
    BY DEF DialIsEarned
  <2>1. Behind(2) /\ Behind(3) /\ Behind(4) /\ Behind(5)
    BY DEF Behind
  <2>2. setup.family \in {"EC25", "ELS31"} \/ HasSlots
    BY AtConstantsOK DEF AtInv, AtDaemonTypes, IsSetup, HasSlots
  <2> QED
    BY <2>1, <2>2 DEF AtInv, PassInv, SimEarned, SimShown, RegEarned
<1>3. setup.slow \/ PinIsSpared
  BY DEF AtInv, PinInv
<1> QED
  BY <1>1, <1>2, <1>3 DEF ListIsCareful

\* A dial begins only after the modem has shown, in this pass, a card, a signal
\* and a registration it may use, and an unsuitable PIN never locks the card of a
\* modem that answers in time (gl_at_lists, redial_at_callback() and
\* check_modem_sim()): for every family of modems, every length of the line and
\* every number of tries, where both SIM cards have the same network type.
THEOREM ListAlwaysCareful == ASSUME SameTypes PROVE Spec => []ListIsCareful
<1>1. Init => AtInv
  BY AtInitially
<1>2. ASSUME AtInv, [Next]_vars PROVE AtInv'
  <2>1. CASE StartOver \/ SwitchSim \/ RedialAt \/ BreakOff
    BY <1>2, <2>1, LeavingSteps
  <2>2. CASE ReadyPort
    BY <1>2, <2>2, ReadyPortKeeps
  <2>3. CASE Send
    BY <1>2, <2>3, SendKeeps
  <2>4. CASE GiveUp
    BY <1>2, <2>4, GiveUpKeeps
  <2>5. CASE ListDone
    BY <1>2, <2>5, ListDoneKeeps
  <2>6. ASSUME NEW k \in 1 .. MaxTty, ReadTty(k) PROVE AtInv'
    BY <1>2, <2>6, ReadTtyKeeps
  <2>7. ASSUME NEW k \in 1 .. MaxTty, SyncAnswer(k) PROVE AtInv'
    BY <1>2, <2>7, SyncAnswerKeeps
  <2>8. CASE SyncTimeout
    BY <1>2, <2>8, SyncTimeoutKeeps
  <2>9. CASE Execute
    BY <1>2, <2>9, ExecuteKeeps
  <2>10. CASE Mute
    BY <1>2, <2>10, MuteKeeps
  <2>11. ASSUME NEW r \in Networks, Register(r) PROVE AtInv'
    BY <1>2, <2>11, RegisterKeeps
  <2>12. CASE UNCHANGED vars
    BY <1>2, <2>12, AtStutters
  <2> QED
    BY <1>2, <2>1, <2>2, <2>3, <2>4, <2>5, <2>6, <2>7, <2>8, <2>9, <2>10, <2>11, <2>12 DEF Next
<1>3. AtInv => ListIsCareful
  BY AtInvIsCareful
<1> QED
  BY <1>1, <1>2, <1>3, PTL DEF Spec

-----------------------------------------------------------------------------
(* The scan of the USB listing.                                            *)

Late == {"S", "C", "I", "E", "A"}
UsbLines == [letter : Late \cup {"", "T", "B", "D", "P"}, fam : UsbFamilies \cup {"none"}]

\* What is left to read of a block of family f, from its end to its beginning.
Quiet(l)    == \A i \in 1 .. Len(l) : l[i].letter \in Late
AtP(l, f)   == l # <<>> /\ Head(l) = Line("P", f) /\ Quiet(Tail(l))
AtD(l, f)   == l # <<>> /\ Head(l) = Line("D", f) /\ AtP(Tail(l), f)
AtB(l, f)   == l # <<>> /\ Head(l) = Line("B", f) /\ AtD(Tail(l), f)
AtT(l, f)   == l # <<>> /\ Head(l) = Line("T", f)
               /\ IF f = "none" THEN AtB(Tail(l), f) ELSE AtD(Tail(l), f)
AtNew(l, f) == l # <<>> /\ Head(l) = Empty /\ AtT(Tail(l), f)

\* Where the scan is in the block of family f; `attached' is of this block only.
Follows(s, l, f) ==
  \/ AtNew(l, f) /\ ~s.attached
  \/ AtT(l, f) /\ s.st = "T" /\ ~s.attached
  \/ AtB(l, f) /\ s.st = "B" /\ ~s.attached /\ f = "none"
  \/ AtD(l, f) /\ s.st = (IF f = "none" THEN "D" ELSE "B") /\ ~s.attached
  \/ AtP(l, f) /\ s.st = "P" /\ s.attached = (f # "none")
  \/ Quiet(l) /\ f \notin Whitelist /\ ~s.attached

ScanShape(s) ==
  /\ s = [st |-> s.st, attached |-> s.attached, cnt |-> s.cnt, id |-> s.id, done |-> s.done]
  /\ s.attached \in BOOLEAN /\ s.done \in BOOLEAN

\* Of the devices listed before the one that is being read, none is a modem.
Reading(s, l, b, all, f) ==
  /\ s.cnt = IF s.attached THEN 1 ELSE 0
  /\ Follows(s, l, f)
  /\ all \cap Whitelist = ({f} \cup FamiliesOn(b)) \cap Whitelist

UsbInv ==
  /\ listing \in Seq(UsbLines) /\ bus \in Seq(OnBus) /\ ScanShape(scan)
  /\ ~scan.done => \E f \in UsbFamilies \cup {"none"} : Reading(scan, listing, bus, plugged, f)
  /\ ModemIsFound

LEMMA LinesFirst ==
  ASSUME NEW l \in Seq(UsbLines), NEW x \in UsbLines
  PROVE  /\ <<x>> \o l # <<>> /\ Head(<<x>> \o l) = x /\ Tail(<<x>> \o l) = l
         /\ <<x>> \o l \in Seq(UsbLines)
  OBVIOUS

LEMMA UsbStarts == UsbInit => UsbInv
<1> SUFFICES ASSUME UsbInit PROVE UsbInv
  OBVIOUS
<1>1. /\ listing = <<>> /\ plugged = FamiliesOn(bus)
      /\ \E n \in 0 .. MaxDevices : bus \in [1 .. n -> OnBus]
      /\ scan = [st |-> "T", attached |-> FALSE, cnt |-> 0, id |-> "none", done |-> FALSE]
  BY DEF UsbInit
<1>2. listing \in Seq(UsbLines) /\ Quiet(listing)
  BY <1>1 DEF Quiet
<1>3. "none" \notin Whitelist
  BY DEF Whitelist
<1>4. bus \in Seq(OnBus)
  BY <1>1, UsbConstantsOK
<1> QED
  BY <1>1, <1>2, <1>3, <1>4 DEF UsbInv, ScanShape, Reading, Follows, ModemIsFound

\* A block as it is written.
LEMMA BlockIsNew ==
  ASSUME NEW w \in OnBus
  PROVE  BlockOf(w) \in Seq(UsbLines) /\ AtNew(BlockOf(w), w.family)
<1> DEFINE e == w.ending
           f == w.family
<1>0. e \in Endings /\ f \in UsbFamilies \cup {"none"}
  BY DEF OnBus
<1> HIDE DEF e, f
<1>1. e \in Seq(Late)
  BY <1>0, UsbConstantsOK DEF Late
<1> DEFINE q == [i \in DOMAIN e |-> Line(e[i], f)]
           L(x) == <<Line(x, f)>>
<1>2. q \in Seq(UsbLines) /\ Quiet(q)
  <2>1. Len(e) \in Nat /\ DOMAIN e = 1 .. Len(e) /\ \A i \in 1 .. Len(e) : e[i] \in Late
    BY <1>1
  <2>2. \A i \in 1 .. Len(e) : Line(e[i], f) \in UsbLines /\ Line(e[i], f).letter \in Late
    BY <2>1, <1>0 DEF Line, UsbLines
  <2>3. q \in [1 .. Len(e) -> UsbLines]
    BY <2>1, <2>2
  <2>4. q \in Seq(UsbLines) /\ Len(q) = Len(e)
    BY <2>1, <2>3
  <2> QED
    BY <2>1, <2>2, <2>4 DEF Quiet
<1> HIDE DEF q
<1>3. \A x \in {"", "T", "B", "D", "P"} : Line(x, f) \in UsbLines
  BY <1>0 DEF Line, UsbLines
<1>4. Empty \in UsbLines
  BY DEF Empty, UsbLines
<1> DEFINE p == L("P") \o q
           d == L("D") \o p
           b == L("B") \o d
           t == L("T") \o (IF f = "none" THEN b ELSE d)
<1>5. p \in Seq(UsbLines) /\ AtP(p, f)
  BY <1>2, <1>3, LinesFirst DEF AtP
<1> HIDE DEF p
<1>6. d \in Seq(UsbLines) /\ AtD(d, f)
  BY <1>5, <1>3, LinesFirst DEF AtD
<1> HIDE DEF d
<1>7. b \in Seq(UsbLines) /\ AtB(b, f)
  BY <1>6, <1>3, LinesFirst DEF AtB
<1> HIDE DEF b
<1>8. t \in Seq(UsbLines) /\ AtT(t, f)
  BY <1>6, <1>7, <1>3, LinesFirst DEF AtT
<1> HIDE DEF t
<1>9. <<Empty>> \o t \in Seq(UsbLines) /\ AtNew(<<Empty>> \o t, f)
  BY <1>8, <1>4, LinesFirst DEF AtNew
<1>10. BlockOf(w) = <<Empty>> \o t
  <2>1. CASE f = "none"
    <3> DEFINE v == <<"T", "B", "D", "P">> \o e
    <3>1. [i \in DOMAIN v |-> Line(v[i], f)] = t
      BY <1>1, <2>1 DEF t, b, d, p, q
    <3>2. BlockOf(w) = Block(v, f)
      BY <2>1 DEF BlockOf, e, f
    <3> QED
      BY <3>1, <3>2 DEF Block
  <2>2. CASE f # "none"
    <3> DEFINE v == <<"T", "D", "P">> \o e
    <3>1. [i \in DOMAIN v |-> Line(v[i], f)] = t
      BY <1>1, <2>2 DEF t, d, p, q
    <3>2. BlockOf(w) = Block(v, f)
      BY <2>2 DEF BlockOf, e, f
    <3> QED
      BY <3>1, <3>2 DEF Block
  <2> QED
    BY <2>1, <2>2
<1> QED
  BY <1>9, <1>10 DEF f

LEMMA ListStep == ASSUME UsbInv, KernelLists PROVE UsbInv'
<1> DEFINE w == Head(bus)
<1>1. /\ listing = <<>> /\ ~scan.done /\ scan' = scan /\ plugged' = plugged
      /\ bus # <<>> /\ bus' = Tail(bus) /\ listing' = BlockOf(w)
  BY DEF KernelLists
<1>2. bus \in Seq(OnBus) /\ w \in OnBus /\ Tail(bus) \in Seq(OnBus)
  BY <1>1 DEF UsbInv
<1>3. /\ plugged \cap Whitelist = FamiliesOn(bus) \cap Whitelist
      /\ ~scan.attached /\ scan.cnt = 0
  <2>1. PICK f \in UsbFamilies \cup {"none"} : Reading(scan, listing, bus, plugged, f)
    BY <1>1 DEF UsbInv
  <2>2. f \notin Whitelist /\ ~scan.attached
    BY <2>1, <1>1 DEF Reading, Follows, AtNew, AtT, AtB, AtD, AtP
  <2> QED
    BY <2>1, <2>2 DEF Reading
<1> DEFINE f == w.family
<1>4. listing' \in Seq(UsbLines) /\ AtNew(listing', f) /\ f \in UsbFamilies \cup {"none"}
  BY <1>1, <1>2, BlockIsNew DEF OnBus
<1>5. plugged \cap Whitelist = ({f} \cup FamiliesOn(Tail(bus))) \cap Whitelist
  <2>1. "none" \notin Whitelist
    BY DEF Whitelist
  <2>2. FamiliesOn(bus) \cup {"none"} = {f} \cup FamiliesOn(Tail(bus)) \cup {"none"}
    <3>1. /\ Len(bus) \in Nat \ {0} /\ DOMAIN bus = 1 .. Len(bus) /\ w = bus[1]
          /\ DOMAIN Tail(bus) = 1 .. (Len(bus) - 1)
          /\ \A i \in 1 .. (Len(bus) - 1) : Tail(bus)[i] = bus[i + 1]
      BY <1>1, <1>2
    <3>2. \A i \in DOMAIN bus : i = 1 \/ (i - 1 \in DOMAIN Tail(bus) /\ Tail(bus)[i - 1] = bus[i])
      BY <3>1
    <3>3. \A i \in DOMAIN Tail(bus) : i + 1 \in DOMAIN bus /\ Tail(bus)[i] = bus[i + 1]
      BY <3>1
    <3>4. 1 \in DOMAIN bus
      BY <3>1
    <3>5. FamiliesOn(bus) \subseteq {f} \cup FamiliesOn(Tail(bus)) \cup {"none"}
      BY <3>1, <3>2 DEF FamiliesOn
    <3>6. {f} \cup FamiliesOn(Tail(bus)) \subseteq FamiliesOn(bus) \cup {"none"}
      BY <3>1, <3>3, <3>4 DEF FamiliesOn
    <3> QED
      BY <3>5, <3>6
  <2> HIDE DEF f
  <2> QED
    BY <2>1, <2>2, <1>3
<1> HIDE DEF f
<1>6. Reading(scan', listing', bus', plugged', f)
  BY <1>1, <1>3, <1>4, <1>5 DEF Reading, Follows
<1>7. ScanShape(scan') /\ ~scan'.done
  BY <1>1 DEF UsbInv
<1> QED
  BY <1>1, <1>2, <1>4, <1>6, <1>7 DEF UsbInv, ModemIsFound

\* The first lines of a block are those expected.
LEMMA LineExpected ==
  /\ Expected("T", "T") = "T" /\ Expected("B", "B") = "B" /\ Expected("D", "D") = "D"
  /\ Expected("B", "D") = "D" /\ Expected("P", "P") = "P"
  /\ \A y, x : Expected(y, x) \in {y, x}
BY DEF Expected

LEMMA HeadIs ==
  ASSUME NEW h, NEW x, NEW f, h = Line(x, f)
  PROVE  /\ h.letter = x /\ h.fam = f
         /\ x # "" => h # Empty
  BY DEF Line, Empty

\* A line that is expected, but for the D line that tells a device.
LEMMA ReadMatched ==
  ASSUME NEW s, NEW h, h # Empty, Expected(s.st, h.letter) = h.letter,
         ~(s.st = "B" /\ h.letter = "D")
  PROVE  LET t == [s EXCEPT !.st = After[h.letter]]
         IN  /\ h.letter = "T" => Read(s, h) = [t EXCEPT !.attached = FALSE]
             /\ h.letter = "P" => Read(s, h) = StoreId(t, h.fam)
             /\ h.letter \notin {"T", "P"} => Read(s, h) = t
<1> DEFINE t == [s EXCEPT !.st = After[h.letter]]
<1> HIDE DEF t
<1>1. (IF s.st = "B" /\ h.letter = "D"
       THEN [s EXCEPT !.attached = TRUE, !.cnt = @ + 1] ELSE s) = s
  OBVIOUS
<1>2. Read(s, h) = CASE h.letter = "T" -> [t EXCEPT !.attached = FALSE]
                     [] h.letter = "P" -> StoreId(t, h.fam)
                     [] OTHER -> t
  BY <1>1 DEF Read, t
<1>3. /\ h.letter = "T" => Read(s, h) = [t EXCEPT !.attached = FALSE]
      /\ h.letter = "P" => Read(s, h) = StoreId(t, h.fam)
      /\ h.letter \notin {"T", "P"} => Read(s, h) = t
  BY <1>2
<1> QED
  BY <1>3 DEF t

LEMMA ReadDevice ==
  ASSUME NEW s, NEW h, h # Empty, s.st = "B", h.letter = "D"
  PROVE  Read(s, h) = [[s EXCEPT !.attached = TRUE, !.cnt = @ + 1] EXCEPT !.st = After["D"]]
<1> DEFINE u == [s EXCEPT !.attached = TRUE, !.cnt = @ + 1]
<1> HIDE DEF u
<1>1. (IF s.st = "B" /\ h.letter = "D" THEN u ELSE s) = u
  OBVIOUS
<1>2. Expected(s.st, h.letter) = "D"
  BY LineExpected
<1>3. Read(s, h) = [u EXCEPT !.st = After["D"]]
  BY <1>1, <1>2 DEF Read, u
<1> QED
  BY <1>3 DEF u

LEMMA AfterIs ==
  /\ After["T"] = "B" /\ After["B"] = "D" /\ After["D"] = "P" /\ After["P"] = "S"
BY DEF After

\* What the lines before the S line do.
LEMMA ReadIs ==
  ASSUME NEW s, NEW h, h # Empty
  PROVE  /\ h.letter = "T" /\ s.st = "T" => Read(s, h) = [[s EXCEPT !.st = "B"] EXCEPT !.attached = FALSE]
         /\ h.letter = "B" /\ s.st = "B" => Read(s, h) = [s EXCEPT !.st = "D"]
         /\ h.letter = "D" /\ s.st = "D" => Read(s, h) = [s EXCEPT !.st = "P"]
         /\ h.letter = "D" /\ s.st = "B" =>
              Read(s, h) = [[s EXCEPT !.attached = TRUE, !.cnt = @ + 1] EXCEPT !.st = "P"]
         /\ h.letter = "P" /\ s.st = "P" => Read(s, h) = StoreId([s EXCEPT !.st = "S"], h.fam)
<1>1. ASSUME h.letter = "T", s.st = "T"
      PROVE  Read(s, h) = [[s EXCEPT !.st = "B"] EXCEPT !.attached = FALSE]
  <2>1. Expected(s.st, h.letter) = h.letter /\ ~(s.st = "B" /\ h.letter = "D")
    BY <1>1, LineExpected
  <2>2. Read(s, h) = [[s EXCEPT !.st = After[h.letter]] EXCEPT !.attached = FALSE]
    BY <1>1, <2>1, ReadMatched
  <2> QED
    BY <1>1, <2>2, AfterIs
<1>2. ASSUME h.letter = "B", s.st = "B" PROVE Read(s, h) = [s EXCEPT !.st = "D"]
  <2>1. Expected(s.st, h.letter) = h.letter /\ ~(s.st = "B" /\ h.letter = "D")
    BY <1>2, LineExpected
  <2>2. Read(s, h) = [s EXCEPT !.st = After[h.letter]]
    BY <1>2, <2>1, ReadMatched
  <2> QED
    BY <1>2, <2>2, AfterIs
<1>3. ASSUME h.letter = "D", s.st = "D" PROVE Read(s, h) = [s EXCEPT !.st = "P"]
  <2>1. Expected(s.st, h.letter) = h.letter /\ ~(s.st = "B" /\ h.letter = "D")
    BY <1>3, LineExpected
  <2>2. Read(s, h) = [s EXCEPT !.st = After[h.letter]]
    BY <1>3, <2>1, ReadMatched
  <2> QED
    BY <1>3, <2>2, AfterIs
<1>4. ASSUME h.letter = "D", s.st = "B"
      PROVE  Read(s, h) = [[s EXCEPT !.attached = TRUE, !.cnt = @ + 1] EXCEPT !.st = "P"]
  <2>1. Read(s, h) = [[s EXCEPT !.attached = TRUE, !.cnt = @ + 1] EXCEPT !.st = After["D"]]
    BY <1>4, ReadDevice
  <2> QED
    BY <2>1, AfterIs
<1>5. ASSUME h.letter = "P", s.st = "P" PROVE Read(s, h) = StoreId([s EXCEPT !.st = "S"], h.fam)
  <2>1. Expected(s.st, h.letter) = h.letter /\ ~(s.st = "B" /\ h.letter = "D")
    BY <1>5, LineExpected
  <2>2. Read(s, h) = StoreId([s EXCEPT !.st = After[h.letter]], h.fam)
    BY <1>5, <2>1, ReadMatched
  <2> QED
    BY <1>5, <2>2, AfterIs
<1> QED
  BY <1>1, <1>2, <1>3, <1>4, <1>5

\* .. and the lines after the P line.
LEMMA ReadLate ==
  ASSUME NEW s, NEW h, h.letter \in Late
  PROVE  \E y : Read(s, h) = [s EXCEPT !.st = y]
<1>1. h # Empty /\ h.letter \notin {"D", "T", "P"}
  <2>1. Empty.letter = ""
    BY DEF Empty
  <2>2. h.letter # "" /\ h.letter \notin {"D", "T", "P"}
    BY DEF Late
  <2> QED
    BY <2>1, <2>2
<1>2. CASE Expected(s.st, h.letter) = h.letter
  <2>1. Read(s, h) = [s EXCEPT !.st = After[h.letter]]
    BY <1>1, <1>2, ReadMatched
  <2> QED
    BY <2>1
<1>3. CASE Expected(s.st, h.letter) # h.letter
  <2>1. Read(s, h) = [s EXCEPT !.st = Expected(s.st, h.letter)]
    BY <1>1, <1>3 DEF Read
  <2> QED
    BY <2>1
<1> QED
  BY <1>2, <1>3

\* One line.
LEMMA UsbLineRead ==
  ASSUME NEW s, NEW l \in Seq(UsbLines), l # <<>>, NEW f \in UsbFamilies \cup {"none"},
         NEW here, NEW b, ScanShape(s), ~s.done, Reading(s, l, b, here, f)
  PROVE  LET r == Read(s, Head(l))
         IN  /\ ScanShape(r)
             /\ ~r.done => Reading(r, Tail(l), b, here, f)
             /\ r.done  => r.cnt = 1 /\ r.id = f /\ f \in Whitelist
<1> DEFINE r == Read(s, Head(l))
<1>1. /\ Follows(s, l, f) /\ s.cnt = (IF s.attached THEN 1 ELSE 0)
      /\ here \cap Whitelist = ({f} \cup FamiliesOn(b)) \cap Whitelist
  BY DEF Reading
<1>2. CASE AtNew(l, f) /\ ~s.attached
  <2>1. r = [s EXCEPT !.st = "T"] /\ AtT(Tail(l), f)
    BY <1>2 DEF Read, AtNew
  <2>2. r.st = "T" /\ r.attached = s.attached /\ r.cnt = s.cnt /\ r.done = s.done /\ ScanShape(r)
    BY <2>1 DEF ScanShape
  <2> QED
    BY <2>1, <2>2, <1>1, <1>2 DEF Reading, Follows
<1>3. CASE AtT(l, f) /\ s.st = "T" /\ ~s.attached
  <2>1. Head(l) # Empty /\ Head(l).letter = "T"
    BY <1>3, HeadIs DEF AtT
  <2>2. r = [[s EXCEPT !.st = "B"] EXCEPT !.attached = FALSE]
    BY <2>1, <1>3, ReadIs
  <2>3. r.st = "B" /\ r.attached = FALSE /\ r.cnt = s.cnt /\ r.done = s.done /\ ScanShape(r)
    BY <2>2 DEF ScanShape
  <2>4. IF f = "none" THEN AtB(Tail(l), f) ELSE AtD(Tail(l), f)
    BY <1>3 DEF AtT
  <2> QED
    BY <2>3, <2>4, <1>1, <1>3 DEF Reading, Follows
<1>4. CASE AtB(l, f) /\ s.st = "B" /\ ~s.attached /\ f = "none"
  <2>1. Head(l) # Empty /\ Head(l).letter = "B"
    BY <1>4, HeadIs DEF AtB
  <2>2. r = [s EXCEPT !.st = "D"]
    BY <2>1, <1>4, ReadIs
  <2>3. r.st = "D" /\ r.attached = s.attached /\ r.cnt = s.cnt /\ r.done = s.done /\ ScanShape(r)
    BY <2>2 DEF ScanShape
  <2>4. AtD(Tail(l), f)
    BY <1>4 DEF AtB
  <2> QED
    BY <2>3, <2>4, <1>1, <1>4 DEF Reading, Follows
<1>5. CASE AtD(l, f) /\ s.st = (IF f = "none" THEN "D" ELSE "B") /\ ~s.attached
  <2>1. Head(l) # Empty /\ Head(l).letter = "D" /\ AtP(Tail(l), f)
    BY <1>5, HeadIs DEF AtD
  <2>2. CASE f = "none"
    <3>1. r = [s EXCEPT !.st = "P"]
      BY <2>1, <2>2, <1>5, ReadIs
    <3>2. r.st = "P" /\ r.attached = s.attached /\ r.cnt = s.cnt /\ r.done = s.done /\ ScanShape(r)
      BY <3>1 DEF ScanShape
    <3>3. r.attached = FALSE /\ r.cnt = 0
      BY <3>2, <1>1, <1>5 DEF ScanShape
    <3> QED
      BY <2>1, <2>2, <3>2, <3>3, <1>1 DEF Reading, Follows, ScanShape
  <2>3. CASE f # "none"
    <3>1. r = [[s EXCEPT !.attached = TRUE, !.cnt = @ + 1] EXCEPT !.st = "P"]
      BY <2>1, <2>3, <1>5, ReadIs
    <3>2. /\ r.st = "P" /\ r.attached = TRUE /\ r.cnt = s.cnt + 1 /\ r.done = s.done
          /\ ScanShape(r)
      BY <3>1 DEF ScanShape
    <3>3. r.cnt = 1
      BY <3>2, <1>1, <1>5
    <3> QED
      BY <2>1, <2>3, <3>2, <3>3, <1>1 DEF Reading, Follows
  <2> QED
    BY <2>2, <2>3
<1>6. CASE AtP(l, f) /\ s.st = "P" /\ s.attached = (f # "none")
  <2>1. /\ Head(l) # Empty /\ Head(l).letter = "P" /\ Head(l).fam = f
        /\ Quiet(Tail(l))
    <3>1. AtP(l, f)
      BY <1>6
    <3>2. Head(l) = Line("P", f) /\ Quiet(Tail(l))
      BY <3>1 DEF AtP
    <3> QED
      BY <3>2, HeadIs
  <2>2. r = StoreId([s EXCEPT !.st = "S"], f)
    BY <2>1, <1>6, ReadIs
  <2>3. "none" \notin Whitelist
    BY DEF Whitelist
  <2>4. CASE f = "none"
    <3>1. r = [s EXCEPT !.st = "S"]
      BY <2>2, <2>4, <1>6 DEF StoreId, ScanShape
    <3>2. r.attached = s.attached /\ r.cnt = s.cnt /\ r.done = s.done /\ ScanShape(r)
      BY <3>1 DEF ScanShape
    <3> QED
      BY <2>1, <2>3, <2>4, <3>2, <1>1, <1>6 DEF Reading, Follows
  <2>5. CASE f # "none" /\ f \in Whitelist
    <3>1. r = [[s EXCEPT !.st = "S"] EXCEPT !.cnt = 1, !.id = f, !.done = TRUE]
      BY <2>2, <2>5, <1>6 DEF StoreId, ScanShape
    <3>2. r.cnt = 1 /\ r.id = f /\ r.done = TRUE /\ ScanShape(r)
      BY <3>1 DEF ScanShape
    <3> QED
      BY <2>5, <3>2
  <2>6. CASE f # "none" /\ f \notin Whitelist
    <3>1. r = [[s EXCEPT !.st = "S"] EXCEPT !.attached = FALSE, !.cnt = 0]
      BY <2>2, <2>6, <1>6 DEF StoreId, ScanShape
    <3>2. r.attached = FALSE /\ r.cnt = 0 /\ r.done = s.done /\ ScanShape(r)
      BY <3>1 DEF ScanShape
    <3> QED
      BY <2>1, <2>6, <3>2, <1>1 DEF Reading, Follows
  <2> QED
    BY <2>4, <2>5, <2>6
<1>7. CASE Quiet(l) /\ f \notin Whitelist /\ ~s.attached
  <2>1. /\ Head(l).letter \in Late /\ Quiet(Tail(l))
    <3>1. Len(l) \in Nat \ {0} /\ Head(l) = l[1] /\ Len(Tail(l)) = Len(l) - 1
          /\ \A i \in 1 .. Len(Tail(l)) : Tail(l)[i] = l[i + 1]
      OBVIOUS
    <3> QED
      BY <3>1, <1>7 DEF Quiet
  <2>2. \E y : r = [s EXCEPT !.st = y]
    BY <2>1, ReadLate
  <2>3. r.attached = s.attached /\ r.cnt = s.cnt /\ r.done = s.done /\ ScanShape(r)
    BY <2>2 DEF ScanShape
  <2> QED
    BY <2>1, <2>3, <1>1, <1>7 DEF Reading, Follows
<1> QED
  BY <1>1, <1>2, <1>3, <1>4, <1>5, <1>6, <1>7 DEF Follows

LEMMA ScanStep == ASSUME UsbInv, UsbGetDeviceInfo PROVE UsbInv'
<1>1. /\ ~scan.done /\ plugged' = plugged /\ bus' = bus /\ (listing = <<>> => bus = <<>>)
      /\ IF listing = <<>> THEN scan' = [scan EXCEPT !.done = TRUE] /\ UNCHANGED listing
         ELSE scan' = Read(scan, Head(listing)) /\ listing' = Tail(listing)
  BY DEF UsbGetDeviceInfo
<1>2. listing \in Seq(UsbLines) /\ bus \in Seq(OnBus) /\ ScanShape(scan)
  BY DEF UsbInv
<1>3. PICK f \in UsbFamilies \cup {"none"} : Reading(scan, listing, bus, plugged, f)
  BY <1>1 DEF UsbInv
<1>4. CASE listing = <<>>
  <2>1. plugged \cap Whitelist = {} /\ scan.cnt = 0
    <3>1. FamiliesOn(bus) = {}
      BY <1>1, <1>4 DEF FamiliesOn
    <3> QED
      BY <3>1, <1>3, <1>4 DEF Reading, Follows, AtNew, AtT, AtB, AtD, AtP
  <2>2. scan'.done = TRUE /\ scan'.cnt = scan.cnt /\ ScanShape(scan')
    BY <1>1, <1>2, <1>4 DEF ScanShape
  <2>3. ModemIsFound'
    BY <2>1, <2>2, <1>1 DEF ModemIsFound
  <2> QED
    BY <2>2, <2>3, <1>1, <1>2, <1>4 DEF UsbInv
<1>5. CASE listing # <<>>
  <2>1. /\ ScanShape(scan') /\ (~scan'.done => Reading(scan', listing', bus', plugged', f))
        /\ scan'.done => scan'.cnt = 1 /\ scan'.id = f /\ f \in Whitelist
    BY <1>1, <1>2, <1>3, <1>5, UsbLineRead
  <2>2. listing' \in Seq(UsbLines)
    BY <1>1, <1>2, <1>5
  <2>3. f \in Whitelist => f \in plugged \cap Whitelist
    BY <1>3 DEF Reading
  <2>4. ModemIsFound'
    BY <2>1, <2>3, <1>1 DEF ModemIsFound
  <2>5. ~scan'.done => Reading(scan', listing', bus', plugged', f)
    BY <2>1, <1>1 DEF Reading
  <2> QED
    BY <2>1, <2>2, <2>4, <2>5, <1>1, <1>2 DEF UsbInv
<1> QED
  BY <1>4, <1>5

\* The scan finds a modem, and stores its id, if and only if one is plugged in, for
\* any number of devices of any kind in any order, and any lines after their P line.
THEOREM ModemAlwaysFound == UsbSpec => []ModemIsFound
<1>1. UsbInit => UsbInv
  BY UsbStarts
<1>2. UsbInv /\ [UsbNext]_usbVars => UsbInv'
  <2>1. UsbInv /\ UNCHANGED usbVars => UsbInv'
    BY DEF UsbInv, usbVars, Reading, ModemIsFound
  <2> QED
    BY <2>1, ListStep, ScanStep DEF UsbNext
<1>3. UsbInv => ModemIsFound
  BY DEF UsbInv
<1> QED
  BY <1>1, <1>2, <1>3, PTL DEF UsbSpec
=============================================================================
