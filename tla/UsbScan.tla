-------------------------------- MODULE UsbScan --------------------------------
(***************************************************************************)
(* usb_get_device_info() (modem.c): the scan of /proc/bus/usb/devices for  *)
(* the modem, line by line.  The kernel lists one block of lines for each  *)
(* device; a line begins with a letter, and blocks are set apart by empty  *)
(* lines.  Only a root hub has a B line.                                   *)
(***************************************************************************)
EXTENDS Naturals, Sequences

CONSTANTS
  UsbFamilies,  \* what may be plugged in
  Endings,      \* letters of the lines after a device's P line
  MaxDevices    \* bound: devices in the listing

ASSUME UsbConstantsOK ==
  /\ MaxDevices \in Nat \ {0} /\ "none" \notin UsbFamilies
  /\ \A e \in Endings : e \in Seq({"S", "C", "I", "E", "A"})

\* usb_match_whitelist(): the families it knows the ids of.
Whitelist == {"RM500", "RG500", "RM520N", "RM500U", "EC20", "EC25", "EP06", "PLS8", "FM650",
              "NL668"}

VARIABLES
  bus,      \* the hubs and devices whose block is to come
  listing,  \* what is left to read of the block before them
  plugged,  \* ghost: the families of all devices
  scan      \* proc_state, attached, dev_cnt, and the id that was stored

usbVars == <<bus, listing, plugged, scan>>

Empty == [letter |-> "", fam |-> "none"]
Line(letter, fam) == [letter |-> letter, fam |-> fam]

\* What is on the bus, and its block: an empty line, and the lines of a root hub or
\* of a device.
OnBus == [family : UsbFamilies \cup {"none"}, ending : Endings]
FamiliesOn(b) == {b[i].family : i \in DOMAIN b} \ {"none"}
Block(letters, fam) == <<Empty>> \o [i \in DOMAIN letters |-> Line(letters[i], fam)]
BlockOf(d) ==
  Block((IF d.family = "none" THEN <<"T", "B", "D", "P">> ELSE <<"T", "D", "P">>) \o d.ending,
        d.family)

UsbInit ==
  /\ \E n \in 0 .. MaxDevices : bus \in [1 .. n -> OnBus]
  /\ plugged = FamiliesOn(bus) /\ listing = <<>>
  /\ scan = [st |-> "T", attached |-> FALSE, cnt |-> 0, id |-> "none", done |-> FALSE]

-----------------------------------------------------------------------------
\* The line that may come instead of the one expected: the first D of a block
\* without B is a device.
Expected(st, letter) ==
  IF <<st, letter>> \in {<<"B", "D">>, <<"S", "C">>, <<"E", "I">>, <<"E", "C">>, <<"I", "A">>}
  THEN letter ELSE st

After == [T |-> "B", B |-> "D", D |-> "P", P |-> "S", S |-> "S", C |-> "I", I |-> "E", E |-> "E",
          A |-> "I"]

\* Mutant: the scan ends with the first device that is plugged in.
StoreIdOfFirst(s, fam) ==
  IF ~s.attached THEN s
  ELSE [s EXCEPT !.cnt = IF fam \in Whitelist THEN 1 ELSE 0, !.id = fam, !.done = TRUE]

\* The P line: the scan ends with a modem; any other device is passed over.
StoreId(s, fam) ==
  IF ~s.attached THEN s
  ELSE IF fam \in Whitelist THEN [s EXCEPT !.cnt = 1, !.id = fam, !.done = TRUE]
  ELSE [s EXCEPT !.attached = FALSE, !.cnt = 0]

\* One turn of the loop over the lines.
Read(s, line) ==
  LET st == Expected(s.st, line.letter)
      s1 == IF s.st = "B" /\ line.letter = "D"
            THEN [s EXCEPT !.attached = TRUE, !.cnt = @ + 1] ELSE s
      s2 == [s1 EXCEPT !.st = After[st]]
  IN CASE line = Empty -> [s EXCEPT !.st = "T"]
       [] line # Empty /\ line.letter # st -> [s EXCEPT !.st = st]
       [] line # Empty /\ line.letter = st ->
            CASE st = "T" -> [s2 EXCEPT !.attached = FALSE]
              [] st = "P" -> StoreId(s2, line.fam)
              [] OTHER    -> s2

UsbGetDeviceInfo ==
  /\ ~scan.done /\ (listing = <<>> => bus = <<>>)
  /\ IF listing = <<>> THEN scan' = [scan EXCEPT !.done = TRUE] /\ UNCHANGED listing
     ELSE scan' = Read(scan, Head(listing)) /\ listing' = Tail(listing)
  /\ UNCHANGED <<bus, plugged>>

\* The kernel writes the next block.
KernelLists ==
  /\ ~scan.done /\ listing = <<>> /\ bus # <<>>
  /\ listing' = BlockOf(Head(bus)) /\ bus' = Tail(bus)
  /\ UNCHANGED <<plugged, scan>>

UsbNext == KernelLists \/ UsbGetDeviceInfo

UsbSpec == UsbInit /\ [][UsbNext]_usbVars

-----------------------------------------------------------------------------
\* The scan says that there is a modem, and stores its id, exactly if one of the
\* families it knows is plugged in: among whatever other devices, hubs and
\* kinds of blocks, in any order (modem.c l.790-981).  The router waits for it in
\* WAIT_CONFIG, and loads the driver for this id in LOAD_DRV.
ModemIsFound ==
  scan.done => /\ (scan.cnt > 0) <=> (plugged \cap Whitelist # {})
               /\ scan.cnt > 0 => scan.id \in plugged \cap Whitelist
================================================================================
