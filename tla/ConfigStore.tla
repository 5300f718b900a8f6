----------------------------- MODULE ConfigStore -----------------------------
(***************************************************************************)
(* The startup configuration in flash: save_is_config() writes it to the   *)
(* backup partition and then to the main one, erasing each first, and      *)
(* relocate_is_config() finds a valid copy at boot and repairs the main    *)
(* one from the backup.                                                    *)
(*                                                                         *)
(* One action per erase and per write, so that power may fail between and  *)
(* in the middle of them.  Every flash call may fail, and the code ignores *)
(* what they return.                                                       *)
(***************************************************************************)
EXTENDS Integers

CONSTANTS
  Configs,  \* configurations that may be saved
  Emmc,     \* USE_EMMC: erasing fills with zeros, and writing needs no erase
  Faults    \* TRUE: a flash call may fail, a process may be killed

ASSUME StoreConstantsOK ==
  /\ Emmc \in BOOLEAN /\ Faults \in BOOLEAN
  /\ Configs \cap {"erased", "torn", "empty", "none"} = {}

VARIABLES
  part,     \* what each partition holds
  calls,    \* how many flash calls the running process has left
  image,    \* is_config: what they write
  up,       \* the router is powered and has booted
  running,  \* the configuration it has booted with
  clean,    \* history: no call of the save or repair under way has failed
  failed,   \* history: a call failed or a process was killed since the last
            \* save or repair that was clean
  legal     \* history: what the next boot may load

storeVars == <<part, calls, image, up, running, clean, failed, legal>>

Parts  == {"CONFIG", "BACKUPCONFIG"}
Images == Configs \cup {"erased", "torn"}

\* The calls of save_is_config(), numbered from the last: erase and write the
\* backup (4, 3), erase and write the main partition (2, 1).  A repair at boot
\* consists of the last two.
Op(k) == IF k \in {2, 4} THEN "erase" ELSE "write"
On(k) == IF k > 2 THEN "BACKUPCONFIG" ELSE "CONFIG"
SaveCalls   == 4
RepairCalls == 2

StoreTypeOK ==
  /\ part \in [Parts -> Images]
  /\ calls \in 0 .. SaveCalls
  /\ image \in Images /\ up \in BOOLEAN
  /\ running \in Configs \cup {"empty", "none"}
  /\ clean \in BOOLEAN /\ failed \in BOOLEAN
  /\ legal \subseteq Configs \cup {"empty", "none"}

\* do_relocate_is_config(): what a partition gives, if it is valid.  A NOR
\* partition that is erased has length 0xffffffff; an eMMC one has length 0 and
\* crc 0, which is the CRC of nothing.
Valid(x)    == x \in Configs \/ (Emmc /\ x = "erased")
Contents(x) == IF x = "erased" THEN "empty" ELSE x

\* The router leaves the factory with a configuration in both partitions.
StoreInit ==
  /\ \E c \in Configs :
       /\ part = [p \in Parts |-> c] /\ image = c
       /\ running = c /\ legal = {c}
  /\ calls = 0 /\ up = TRUE /\ clean = TRUE /\ failed = FALSE

-----------------------------------------------------------------------------
\* save_is_config(), also called by restore_backup_config() and
\* specify_factory_config_by_model() with a file they have just written.
Save(c) ==
  /\ up /\ calls = 0
  /\ image' = c /\ calls' = SaveCalls
  /\ legal' = legal \cup {c} /\ clean' = TRUE
  /\ UNCHANGED <<part, up, running, failed>>

\* A write over what is not erased mixes the bits of a NOR flash.
Written(old) == IF old \in {"erased", image} \/ Emmc THEN image ELSE "torn"

After(k) == IF Op(k) = "erase" THEN "erased" ELSE Written(part[On(k)])

\* What a call that fails or is cut short may leave.
Halfway(k) == {part[On(k)], "torn"}

\* The last call of a clean save settles what is saved.
Settle ==
  IF calls = 1 /\ clean
  THEN failed' = FALSE /\ legal' = {Contents(image)}
  ELSE UNCHANGED <<failed, legal>>

FlashCall ==
  /\ up /\ calls # 0
  /\ part' = [part EXCEPT ![On(calls)] = After(calls)]
  /\ calls' = calls - 1
  /\ Settle
  /\ UNCHANGED <<image, up, running, clean>>

\* The result of part_erase() and part_write() is not looked at.
FlashFails ==
  /\ Faults /\ up /\ calls # 0
  /\ \E x \in Halfway(calls) : part' = [part EXCEPT ![On(calls)] = x]
  /\ calls' = calls - 1
  /\ failed' = TRUE /\ clean' = FALSE
  /\ UNCHANGED <<image, up, running, legal>>

\* "if (fd >= 0)": a partition that cannot be opened is passed over.
OpenFails ==
  /\ Faults /\ up /\ calls # 0 /\ Op(calls) = "erase"
  /\ calls' = calls - 2
  /\ failed' = TRUE /\ clean' = FALSE
  /\ UNCHANGED <<part, image, up, running, legal>>

\* The saving process is killed, the router stays up.
Killed ==
  /\ Faults /\ up /\ calls # 0
  /\ calls' = 0 /\ failed' = TRUE /\ clean' = FALSE
  /\ UNCHANGED <<part, image, up, running, legal>>

PowerCut ==
  /\ up
  /\ up' = FALSE /\ calls' = 0
  /\ IF calls = 0 THEN UNCHANGED part
     ELSE \E x \in Halfway(calls) : part' = [part EXCEPT ![On(calls)] = x]
  /\ UNCHANGED <<image, running, clean, failed, legal>>

\* Mutants: the main partition is not repaired; the backup is preferred.
BootWithoutRepair ==
  /\ ~up /\ up' = TRUE /\ calls' = 0
  /\ running' = IF Valid(part["CONFIG"]) THEN Contents(part["CONFIG"])
                ELSE IF Valid(part["BACKUPCONFIG"]) THEN Contents(part["BACKUPCONFIG"])
                ELSE "none"
  /\ legal' = {running'} /\ clean' = TRUE
  /\ UNCHANGED <<part, image, failed>>

BootFromBackup ==
  /\ ~up /\ up' = TRUE /\ calls' = 0
  /\ running' = IF Valid(part["BACKUPCONFIG"]) THEN Contents(part["BACKUPCONFIG"])
                ELSE IF Valid(part["CONFIG"]) THEN Contents(part["CONFIG"])
                ELSE "none"
  /\ legal' = {running'} /\ clean' = TRUE
  /\ UNCHANGED <<part, image, failed>>

\* relocate_is_config(): the main copy if it is valid, or the backup, which then
\* repairs the main one; ERR_OK even when neither is.
Boot ==
  /\ ~up /\ up' = TRUE
  /\ \/ /\ Valid(part["CONFIG"])
        /\ running' = Contents(part["CONFIG"])
        /\ calls' = 0 /\ UNCHANGED image
     \/ /\ ~Valid(part["CONFIG"]) /\ Valid(part["BACKUPCONFIG"])
        /\ running' = Contents(part["BACKUPCONFIG"])
        /\ image' = part["BACKUPCONFIG"] /\ calls' = RepairCalls
     \/ /\ ~Valid(part["CONFIG"]) /\ ~Valid(part["BACKUPCONFIG"])
        /\ running' = "none"
        /\ calls' = 0 /\ UNCHANGED image
  /\ legal' = {running'} /\ clean' = TRUE
  /\ UNCHANGED <<part, failed>>

StoreNext == \/ \E c \in Configs : Save(c)
             \/ FlashCall \/ FlashFails \/ OpenFails \/ Killed
             \/ PowerCut \/ Boot

StoreSpec == StoreInit /\ [][StoreNext]_storeVars

-----------------------------------------------------------------------------
(* Properties.                                                             *)

\* What a boot at this moment would load.
Loadable == IF Valid(part["CONFIG"]) THEN Contents(part["CONFIG"])
            ELSE IF Valid(part["BACKUPCONFIG"]) THEN Contents(part["BACKUPCONFIG"])
            ELSE "none"

\* Power may fail at any moment of any save and of any repair, again and again:
\* a configuration is always left to boot with, unless a flash call failed or
\* the saving process was killed since the last good save (is_config.c
\* l.162-200, l.97-121).
AlwaysBootable == ~failed => Loadable \in Configs

\* The boot loads what was saved last, or what was being saved when the power
\* failed; and once a boot has settled which of the two, the other never comes
\* back (l.90-98).
BootIsSettled == StoreTypeOK /\ (~failed => Loadable \in legal)
=============================================================================
