----------------------------- MODULE HouseProofs -----------------------------
(***************************************************************************)
(* Proofs about what every process of the router uses.  The two locks, for *)
(* any number of processes: file_lock() excludes and its semaphore is neither *)
(* lost nor doubled, whoever dies when; simple_lock() lets in no more than *)
(* its breaks account for.  The configuration of a NOR router, for any set of *)
(* configurations and whatever the moments at which power fails: there is  *)
(* always one to boot with, the one saved last or the one being saved.     *)
(* The settings, for any number of profiles and of commands: what is       *)
(* printed of them and run again by a boot gives them back, but for what   *)
(* AfterReboot() says.                                                     *)
(***************************************************************************)
EXTENDS Settings, Locks, ConfigStore, LoopTheorems, SequenceTheorems, FiniteSetTheorems, TLAPS

-----------------------------------------------------------------------------
(* The locks.                                                              *)

\* Only one process ever creates the semaphore, and while it does nobody can
\* hold it.
OneCreator ==
  /\ inited => made
  /\ \A p \in Procs : at[p] = "creating" => made /\ ~inited
  /\ \A p, q \in Procs : at[p] = "creating" /\ at[q] = "creating" => p = q

\* The value tells whether there is a holder, and what the kernel would give
\* back is exactly what each process holds.
ValueIsTheHolder ==
  /\ ~inited => value = 0 /\ \A p \in Procs : at[p] # "held"
  /\ value \in 0 .. 1
  /\ value = 1 => \A p \in Procs : at[p] # "held"
  /\ inited /\ value = 0 => \E p \in Procs : at[p] = "held"
  /\ \A p \in Procs : undo[p] = IF at[p] = "held" THEN 1 ELSE 0
  /\ \A p, q \in Procs : at[p] = "held" /\ at[q] = "held" => p = q

LooksLeft == \A p \in Procs : at[p] = "trying" => left[p] >= 1

LInv == LocksTypeOK /\ OneCreator /\ ValueIsTheHolder /\ LooksLeft

LEMMA LInvInit == LocksInit => LInv
<1> SUFFICES ASSUME LocksInit PROVE LInv
  OBVIOUS
<1>1. LocksTypeOK
  <2>1. 0 \in 0 .. 1 /\ 0 \in 0 .. Tries /\ 0 \in Nat
    BY LocksConstantsOK
  <2>2. "out" \in Places
    BY DEF Places
  <2> QED BY <2>1, <2>2 DEF LocksInit, LocksTypeOK
<1>2. \A p \in Procs : at[p] = "out"
  BY DEF LocksInit
<1>3. OneCreator /\ ValueIsTheHolder /\ LooksLeft
  BY <1>2 DEF LocksInit, OneCreator, ValueIsTheHolder, LooksLeft
<1> QED BY <1>1, <1>3 DEF LInv

\* The steps of the semaphore.
LEMMA LInvSemaphore ==
  ASSUME LInv, NEW p \in Procs,
         Create(p) \/ SetVal(p) \/ Open(p) \/ Take(p) \/ GiveUp(p) \/ FileUnlock(p)
  PROVE  LInv'
<1> USE LocksConstantsOK
        DEF LInv, LocksTypeOK, OneCreator, ValueIsTheHolder, LooksLeft, Places, Waits,
            MoveTo, semaphore, file
<1>1. CASE Create(p)
  BY <1>1 DEF Create
<1>2. CASE SetVal(p)
  BY <1>2 DEF SetVal
<1>3. CASE Open(p)
  BY <1>3 DEF Open
<1>4. CASE Take(p)
  BY <1>4 DEF Take
<1>5. CASE GiveUp(p)
  BY <1>5 DEF GiveUp
<1>6. CASE FileUnlock(p)
  BY <1>6 DEF FileUnlock
<1> QED BY <1>1, <1>2, <1>3, <1>4, <1>5, <1>6

\* The steps of the lock file leave the semaphore alone.
LEMMA LInvFile ==
  ASSUME LInv, NEW p \in Procs, SimpleLock(p) \/ Try(p) \/ SimpleUnlock(p)
  PROVE  LInv'
<1> USE LocksConstantsOK
        DEF LInv, LocksTypeOK, OneCreator, ValueIsTheHolder, LooksLeft, Places, Waits,
            MoveTo, semaphore, file
<1>1. CASE SimpleLock(p)
  BY <1>1 DEF SimpleLock
<1>2. CASE Try(p)
  <2>1. Cardinality(Procs) \in Nat
    BY FS_CardinalityType
  <2>2. breaks' \in Nat
    BY <1>2, <2>1 DEF Try
  <2>3. at[p] = "trying" /\ left[p] >= 1
    BY <1>2 DEF Try
  <2>4. CASE free
    BY <1>2, <2>2, <2>3, <2>4 DEF Try
  <2>5. CASE ~free /\ left[p] = 1
    BY <1>2, <2>2, <2>3, <2>5 DEF Try
  <2>6. CASE ~free /\ left[p] # 1
    BY <1>2, <2>2, <2>3, <2>6 DEF Try
  <2> QED BY <2>4, <2>5, <2>6
<1>3. CASE SimpleUnlock(p)
  BY <1>3 DEF SimpleUnlock
<1> QED BY <1>1, <1>2, <1>3

\* A death gives back what the process held, and no more.
LEMMA LInvDie ==
  ASSUME LInv, NEW p \in Procs, Die(p)
  PROVE  LInv'
<1>1. CASE at[p] = "held"
  BY <1>1 DEF LInv, LocksTypeOK, OneCreator, ValueIsTheHolder, LooksLeft, Places, Waits,
              MoveTo, file, Die
<1>2. CASE at[p] # "held"
  BY <1>2 DEF LInv, LocksTypeOK, OneCreator, ValueIsTheHolder, LooksLeft, Places, Waits,
              MoveTo, file, Die
<1> QED BY <1>1, <1>2

LEMMA LInvStep == LInv /\ [LocksNext]_lockVars => LInv'
<1> SUFFICES ASSUME LInv, [LocksNext]_lockVars PROVE LInv'
  OBVIOUS
<1>1. CASE UNCHANGED lockVars
  BY <1>1 DEF LInv, LocksTypeOK, OneCreator, ValueIsTheHolder, LooksLeft, lockVars
<1>2. CASE LocksNext
  BY <1>2, LInvSemaphore, LInvFile, LInvDie DEF LocksNext
<1> QED BY <1>1, <1>2

THEOREM LInvHolds == LocksSpec => []LInv
BY LInvInit, LInvStep, PTL DEF LocksSpec

\* The variables keep their types (lock.c, sysv_ipc.c).
THEOREM LocksTyped == LocksSpec => []LocksTypeOK
<1>1. LInv => LocksTypeOK
  BY DEF LInv
<1> QED BY <1>1, LInvHolds, PTL

\* file_lock() excludes, for any set of processes and any deaths among them,
\* that of the creator included.
THEOREM Exclusion == LocksSpec => []FileLockExcludes
<1>1. LInv => FileLockExcludes
  BY DEF LInv, ValueIsTheHolder, FileLockExcludes, Holders
<1> QED BY <1>1, LInvHolds, PTL

\* The semaphore is never lost and never doubled once it is initialised.
THEOREM Conservation == LocksSpec => []SemaphoreIsConserved
<1>1. LInv => SemaphoreIsConserved
  <2> SUFFICES ASSUME LInv, inited PROVE value + Cardinality(Holders) = 1
    BY Zenon DEF SemaphoreIsConserved
  <2>1. CASE value = 1
    <3>1. Holders = {}
      BY <2>1 DEF LInv, ValueIsTheHolder, Holders
    <3> QED BY <2>1, <3>1, FS_EmptySet
  <2>2. CASE value = 0
    <3>1. PICK p \in Procs : at[p] = "held"
      BY <2>2 DEF LInv, ValueIsTheHolder
    <3>2. Holders = {p}
      BY <3>1 DEF LInv, ValueIsTheHolder, Holders
    <3>3. Cardinality({p}) = 1
      BY FS_Singleton
    <3> QED BY <2>2, <3>2, <3>3
  <2>3. value \in 0 .. 1
    BY DEF LInv, ValueIsTheHolder
  <2> QED BY <2>1, <2>2, <2>3
<1> QED BY <1>1, LInvHolds, PTL

-----------------------------------------------------------------------------
(* simple_lock().                                                          *)

\* How the processes inside are counted: one more, one fewer, as before.
LEMMA InsideIsFinite == IsFiniteSet(Inside) /\ Cardinality(Inside) \in Nat
<1>1. Inside \subseteq Procs
  BY DEF Inside
<1> QED BY <1>1, LocksConstantsOK, FS_Subset, FS_CardinalityType

LEMMA InsideGains ==
  ASSUME LocksTypeOK, NEW p \in Procs, at[p] # "in", MoveTo(p, "in")
  PROVE  Cardinality(Inside') = Cardinality(Inside) + 1
<1>1. Inside' = Inside \cup {p} /\ p \notin Inside
  BY DEF Inside, MoveTo, LocksTypeOK
<1> QED BY <1>1, InsideIsFinite, FS_AddElement

LEMMA InsideLoses ==
  ASSUME LocksTypeOK, NEW p \in Procs, NEW place, place # "in", MoveTo(p, place)
  PROVE  Cardinality(Inside') = Cardinality(Inside) - (IF at[p] = "in" THEN 1 ELSE 0)
<1>1. Inside' = Inside \ {p}
  BY DEF Inside, MoveTo, LocksTypeOK
<1>2. CASE at[p] = "in"
  <2>1. p \in Inside
    BY <1>2 DEF Inside
  <2>2. Cardinality(Inside \ {p}) = Cardinality(Inside) - 1
    BY <2>1, InsideIsFinite, FS_RemoveElement
  <2> QED BY <1>1, <1>2, <2>2
<1>3. CASE at[p] # "in"
  <2>1. Inside' = Inside
    BY <1>1, <1>3 DEF Inside
  <2> QED BY <1>3, <2>1, InsideIsFinite
<1> QED BY <1>2, <1>3

LEMMA BreaksStep ==
  ASSUME LInv, BreaksAreBounded, [LocksNext]_lockVars
  PROVE  BreaksAreBounded'
<1> DEFINE Free == IF free THEN 1 ELSE 0
<1>1. /\ LocksTypeOK /\ breaks \in Nat /\ Cardinality(Inside) \in Nat
      /\ Free \in 0 .. 1 /\ Cardinality(Inside) + Free <= 1 + breaks
  BY InsideIsFinite DEF LInv, LocksTypeOK, BreaksAreBounded
<1>2. CASE UNCHANGED lockVars
  BY <1>1, <1>2 DEF lockVars, Inside, BreaksAreBounded
<1>3. ASSUME NEW p \in Procs, NEW place \in Places \ {"in"}, MoveTo(p, place),
             UNCHANGED <<free, breaks>>
      PROVE  BreaksAreBounded'
  <2>1. Cardinality(Inside') <= Cardinality(Inside) /\ Cardinality(Inside') \in Int
    BY <1>1, <1>3, InsideLoses
  <2>2. Cardinality(Inside') + Free' <= Cardinality(Inside) + Free
    BY <1>1, <1>3, <2>1
  <2> QED BY <1>1, <1>3, <2>1, <2>2 DEF BreaksAreBounded
<1>4. ASSUME NEW p \in Procs,
             \/ Create(p) \/ SetVal(p) \/ Open(p) \/ Take(p) \/ GiveUp(p)
             \/ FileUnlock(p) \/ SimpleLock(p) \/ Die(p)
      PROVE  BreaksAreBounded'
  <2>1. UNCHANGED <<free, breaks>>
    BY <1>4 DEF Create, SetVal, Open, Take, GiveUp, FileUnlock, SimpleLock, Die, file
  <2>2. \E place \in Places \ {"in"} : MoveTo(p, place)
    BY <1>4 DEF Create, SetVal, Open, Take, GiveUp, FileUnlock, SimpleLock, Die,
                Places, Waits
  <2> QED BY <1>3, <2>1, <2>2
<1>5. ASSUME NEW p \in Procs, Try(p) PROVE BreaksAreBounded'
  <2>1. CASE free
    <3>1. ~free' /\ breaks' = breaks /\ MoveTo(p, "in") /\ at[p] # "in"
      BY <1>5, <2>1 DEF Try
    <3>2. Cardinality(Inside') = Cardinality(Inside) + 1
      BY <1>1, <3>1, InsideGains
    <3> QED BY <1>1, <2>1, <3>1, <3>2 DEF BreaksAreBounded
  <2>2. CASE ~free /\ left[p] = 1
    <3>1. ~free' /\ MoveTo(p, "in") /\ at[p] # "in"
      BY <1>5, <2>2 DEF Try
    <3>2. breaks' = IF breaks < Cardinality(Procs) THEN breaks + 1 ELSE breaks
      BY <1>5, <2>2 DEF Try
    <3>3. Cardinality(Inside') = Cardinality(Inside) + 1
      BY <1>1, <3>1, InsideGains
    <3>4. Cardinality(Inside') <= Cardinality(Procs) /\ Cardinality(Procs) \in Nat
      <4>1. Inside' \subseteq Procs
        BY DEF Inside
      <4> QED BY <4>1, LocksConstantsOK, FS_Subset, FS_CardinalityType
    <3> QED BY <1>1, <2>2, <3>1, <3>2, <3>3, <3>4 DEF BreaksAreBounded
  <2>3. CASE ~free /\ left[p] # 1
    <3>1. UNCHANGED <<at, free, breaks>>
      BY <1>5, <2>3 DEF Try
    <3> QED BY <3>1, <1>1 DEF BreaksAreBounded, Inside
  <2> QED BY <2>1, <2>2, <2>3
<1>6. ASSUME NEW p \in Procs, SimpleUnlock(p) PROVE BreaksAreBounded'
  <2>1. at[p] = "in" /\ free' = TRUE /\ breaks' = breaks /\ MoveTo(p, "out")
    BY <1>6 DEF SimpleUnlock
  <2>2. Cardinality(Inside') = Cardinality(Inside) - 1
    BY <1>1, <2>1, InsideLoses
  <2> QED BY <1>1, <2>1, <2>2 DEF BreaksAreBounded
<1> QED BY <1>2, <1>4, <1>5, <1>6 DEF LocksNext

\* Each break of simple_lock() lets at most one process too many in, whatever
\* unlocks and deaths follow.
THEOREM BreaksBounded == LocksSpec => []BreaksAreBounded
<1>1. LocksInit => BreaksAreBounded
  <2> SUFFICES ASSUME LocksInit PROVE BreaksAreBounded
    OBVIOUS
  <2>1. Inside = {} /\ breaks = 0
    BY DEF LocksInit, Inside
  <2> QED BY <2>1, FS_EmptySet DEF BreaksAreBounded
<1>2. LInv /\ BreaksAreBounded /\ [LocksNext]_lockVars => BreaksAreBounded'
  BY BreaksStep
<1> QED BY <1>1, <1>2, LInvHolds, PTL DEF LocksSpec

\* The four together, as the run of the locks checks them.
THEOREM LockKept == LocksSpec => []LockIsKept
<1>1. LocksTypeOK /\ FileLockExcludes /\ SemaphoreIsConserved /\ BreaksAreBounded
        => LockIsKept
  BY DEF LockIsKept
<1> QED BY <1>1, LocksTyped, Exclusion, Conservation, BreaksBounded, PTL

-----------------------------------------------------------------------------
(* The configuration store.                                                *)

StoreShape ==
  /\ part \in [Parts -> Images]
  /\ image \in Configs
  /\ up \in BOOLEAN /\ clean \in BOOLEAN /\ failed \in BOOLEAN
  /\ calls \in 0 .. 4
  /\ ~up => calls = 0

\* A partition is only erased while the other one is good.
OneIsGood ==
  /\ clean /\ calls = 3 => part["BACKUPCONFIG"] = "erased"
  /\ clean /\ calls \in {1, 2} => part["BACKUPCONFIG"] = image
  /\ clean /\ calls = 1 => part["CONFIG"] = "erased"
  /\ ~failed /\ calls # 0 => clean
  /\ ~failed /\ calls \in {3, 4} => part["CONFIG"] \in Configs
  /\ ~failed /\ up /\ calls = 0 => part["CONFIG"] \in Configs
  /\ ~failed /\ ~up => part["CONFIG"] \in Configs \/ part["BACKUPCONFIG"] \in Configs

StoreInv == ~Emmc => StoreShape /\ OneIsGood

\* What is known of the partitions after one of them has been changed.
LEMMA OneChanges ==
  ASSUME part \in [Parts -> Images], NEW q \in Parts, NEW x \in Images,
         part' = [part EXCEPT ![q] = x]
  PROVE  /\ part' \in [Parts -> Images] /\ part'[q] = x
         /\ \A r \in Parts : r # q => part'[r] = part[r]
OBVIOUS

LEMMA PartNames ==
  /\ "CONFIG" \in Parts /\ "BACKUPCONFIG" \in Parts /\ "CONFIG" # "BACKUPCONFIG"
  /\ "torn" \in Images /\ "erased" \in Images /\ Configs \subseteq Images
  /\ "torn" \notin Configs /\ "erased" \notin Configs
BY StoreConstantsOK DEF Parts, Images

LEMMA StoreInvInit == StoreInit => StoreInv
<1> SUFFICES ASSUME StoreInit PROVE StoreShape /\ OneIsGood
  BY DEF StoreInv
<1>1. PICK c \in Configs : part = [p \in Parts |-> c] /\ image = c
  BY DEF StoreInit
<1>2. part \in [Parts -> Images] /\ part["CONFIG"] = c
  BY <1>1, PartNames
<1>3. calls = 0 /\ up /\ up \in BOOLEAN /\ clean \in BOOLEAN /\ failed \in BOOLEAN
  BY DEF StoreInit
<1> QED BY <1>1, <1>2, <1>3 DEF StoreShape, OneIsGood

LEMMA StoreInvSave ==
  ASSUME StoreInv, ~Emmc, NEW c \in Configs, Save(c)
  PROVE  StoreInv'
BY StoreConstantsOK DEF StoreInv, StoreShape, OneIsGood, Save, SaveCalls

\* A flash call that works.
LEMMA StoreInvCall ==
  ASSUME StoreInv, ~Emmc, FlashCall
  PROVE  StoreInv'
<1>1. StoreShape /\ OneIsGood
  BY DEF StoreInv
<1>2. /\ up /\ up' /\ calls # 0 /\ calls' = calls - 1 /\ Settle
      /\ image' = image /\ clean' = clean
      /\ part' = [part EXCEPT ![On(calls)] = After(calls)]
  BY DEF FlashCall
<1>3. failed' \in BOOLEAN /\ (calls # 1 => failed' = failed)
  <2>1. CASE calls = 1 /\ clean
    BY <1>2, <2>1 DEF Settle
  <2>2. CASE ~(calls = 1 /\ clean)
    <3>1. failed' = failed
      BY <1>2, <2>2, Zenon DEF Settle
    <3> QED BY <1>1, <2>2, <3>1 DEF StoreShape
  <2> QED BY <2>1, <2>2
<1>4. CASE calls = 4
  <2>1. part' = [part EXCEPT !["BACKUPCONFIG"] = "erased"]
    BY <1>2, <1>4 DEF On, Op, After
  <2>2. part' \in [Parts -> Images] /\ part'["BACKUPCONFIG"] = "erased"
        /\ part'["CONFIG"] = part["CONFIG"]
    BY <1>1, <2>1, OneChanges, PartNames DEF StoreShape
  <2> QED BY <1>1, <1>2, <1>3, <1>4, <2>2 DEF StoreInv, StoreShape, OneIsGood
<1>5. CASE calls = 3
  <2>1. part' = [part EXCEPT !["BACKUPCONFIG"] = Written(part["BACKUPCONFIG"])]
    BY <1>2, <1>5 DEF On, Op, After
  <2>2. Written(part["BACKUPCONFIG"]) \in Images
        /\ (clean => Written(part["BACKUPCONFIG"]) = image)
    BY <1>1, <1>5, PartNames DEF Written, StoreShape, OneIsGood
  <2>3. part' \in [Parts -> Images] /\ (clean => part'["BACKUPCONFIG"] = image)
        /\ part'["CONFIG"] = part["CONFIG"]
    BY <1>1, <2>1, <2>2, OneChanges, PartNames DEF StoreShape
  <2> QED BY <1>1, <1>2, <1>3, <1>5, <2>3 DEF StoreInv, StoreShape, OneIsGood
<1>6. CASE calls = 2
  <2>1. part' = [part EXCEPT !["CONFIG"] = "erased"]
    BY <1>2, <1>6 DEF On, Op, After
  <2>2. part' \in [Parts -> Images] /\ part'["CONFIG"] = "erased"
        /\ part'["BACKUPCONFIG"] = part["BACKUPCONFIG"]
    BY <1>1, <2>1, OneChanges, PartNames DEF StoreShape
  <2> QED BY <1>1, <1>2, <1>3, <1>6, <2>2 DEF StoreInv, StoreShape, OneIsGood
<1>7. CASE calls = 1
  <2>1. part' = [part EXCEPT !["CONFIG"] = Written(part["CONFIG"])]
    BY <1>2, <1>7 DEF On, Op, After
  <2>2. Written(part["CONFIG"]) \in Images /\ (clean => Written(part["CONFIG"]) = image)
    BY <1>1, <1>7, PartNames DEF Written, StoreShape, OneIsGood
  <2>3. part' \in [Parts -> Images] /\ (clean => part'["CONFIG"] = image)
    BY <1>1, <2>1, <2>2, OneChanges, PartNames DEF StoreShape
  <2>4. ~failed' => clean
    BY <1>1, <1>2, <1>7 DEF Settle, OneIsGood
  <2> QED BY <1>1, <1>2, <1>3, <1>7, <2>3, <2>4 DEF StoreInv, StoreShape, OneIsGood
<1> QED BY <1>1, <1>2, <1>4, <1>5, <1>6, <1>7 DEF StoreShape

\* A flash call that fails, is passed over or is never made.
LEMMA StoreInvFault ==
  ASSUME StoreInv, ~Emmc, FlashFails \/ OpenFails \/ Killed
  PROVE  StoreInv'
<1>1. StoreShape /\ OneIsGood
  BY DEF StoreInv
<1>2. part' \in [Parts -> Images]
  <2>1. On(calls) \in Parts
    BY PartNames DEF On
  <2>2. Halfway(calls) \subseteq Images
    BY <1>1, <2>1, PartNames DEF Halfway, StoreShape
  <2> QED BY <1>1, <2>1, <2>2, OneChanges DEF FlashFails, OpenFails, Killed, StoreShape
<1>3. failed' = TRUE /\ clean' = FALSE /\ up /\ up' = up /\ image' = image
  BY DEF FlashFails, OpenFails, Killed
<1>4. calls' \in 0 .. 4
  BY <1>1 DEF FlashFails, OpenFails, Killed, Op, StoreShape
<1> QED BY <1>1, <1>2, <1>3, <1>4 DEF StoreInv, StoreShape, OneIsGood

LEMMA StoreInvPowerCut ==
  ASSUME StoreInv, ~Emmc, PowerCut
  PROVE  StoreInv'
<1>1. StoreShape /\ OneIsGood
  BY DEF StoreInv
<1>2. /\ up /\ ~up' /\ calls' = 0
      /\ image' = image /\ failed' = failed /\ clean' = clean
      /\ up' \in BOOLEAN /\ failed' \in BOOLEAN /\ clean' \in BOOLEAN
  BY <1>1, Zenon DEF PowerCut, StoreShape
<1>3. CASE calls = 0
  <2>1. part' = part
    BY <1>3 DEF PowerCut
  <2> QED BY <1>1, <1>2, <1>3, <2>1 DEF StoreInv, StoreShape, OneIsGood
<1>4. CASE calls # 0
  <2>1. PICK x \in Halfway(calls) : part' = [part EXCEPT ![On(calls)] = x]
    BY <1>4 DEF PowerCut
  <2>2. On(calls) \in Parts
    BY PartNames DEF On
  <2>3. x \in Images
    BY <1>1, <2>1, <2>2, PartNames DEF Halfway, StoreShape
  <2>4. part' \in [Parts -> Images] /\ \A r \in Parts : r # On(calls) => part'[r] = part[r]
    BY <1>1, <2>1, <2>2, <2>3, OneChanges DEF StoreShape
  <2>5. CASE calls \in {3, 4}
    <3>1. part'["CONFIG"] = part["CONFIG"]
      BY <2>4, <2>5, PartNames DEF On
    <3> QED BY <1>1, <1>2, <2>4, <2>5, <3>1 DEF StoreInv, StoreShape, OneIsGood
  <2>6. CASE calls \in {1, 2}
    <3>1. part'["BACKUPCONFIG"] = part["BACKUPCONFIG"]
      BY <2>4, <2>6, PartNames DEF On
    <3> QED BY <1>1, <1>2, <2>4, <2>6, <3>1 DEF StoreInv, StoreShape, OneIsGood
  <2> QED BY <1>1, <1>4, <2>5, <2>6 DEF StoreShape
<1> QED BY <1>3, <1>4

LEMMA StoreInvBoot ==
  ASSUME StoreInv, ~Emmc, Boot
  PROVE  StoreInv'
BY StoreConstantsOK
   DEF StoreInv, StoreShape, OneIsGood, Images, Boot, RepairCalls, Valid, Contents

LEMMA StoreInvStep == StoreInv /\ [StoreNext]_storeVars => StoreInv'
<1> SUFFICES ASSUME StoreInv, [StoreNext]_storeVars, ~Emmc PROVE StoreInv'
  BY DEF StoreInv
<1>1. CASE UNCHANGED storeVars
  BY <1>1 DEF StoreInv, StoreShape, OneIsGood, storeVars
<1>2. CASE StoreNext
  BY <1>2, StoreInvSave, StoreInvCall, StoreInvFault, StoreInvPowerCut, StoreInvBoot
     DEF StoreNext
<1> QED BY <1>1, <1>2

\* A NOR router whose flash calls work has a configuration to boot with at
\* every moment, through any number of power failures (is_config.c l.77-204).
THEOREM NorAlwaysBoots == StoreSpec => [](~Emmc => AlwaysBootable)
<1>1. StoreInv => (~Emmc => AlwaysBootable)
  BY StoreConstantsOK
     DEF StoreInv, StoreShape, OneIsGood, AlwaysBootable, Loadable, Valid, Contents
<1>2. StoreSpec => []StoreInv
  BY StoreInvInit, StoreInvStep, PTL DEF StoreSpec
<1> QED BY <1>1, <1>2, PTL

-----------------------------------------------------------------------------
(* Which configuration it is.                                              *)

\* Each partition that a boot could choose holds what it may load, and so does
\* the image that is being written.
LegalCopies ==
  ~failed => /\ part["CONFIG"] \in Configs => part["CONFIG"] \in legal
             /\ part["CONFIG"] \notin Configs => part["BACKUPCONFIG"] \in legal
             /\ calls # 0 => image \in legal

LegalTypes ==
  running \in Configs \cup {"empty", "none"} /\ legal \subseteq Configs \cup {"empty", "none"}

SettledInv == ~Emmc => StoreShape /\ OneIsGood /\ LegalCopies /\ LegalTypes

LEMMA NorValid == ~Emmc => \A x : (Valid(x) <=> x \in Configs)
BY DEF Valid

LEMMA ContentsOfConfig == \A c \in Configs : Contents(c) = c
BY PartNames DEF Contents

LEMMA SettledInvInit == StoreInit => SettledInv
<1> SUFFICES ASSUME StoreInit, ~Emmc PROVE SettledInv
  BY DEF SettledInv
<1>1. PICK c \in Configs : /\ part = [p \in Parts |-> c] /\ image = c
                          /\ running = c /\ legal = {c}
  BY DEF StoreInit
<1>2. part["CONFIG"] = c
  BY <1>1, PartNames
<1>3. LegalCopies /\ LegalTypes
  BY <1>1, <1>2 DEF LegalCopies, LegalTypes
<1> QED BY <1>3, StoreInvInit DEF SettledInv, StoreInv

LEMMA SettledInvSave ==
  ASSUME SettledInv, ~Emmc, NEW c \in Configs, Save(c)
  PROVE  LegalCopies' /\ LegalTypes'
<1>1. /\ part' = part /\ failed' = failed /\ running' = running
      /\ image' = c /\ legal' = legal \cup {c} /\ calls = 0
  BY DEF Save
<1> QED BY <1>1 DEF SettledInv, LegalCopies, LegalTypes

\* A flash call that works: the partition it writes is not the one a boot
\* would choose, but for the last call, which settles the matter.
LEMMA SettledInvCall ==
  ASSUME SettledInv, ~Emmc, FlashCall
  PROVE  LegalCopies' /\ LegalTypes'
<1>1. StoreShape /\ OneIsGood /\ LegalCopies /\ LegalTypes
  BY DEF SettledInv
<1>2. /\ up /\ calls # 0 /\ calls' = calls - 1 /\ Settle
      /\ image' = image /\ running' = running
      /\ part' = [part EXCEPT ![On(calls)] = After(calls)]
  BY DEF FlashCall
<1>3. image \in Configs /\ calls \in 0 .. 4 /\ part \in [Parts -> Images]
  BY <1>1 DEF StoreShape
<1>4. CASE calls \in {3, 4}
  <2>1. failed' = failed /\ legal' = legal
    BY <1>2, <1>4 DEF Settle
  <2>2. part'["CONFIG"] = part["CONFIG"]
    BY <1>2, <1>3, <1>4, PartNames DEF On
  <2> QED BY <1>1, <1>2, <1>4, <2>1, <2>2 DEF LegalCopies, LegalTypes, OneIsGood
<1>5. CASE calls = 2
  <2>1. failed' = failed /\ legal' = legal
    BY <1>2, <1>5 DEF Settle
  <2>2. part'["CONFIG"] = "erased" /\ part'["BACKUPCONFIG"] = part["BACKUPCONFIG"]
    BY <1>2, <1>3, <1>5, PartNames DEF On, Op, After
  <2>3. ~failed => part["BACKUPCONFIG"] = image
    BY <1>1, <1>5 DEF OneIsGood
  <2> QED BY <1>1, <1>2, <1>5, <2>1, <2>2, <2>3, PartNames DEF LegalCopies, LegalTypes
<1>6. CASE calls = 1
  <2>1. CASE clean
    <3>1. legal' = {image}
      BY <1>2, <1>3, <1>6, <2>1, ContentsOfConfig DEF Settle
    <3>2. part'["CONFIG"] = image
      BY <1>1, <1>2, <1>3, <1>6, <2>1, PartNames DEF On, Op, After, Written, OneIsGood
    <3> QED BY <1>1, <1>2, <1>3, <1>6, <3>1, <3>2 DEF LegalCopies, LegalTypes
  <2>2. CASE ~clean
    <3>1. failed' = failed /\ legal' = legal
      BY <1>2, <2>2 DEF Settle
    <3>2. failed
      BY <1>1, <1>6, <2>2 DEF OneIsGood
    <3> QED BY <1>1, <1>2, <3>1, <3>2 DEF LegalCopies, LegalTypes
  <2> QED BY <2>1, <2>2
<1> QED BY <1>2, <1>3, <1>4, <1>5, <1>6

LEMMA SettledInvFault ==
  ASSUME SettledInv, ~Emmc, FlashFails \/ OpenFails \/ Killed
  PROVE  LegalCopies' /\ LegalTypes'
<1>1. failed' = TRUE /\ legal' = legal /\ running' = running
  BY DEF FlashFails, OpenFails, Killed
<1> QED BY <1>1 DEF SettledInv, LegalCopies, LegalTypes

\* The power fails while one partition is being changed; the other is legal.
LEMMA SettledInvPowerCut ==
  ASSUME SettledInv, ~Emmc, PowerCut
  PROVE  LegalCopies' /\ LegalTypes'
<1>1. StoreShape /\ OneIsGood /\ LegalCopies /\ LegalTypes
  BY DEF SettledInv
<1>2. /\ up /\ calls' = 0 /\ failed' = failed /\ legal' = legal /\ running' = running
  BY DEF PowerCut
<1>3. calls \in 0 .. 4 /\ part \in [Parts -> Images] /\ image \in Configs
  BY <1>1 DEF StoreShape
<1>4. CASE calls = 0
  <2>1. part' = part
    BY <1>4 DEF PowerCut
  <2> QED BY <1>1, <1>2, <2>1 DEF LegalCopies, LegalTypes
<1>5. CASE calls \in {3, 4}
  <2>1. PICK x \in Halfway(calls) : part' = [part EXCEPT ![On(calls)] = x]
    BY <1>5 DEF PowerCut
  <2>2. part'["CONFIG"] = part["CONFIG"]
    BY <1>3, <1>5, <2>1, PartNames DEF On
  <2> QED BY <1>1, <1>2, <1>5, <2>2 DEF LegalCopies, LegalTypes, OneIsGood
<1>6. CASE calls \in {1, 2}
  <2>1. PICK x \in Halfway(calls) : part' = [part EXCEPT ![On(calls)] = x]
    BY <1>6 DEF PowerCut
  <2>2. part'["BACKUPCONFIG"] = part["BACKUPCONFIG"] /\ part'["CONFIG"] = x
    BY <1>3, <1>6, <2>1, PartNames DEF On
  <2>3. x = part["CONFIG"] \/ x \notin Configs
    BY <1>6, <2>1, PartNames DEF Halfway, On
  <2>4. ~failed => part["BACKUPCONFIG"] = image /\ image \in legal
    BY <1>1, <1>6 DEF OneIsGood, LegalCopies
  <2> QED BY <1>1, <1>2, <2>2, <2>3, <2>4 DEF LegalCopies, LegalTypes
<1> QED BY <1>3, <1>4, <1>5, <1>6

LEMMA SettledInvBoot ==
  ASSUME SettledInv, ~Emmc, Boot
  PROVE  LegalCopies' /\ LegalTypes'
<1>1. part' = part /\ failed' = failed /\ legal' = {running'} /\ ~up
  BY DEF Boot
<1>2. CASE part["CONFIG"] \in Configs
  <2>1. running' = part["CONFIG"] /\ calls' = 0
    BY <1>2, NorValid, ContentsOfConfig DEF Boot
  <2> QED BY <1>1, <1>2, <2>1 DEF LegalCopies, LegalTypes
<1>3. CASE part["CONFIG"] \notin Configs /\ part["BACKUPCONFIG"] \in Configs
  <2>1. running' = part["BACKUPCONFIG"] /\ image' = part["BACKUPCONFIG"]
    BY <1>3, NorValid, ContentsOfConfig DEF Boot
  <2> QED BY <1>1, <1>3, <2>1 DEF LegalCopies, LegalTypes
<1>4. CASE part["CONFIG"] \notin Configs /\ part["BACKUPCONFIG"] \notin Configs
  <2>1. running' = "none"
    BY <1>4, NorValid DEF Boot
  <2>2. failed
    BY <1>1, <1>4 DEF SettledInv, OneIsGood
  <2> QED BY <1>1, <2>1, <2>2 DEF LegalCopies, LegalTypes
<1> QED BY <1>2, <1>3, <1>4

LEMMA SettledInvStep == SettledInv /\ [StoreNext]_storeVars => SettledInv'
<1> SUFFICES ASSUME SettledInv, [StoreNext]_storeVars, ~Emmc PROVE SettledInv'
  BY DEF SettledInv
<1>1. StoreShape' /\ OneIsGood'
  BY StoreInvStep DEF StoreInv, SettledInv
<1>2. LegalCopies' /\ LegalTypes'
  <2>1. CASE UNCHANGED storeVars
    BY <2>1 DEF SettledInv, LegalCopies, LegalTypes, storeVars
  <2>2. CASE StoreNext
    BY <2>2, SettledInvSave, SettledInvCall, SettledInvFault, SettledInvPowerCut,
       SettledInvBoot DEF StoreNext
  <2> QED BY <2>1, <2>2
<1> QED BY <1>1, <1>2 DEF SettledInv

\* A NOR router boots with what was saved last, or with what was being saved
\* when the power failed; once a boot has settled which, the other never comes
\* back (is_config.c l.90-98, l.162-200).
THEOREM NorBootSettled == StoreSpec => [](~Emmc => BootIsSettled)
<1>1. SettledInv => (~Emmc => BootIsSettled)
  <2> SUFFICES ASSUME SettledInv, ~Emmc PROVE BootIsSettled
    OBVIOUS
  <2>1. StoreShape /\ OneIsGood /\ LegalCopies /\ LegalTypes
    BY DEF SettledInv
  <2>2. StoreTypeOK
    BY <2>1, PartNames DEF StoreTypeOK, StoreShape, LegalTypes, SaveCalls
  <2>3. ~failed => Loadable \in legal
    <3>1. CASE part["CONFIG"] \in Configs
      BY <2>1, <3>1, NorValid, ContentsOfConfig DEF Loadable, LegalCopies
    <3>2. CASE part["CONFIG"] \notin Configs
      <4>1. ~failed => part["BACKUPCONFIG"] \in Configs
        BY <2>1, <3>2 DEF StoreShape, OneIsGood
      <4> QED BY <2>1, <3>2, <4>1, NorValid, ContentsOfConfig DEF Loadable, LegalCopies
    <3> QED BY <3>1, <3>2
  <2> QED BY <2>2, <2>3 DEF BootIsSettled
<1>2. StoreSpec => []SettledInv
  BY SettledInvInit, SettledInvStep, PTL DEF StoreSpec
<1> QED BY <1>1, <1>2, PTL

-----------------------------------------------------------------------------
(* Commands one after the other.                                           *)

\* s is a sequence, of whatever.
IsSeq(s) == \E S : s \in Seq(S)

\* What a printed line does: nothing when it is not printed.
Give(d, b, m) == IF b THEN Run(d, m) ELSE d

LEMMA IfIsSeq == ASSUME NEW b, NEW m PROVE IsSeq(If(b, m))
<1>1. <<m>> \in Seq({m}) /\ <<>> \in Seq({m})
  OBVIOUS
<1>2. If(b, m) \in Seq({m})
  BY <1>1 DEF If
<1> QED
  BY <1>2 DEF IsSeq

LEMMA OneIsSeq == ASSUME NEW m PROVE IsSeq(<<m>>)
<1>1. <<m>> \in Seq({m})
  OBVIOUS
<1> QED
  BY <1>1 DEF IsSeq

LEMMA ConcatIsSeq == ASSUME NEW s, NEW t, IsSeq(s), IsSeq(t) PROVE IsSeq(s \o t)
<1>1. PICK S : s \in Seq(S)
  BY DEF IsSeq
<1>2. PICK T : t \in Seq(T)
  BY DEF IsSeq
<1>3. s \in Seq(S \cup T) /\ t \in Seq(S \cup T)
  BY <1>1, <1>2
<1>4. s \o t \in Seq(S \cup T)
  BY <1>3
<1> QED
  BY <1>4 DEF IsSeq

\* The daemons between the commands of s.
Between(d, s, g) == g = [k \in 0 .. Len(s) |-> IF k = 0 THEN d ELSE Run(g[k - 1], s[k])]

LEMMA BetweenExists == ASSUME NEW d, NEW s, Len(s) \in Nat PROVE \E g : Between(d, s, g)
<1> DEFINE N == Len(s)
           Upto(n, g) == g = [k \in 0 .. n |-> IF k = 0 THEN d ELSE Run(g[k - 1], s[k])]
           G == {n \in 0 .. N : \E g : Upto(n, g)}
<1>1. 0 \in G
  <2> DEFINE h == [k \in 0 .. 0 |-> d]
  <2>1. h = [k \in 0 .. 0 |-> IF k = 0 THEN d ELSE Run(h[k - 1], s[k])]
    OBVIOUS
  <2> HIDE DEF h
  <2>2. Upto(0, h)
    BY <2>1
  <2> QED
    BY <2>2
<1>2. ASSUME NEW n \in 1 .. N, n - 1 \in G PROVE n \in G
  <2>1. PICK g : Upto(n - 1, g)
    BY <1>2
  <2> DEFINE h == [k \in 0 .. n |-> IF k = n THEN Run(g[n - 1], s[n]) ELSE g[k]]
  <2>2. ASSUME NEW k \in 0 .. n PROVE h[k] = IF k = 0 THEN d ELSE Run(h[k - 1], s[k])
    <3>1. CASE k = 0
      <4>1. h[k] = g[0] /\ 0 \in 0 .. n - 1
        BY <3>1
      <4> HIDE DEF h
      <4>2. g[0] = d
        BY <2>1, <4>1
      <4> QED
        BY <3>1, <4>1, <4>2
    <3>2. CASE k # 0
      <4>1. k - 1 \in 0 .. n - 1 /\ h[k - 1] = g[k - 1]
        BY <3>2
      <4>2. CASE k = n
        <5>1. h[k] = Run(g[n - 1], s[n])
          BY <4>2
        <5> HIDE DEF h
        <5> QED
          BY <3>2, <4>1, <4>2, <5>1
      <4>3. CASE k # n
        <5>1. h[k] = g[k] /\ k \in 0 .. n - 1
          BY <4>3
        <5> HIDE DEF h
        <5>2. g[k] = Run(g[k - 1], s[k])
          BY <2>1, <3>2, <5>1
        <5> QED
          BY <3>2, <4>1, <5>1, <5>2
      <4> QED
        BY <4>2, <4>3
    <3> QED
      BY <3>1, <3>2
  <2>3. h = [k \in 0 .. n |-> h[k]]
    OBVIOUS
  <2> HIDE DEF h
  <2>4. h = [k \in 0 .. n |-> IF k = 0 THEN d ELSE Run(h[k - 1], s[k])]
    BY <2>2, <2>3
  <2>5. Upto(n, h)
    BY <2>4
  <2> QED
    BY <2>5
<1> HIDE DEF Upto
<1>3. G \in SUBSET (0 .. N)
  OBVIOUS
<1> HIDE DEF G
<1>4. G = 0 .. N
  BY <1>1, <1>2, <1>3, Climb
<1>5. N \in G
  BY <1>4
<1> QED
  BY <1>5 DEF G, Upto, Between

\* RunAll() gives the last of any such daemons.
LEMMA RunAllIs ==
  ASSUME NEW d, NEW s, Len(s) \in Nat, NEW g, g[0] = d,
         \A k \in 1 .. Len(s) : g[k] = Run(g[k - 1], s[k])
  PROVE  RunAll(d, s) = g[Len(s)]
<1> DEFINE N == Len(s)
           after == CHOOSE h : h = [k \in 0 .. N |-> IF k = 0 THEN d ELSE Run(h[k - 1], s[k])]
           G == {k \in 0 .. N : after[k] = g[k]}
<1>1. \E h : h = [k \in 0 .. N |-> IF k = 0 THEN d ELSE Run(h[k - 1], s[k])]
  <2>1. PICK h : Between(d, s, h)
    BY BetweenExists
  <2> QED
    BY <2>1 DEF Between
<1>2. after = [k \in 0 .. N |-> IF k = 0 THEN d ELSE Run(after[k - 1], s[k])]
  BY <1>1
<1>3. RunAll(d, s) = after[N]
  BY DEF RunAll
<1> HIDE DEF after
<1>4. 0 \in G
  BY <1>2
<1>5. ASSUME NEW n \in 1 .. N, n - 1 \in G PROVE n \in G
  <2>1. after[n] = Run(after[n - 1], s[n]) /\ n \in 0 .. N /\ n # 0
    BY <1>2
  <2> QED
    BY <1>5, <2>1
<1>6. G \in SUBSET (0 .. N)
  OBVIOUS
<1> HIDE DEF G
<1>7. G = 0 .. N
  BY <1>4, <1>5, <1>6, Climb
<1>8. N \in G
  BY <1>7
<1> QED
  BY <1>3, <1>8 DEF G

LEMMA RunAllBetween ==
  ASSUME NEW d, NEW s, Len(s) \in Nat
  PROVE  \E g : /\ g[0] = d /\ g[Len(s)] = RunAll(d, s)
                /\ \A k \in 1 .. Len(s) : g[k] = Run(g[k - 1], s[k])
<1>1. PICK g : Between(d, s, g)
  BY BetweenExists
<1>2. g[0] = d /\ \A k \in 1 .. Len(s) : g[k] = Run(g[k - 1], s[k])
  BY <1>1 DEF Between
<1> QED
  BY <1>2, RunAllIs

LEMMA RunNone == ASSUME NEW d PROVE RunAll(d, <<>>) = d
<1> DEFINE g == [k \in 0 .. 0 |-> d]
<1>1. g[0] = d /\ Len(<<>>) = 0 /\ \A k \in 1 .. Len(<<>>) : g[k] = Run(g[k - 1], <<>>[k])
  OBVIOUS
<1> HIDE DEF g
<1> QED
  BY <1>1, RunAllIs

LEMMA RunOne == ASSUME NEW d, NEW m PROVE RunAll(d, <<m>>) = Run(d, m)
<1> DEFINE s == <<m>>
           g == [k \in 0 .. 1 |-> IF k = 0 THEN d ELSE Run(d, m)]
<1>1. g[0] = d /\ g[1] = Run(d, m) /\ Len(s) = 1 /\ s[1] = m
  OBVIOUS
<1> HIDE DEF g, s
<1>2. \A k \in 1 .. Len(s) : g[k] = Run(g[k - 1], s[k])
  <2> SUFFICES ASSUME NEW k \in 1 .. Len(s) PROVE g[k] = Run(g[k - 1], s[k])
    OBVIOUS
  <2>1. k = 1 /\ k - 1 = 0
    BY <1>1
  <2> QED
    BY <1>1, <2>1
<1>3. Len(s) \in Nat
  BY <1>1
<1>4. RunAll(d, s) = g[Len(s)]
  BY <1>1, <1>2, <1>3, RunAllIs
<1> QED
  BY <1>1, <1>4 DEF s

LEMMA RunIf == ASSUME NEW d, NEW b, NEW m PROVE RunAll(d, If(b, m)) = Give(d, b, m)
<1>1. CASE b
  BY <1>1, RunOne DEF If, Give
<1>2. CASE ~b
  BY <1>2, RunNone DEF If, Give
<1> QED
  BY <1>1, <1>2

\* What is printed in two parts runs in two parts.
LEMMA RunConcat ==
  ASSUME NEW d, NEW s, NEW t, IsSeq(s), IsSeq(t)
  PROVE  RunAll(d, s \o t) = RunAll(RunAll(d, s), t)
<1> DEFINE M == Len(s)
           N == Len(t)
           u == s \o t
<1>1. PICK S : s \in Seq(S)
  BY DEF IsSeq
<1>2. PICK T : t \in Seq(T)
  BY DEF IsSeq
<1>3. M \in Nat /\ N \in Nat /\ Len(u) = M + N
  BY <1>1, <1>2
<1>4. /\ \A k \in 1 .. M : u[k] = s[k]
      /\ \A k \in M + 1 .. M + N : u[k] = t[k - M]
  BY <1>1, <1>2
<1> HIDE DEF M, N, u
<1>5. PICK g : g[0] = d /\ g[M] = RunAll(d, s) /\ \A k \in 1 .. M : g[k] = Run(g[k - 1], s[k])
  BY <1>3, RunAllBetween DEF M
<1>6. PICK h : h[0] = RunAll(d, s) /\ h[N] = RunAll(RunAll(d, s), t)
               /\ \A k \in 1 .. N : h[k] = Run(h[k - 1], t[k])
  BY <1>3, RunAllBetween DEF N
<1> DEFINE j == [k \in 0 .. M + N |-> IF k <= M THEN g[k] ELSE h[k - M]]
<1>7. /\ \A k \in 0 .. M : j[k] = g[k]
      /\ \A k \in M + 1 .. M + N : j[k] = h[k - M]
  BY <1>3
<1> HIDE DEF j
<1>8. j[M] = h[0] /\ j[0] = d
  BY <1>3, <1>5, <1>6, <1>7
<1>9. ASSUME NEW k \in 1 .. M + N PROVE j[k] = Run(j[k - 1], u[k])
  <2>1. CASE k <= M
    <3>1. k \in 1 .. M /\ k \in 0 .. M /\ k - 1 \in 0 .. M
      BY <1>3, <2>1
    <3> QED
      BY <1>4, <1>5, <1>7, <3>1
  <2>2. CASE k = M + 1
    <3>1. k \in M + 1 .. M + N /\ k - M = 1 /\ 1 \in 1 .. N /\ k - 1 = M
      BY <1>3, <2>2
    <3>2. j[k] = h[1] /\ u[k] = t[1] /\ h[1] = Run(h[0], t[1])
      BY <1>4, <1>6, <1>7, <3>1
    <3> QED
      BY <1>8, <3>1, <3>2
  <2>3. CASE k > M + 1
    <3>1. k \in M + 1 .. M + N /\ k - 1 \in M + 1 .. M + N /\ k - M \in 1 .. N /\ (k - 1) - M = (k - M) - 1
      BY <1>3, <2>3
    <3>2. j[k] = h[k - M] /\ j[k - 1] = h[(k - M) - 1] /\ u[k] = t[k - M]
      BY <1>4, <1>7, <3>1
    <3> QED
      BY <1>6, <3>1, <3>2
  <2> QED
    BY <1>3, <2>1, <2>2, <2>3
<1>10. j[M + N] = h[N]
  <2>1. CASE N = 0
    BY <1>3, <1>8, <2>1
  <2>2. CASE N # 0
    <3>1. M + N \in M + 1 .. M + N /\ (M + N) - M = N
      BY <1>3, <2>2
    <3> QED
      BY <1>7, <3>1
  <2> QED
    BY <2>1, <2>2
<1>11. RunAll(d, u) = j[Len(u)]
  <2>1. Len(u) \in Nat /\ \A k \in 1 .. Len(u) : j[k] = Run(j[k - 1], u[k])
    BY <1>3, <1>9
  <2> QED
    BY <1>8, <2>1, RunAllIs
<1> QED
  BY <1>3, <1>6, <1>10, <1>11 DEF u

-----------------------------------------------------------------------------
(* What the commands change.                                               *)

SettingNames ==
  {"prof", "use", "use2", "wan2", "net", "nr5g", "oper", "pin", "roam", "dual", "main", "backup", "policy",
   "retries", "csq", "backtime", "smsInterval", "enable", "mode", "trig", "idle", "static", "local", "peer",
   "netmask", "infinite", "share", "pd", "prefix", "strict", "plain"}

\* The values of each.
Values ==
  [prof |-> [Profiles -> {"none", "factory", "gsm", "cdma"}],
   use |-> [SimNames -> Profiles \cup {0}], use2 |-> [SimNames -> Profiles \cup {0}], wan2 |-> [SimNames -> BOOLEAN],
   net |-> [SimNames -> {"auto", "4g"}], nr5g |-> {"auto", "sa"},
   oper |-> [SimNames -> {"auto", "verizon"}], pin |-> [SimNames -> BOOLEAN], roam |-> [SimNames -> BOOLEAN],
   dual |-> BOOLEAN, main |-> SimNames, backup |-> SimNames, policy |-> SimNames \cup {"random", "sequence"},
   retries |-> {0, 3, 5}, csq |-> [SimNames -> BOOLEAN], backtime |-> BOOLEAN,
   smsInterval |-> {0, 10, 30}, enable |-> BOOLEAN,
   mode |-> {"ONLINE", "DEMAND", "MANUAL"}, trig |-> SUBSET {"traffic", "sms"}, idle |-> {60, 90},
   static |-> BOOLEAN, local |-> BOOLEAN, peer |-> {"none", "1.1.1.3", "own"}, netmask |-> BOOLEAN,
   infinite |-> BOOLEAN, share |-> {"off", "default", "own"}, pd |-> [Wans -> {"default", "own"}],
   prefix |-> [Wans -> {0, 56, 80}], strict |-> [Wans -> BOOLEAN], plain |-> [Plain -> BOOLEAN]]

LEMMA ValuesAre ==
  /\ Values["prof"] = [Profiles -> {"none", "factory", "gsm", "cdma"}]
  /\ Values["use"] = [SimNames -> Profiles \cup {0}] /\ Values["use2"] = [SimNames -> Profiles \cup {0}]
  /\ Values["wan2"] = [SimNames -> BOOLEAN] /\ Values["net"] = [SimNames -> {"auto", "4g"}]
  /\ Values["nr5g"] = {"auto", "sa"} /\ Values["oper"] = [SimNames -> {"auto", "verizon"}]
  /\ Values["pin"] = [SimNames -> BOOLEAN] /\ Values["roam"] = [SimNames -> BOOLEAN]
  /\ Values["dual"] = BOOLEAN /\ Values["main"] = SimNames /\ Values["backup"] = SimNames
  /\ Values["policy"] = SimNames \cup {"random", "sequence"} /\ Values["retries"] = {0, 3, 5}
  /\ Values["csq"] = [SimNames -> BOOLEAN] /\ Values["backtime"] = BOOLEAN
  /\ Values["smsInterval"] = {0, 10, 30} /\ Values["enable"] = BOOLEAN
  /\ Values["mode"] = {"ONLINE", "DEMAND", "MANUAL"} /\ Values["trig"] = SUBSET {"traffic", "sms"}
  /\ Values["idle"] = {60, 90} /\ Values["static"] = BOOLEAN /\ Values["local"] = BOOLEAN
  /\ Values["peer"] = {"none", "1.1.1.3", "own"} /\ Values["netmask"] = BOOLEAN
  /\ Values["infinite"] = BOOLEAN /\ Values["share"] = {"off", "default", "own"}
  /\ Values["pd"] = [Wans -> {"default", "own"}] /\ Values["prefix"] = [Wans -> {0, 56, 80}]
  /\ Values["strict"] = [Wans -> BOOLEAN] /\ Values["plain"] = [Plain -> BOOLEAN]
BY DEF Values

LEMMA SettingsHave ==
  ASSUME NEW c \in Settings
  PROVE  c = [f \in SettingNames |-> c[f]] /\ \A f \in SettingNames : c[f] \in Values[f]
<1>1. c = [f \in SettingNames |-> c[f]]
  BY DEF Settings, SettingNames
<1>2. \A f \in SettingNames : c[f] \in Values[f]
  BY ValuesAre DEF Settings, SettingNames
<1> QED
  BY <1>1, <1>2

LEMMA SettingsIf ==
  ASSUME NEW c, c = [f \in SettingNames |-> c[f]], \A f \in SettingNames : c[f] \in Values[f]
  PROVE  c \in Settings
<1> DEFINE d == [f \in SettingNames |-> c[f]]
<1>1. /\ c["prof"] \in [Profiles -> {"none", "factory", "gsm", "cdma"}]
  /\ c["use"] \in [SimNames -> Profiles \cup {0}] /\ c["use2"] \in [SimNames -> Profiles \cup {0}]
  /\ c["wan2"] \in [SimNames -> BOOLEAN] /\ c["net"] \in [SimNames -> {"auto", "4g"}]
  BY ValuesAre DEF SettingNames
<1> QED
  BY ValuesAre DEF Settings, SettingNames

\* e is c with other values for the settings in S.
OnlyIn(c, e, S) == e \in Settings /\ \A f \in SettingNames \ S : e[f] = c[f]

\* f with another value at k.
At(f, k, v) == [f EXCEPT ![k] = v]

\* c with one other value.
Put(c, f, v) == [c EXCEPT ![f] = v]

\* What the two do, said without the application of a function.
Fits(f, v) == f \in SettingNames /\ v \in Values[f]
Has(c, f, v) == c[f] = v
Apart(f, g) == f # g

LEMMA PutOne ==
  ASSUME NEW c, c \in Settings, NEW f, NEW v, Fits(f, v), NEW S, f \in S
  PROVE  OnlyIn(c, Put(c, f, v), S) /\ Has(Put(c, f, v), f, v)
<1> DEFINE e == Put(c, f, v)
<1>1. c = [g \in SettingNames |-> c[g]] /\ \A g \in SettingNames : c[g] \in Values[g]
  BY SettingsHave
<1>2. e = [g \in SettingNames |-> IF g = f THEN v ELSE c[g]] /\ f \in SettingNames /\ v \in Values[f]
  BY <1>1 DEF Put, Fits
<1> HIDE DEF e
<1>3. e = [g \in SettingNames |-> e[g]] /\ \A g \in SettingNames : e[g] \in Values[g]
  BY <1>1, <1>2
<1>4. e \in Settings
  BY <1>3, SettingsIf
<1>5. e[f] = v /\ \A g \in SettingNames \ S : e[g] = c[g]
  BY <1>2
<1> QED
  BY <1>4, <1>5 DEF OnlyIn, Has, e

LEMMA OnlyInTwice ==
  ASSUME NEW c, NEW d, NEW e, NEW S, OnlyIn(c, d, S), OnlyIn(d, e, S)
  PROVE  OnlyIn(c, e, S)
BY DEF OnlyIn

LEMMA HasStill ==
  ASSUME NEW c, NEW e, NEW f, NEW g, NEW v, NEW w, Has(c, f, v), Fits(f, v), Apart(f, g), OnlyIn(c, e, {g})
  PROVE  Has(e, f, v)
BY DEF OnlyIn, Has, Fits, Apart

LEMMA PutTwo ==
  ASSUME NEW c, c \in Settings, NEW f, NEW v, Fits(f, v), NEW g, NEW w, Fits(g, w), Apart(f, g), NEW S, f \in S, g \in S
  PROVE  /\ OnlyIn(c, Put(Put(c, f, v), g, w), S)
         /\ Has(Put(Put(c, f, v), g, w), f, v) /\ Has(Put(Put(c, f, v), g, w), g, w)
<1> DEFINE d == Put(c, f, v)
           e == Put(d, g, w)
<1>1. OnlyIn(c, d, S) /\ Has(d, f, v)
  BY PutOne
<1>2. d \in Settings
  BY <1>1 DEF OnlyIn
<1> HIDE DEF d
<1>3. OnlyIn(d, e, S) /\ OnlyIn(d, e, {g}) /\ Has(e, g, w)
  BY <1>2, PutOne
<1> HIDE DEF e
<1> QED
  BY <1>1, <1>3, OnlyInTwice, HasStill DEF e, d

LEMMA PutThree ==
  ASSUME NEW c, c \in Settings, NEW f, NEW v, Fits(f, v), NEW g, NEW w, Fits(g, w), NEW h, NEW x, Fits(h, x),
         Apart(f, g), Apart(f, h), Apart(g, h), NEW S, f \in S, g \in S, h \in S
  PROVE  /\ OnlyIn(c, Put(Put(Put(c, f, v), g, w), h, x), S)
         /\ Has(Put(Put(Put(c, f, v), g, w), h, x), f, v) /\ Has(Put(Put(Put(c, f, v), g, w), h, x), g, w)
         /\ Has(Put(Put(Put(c, f, v), g, w), h, x), h, x)
<1> DEFINE d == Put(Put(c, f, v), g, w)
           e == Put(d, h, x)
<1>1. OnlyIn(c, d, S) /\ Has(d, f, v) /\ Has(d, g, w)
  BY PutTwo
<1>2. d \in Settings
  BY <1>1 DEF OnlyIn
<1> HIDE DEF d
<1>3. OnlyIn(d, e, S) /\ OnlyIn(d, e, {h}) /\ Has(e, h, x)
  BY <1>2, PutOne
<1> HIDE DEF e
<1> QED
  BY <1>1, <1>3, OnlyInTwice, HasStill DEF e, d

LEMMA DoProfile ==
  ASSUME NEW c \in Settings, NEW m, m[1] = "profile", m[2] \in Profiles, m[3] \in {"factory", "gsm", "cdma"}
  PROVE  /\ OnlyIn(c, Do(c, m), {"prof"})
         /\ Do(c, m).prof = [c.prof EXCEPT ![m[2]] = m[3]]
<1> DEFINE v == [c.prof EXCEPT ![m[2]] = m[3]]
           e == Put(c, "prof", v)
<1>1. Do(c, m) = e
  BY DEF Do, ProfileCmd, IpWords, Ipv6Words, Put
<1>2. Fits("prof", v)
  BY SettingsHave, ValuesAre DEF Fits, SettingNames
<1> HIDE DEF v
<1>3. OnlyIn(c, e, {"prof"}) /\ Has(e, "prof", v)
  BY <1>2, PutOne
<1> HIDE DEF e
<1> QED
  BY <1>1, <1>3 DEF v, Has

LEMMA DoNetwork ==
  ASSUME NEW c \in Settings, NEW m, m[1] = "network", m[2] \in {"auto", "4g"}
  PROVE  /\ OnlyIn(c, Do(c, m), {"net"})
         /\ Do(c, m).net = [s \in SimNames |-> m[2]]
<1> DEFINE v == [s \in SimNames |-> m[2]]
           e == Put(c, "net", v)
<1>1. Do(c, m) = e
  BY DEF Do, Network, IpWords, Ipv6Words, Put
<1>2. Fits("net", v)
  BY SettingsHave, ValuesAre DEF Fits, SettingNames
<1> HIDE DEF v
<1>3. OnlyIn(c, e, {"net"}) /\ Has(e, "net", v)
  BY <1>2, PutOne
<1> HIDE DEF e
<1> QED
  BY <1>1, <1>3 DEF v, Has

LEMMA DoNr5g ==
  ASSUME NEW c \in Settings, NEW m, m[1] = "nr5g", m[2] \in {"auto", "sa"}
  PROVE  /\ OnlyIn(c, Do(c, m), {"nr5g"})
         /\ Do(c, m).nr5g = m[2]
<1> DEFINE v == m[2]
           e == Put(c, "nr5g", v)
<1>1. Do(c, m) = e
  BY DEF Do, Network, IpWords, Ipv6Words, Put
<1>2. Fits("nr5g", v)
  BY SettingsHave, ValuesAre DEF Fits, SettingNames
<1> HIDE DEF v
<1>3. OnlyIn(c, e, {"nr5g"}) /\ Has(e, "nr5g", v)
  BY <1>2, PutOne
<1> HIDE DEF e
<1> QED
  BY <1>1, <1>3 DEF v, Has

LEMMA DoPin ==
  ASSUME NEW c \in Settings, NEW m, m[1] = "pin", m[2] \in SimNames
  PROVE  /\ OnlyIn(c, Do(c, m), {"pin"})
         /\ Do(c, m).pin = [c.pin EXCEPT ![m[2]] = TRUE]
<1> DEFINE v == [c.pin EXCEPT ![m[2]] = TRUE]
           e == Put(c, "pin", v)
<1>1. Do(c, m) = e
  BY DEF Do, SimCard, IpWords, Ipv6Words, Put
<1>2. Fits("pin", v)
  BY SettingsHave, ValuesAre DEF Fits, SettingNames
<1> HIDE DEF v
<1>3. OnlyIn(c, e, {"pin"}) /\ Has(e, "pin", v)
  BY <1>2, PutOne
<1> HIDE DEF e
<1> QED
  BY <1>1, <1>3 DEF v, Has

LEMMA DoForbid ==
  ASSUME NEW c \in Settings, NEW m, m[1] = "forbid", m[2] \in SimNames
  PROVE  /\ OnlyIn(c, Do(c, m), {"roam"})
         /\ Do(c, m).roam = [c.roam EXCEPT ![m[2]] = FALSE]
<1> DEFINE v == [c.roam EXCEPT ![m[2]] = FALSE]
           e == Put(c, "roam", v)
<1>1. Do(c, m) = e
  BY DEF Do, SimCard, IpWords, Ipv6Words, Put
<1>2. Fits("roam", v)
  BY SettingsHave, ValuesAre DEF Fits, SettingNames
<1> HIDE DEF v
<1>3. OnlyIn(c, e, {"roam"}) /\ Has(e, "roam", v)
  BY <1>2, PutOne
<1> HIDE DEF e
<1> QED
  BY <1>1, <1>3 DEF v, Has

LEMMA DoOperator ==
  ASSUME NEW c \in Settings, NEW m, m[1] = "operator", m[2] \in SimNames, m[3] \in {"auto", "verizon"}
  PROVE  /\ OnlyIn(c, Do(c, m), {"oper"})
         /\ Do(c, m).oper = [c.oper EXCEPT ![m[2]] = m[3]]
<1> DEFINE v == [c.oper EXCEPT ![m[2]] = m[3]]
           e == Put(c, "oper", v)
<1>1. Do(c, m) = e
  BY DEF Do, SimCard, IpWords, Ipv6Words, Put
<1>2. Fits("oper", v)
  BY SettingsHave, ValuesAre DEF Fits, SettingNames
<1> HIDE DEF v
<1>3. OnlyIn(c, e, {"oper"}) /\ Has(e, "oper", v)
  BY <1>2, PutOne
<1> HIDE DEF e
<1> QED
  BY <1>1, <1>3 DEF v, Has

LEMMA DoSms ==
  ASSUME NEW c \in Settings, NEW m, m[1] = "sms interval", m[2] \in {0, 10, 30}
  PROVE  /\ OnlyIn(c, Do(c, m), {"smsInterval"})
         /\ Do(c, m).smsInterval = m[2]
<1> DEFINE v == m[2]
           e == Put(c, "smsInterval", v)
<1>1. Do(c, m) = e
  BY DEF Do, SmsConfig, IpWords, Ipv6Words, Put
<1>2. Fits("smsInterval", v)
  BY SettingsHave, ValuesAre DEF Fits, SettingNames
<1> HIDE DEF v
<1>3. OnlyIn(c, e, {"smsInterval"}) /\ Has(e, "smsInterval", v)
  BY <1>2, PutOne
<1> HIDE DEF e
<1> QED
  BY <1>1, <1>3 DEF v, Has

LEMMA MainSimSet ==
  ASSUME NEW c \in Settings, NEW p \in SimNames \cup {"random", "sequence"}, NEW s \in SimNames
  PROVE  /\ OnlyIn(c, SetMainSim(c, p, s), {"main", "backup", "policy"})
         /\ SetMainSim(c, p, s).main = s /\ SetMainSim(c, p, s).policy = p
         /\ SetMainSim(c, p, s).backup = OtherName(s)
<1> DEFINE b == OtherName(s)
           e == Put(Put(Put(c, "main", s), "backup", b), "policy", p)
<1>1. SetMainSim(c, p, s) = e
  BY DEF SetMainSim, Put
<1>2. /\ Fits("main", s)
      /\ Fits("backup", b)
      /\ Fits("policy", p)
      /\ Apart("main", "backup") /\ Apart("main", "policy") /\ Apart("backup", "policy")
  BY ValuesAre DEF Fits, Apart, SettingNames, OtherName, SimNames
<1> HIDE DEF b
<1>3. OnlyIn(c, e, {"main", "backup", "policy"}) /\ Has(e, "main", s) /\ Has(e, "backup", b) /\ Has(e, "policy", p)
  BY <1>2, PutThree
<1> HIDE DEF e
<1> QED
  BY <1>1, <1>3 DEF b, Has

LEMMA DoMain ==
  ASSUME NEW c \in Settings, NEW m, m[1] = "main", m[2] \in SimNames \cup {"random", "sequence"},
         m[3] \in SimNames
  PROVE  /\ OnlyIn(c, Do(c, m), {"main", "backup", "policy"})
         /\ Do(c, m).main = m[3] /\ Do(c, m).backup = OtherName(m[3]) /\ Do(c, m).policy = m[2]
<1>1. Do(c, m) = SetMainSim(c, m[2], m[3])
  BY DEF Do, DualSim, IpWords, Ipv6Words
<1> QED
  BY <1>1, MainSimSet

LEMMA DoDual ==
  ASSUME NEW c \in Settings, NEW m, m[1] = "dual"
  PROVE  /\ OnlyIn(c, Do(c, m), {"dual", "retries"})
         /\ Do(c, m).dual = TRUE /\ Do(c, m).retries = IF c.retries = 0 THEN 5 ELSE c.retries
<1> DEFINE yes == TRUE
           n == IF c.retries = 0 THEN 5 ELSE c.retries
           e == Put(Put(c, "dual", yes), "retries", n)
<1>1. Do(c, m) = e
  BY DEF Do, DualSim, IpWords, Ipv6Words, Put
<1>2. /\ Fits("dual", yes)
      /\ Fits("retries", n) /\ Apart("dual", "retries")
  BY SettingsHave, ValuesAre DEF Fits, Apart, SettingNames
<1> HIDE DEF n, yes
<1>3. OnlyIn(c, e, {"dual", "retries"}) /\ Has(e, "dual", yes) /\ Has(e, "retries", n)
  BY <1>2, PutTwo
<1> HIDE DEF e
<1> QED
  BY <1>1, <1>3 DEF n, yes, Has

LEMMA DoRetries ==
  ASSUME NEW c \in Settings, NEW m, m[1] = "retries", m[2] \in {0, 3, 5}
  PROVE  /\ OnlyIn(c, Do(c, m), {"retries"})
         /\ Do(c, m).retries = m[2]
<1> DEFINE v == m[2]
           e == Put(c, "retries", v)
<1>1. Do(c, m) = e
  BY DEF Do, DualSim, IpWords, Ipv6Words, Put
<1>2. Fits("retries", v)
  BY SettingsHave, ValuesAre DEF Fits, SettingNames
<1> HIDE DEF v
<1>3. OnlyIn(c, e, {"retries"}) /\ Has(e, "retries", v)
  BY <1>2, PutOne
<1> HIDE DEF e
<1> QED
  BY <1>1, <1>3 DEF v, Has

LEMMA DoCsq ==
  ASSUME NEW c \in Settings, NEW m, m[1] = "csq", m[2] \in SimNames, m[3] \in BOOLEAN
  PROVE  /\ OnlyIn(c, Do(c, m), {"csq"})
         /\ Do(c, m).csq = At(c.csq, m[2], m[3])
<1> DEFINE v == [c.csq EXCEPT ![m[2]] = m[3]]
           e == Put(c, "csq", v)
<1>1. Do(c, m) = e
  BY DEF Do, DualSim, IpWords, Ipv6Words, Put
<1>2. Fits("csq", v)
  BY SettingsHave, ValuesAre DEF Fits, SettingNames
<1> HIDE DEF v
<1>3. OnlyIn(c, e, {"csq"}) /\ Has(e, "csq", v)
  BY <1>2, PutOne
<1> HIDE DEF e
<1> QED
  BY <1>1, <1>3 DEF v, Has, At

LEMMA DoBacktime ==
  ASSUME NEW c \in Settings, NEW m, m[1] = "backtime", m[2] \in BOOLEAN
  PROVE  /\ OnlyIn(c, Do(c, m), {"backtime"})
         /\ Do(c, m).backtime = m[2]
<1> DEFINE v == m[2]
           e == Put(c, "backtime", v)
<1>1. Do(c, m) = e
  BY DEF Do, DualSim, IpWords, Ipv6Words, Put
<1>2. Fits("backtime", v)
  BY SettingsHave, ValuesAre DEF Fits, SettingNames
<1> HIDE DEF v
<1>3. OnlyIn(c, e, {"backtime"}) /\ Has(e, "backtime", v)
  BY <1>2, PutOne
<1> HIDE DEF e
<1> QED
  BY <1>1, <1>3 DEF v, Has

LEMMA DoUse ==
  ASSUME NEW c \in Settings, NEW m, m[1] = "use", m[2] \in SimNames, m[3] \in Profiles \cup {0}
  PROVE  /\ OnlyIn(c, Do(c, m), {"use"})
         /\ Do(c, m).use = IF Exists(c, m[3]) THEN At(c.use, m[2], m[3]) ELSE c.use
<1> DEFINE v == IF Exists(c, m[3]) THEN [c.use EXCEPT ![m[2]] = m[3]] ELSE c.use
<1>1. Do(c, m) = Put(c, "use", v)
  <2>1. Do(c, m) = IF Exists(c, m[3]) THEN [c EXCEPT !.use[m[2]] = m[3]] ELSE c
    BY DEF Do, UseProfile, IpWords, Ipv6Words
  <2>2. c = [f \in SettingNames |-> c[f]]
    BY SettingsHave
  <2>3. c = [c EXCEPT !.use = c.use]
    BY <2>2 DEF SettingNames
  <2> QED
    BY <2>1, <2>3 DEF Put
<1>2. Fits("use", v)
  BY SettingsHave, ValuesAre DEF Fits, SettingNames
<1> HIDE DEF v
<1>3. OnlyIn(c, Put(c, "use", v), {"use"}) /\ Has(Put(c, "use", v), "use", v)
  BY <1>2, PutOne
<1> QED
  BY <1>1, <1>3 DEF v, Has, At

LEMMA DoIdle ==
  ASSUME NEW c \in Settings, NEW m, m[1] = "idle", m[2] \in {60, 90}
  PROVE  /\ OnlyIn(c, Do(c, m), {"idle"})
         /\ Do(c, m).idle = m[2]
<1> DEFINE v == m[2]
           e == Put(c, "idle", v)
<1>1. Do(c, m) = e
  BY DEF Do, UseProfile, IpWords, Ipv6Words, Put
<1>2. Fits("idle", v)
  BY SettingsHave, ValuesAre DEF Fits, SettingNames
<1> HIDE DEF v
<1>3. OnlyIn(c, e, {"idle"}) /\ Has(e, "idle", v)
  BY <1>2, PutOne
<1> HIDE DEF e
<1> QED
  BY <1>1, <1>3 DEF v, Has

LEMMA DoWan2 ==
  ASSUME NEW c \in Settings, NEW m, m[1] = "wan2", m[2] \in SimNames, m[3] \in Profiles \cup {0}
  PROVE  /\ OnlyIn(c, Do(c, m), {"use2", "wan2"})
         /\ Exists(c, m[3]) => /\ Do(c, m).use2 = [c.use2 EXCEPT ![m[2]] = m[3]]
                               /\ Do(c, m).wan2 = [c.wan2 EXCEPT ![m[2]] = TRUE]
         /\ ~Exists(c, m[3]) => Do(c, m) = c
<1> DEFINE v == [c.use2 EXCEPT ![m[2]] = m[3]]
           w == [c.wan2 EXCEPT ![m[2]] = TRUE]
           e == Put(Put(c, "use2", v), "wan2", w)
<1>1. Do(c, m) = IF Exists(c, m[3]) THEN e ELSE c
  BY DEF Do, SecondaryWan, IpWords, Ipv6Words, Put
<1>2. /\ Fits("use2", v)
      /\ Fits("wan2", w) /\ Apart("use2", "wan2")
  BY SettingsHave, ValuesAre DEF Fits, Apart, SettingNames
<1> HIDE DEF v, w
<1>3. OnlyIn(c, e, {"use2", "wan2"}) /\ Has(e, "use2", v) /\ Has(e, "wan2", w)
  BY <1>2, PutTwo
<1>4. OnlyIn(c, c, {"use2", "wan2"})
  BY DEF OnlyIn
<1> HIDE DEF e
<1> QED
  BY <1>1, <1>3, <1>4 DEF v, w, Has

LEMMA DoInfinite ==
  ASSUME NEW c \in Settings, NEW m, m[1] = "infinite", m[2] \in BOOLEAN
  PROVE  /\ OnlyIn(c, Do(c, m), {"infinite"})
         /\ Do(c, m).infinite = m[2]
<1> DEFINE v == m[2]
           e == Put(c, "infinite", v)
<1>1. Do(c, m) = e
  BY DEF Do, SecondaryWan, IpWords, Ipv6Words, Put
<1>2. Fits("infinite", v)
  BY SettingsHave, ValuesAre DEF Fits, SettingNames
<1> HIDE DEF v
<1>3. OnlyIn(c, e, {"infinite"}) /\ Has(e, "infinite", v)
  BY <1>2, PutOne
<1> HIDE DEF e
<1> QED
  BY <1>1, <1>3 DEF v, Has

LEMMA DoShutdown ==
  ASSUME NEW c \in Settings, NEW m, m[1] = "shutdown", m[2] \in BOOLEAN
  PROVE  /\ OnlyIn(c, Do(c, m), {"enable"})
         /\ Do(c, m).enable = IF m[2] = TRUE THEN FALSE ELSE TRUE
<1> DEFINE v == IF m[2] = TRUE THEN FALSE ELSE TRUE
<1>1. Do(c, m) = Put(c, "enable", v)
  <2>1. Do(c, m) = [c EXCEPT !.enable = ~m[2]]
    BY DEF Do, SetEnable, IpWords, Ipv6Words
  <2> QED
    BY <2>1 DEF Put
<1>2. Fits("enable", v)
  BY ValuesAre DEF Fits, SettingNames
<1> HIDE DEF v
<1>3. OnlyIn(c, Put(c, "enable", v), {"enable"}) /\ Has(Put(c, "enable", v), "enable", v)
  BY <1>2, PutOne
<1> QED
  BY <1>1, <1>3 DEF v, Has

LEMMA DoPlain ==
  ASSUME NEW c \in Settings, NEW m, m[1] = "plain", m[2] \in Plain, m[3] \in BOOLEAN
  PROVE  /\ OnlyIn(c, Do(c, m), {"plain"})
         /\ Do(c, m).plain = At(c.plain, m[2], m[3])
<1> DEFINE v == [c.plain EXCEPT ![m[2]] = m[3]]
           e == Put(c, "plain", v)
<1>1. Do(c, m) = e
  BY DEF Do, PlainCmd, IpWords, Ipv6Words, Put
<1>2. Fits("plain", v)
  BY SettingsHave, ValuesAre DEF Fits, SettingNames
<1> HIDE DEF v
<1>3. OnlyIn(c, e, {"plain"}) /\ Has(e, "plain", v)
  BY <1>2, PutOne
<1> HIDE DEF e
<1> QED
  BY <1>1, <1>3 DEF v, Has, At

LEMMA DoActivate ==
  ASSUME NEW c \in Settings, NEW m, m[1] = "activate", m[2] \in {"auto", "manual"}
  PROVE  /\ OnlyIn(c, Do(c, m), {"mode", "trig"})
         /\ Do(c, m).mode = IF m[2] = "auto" THEN "ONLINE" ELSE "MANUAL"
         /\ Do(c, m).trig = {}
<1> DEFINE mode == IF m[2] = "auto" THEN "ONLINE" ELSE "MANUAL"
           e == Put(Put(c, "mode", mode), "trig", {})
<1>1. Do(c, m) = e
  <2>1. Do(c, m) = Activate(c, m)
    BY DEF Do, IpWords, Ipv6Words
  <2>2. CASE m[2] = "auto"
    BY <2>1, <2>2 DEF Activate, Triggers, Put
  <2>3. CASE m[2] = "manual"
    BY <2>1, <2>3 DEF Activate, Triggers, Put
  <2> QED
    BY <2>2, <2>3
<1>2. /\ Fits("mode", mode)
      /\ Fits("trig", {}) /\ Apart("mode", "trig")
  BY ValuesAre DEF Fits, Apart, SettingNames
<1> HIDE DEF mode
<1>3. OnlyIn(c, e, {"mode", "trig"}) /\ Has(e, "mode", mode) /\ Has(e, "trig", {})
  BY <1>2, PutTwo
<1> HIDE DEF e
<1> QED
  BY <1>1, <1>3 DEF mode, Has

LEMMA DoDemand ==
  ASSUME NEW c \in Settings, NEW m, m[1] = "activate", m[2] \in Triggers
  PROVE  /\ OnlyIn(c, Do(c, m), {"mode", "trig"})
         /\ Do(c, m).mode = "DEMAND" /\ Do(c, m).trig = c.trig \cup {m[2]}
<1> DEFINE trig == c.trig \cup {m[2]}
           e == Put(Put(c, "mode", "DEMAND"), "trig", trig)
<1>1. Do(c, m) = e
  BY DEF Do, Activate, Triggers, IpWords, Ipv6Words, Put
<1>2. /\ Fits("mode", "DEMAND")
      /\ Fits("trig", trig) /\ Apart("mode", "trig")
  BY SettingsHave, ValuesAre DEF Fits, Apart, SettingNames, Triggers
<1> HIDE DEF trig
<1>3. OnlyIn(c, e, {"mode", "trig"}) /\ Has(e, "mode", "DEMAND") /\ Has(e, "trig", trig)
  BY <1>2, PutTwo
<1> HIDE DEF e
<1> QED
  BY <1>1, <1>3 DEF trig, Has

\* c but for its mode, ONLINE now, and its triggers.
ModeSet(c, e) == OnlyIn(c, e, {"mode", "trig"}) /\ e.mode = "ONLINE"

LEMMA OnlineAgain ==
  ASSUME NEW c \in Settings
  PROVE  ModeSet(c, Put(Put(c, "mode", "ONLINE"), "trig", {})) /\ ModeSet(c, Put(c, "mode", "ONLINE"))
<1> DEFINE none == {}
           e == Put(Put(c, "mode", "ONLINE"), "trig", none)
           e1 == Put(c, "mode", "ONLINE")
<1>1. /\ Fits("mode", "ONLINE") /\ Fits("trig", none)
      /\ Apart("mode", "trig")
  BY ValuesAre DEF Fits, Apart, SettingNames
<1> HIDE DEF none
<1>2. OnlyIn(c, e, {"mode", "trig"}) /\ Has(e, "mode", "ONLINE")
  BY <1>1, PutTwo
<1>3. OnlyIn(c, e1, {"mode", "trig"}) /\ Has(e1, "mode", "ONLINE")
  BY <1>1, PutOne
<1> HIDE DEF e, e1
<1>4. ModeSet(c, e) /\ ModeSet(c, e1)
  BY <1>2, <1>3 DEF ModeSet, Has
<1> QED
  BY <1>4 DEF e, e1, none

LEMMA DoNoActivate ==
  ASSUME NEW c \in Settings, NEW m, m[1] = "no activate", m[2] \in {"all", "manual"}
  PROVE  OnlyIn(c, Do(c, m), {"mode", "trig"}) /\ Do(c, m).mode = "ONLINE"
<1> DEFINE none == {}
           e == Put(Put(c, "mode", "ONLINE"), "trig", none)
           e1 == Put(c, "mode", "ONLINE")
<1>1. Do(c, m) \in {e, e1}
  <2>1. Do(c, m) = Activate(c, m)
    BY DEF Do, IpWords, Ipv6Words
  <2>2. CASE m[2] = "all"
    BY <2>1, <2>2 DEF Activate, Triggers, Put
  <2>3. CASE m[2] = "manual"
    BY <2>1, <2>3 DEF Activate, Triggers, Put
  <2> QED
    BY <2>2, <2>3
<1>2. ModeSet(c, e) /\ ModeSet(c, e1)
  BY OnlineAgain
<1> HIDE DEF e, e1
<1> QED
  BY <1>1, <1>2 DEF ModeSet

LEMMA TriggerDropped ==
  ASSUME NEW c \in Settings, NEW t \in Triggers
  PROVE  /\ OnlyIn(c, DropTrigger(c, t), {"mode", "trig"})
         /\ DropTrigger(c, t).mode = IF c.trig \subseteq {t} THEN "ONLINE" ELSE c.mode
         /\ DropTrigger(c, t).trig = c.trig \ {t}
<1> DEFINE trig == c.trig \ {t}
           mode == IF c.trig \subseteq {t} THEN "ONLINE" ELSE c.mode
           e == Put(Put(c, "trig", trig), "mode", mode)
<1>1. DropTrigger(c, t) = e
  BY DEF DropTrigger, Put
<1>2. /\ Fits("trig", trig) /\ Fits("mode", mode)
      /\ Apart("trig", "mode")
  BY SettingsHave, ValuesAre DEF Fits, Apart, SettingNames
<1> HIDE DEF trig, mode
<1>3. OnlyIn(c, e, {"mode", "trig"}) /\ Has(e, "trig", trig) /\ Has(e, "mode", mode)
  BY <1>2, PutTwo
<1> HIDE DEF e
<1> QED
  BY <1>1, <1>3 DEF trig, mode, Has

LEMMA DoNoDemand ==
  ASSUME NEW c \in Settings, NEW m, m[1] = "no activate", m[2] \in Triggers
  PROVE  /\ OnlyIn(c, Do(c, m), {"mode", "trig"})
         /\ Do(c, m).mode = IF c.trig \subseteq {m[2]} THEN "ONLINE" ELSE c.mode
         /\ Do(c, m).trig = c.trig \ {m[2]}
<1> DEFINE x == DropTrigger(c, m[2])
<1>1. Do(c, m) = x
  BY DEF Do, Activate, Triggers, IpWords, Ipv6Words
<1>2. /\ OnlyIn(c, x, {"mode", "trig"})
      /\ x.mode = IF c.trig \subseteq {m[2]} THEN "ONLINE" ELSE c.mode
      /\ x.trig = c.trig \ {m[2]}
  BY TriggerDropped
<1> HIDE DEF x
<1> QED
  BY <1>1, <1>2

LEMMA DoShare ==
  ASSUME NEW c \in Settings, NEW m, m[1] = "share", m[2] \in {"off", "default", "own"}
  PROVE  OnlyIn(c, Do(c, m), {"share"}) /\ Do(c, m).share = m[2]
<1> DEFINE v == m[2]
           e == Put(c, "share", v)
<1>1. Do(c, m) = e
  BY DEF Do, Ipv6, IpWords, Ipv6Words, Put
<1>2. Fits("share", v)
  BY SettingsHave, ValuesAre DEF Fits, SettingNames
<1> HIDE DEF v
<1>3. OnlyIn(c, e, {"share"}) /\ Has(e, "share", v)
  BY <1>2, PutOne
<1> HIDE DEF e
<1> QED
  BY <1>1, <1>3 DEF v, Has

LEMMA DoPd ==
  ASSUME NEW c \in Settings, NEW m, m[1] = "pd", m[2] \in Wans, m[3] \in {"default", "own"}
  PROVE  OnlyIn(c, Do(c, m), {"pd"}) /\ Do(c, m).pd = [c.pd EXCEPT ![m[2]] = m[3]]
<1> DEFINE v == [c.pd EXCEPT ![m[2]] = m[3]]
           e == Put(c, "pd", v)
<1>1. Do(c, m) = e
  BY DEF Do, Ipv6, IpWords, Ipv6Words, Put
<1>2. Fits("pd", v)
  BY SettingsHave, ValuesAre DEF Fits, SettingNames
<1> HIDE DEF v
<1>3. OnlyIn(c, e, {"pd"}) /\ Has(e, "pd", v)
  BY <1>2, PutOne
<1> HIDE DEF e
<1> QED
  BY <1>1, <1>3 DEF v, Has

LEMMA DoPrefix ==
  ASSUME NEW c \in Settings, NEW m, m[1] = "prefix", m[2] \in Wans, m[3] \in {0, 56, 80}
  PROVE  OnlyIn(c, Do(c, m), {"prefix"}) /\ Do(c, m).prefix = At(c.prefix, m[2], m[3])
<1> DEFINE v == [c.prefix EXCEPT ![m[2]] = m[3]]
           e == Put(c, "prefix", v)
<1>1. Do(c, m) = e
  BY DEF Do, Ipv6, IpWords, Ipv6Words, Put
<1>2. Fits("prefix", v)
  BY SettingsHave, ValuesAre DEF Fits, SettingNames
<1> HIDE DEF v
<1>3. OnlyIn(c, e, {"prefix"}) /\ Has(e, "prefix", v)
  BY <1>2, PutOne
<1> HIDE DEF e
<1> QED
  BY <1>1, <1>3 DEF v, Has, At

LEMMA DoStrict ==
  ASSUME NEW c \in Settings, NEW m, m[1] = "strict", m[2] \in Wans, m[3] \in BOOLEAN
  PROVE  OnlyIn(c, Do(c, m), {"strict"}) /\ Do(c, m).strict = At(c.strict, m[2], m[3])
<1> DEFINE v == [c.strict EXCEPT ![m[2]] = m[3]]
           e == Put(c, "strict", v)
<1>1. Do(c, m) = e
  BY DEF Do, Ipv6, IpWords, Ipv6Words, Put
<1>2. Fits("strict", v)
  BY SettingsHave, ValuesAre DEF Fits, SettingNames
<1> HIDE DEF v
<1>3. OnlyIn(c, e, {"strict"}) /\ Has(e, "strict", v)
  BY <1>2, PutOne
<1> HIDE DEF e
<1> QED
  BY <1>1, <1>3 DEF v, Has, At

LEMMA DoNoPrefix ==
  ASSUME NEW c \in Settings, NEW m, m[1] = "no prefix", m[2] \in Wans
  PROVE  OnlyIn(c, Do(c, m), {"prefix", "strict"})
<1> DEFINE v == [c.prefix EXCEPT ![m[2]] = 0]
           w == [c.strict EXCEPT ![m[2]] = FALSE]
           e == Put(Put(c, "prefix", v), "strict", w)
<1>1. Do(c, m) = e
  BY DEF Do, Ipv6, IpWords, Ipv6Words, Put
<1>2. /\ Fits("prefix", v)
      /\ Fits("strict", w) /\ Apart("prefix", "strict")
  BY SettingsHave, ValuesAre DEF Fits, Apart, SettingNames
<1> HIDE DEF v, w
<1>3. OnlyIn(c, e, {"prefix", "strict"})
  BY <1>2, PutTwo
<1> HIDE DEF e
<1> QED
  BY <1>1, <1>3

LEMMA DoNegotiated ==
  ASSUME NEW c \in Settings, NEW m, m[1] = "negotiated"
  PROVE  OnlyIn(c, Do(c, m), {"static"}) /\ Do(c, m).static = FALSE
<1> DEFINE v == FALSE
           e == Put(c, "static", v)
<1>1. Do(c, m) = e
  BY DEF Do, Ip, IpWords, Ipv6Words, Put
<1>2. Fits("static", v)
  BY SettingsHave, ValuesAre DEF Fits, SettingNames
<1> HIDE DEF v
<1>3. OnlyIn(c, e, {"static"}) /\ Has(e, "static", v)
  BY <1>2, PutOne
<1> HIDE DEF e
<1> QED
  BY <1>1, <1>3 DEF v, Has

LEMMA DoLocal ==
  ASSUME NEW c \in Settings, NEW m, m[1] = "local"
  PROVE  OnlyIn(c, Do(c, m), {"static", "local"}) /\ Do(c, m).static = TRUE /\ Do(c, m).local = TRUE
<1> DEFINE yes == TRUE
           e == Put(Put(c, "static", yes), "local", yes)
<1>1. Do(c, m) = e
  BY DEF Do, Ip, IpWords, Ipv6Words, Put
<1>2. /\ Fits("static", yes) /\ Fits("local", yes)
      /\ Apart("static", "local")
  BY ValuesAre DEF Fits, Apart, SettingNames
<1> HIDE DEF yes
<1>3. OnlyIn(c, e, {"static", "local"}) /\ Has(e, "static", yes) /\ Has(e, "local", yes)
  BY <1>2, PutTwo
<1> HIDE DEF e
<1> QED
  BY <1>1, <1>3 DEF Has, yes

LEMMA DoPeer ==
  ASSUME NEW c \in Settings, NEW m, m[1] = "peer", m[2] \in {"none", "1.1.1.3", "own"}
  PROVE  OnlyIn(c, Do(c, m), {"static", "peer"}) /\ Do(c, m).static = TRUE /\ Do(c, m).peer = m[2]
<1> DEFINE yes == TRUE
           e == Put(Put(c, "static", yes), "peer", m[2])
<1>1. Do(c, m) = e
  BY DEF Do, Ip, IpWords, Ipv6Words, Put
<1>2. /\ Fits("static", yes) /\ Fits("peer", m[2])
      /\ Apart("static", "peer")
  BY ValuesAre DEF Fits, Apart, SettingNames
<1> HIDE DEF yes
<1>3. OnlyIn(c, e, {"static", "peer"}) /\ Has(e, "static", yes) /\ Has(e, "peer", m[2])
  BY <1>2, PutTwo
<1> HIDE DEF e
<1> QED
  BY <1>1, <1>3 DEF Has, yes

LEMMA DoBoth ==
  ASSUME NEW c \in Settings, NEW m, m[1] = "both", m[2] \in {"none", "1.1.1.3", "own"}
  PROVE  /\ OnlyIn(c, Do(c, m), {"static", "local", "peer"})
         /\ Do(c, m).static = TRUE /\ Do(c, m).local = TRUE /\ Do(c, m).peer = m[2]
<1> DEFINE yes == TRUE
           e == Put(Put(Put(c, "static", yes), "local", yes), "peer", m[2])
<1>1. Do(c, m) = e
  BY DEF Do, Ip, IpWords, Ipv6Words, Put
<1>2. /\ Fits("static", yes) /\ Fits("local", yes) /\ Fits("peer", m[2])
      /\ Apart("static", "local") /\ Apart("static", "peer") /\ Apart("local", "peer")
  BY ValuesAre DEF Fits, Apart, SettingNames
<1> HIDE DEF yes
<1>3. OnlyIn(c, e, {"static", "local", "peer"}) /\ Has(e, "static", yes) /\ Has(e, "local", yes) /\ Has(e, "peer", m[2])
  BY <1>2, PutThree
<1> HIDE DEF e
<1> QED
  BY <1>1, <1>3 DEF Has, yes

LEMMA DoNetmask ==
  ASSUME NEW c \in Settings, NEW m, m[1] = "netmask"
  PROVE  OnlyIn(c, Do(c, m), {"static", "netmask"}) /\ Do(c, m).static = TRUE /\ Do(c, m).netmask = TRUE
<1> DEFINE yes == TRUE
           e == Put(Put(c, "static", yes), "netmask", yes)
<1>1. Do(c, m) = e
  BY DEF Do, Ip, IpWords, Ipv6Words, Put
<1>2. /\ Fits("static", yes) /\ Fits("netmask", yes)
      /\ Apart("static", "netmask")
  BY ValuesAre DEF Fits, Apart, SettingNames
<1> HIDE DEF yes
<1>3. OnlyIn(c, e, {"static", "netmask"}) /\ Has(e, "static", yes) /\ Has(e, "netmask", yes)
  BY <1>2, PutTwo
<1> HIDE DEF e
<1> QED
  BY <1>1, <1>3 DEF Has, yes

\* One of the addresses goes.
LEMMA Settled ==
  ASSUME NEW c \in Settings, NEW e \in Settings, NEW S, OnlyIn(c, e, S)
  PROVE  /\ OnlyIn(c, SettleStatic(e), S \cup {"static"})
         /\ \A f \in SettingNames \ {"static"} : SettleStatic(e)[f] = e[f]
         /\ e.local = TRUE \/ e.peer # "none" => SettleStatic(e).static = e.static
         /\ e.local = FALSE /\ e.peer = "none" => SettleStatic(e).static = FALSE
<1> DEFINE v == e.static /\ (e.local \/ e.peer # "none")
           x == Put(e, "static", v)
<1>1. SettleStatic(e) = x
  BY DEF SettleStatic, Put
<1>2. /\ e.static = TRUE \/ e.static = FALSE
      /\ e.local = TRUE \/ e.local = FALSE
  BY SettingsHave, ValuesAre DEF Fits, SettingNames
<1>3. Fits("static", v)
  BY ValuesAre DEF Fits, SettingNames
<1>4. /\ e.local = TRUE \/ e.peer # "none" => v = e.static
      /\ e.local = FALSE /\ e.peer = "none" => v = FALSE
  BY <1>2
<1> HIDE DEF v
<1>5. OnlyIn(e, x, {"static"}) /\ Has(x, "static", v)
  BY <1>3, PutOne
<1> HIDE DEF x
<1>6. /\ \A f \in SettingNames \ {"static"} : x[f] = e[f]
      /\ OnlyIn(c, x, S \cup {"static"})
  BY <1>5 DEF OnlyIn
<1> QED
  BY <1>1, <1>4, <1>5, <1>6 DEF Has

LEMMA DoNoLocal ==
  ASSUME NEW c \in Settings, NEW m, m[1] = "no local"
  PROVE  /\ OnlyIn(c, Do(c, m), {"local", "static"}) /\ Do(c, m).local = FALSE
         /\ c.peer # "none" => Do(c, m).static = c.static
         /\ c.peer = "none" => Do(c, m).static = FALSE
<1> DEFINE e == Put(c, "local", FALSE)
           x == SettleStatic(e)
<1>1. Do(c, m) = x
  BY DEF Do, Ip, IpWords, Ipv6Words, Put
<1>2. Fits("local", FALSE)
  BY ValuesAre DEF Fits, SettingNames
<1>3. OnlyIn(c, e, {"local"}) /\ Has(e, "local", FALSE)
  BY <1>2, PutOne
<1>4. e \in Settings
  BY <1>3 DEF OnlyIn
<1> HIDE DEF e
<1>5. e.peer = c.peer /\ e.static = c.static
  BY <1>3 DEF OnlyIn, SettingNames
<1>6. OnlyIn(c, x, {"local"} \cup {"static"}) /\ \A f \in SettingNames \ {"static"} : x[f] = e[f]
  BY <1>3, <1>4, Settled
<1>7. /\ e.local = TRUE \/ e.peer # "none" => x.static = e.static
      /\ e.local = FALSE /\ e.peer = "none" => x.static = FALSE
  BY <1>3, <1>4, Settled
<1> HIDE DEF x
<1>8. x.local = e.local
  BY <1>6 DEF SettingNames
<1>9. {"local"} \cup {"static"} = {"local", "static"}
  OBVIOUS
<1> QED
  BY <1>1, <1>3, <1>5, <1>6, <1>7, <1>8, <1>9 DEF Has

LEMMA DoNoPeer ==
  ASSUME NEW c \in Settings, NEW m, m[1] = "no peer"
  PROVE  /\ OnlyIn(c, Do(c, m), {"peer", "static"}) /\ Do(c, m).peer = "none"
         /\ c.local = TRUE => Do(c, m).static = c.static
         /\ c.local = FALSE => Do(c, m).static = FALSE
<1> DEFINE e == Put(c, "peer", "none")
           x == SettleStatic(e)
<1>1. Do(c, m) = x
  BY DEF Do, Ip, IpWords, Ipv6Words, Put
<1>2. Fits("peer", "none")
  BY ValuesAre DEF Fits, SettingNames
<1>3. OnlyIn(c, e, {"peer"}) /\ Has(e, "peer", "none")
  BY <1>2, PutOne
<1>4. e \in Settings
  BY <1>3 DEF OnlyIn
<1> HIDE DEF e
<1>5. e.local = c.local /\ e.static = c.static
  BY <1>3 DEF OnlyIn, SettingNames
<1>6. OnlyIn(c, x, {"peer"} \cup {"static"}) /\ \A f \in SettingNames \ {"static"} : x[f] = e[f]
  BY <1>3, <1>4, Settled
<1>7. /\ e.local = TRUE \/ e.peer # "none" => x.static = e.static
      /\ e.local = FALSE /\ e.peer = "none" => x.static = FALSE
  BY <1>3, <1>4, Settled
<1> HIDE DEF x
<1>8. x.peer = e.peer
  BY <1>6 DEF SettingNames
<1>9. {"peer"} \cup {"static"} = {"peer", "static"}
  OBVIOUS
<1> QED
  BY <1>1, <1>3, <1>5, <1>6, <1>7, <1>8, <1>9 DEF Has

LEMMA DoNoNetmask ==
  ASSUME NEW c \in Settings, NEW m, m[1] = "no netmask"
  PROVE  /\ OnlyIn(c, Do(c, m), {"netmask", "static"}) /\ Do(c, m).netmask = FALSE
         /\ c.local = TRUE \/ c.peer # "none" => Do(c, m).static = c.static
         /\ c.local = FALSE /\ c.peer = "none" => Do(c, m).static = FALSE
<1> DEFINE e == Put(c, "netmask", FALSE)
           x == SettleStatic(e)
<1>1. Do(c, m) = x
  BY DEF Do, Ip, IpWords, Ipv6Words, Put
<1>2. Fits("netmask", FALSE)
  BY ValuesAre DEF Fits, SettingNames
<1>3. OnlyIn(c, e, {"netmask"}) /\ Has(e, "netmask", FALSE)
  BY <1>2, PutOne
<1>4. e \in Settings
  BY <1>3 DEF OnlyIn
<1> HIDE DEF e
<1>5. e.local = c.local /\ e.peer = c.peer /\ e.static = c.static
  BY <1>3 DEF OnlyIn, SettingNames
<1>6. OnlyIn(c, x, {"netmask"} \cup {"static"}) /\ \A f \in SettingNames \ {"static"} : x[f] = e[f]
  BY <1>3, <1>4, Settled
<1>7. /\ e.local = TRUE \/ e.peer # "none" => x.static = e.static
      /\ e.local = FALSE /\ e.local = FALSE /\ e.peer = "none" => x.static = FALSE
  BY <1>3, <1>4, Settled
<1> HIDE DEF x
<1>8. x.netmask = e.netmask
  BY <1>6 DEF SettingNames
<1>9. {"netmask"} \cup {"static"} = {"netmask", "static"}
  OBVIOUS
<1> QED
  BY <1>1, <1>3, <1>5, <1>6, <1>7, <1>8, <1>9 DEF Has

LEMMA DoNoStatic ==
  ASSUME NEW c \in Settings, NEW m, m[1] = "no static"
  PROVE  OnlyIn(c, Do(c, m), {"static"})
<1> DEFINE e == Put(c, "static", FALSE)
<1>1. Do(c, m) = SettleStatic(e)
  BY DEF Do, Ip, IpWords, Ipv6Words, Put
<1>2. Fits("static", FALSE)
  BY ValuesAre DEF Fits, SettingNames
<1>3. OnlyIn(c, e, {"static"})
  BY <1>2, PutOne
<1>4. e \in Settings
  BY <1>3 DEF OnlyIn
<1> HIDE DEF e
<1>5. OnlyIn(c, SettleStatic(e), {"static"} \cup {"static"})
  BY <1>3, <1>4, Settled
<1>6. {"static"} \cup {"static"} = {"static"}
  OBVIOUS
<1> QED
  BY <1>1, <1>5, <1>6

\* A profile that a card dials with stays.
LEMMA DoNoProfile ==
  ASSUME NEW c \in Settings, NEW m, m[1] = "no profile", m[2] \in Profiles
  PROVE  /\ OnlyIn(c, Do(c, m), {"prof"})
         /\ \A n \in Profiles : Do(c, m).prof[n] \in {c.prof[n], "none"}
<1> DEFINE v == [c.prof EXCEPT ![m[2]] = "none"]
           e == Put(c, "prof", v)
<1>1. Do(c, m) = NoCellular(c, m)
  BY DEF Do, IpWords, Ipv6Words
<1>2. NoCellular(c, m) \in {c, e}
  BY DEF NoCellular, Put
<1>3. Fits("prof", v)
  BY SettingsHave, ValuesAre DEF Fits, SettingNames
<1>4. DOMAIN c.prof = Profiles
  BY SettingsHave, ValuesAre DEF Fits, SettingNames
<1>5. \A n \in Profiles : v[n] \in {c.prof[n], "none"}
  BY <1>4
<1> HIDE DEF v
<1>6. OnlyIn(c, e, {"prof"}) /\ Has(e, "prof", v)
  BY <1>3, PutOne
<1> HIDE DEF e
<1>7. OnlyIn(c, c, {"prof"})
  BY DEF OnlyIn
<1>8. CASE NoCellular(c, m) = c
  BY <1>1, <1>7, <1>8
<1>9. CASE NoCellular(c, m) = e
  BY <1>1, <1>5, <1>6, <1>9 DEF Has
<1> QED
  BY <1>2, <1>8, <1>9

LEMMA DoNoNetwork ==
  ASSUME NEW c \in Settings, NEW m, m[1] = "no network"
  PROVE  OnlyIn(c, Do(c, m), {"net"})
<1> DEFINE v == [c.net EXCEPT !["sim1"] = "auto"]
<1>1. Do(c, m) = Put(c, "net", v)
  BY DEF Do, NoCellular, IpWords, Ipv6Words, Put
<1>2. Fits("net", v)
  BY SettingsHave, ValuesAre DEF Fits, SettingNames
<1> HIDE DEF v
<1> QED
  BY <1>1, <1>2, PutOne

LEMMA DoNoSim ==
  ASSUME NEW c \in Settings, NEW m, m[1] = "no sim" \/ m[1] = "no roaming" \/ m[1] = "no pin", m[2] \in SimNames
  PROVE  OnlyIn(c, Do(c, m), {"pin", "roam"})
<1> DEFINE v == [c.pin EXCEPT ![m[2]] = FALSE]
           w == [c.roam EXCEPT ![m[2]] = TRUE]
           e == Put(Put(c, "pin", v), "roam", w)
           e1 == Put(c, "roam", w)
           e2 == Put(c, "pin", v)
<1>1. Do(c, m) \in {e, e1, e2}
  BY DEF Do, NoCellular, IpWords, Ipv6Words, Put
<1>2. /\ Fits("pin", v)
      /\ Fits("roam", w) /\ Apart("pin", "roam")
  BY SettingsHave, ValuesAre DEF Fits, Apart, SettingNames
<1> HIDE DEF v, w
<1>3. OnlyIn(c, e, {"pin", "roam"})
  BY <1>2, PutTwo
<1>4. OnlyIn(c, e1, {"roam"}) /\ OnlyIn(c, e2, {"pin"})
  BY <1>2, PutOne
<1> HIDE DEF e, e1, e2
<1>5. OnlyIn(c, e1, {"pin", "roam"}) /\ OnlyIn(c, e2, {"pin", "roam"})
  BY <1>4 DEF OnlyIn
<1> QED
  BY <1>1, <1>3, <1>5

LEMMA PoliciesGone ==
  ASSUME NEW c \in Settings
  PROVE  /\ OnlyIn(c, Put(c, "dual", FALSE), {"dual", "csq", "backtime", "retries"})
         /\ OnlyIn(c, Put(Put(Put(c, "csq", [s \in SimNames |-> FALSE]), "backtime", FALSE), "retries", 5),
                   {"dual", "csq", "backtime", "retries"})
<1> DEFINE no == FALSE
           v == [s \in SimNames |-> FALSE]
           S == {"dual", "csq", "backtime", "retries"}
<1>1. /\ Fits("csq", v) /\ Fits("backtime", no) /\ Fits("retries", 5) /\ Fits("dual", no)
      /\ Apart("csq", "backtime") /\ Apart("csq", "retries") /\ Apart("backtime", "retries")
  BY ValuesAre DEF Fits, Apart, SettingNames
<1>2. "dual" \in S /\ "csq" \in S /\ "backtime" \in S /\ "retries" \in S
  OBVIOUS
<1> HIDE DEF no, v, S
<1>3. OnlyIn(c, Put(Put(Put(c, "csq", v), "backtime", no), "retries", 5), S)
  BY <1>1, <1>2, PutThree
<1>4. OnlyIn(c, Put(c, "dual", no), S)
  BY <1>1, <1>2, PutOne
<1> QED
  BY <1>3, <1>4 DEF no, v, S

LEMMA DoNoPolicy ==
  ASSUME NEW c \in Settings, NEW m, m[1] = "no dual" \/ m[1] = "no policy"
  PROVE  OnlyIn(c, Do(c, m), {"dual", "csq", "backtime", "retries"})
<1> DEFINE v == [s \in SimNames |-> FALSE]
           e == Put(c, "dual", FALSE)
           e1 == Put(Put(Put(c, "csq", v), "backtime", FALSE), "retries", 5)
<1>1. Do(c, m) \in {e, e1}
  BY DEF Do, NoCellular, IpWords, Ipv6Words, Put
<1>2. OnlyIn(c, e, {"dual", "csq", "backtime", "retries"}) /\ OnlyIn(c, e1, {"dual", "csq", "backtime", "retries"})
  BY PoliciesGone
<1> HIDE DEF e, e1
<1> QED
  BY <1>1, <1>2

LEMMA MainSimBack ==
  ASSUME NEW c \in Settings
  PROVE  /\ OnlyIn(c, SetMainSim(c, "sim1", "sim1"), {"main", "backup", "policy"})
         /\ SetMainSim(c, "sim1", "sim1").main = "sim1" /\ SetMainSim(c, "sim1", "sim1").backup = OtherName("sim1")
<1> DEFINE s == "sim1"
<1>1. s \in SimNames /\ s \in SimNames \cup {"random", "sequence"}
  BY DEF SimNames
<1> HIDE DEF s
<1>2. /\ OnlyIn(c, SetMainSim(c, s, s), {"main", "backup", "policy"})
      /\ SetMainSim(c, s, s).main = s /\ SetMainSim(c, s, s).backup = OtherName(s)
  BY <1>1, MainSimSet
<1> QED
  BY <1>2 DEF s

LEMMA DoNoMain ==
  ASSUME NEW c \in Settings, NEW m, m[1] = "no main"
  PROVE  /\ OnlyIn(c, Do(c, m), {"main", "backup", "policy"})
         /\ Do(c, m).main = "sim1" /\ Do(c, m).backup = OtherName("sim1")
<1>1. Do(c, m) = SetMainSim(c, "sim1", "sim1")
  BY DEF Do, NoCellular, IpWords, Ipv6Words
<1> QED
  BY <1>1, MainSimBack

LEMMA DoNoUse ==
  ASSUME NEW c \in Settings, NEW m, m[1] = "no use", m[2] \in SimNames
  PROVE  OnlyIn(c, Do(c, m), {"use"})
<1> DEFINE v == [c.use EXCEPT ![m[2]] = IF m[2] = "sim1" THEN 1 ELSE 0]
           e == Put(c, "use", v)
<1>1. Do(c, m) = e
  BY DEF Do, UseProfile, IpWords, Ipv6Words, Put
<1>2. Fits("use", v)
  BY SettingsHave, ValuesAre, SettingsConstantsOK DEF Fits, SettingNames
<1> HIDE DEF v
<1>3. OnlyIn(c, e, {"use"}) /\ Has(e, "use", v)
  BY <1>2, PutOne
<1> HIDE DEF e
<1> QED
  BY <1>1, <1>3 DEF v, Has

LEMMA DoNoWan2 ==
  ASSUME NEW c \in Settings, NEW m, m[1] = "no wan2", m[2] \in SimNames
  PROVE  OnlyIn(c, Do(c, m), {"wan2"})
<1> DEFINE v == [c.wan2 EXCEPT ![m[2]] = FALSE]
           e == Put(c, "wan2", v)
<1>1. Do(c, m) = e
  BY DEF Do, SecondaryWan, IpWords, Ipv6Words, Put
<1>2. Fits("wan2", v)
  BY SettingsHave, ValuesAre DEF Fits, SettingNames
<1> HIDE DEF v
<1>3. OnlyIn(c, e, {"wan2"}) /\ Has(e, "wan2", v)
  BY <1>2, PutOne
<1> HIDE DEF e
<1> QED
  BY <1>1, <1>3 DEF v, Has

-----------------------------------------------------------------------------
(* A boot: the daemon after each section of what is printed.               *)

Daemons == [cfg : Settings, sim : SimNames, flag : BOOLEAN, redial : BOOLEAN]

LEMMA RunIs ==
  ASSUME NEW d \in Daemons, NEW m, Do(d.cfg, m) \in Settings
  PROVE  Run(d, m) \in Daemons /\ Run(d, m).cfg = Do(d.cfg, m)
<1> DEFINE c == Do(d.cfg, m)
           flag == (d.flag \/ NotMain(c, d.sim, m)) /\ m[1] # "no dual"
           redial2 == c # d.cfg /\ Restarts(c, d.sim, m)
<1>1. Run(d, m) = [cfg |-> c, sim |-> d.sim, flag |-> flag, redial |-> redial2]
  BY DEF Run
<1>2. flag \in BOOLEAN /\ redial2 \in BOOLEAN /\ d.sim \in SimNames
  BY DEF Daemons
<1> HIDE DEF c, flag, redial2
<1>3. c \in Settings
  BY DEF c
<1> QED
  BY <1>1, <1>2, <1>3 DEF Daemons, c

\* A printed line that only changes the settings in S.
LEMMA GiveIs ==
  ASSUME NEW d \in Daemons, NEW b \in BOOLEAN, NEW m, NEW S, b => OnlyIn(d.cfg, Do(d.cfg, m), S)
  PROVE  /\ Give(d, b, m) \in Daemons /\ OnlyIn(d.cfg, Give(d, b, m).cfg, S)
         /\ b => Give(d, b, m).cfg = Do(d.cfg, m)
         /\ ~b => Give(d, b, m) = d
<1>1. d.cfg \in Settings
  BY DEF Daemons
<1>2. CASE b
  <2>1. Do(d.cfg, m) \in Settings
    BY <1>2 DEF OnlyIn
  <2> QED
    BY <1>2, <2>1, RunIs DEF Give
<1>3. CASE ~b
  BY <1>1, <1>3 DEF Give, OnlyIn
<1> QED
  BY <1>2, <1>3

LEMMA LineIs ==
  ASSUME NEW d \in Daemons, NEW m, NEW S, OnlyIn(d.cfg, Do(d.cfg, m), S)
  PROVE  Run(d, m) \in Daemons /\ Run(d, m).cfg = Do(d.cfg, m) /\ OnlyIn(d.cfg, Run(d, m).cfg, S)
<1>1. Do(d.cfg, m) \in Settings
  BY DEF OnlyIn
<1> QED
  BY <1>1, RunIs

LEMMA RunThen ==
  ASSUME NEW d, NEW s, NEW b, NEW m, IsSeq(s)
  PROVE  IsSeq(s \o If(b, m)) /\ RunAll(d, s \o If(b, m)) = Give(RunAll(d, s), b, m)
<1>1. IsSeq(If(b, m))
  BY IfIsSeq
<1> QED
  BY <1>1, ConcatIsSeq, RunConcat, RunIf

LEMMA TwoIsSeq == ASSUME NEW m, NEW n PROVE IsSeq(<<m, n>>)
<1>1. <<m, n>> \in Seq({m, n})
  OBVIOUS
<1> QED
  BY <1>1 DEF IsSeq

LEMMA RunTwo == ASSUME NEW d, NEW m, NEW n PROVE RunAll(d, <<m, n>>) = Run(Run(d, m), n)
<1> DEFINE s == <<m, n>>
           g == [k \in 0 .. 2 |-> IF k = 0 THEN d ELSE IF k = 1 THEN Run(d, m) ELSE Run(Run(d, m), n)]
<1>1. g[0] = d /\ g[1] = Run(d, m) /\ g[2] = Run(Run(d, m), n) /\ Len(s) = 2 /\ s[1] = m /\ s[2] = n
  OBVIOUS
<1> HIDE DEF g, s
<1>2. ASSUME NEW k \in 1 .. Len(s) PROVE g[k] = Run(g[k - 1], s[k])
  <2>1. CASE k = 1
    BY <1>1, <2>1
  <2>2. CASE k = 2
    BY <1>1, <2>2
  <2>3. k = 1 \/ k = 2
    <3>1. k \in 1 .. 2
      BY <1>1
    <3> QED
      BY <3>1
  <2> QED
    BY <2>1, <2>2, <2>3, Zenon
<1>3. Len(s) \in Nat
  BY <1>1
<1>4. g[0] = d
  BY <1>1
<1>5. RunAll(d, s) = g[Len(s)]
  BY <1>2, <1>3, <1>4, RunAllIs, Zenon
<1> QED
  BY <1>1, <1>5, Zenon DEF s

LEMMA RunThenTwo ==
  ASSUME NEW d, NEW s, NEW m, NEW n, IsSeq(s)
  PROVE  IsSeq(s \o <<m, n>>) /\ RunAll(d, s \o <<m, n>>) = Run(Run(RunAll(d, s), m), n)
<1> DEFINE t == <<m, n>>
<1>1. IsSeq(t)
  BY TwoIsSeq
<1>2. RunAll(RunAll(d, s), t) = Run(Run(RunAll(d, s), m), n)
  BY RunTwo
<1> HIDE DEF t
<1>3. IsSeq(s \o t) /\ RunAll(d, s \o t) = RunAll(RunAll(d, s), t)
  BY <1>1, ConcatIsSeq, RunConcat
<1> QED
  BY <1>2, <1>3 DEF t

LEMMA RunThenOne ==
  ASSUME NEW d, NEW s, NEW m, IsSeq(s)
  PROVE  IsSeq(s \o <<m>>) /\ RunAll(d, s \o <<m>>) = Run(RunAll(d, s), m)
<1> DEFINE t == <<m>>
<1>1. IsSeq(t)
  BY OneIsSeq
<1>2. RunAll(RunAll(d, s), t) = Run(RunAll(d, s), m)
  BY RunOne
<1> HIDE DEF t
<1>3. IsSeq(s \o t) /\ RunAll(d, s \o t) = RunAll(RunAll(d, s), t)
  BY <1>1, ConcatIsSeq, RunConcat
<1> QED
  BY <1>2, <1>3 DEF t

LEMMA DaemonHas ==
  ASSUME NEW d \in Daemons
  PROVE  /\ d.cfg.use \in [SimNames -> Profiles \cup {0}] /\ d.cfg.csq \in [SimNames -> BOOLEAN]
         /\ d.cfg.prefix \in [Wans -> {0, 56, 80}] /\ d.cfg.strict \in [Wans -> BOOLEAN]
BY DEF Daemons, Settings

-----------------------------------------------------------------------------
(* What each part of what is printed does to a daemon.                     *)

\* PrintIpv6().
LEMMA Ipv6Runs ==
  ASSUME NEW c \in Settings, NEW d \in Daemons
  PROVE  LET e == RunAll(d, PrintIpv6(c)) IN
         /\ IsSeq(PrintIpv6(c)) /\ e \in Daemons /\ OnlyIn(d.cfg, e.cfg, {"share", "pd", "prefix", "strict"})
         /\ e.cfg.share = IF c.share = "off" THEN d.cfg.share ELSE c.share
         /\ e.cfg.pd = c.pd
         /\ e.cfg.prefix = [w \in Wans |-> IF c.prefix[w] \in 1 .. 64 THEN c.prefix[w] ELSE d.cfg.prefix[w]]
         /\ e.cfg.strict = [w \in Wans |-> IF c.strict[w] = TRUE THEN TRUE ELSE d.cfg.strict[w]]
<1> DEFINE b1 == c.share # "off"
           m1 == <<"share", c.share>>
           m2 == <<"pd", "wan1", c.pd["wan1"]>>
           m3 == <<"pd", "wan2", c.pd["wan2"]>>
           b4 == c.prefix["wan1"] \in 1 .. 64
           m4 == <<"prefix", "wan1", c.prefix["wan1"]>>
           b5 == c.prefix["wan2"] \in 1 .. 64
           m5 == <<"prefix", "wan2", c.prefix["wan2"]>>
           b6 == c.strict["wan1"]
           m6 == <<"strict", "wan1", TRUE>>
           b7 == c.strict["wan2"]
           m7 == <<"strict", "wan2", TRUE>>
           s1 == If(b1, m1)
           s3 == s1 \o <<m2, m3>>
           s4 == s3 \o If(b4, m4)
           s5 == s4 \o If(b5, m5)
           s6 == s5 \o If(b6, m6)
           s7 == s6 \o If(b7, m7)
           d1 == Give(d, b1, m1)
           d2 == Run(d1, m2)
           d3 == Run(d2, m3)
           d4 == Give(d3, b4, m4)
           d5 == Give(d4, b5, m5)
           d6 == Give(d5, b6, m6)
           d7 == Give(d6, b7, m7)
<1>1. PrintIpv6(c) = s7
  BY DEF PrintIpv6
<1>2. IsSeq(s7) /\ RunAll(d, s7) = d7
  <2> HIDE DEF b1, m1, m2, m3, b4, m4, b5, m5, b6, m6, b7, m7
  <2>1. IsSeq(s1) /\ RunAll(d, s1) = d1
    BY IfIsSeq, RunIf
  <2> HIDE DEF s1, d1
  <2>2. IsSeq(s3) /\ RunAll(d, s3) = d3
    BY <2>1, RunThenTwo
  <2> HIDE DEF s3, d3
  <2>3. IsSeq(s4) /\ RunAll(d, s4) = d4
    BY <2>2, RunThen
  <2> HIDE DEF s4, d4
  <2>4. IsSeq(s5) /\ RunAll(d, s5) = d5
    BY <2>3, RunThen
  <2> HIDE DEF s5, d5
  <2>5. IsSeq(s6) /\ RunAll(d, s6) = d6
    BY <2>4, RunThen
  <2> HIDE DEF s6, d6
  <2> QED
    BY <2>5, RunThen
<1> HIDE DEF s1, s3, s4, s5, s6, s7
<1>3. "wan1" \in Wans /\ "wan2" \in Wans /\ Wans = {"wan1", "wan2"}
  BY DEF Wans
<1>4. /\ d1 \in Daemons /\ OnlyIn(d.cfg, d1.cfg, {"share"})
      /\ d1.cfg.share = IF c.share = "off" THEN d.cfg.share ELSE c.share
  <2>1. /\ b1 \in BOOLEAN
        /\ (b1 <=> c.share # "off")
        /\ m1[1] = "share" /\ m1[2] = c.share /\ m1[2] \in {"off", "default", "own"}
    BY <1>3 DEF Settings
  <2>2. d.cfg \in Settings
    BY DEF Daemons
  <2> HIDE DEF b1, m1
  <2>3. OnlyIn(d.cfg, Do(d.cfg, m1), {"share"}) /\ Do(d.cfg, m1).share = m1[2]
    BY <1>3, <2>1, <2>2, DoShare
  <2> QED
    BY <2>1, <2>3, GiveIs
<1> HIDE DEF d1
<1>5. /\ d2 \in Daemons /\ OnlyIn(d1.cfg, d2.cfg, {"pd"})
      /\ d2.cfg.pd = [d1.cfg.pd EXCEPT !["wan1"] = c.pd["wan1"]]
  <2>1. /\ m2[1] = "pd" /\ m2[2] = "wan1"
        /\ m2[3] = c.pd["wan1"] /\ m2[3] \in {"default", "own"}
    BY <1>3 DEF Settings
  <2>2. d1.cfg \in Settings
    BY <1>4 DEF Daemons
  <2> HIDE DEF m2
  <2>3. OnlyIn(d1.cfg, Do(d1.cfg, m2), {"pd"}) /\ Do(d1.cfg, m2).pd = [d1.cfg.pd EXCEPT ![m2[2]] = m2[3]]
    BY <1>3, <2>1, <2>2, DoPd
  <2> QED
    BY <1>4, <2>1, <2>3, LineIs
<1> HIDE DEF d2
<1>6. /\ d3 \in Daemons /\ OnlyIn(d2.cfg, d3.cfg, {"pd"})
      /\ d3.cfg.pd = [d2.cfg.pd EXCEPT !["wan2"] = c.pd["wan2"]]
  <2>1. /\ m3[1] = "pd" /\ m3[2] = "wan2"
        /\ m3[3] = c.pd["wan2"] /\ m3[3] \in {"default", "own"}
    BY <1>3 DEF Settings
  <2>2. d2.cfg \in Settings
    BY <1>5 DEF Daemons
  <2> HIDE DEF m3
  <2>3. OnlyIn(d2.cfg, Do(d2.cfg, m3), {"pd"}) /\ Do(d2.cfg, m3).pd = [d2.cfg.pd EXCEPT ![m3[2]] = m3[3]]
    BY <1>3, <2>1, <2>2, DoPd
  <2> QED
    BY <1>5, <2>1, <2>3, LineIs
<1> HIDE DEF d3
<1>7. /\ d4 \in Daemons /\ OnlyIn(d3.cfg, d4.cfg, {"prefix"})
      /\ d4.cfg.prefix = IF c.prefix["wan1"] \in 1 .. 64 THEN [d3.cfg.prefix EXCEPT !["wan1"] = c.prefix["wan1"]] ELSE d3.cfg.prefix
  <2>1. /\ b4 \in BOOLEAN
        /\ (b4 <=> c.prefix["wan1"] \in 1 .. 64)
        /\ m4[1] = "prefix" /\ m4[2] = "wan1"
        /\ m4[3] = c.prefix["wan1"] /\ m4[3] \in {0, 56, 80}
    BY <1>3 DEF Settings
  <2>2. d3.cfg \in Settings
    BY <1>6 DEF Daemons
  <2> HIDE DEF b4, m4
  <2>3. OnlyIn(d3.cfg, Do(d3.cfg, m4), {"prefix"}) /\ Do(d3.cfg, m4).prefix = At(d3.cfg.prefix, m4[2], m4[3])
    BY <1>3, <2>1, <2>2, DoPrefix
  <2> QED
    BY <1>6, <2>1, <2>3, GiveIs DEF At
<1> HIDE DEF d4
<1>8. /\ d5 \in Daemons /\ OnlyIn(d4.cfg, d5.cfg, {"prefix"})
      /\ d5.cfg.prefix = IF c.prefix["wan2"] \in 1 .. 64 THEN [d4.cfg.prefix EXCEPT !["wan2"] = c.prefix["wan2"]] ELSE d4.cfg.prefix
  <2>1. /\ b5 \in BOOLEAN
        /\ (b5 <=> c.prefix["wan2"] \in 1 .. 64)
        /\ m5[1] = "prefix" /\ m5[2] = "wan2"
        /\ m5[3] = c.prefix["wan2"] /\ m5[3] \in {0, 56, 80}
    BY <1>3 DEF Settings
  <2>2. d4.cfg \in Settings
    BY <1>7 DEF Daemons
  <2> HIDE DEF b5, m5
  <2>3. OnlyIn(d4.cfg, Do(d4.cfg, m5), {"prefix"}) /\ Do(d4.cfg, m5).prefix = At(d4.cfg.prefix, m5[2], m5[3])
    BY <1>3, <2>1, <2>2, DoPrefix
  <2> QED
    BY <1>7, <2>1, <2>3, GiveIs DEF At
<1> HIDE DEF d5
<1>9. /\ d6 \in Daemons /\ OnlyIn(d5.cfg, d6.cfg, {"strict"})
      /\ d6.cfg.strict = IF c.strict["wan1"] = TRUE THEN [d5.cfg.strict EXCEPT !["wan1"] = TRUE] ELSE d5.cfg.strict
  <2>1. /\ b6 \in BOOLEAN
        /\ (b6 <=> c.strict["wan1"] = TRUE)
        /\ m6[1] = "strict" /\ m6[2] = "wan1" /\ m6[3] = TRUE
    BY <1>3 DEF Settings
  <2>2. d5.cfg \in Settings
    BY <1>8 DEF Daemons
  <2> HIDE DEF b6, m6
  <2>3. OnlyIn(d5.cfg, Do(d5.cfg, m6), {"strict"}) /\ Do(d5.cfg, m6).strict = At(d5.cfg.strict, m6[2], m6[3])
    BY <1>3, <2>1, <2>2, DoStrict
  <2>4. /\ d6 \in Daemons /\ OnlyIn(d5.cfg, d6.cfg, {"strict"})
        /\ b6 => d6.cfg = Do(d5.cfg, m6)
        /\ ~b6 => d6 = d5
    BY <1>8, <2>1, <2>3, GiveIs
  <2> HIDE DEF d6
  <2>5. CASE b6
    BY <2>1, <2>3, <2>4, <2>5 DEF At
  <2>6. CASE ~b6
    BY <2>1, <2>4, <2>6
  <2> QED
    BY <2>5, <2>6
<1> HIDE DEF d6
<1>10. /\ d7 \in Daemons /\ OnlyIn(d6.cfg, d7.cfg, {"strict"})
      /\ d7.cfg.strict = IF c.strict["wan2"] = TRUE THEN [d6.cfg.strict EXCEPT !["wan2"] = TRUE] ELSE d6.cfg.strict
  <2>1. /\ b7 \in BOOLEAN
        /\ (b7 <=> c.strict["wan2"] = TRUE)
        /\ m7[1] = "strict" /\ m7[2] = "wan2" /\ m7[3] = TRUE
    BY <1>3 DEF Settings
  <2>2. d6.cfg \in Settings
    BY <1>9 DEF Daemons
  <2> HIDE DEF b7, m7
  <2>3. OnlyIn(d6.cfg, Do(d6.cfg, m7), {"strict"}) /\ Do(d6.cfg, m7).strict = At(d6.cfg.strict, m7[2], m7[3])
    BY <1>3, <2>1, <2>2, DoStrict
  <2>4. /\ d7 \in Daemons /\ OnlyIn(d6.cfg, d7.cfg, {"strict"})
        /\ b7 => d7.cfg = Do(d6.cfg, m7)
        /\ ~b7 => d7 = d6
    BY <1>9, <2>1, <2>3, GiveIs
  <2> HIDE DEF d7
  <2>5. CASE b7
    BY <2>1, <2>3, <2>4, <2>5 DEF At
  <2>6. CASE ~b7
    BY <2>1, <2>4, <2>6
  <2> QED
    BY <2>5, <2>6
<1> HIDE DEF d7
<1> HIDE DEF b1, m1, m2, m3, b4, m4, b5, m5, b6, m6, b7, m7
<1>11. OnlyIn(d.cfg, d7.cfg, {"share", "pd", "prefix", "strict"})
  BY <1>4, <1>5, <1>6, <1>7, <1>8, <1>9, <1>10 DEF OnlyIn
<1>12. d7.cfg.share = IF c.share = "off" THEN d.cfg.share ELSE c.share
  BY <1>4, <1>5, <1>6, <1>7, <1>8, <1>9, <1>10 DEF OnlyIn, SettingNames
<1>13. d7.cfg.pd = c.pd
  <2>1. d7.cfg.pd = [[d1.cfg.pd EXCEPT !["wan1"] = c.pd["wan1"]] EXCEPT !["wan2"] = c.pd["wan2"]]
    BY <1>4, <1>5, <1>6, <1>7, <1>8, <1>9, <1>10 DEF OnlyIn, SettingNames
  <2>2. d1.cfg.pd \in [Wans -> {"default", "own"}] /\ c.pd \in [Wans -> {"default", "own"}]
    BY <1>4 DEF OnlyIn, Settings
  <2> QED
    BY <1>3, <2>1, <2>2
<1>14. d7.cfg.prefix = [w \in Wans |-> IF c.prefix[w] \in 1 .. 64 THEN c.prefix[w] ELSE d.cfg.prefix[w]]
  <2>1. d7.cfg.prefix = d5.cfg.prefix /\ d3.cfg.prefix = d.cfg.prefix
    <3>1. d7.cfg.prefix = d5.cfg.prefix
      BY <1>9, <1>10 DEF OnlyIn, SettingNames
    <3>2. d3.cfg.prefix = d.cfg.prefix
      BY <1>4, <1>5, <1>6 DEF OnlyIn, SettingNames
    <3> QED
      BY <3>1, <3>2
  <2>2. d.cfg.prefix \in [Wans -> {0, 56, 80}] /\ d7.cfg.prefix \in [Wans -> {0, 56, 80}]
    BY <1>10, DaemonHas, Zenon
  <2>3. /\ d7.cfg.prefix["wan1"] = IF c.prefix["wan1"] \in 1 .. 64 THEN c.prefix["wan1"] ELSE d.cfg.prefix["wan1"]
        /\ d7.cfg.prefix["wan2"] = IF c.prefix["wan2"] \in 1 .. 64 THEN c.prefix["wan2"] ELSE d.cfg.prefix["wan2"]
    <3>1. d4.cfg.prefix \in [Wans -> {0, 56, 80}]
      BY <1>7, DaemonHas, Zenon
    <3> DEFINE D == d.cfg.prefix
               E == d4.cfg.prefix
               F == d7.cfg.prefix
               x == c.prefix["wan1"]
               y == c.prefix["wan2"]
    <3>2. /\ E = IF x \in 1 .. 64 THEN [D EXCEPT !["wan1"] = x] ELSE D
          /\ F = IF y \in 1 .. 64 THEN [E EXCEPT !["wan2"] = y] ELSE E
      BY <1>7, <1>8, <2>1
    <3>3. D \in [Wans -> {0, 56, 80}] /\ E \in [Wans -> {0, 56, 80}]
      BY <2>2, <3>1
    <3> HIDE DEF D, E, F, x, y
    <3>4. F["wan1"] = (IF x \in 1 .. 64 THEN x ELSE D["wan1"]) /\ F["wan2"] = (IF y \in 1 .. 64 THEN y ELSE D["wan2"])
      BY <1>3, <3>2, <3>3
    <3> QED
      BY <3>4 DEF D, F, x, y
  <2> QED
    BY <1>3, <2>2, <2>3
<1>15. d7.cfg.strict = [w \in Wans |-> IF c.strict[w] = TRUE THEN TRUE ELSE d.cfg.strict[w]]
  <2> DEFINE now == [w \in Wans |-> IF c.strict[w] = TRUE THEN TRUE ELSE d.cfg.strict[w]]
             yes == TRUE
  <2>1. d5.cfg.strict = d.cfg.strict
    BY <1>4, <1>5, <1>6, <1>7, <1>8, <1>9, <1>10 DEF OnlyIn, SettingNames
  <2>2. /\ d.cfg.strict \in [Wans -> BOOLEAN] /\ d6.cfg.strict \in [Wans -> BOOLEAN]
        /\ d7.cfg.strict \in [Wans -> BOOLEAN]
    BY <1>9, <1>10, DaemonHas, Zenon
  <2>3. /\ d6.cfg.strict = IF c.strict["wan1"] = yes THEN [d.cfg.strict EXCEPT !["wan1"] = yes] ELSE d.cfg.strict
        /\ d7.cfg.strict = IF c.strict["wan2"] = yes THEN [d6.cfg.strict EXCEPT !["wan2"] = yes] ELSE d6.cfg.strict
    BY <1>9, <1>10, <2>1
  <2>4. now = [w \in Wans |-> IF c.strict[w] = yes THEN yes ELSE d.cfg.strict[w]]
    OBVIOUS
  <2> HIDE DEF now, yes
  <2>5. /\ d6.cfg.strict["wan1"] = (IF c.strict["wan1"] = yes THEN yes ELSE d.cfg.strict["wan1"])
        /\ d6.cfg.strict["wan2"] = d.cfg.strict["wan2"]
    BY <1>3, <2>2, <2>3
  <2>6. /\ d7.cfg.strict["wan1"] = (IF c.strict["wan1"] = yes THEN yes ELSE d.cfg.strict["wan1"])
        /\ d7.cfg.strict["wan2"] = (IF c.strict["wan2"] = yes THEN yes ELSE d.cfg.strict["wan2"])
    BY <1>3, <2>2, <2>3, <2>5
  <2>7. d7.cfg.strict = now
    BY <1>3, <2>2, <2>4, <2>6
  <2> QED
    BY <2>7 DEF now
<1> QED
  BY <1>1, <1>2, <1>10, <1>11, <1>12, <1>13, <1>14, <1>15

\* PrintNetwork().
LEMMA NetworkRuns ==
  ASSUME NEW c \in Settings, NEW d \in Daemons
  PROVE  LET e == RunAll(d, PrintNetwork(c)) IN
         /\ IsSeq(PrintNetwork(c)) /\ e \in Daemons /\ OnlyIn(d.cfg, e.cfg, {"net", "nr5g"})
         /\ e.cfg.net = [s \in SimNames |-> c.net["sim1"]] /\ e.cfg.nr5g = c.nr5g
<1> DEFINE m1 == <<"network", c.net["sim1"]>>
           m2 == <<"nr5g", c.nr5g>>
           s2 == <<m1, m2>>
           d1 == Run(d, m1)
           d2 == Run(d1, m2)
<1>1. PrintNetwork(c) = s2
  BY DEF PrintNetwork
<1>2. IsSeq(s2) /\ RunAll(d, s2) = d2
  <2> HIDE DEF m1, m2
  <2>1. IsSeq(s2) /\ RunAll(d, s2) = d2
    BY TwoIsSeq, RunTwo
  <2> QED
    BY <2>1
<1> HIDE DEF s2
<1>3. "sim1" \in SimNames /\ "sim2" \in SimNames /\ SimNames = {"sim1", "sim2"}
  BY DEF SimNames
<1>4. /\ d1 \in Daemons /\ OnlyIn(d.cfg, d1.cfg, {"net"})
      /\ d1.cfg.net = [s \in SimNames |-> c.net["sim1"]]
  <2>1. /\ m1[1] = "network" /\ m1[2] = c.net["sim1"] /\ m1[2] \in {"auto", "4g"}
    BY <1>3 DEF Settings
  <2>2. d.cfg \in Settings
    BY DEF Daemons
  <2> HIDE DEF m1
  <2>3. OnlyIn(d.cfg, Do(d.cfg, m1), {"net"}) /\ Do(d.cfg, m1).net = [s \in SimNames |-> m1[2]]
    BY <1>3, <2>1, <2>2, DoNetwork
  <2> QED
    BY <2>1, <2>3, LineIs
<1> HIDE DEF d1
<1>5. /\ d2 \in Daemons /\ OnlyIn(d1.cfg, d2.cfg, {"nr5g"})
      /\ d2.cfg.nr5g = c.nr5g
  <2>1. /\ m2[1] = "nr5g" /\ m2[2] = c.nr5g /\ m2[2] \in {"auto", "sa"}
    BY <1>3 DEF Settings
  <2>2. d1.cfg \in Settings
    BY <1>4 DEF Daemons
  <2> HIDE DEF m2
  <2>3. OnlyIn(d1.cfg, Do(d1.cfg, m2), {"nr5g"}) /\ Do(d1.cfg, m2).nr5g = m2[2]
    BY <1>3, <2>1, <2>2, DoNr5g
  <2> QED
    BY <1>4, <2>1, <2>3, LineIs
<1> HIDE DEF d2
<1> HIDE DEF m1, m2
<1>6. OnlyIn(d.cfg, d2.cfg, {"net", "nr5g"})
  BY <1>4, <1>5 DEF OnlyIn
<1>7. d2.cfg.net = [s \in SimNames |-> c.net["sim1"]] /\ d2.cfg.nr5g = c.nr5g
  BY <1>4, <1>5 DEF OnlyIn, SettingNames
<1> QED
  BY <1>1, <1>2, <1>5, <1>6, <1>7

\* What the lines of one SIM do to a daemon.
SimRan(c, s, d, e) ==
  /\ e \in Daemons /\ OnlyIn(d.cfg, e.cfg, {"pin", "roam", "oper"})
  /\ \A k \in SimNames : e.cfg.pin[k] = IF k = s /\ c.pin[s] = TRUE THEN TRUE ELSE d.cfg.pin[k]
  /\ \A k \in SimNames : e.cfg.roam[k] = IF k = s /\ c.roam[s] = FALSE THEN FALSE ELSE d.cfg.roam[k]
  /\ \A k \in SimNames : e.cfg.oper[k] = IF k = s THEN c.oper[s] ELSE d.cfg.oper[k]

\* PrintSim().
LEMMA SimRuns ==
  ASSUME NEW c \in Settings, NEW d \in Daemons, NEW s \in SimNames
  PROVE  IsSeq(PrintSim(c, s)) /\ SimRan(c, s, d, RunAll(d, PrintSim(c, s)))
<1> DEFINE b1 == c.pin[s]
           m1 == <<"pin", s>>
           b2 == ~c.roam[s]
           m2 == <<"forbid", s>>
           m3 == <<"operator", s, c.oper[s]>>
           s1 == If(b1, m1)
           s2 == s1 \o If(b2, m2)
           s3 == s2 \o <<m3>>
           d1 == Give(d, b1, m1)
           d2 == Give(d1, b2, m2)
           d3 == Run(d2, m3)
<1>1. PrintSim(c, s) = s3
  BY DEF PrintSim
<1>2. IsSeq(s3) /\ RunAll(d, s3) = d3
  <2> HIDE DEF b1, m1, b2, m2, m3
  <2>1. IsSeq(s1) /\ RunAll(d, s1) = d1
    BY IfIsSeq, RunIf
  <2> HIDE DEF s1, d1
  <2>2. IsSeq(s2) /\ RunAll(d, s2) = d2
    BY <2>1, RunThen
  <2> HIDE DEF s2, d2
  <2> QED
    BY <2>2, RunThenOne
<1> HIDE DEF s1, s2, s3
<1>3. /\ d1 \in Daemons /\ OnlyIn(d.cfg, d1.cfg, {"pin"})
      /\ d1.cfg.pin = IF c.pin[s] = TRUE THEN [d.cfg.pin EXCEPT ![s] = TRUE] ELSE d.cfg.pin
  <2>1. /\ b1 \in BOOLEAN
        /\ (b1 <=> c.pin[s] = TRUE)
        /\ m1[1] = "pin" /\ m1[2] = s
    BY DEF Settings
  <2>2. d.cfg \in Settings
    BY DEF Daemons
  <2> HIDE DEF b1, m1
  <2>3. OnlyIn(d.cfg, Do(d.cfg, m1), {"pin"}) /\ Do(d.cfg, m1).pin = [d.cfg.pin EXCEPT ![m1[2]] = TRUE]
    BY <2>1, <2>2, DoPin
  <2> QED
    BY <2>1, <2>3, GiveIs
<1> HIDE DEF d1
<1>4. /\ d2 \in Daemons /\ OnlyIn(d1.cfg, d2.cfg, {"roam"})
      /\ d2.cfg.roam = IF c.roam[s] = FALSE THEN [d1.cfg.roam EXCEPT ![s] = FALSE] ELSE d1.cfg.roam
  <2>1. /\ b2 \in BOOLEAN
        /\ (b2 <=> c.roam[s] = FALSE)
        /\ m2[1] = "forbid" /\ m2[2] = s
    BY DEF Settings
  <2>2. d1.cfg \in Settings
    BY <1>3 DEF Daemons
  <2> HIDE DEF b2, m2
  <2>3. OnlyIn(d1.cfg, Do(d1.cfg, m2), {"roam"}) /\ Do(d1.cfg, m2).roam = [d1.cfg.roam EXCEPT ![m2[2]] = FALSE]
    BY <2>1, <2>2, DoForbid
  <2> QED
    BY <1>3, <2>1, <2>3, GiveIs
<1> HIDE DEF d2
<1>5. /\ d3 \in Daemons /\ OnlyIn(d2.cfg, d3.cfg, {"oper"})
      /\ d3.cfg.oper = [d2.cfg.oper EXCEPT ![s] = c.oper[s]]
  <2>1. /\ m3[1] = "operator" /\ m3[2] = s /\ m3[3] = c.oper[s] /\ m3[3] \in {"auto", "verizon"}
    BY DEF Settings
  <2>2. d2.cfg \in Settings
    BY <1>4 DEF Daemons
  <2> HIDE DEF m3
  <2>3. OnlyIn(d2.cfg, Do(d2.cfg, m3), {"oper"}) /\ Do(d2.cfg, m3).oper = [d2.cfg.oper EXCEPT ![m3[2]] = m3[3]]
    BY <2>1, <2>2, DoOperator
  <2> QED
    BY <1>4, <2>1, <2>3, LineIs
<1> HIDE DEF d3
<1> HIDE DEF b1, m1, b2, m2, m3
<1>6. OnlyIn(d.cfg, d3.cfg, {"pin", "roam", "oper"})
  BY <1>3, <1>4, <1>5 DEF OnlyIn
<1>7. d3.cfg.pin = IF c.pin[s] = TRUE THEN [d.cfg.pin EXCEPT ![s] = TRUE] ELSE d.cfg.pin
  BY <1>3, <1>4, <1>5 DEF OnlyIn, SettingNames
<1>8. d3.cfg.roam = IF c.roam[s] = FALSE THEN [d.cfg.roam EXCEPT ![s] = FALSE] ELSE d.cfg.roam
  BY <1>3, <1>4, <1>5 DEF OnlyIn, SettingNames
<1>9. d3.cfg.oper = [d.cfg.oper EXCEPT ![s] = c.oper[s]]
  BY <1>3, <1>4, <1>5 DEF OnlyIn, SettingNames
<1>10. /\ d.cfg.pin \in [SimNames -> BOOLEAN] /\ d.cfg.roam \in [SimNames -> BOOLEAN]
       /\ d.cfg.oper \in [SimNames -> {"auto", "verizon"}]
  BY DEF Daemons, Settings
<1>11. \A k \in SimNames : d3.cfg.pin[k] = IF k = s /\ c.pin[s] = TRUE THEN TRUE ELSE d.cfg.pin[k]
  BY <1>7, <1>10
<1>12. \A k \in SimNames : d3.cfg.roam[k] = IF k = s /\ c.roam[s] = FALSE THEN FALSE ELSE d.cfg.roam[k]
  BY <1>8, <1>10
<1>13. \A k \in SimNames : d3.cfg.oper[k] = IF k = s THEN c.oper[s] ELSE d.cfg.oper[k]
  BY <1>9, <1>10
<1> QED
  BY <1>1, <1>2, <1>5, <1>6, <1>11, <1>12, <1>13 DEF SimRan

\* PrintSms().
LEMMA SmsRuns ==
  ASSUME NEW c \in Settings, NEW d \in Daemons
  PROVE  LET e == RunAll(d, PrintSms(c)) IN
         /\ IsSeq(PrintSms(c)) /\ e \in Daemons /\ OnlyIn(d.cfg, e.cfg, {"smsInterval"})
         /\ e.cfg.smsInterval = IF c.smsInterval = 0 THEN d.cfg.smsInterval ELSE c.smsInterval
<1> DEFINE b1 == c.smsInterval > 0
           m1 == <<"sms interval", c.smsInterval>>
           s1 == If(b1, m1)
           d1 == Give(d, b1, m1)
<1>1. PrintSms(c) = s1
  BY DEF PrintSms
<1>2. IsSeq(s1) /\ RunAll(d, s1) = d1
  <2> HIDE DEF b1, m1
  <2>1. IsSeq(s1) /\ RunAll(d, s1) = d1
    BY IfIsSeq, RunIf
  <2> QED
    BY <2>1
<1> HIDE DEF s1
<1>3. /\ d1 \in Daemons /\ OnlyIn(d.cfg, d1.cfg, {"smsInterval"})
      /\ d1.cfg.smsInterval = IF c.smsInterval = 0 THEN d.cfg.smsInterval ELSE c.smsInterval
  <2>1. /\ b1 \in BOOLEAN
        /\ (b1 <=> c.smsInterval # 0)
        /\ m1[1] = "sms interval" /\ m1[2] = c.smsInterval /\ m1[2] \in {0, 10, 30}
    BY DEF Settings
  <2>2. d.cfg \in Settings
    BY DEF Daemons
  <2> HIDE DEF b1, m1
  <2>3. OnlyIn(d.cfg, Do(d.cfg, m1), {"smsInterval"}) /\ Do(d.cfg, m1).smsInterval = m1[2]
    BY <2>1, <2>2, DoSms
  <2> QED
    BY <2>1, <2>3, GiveIs
<1> HIDE DEF d1
<1> HIDE DEF b1, m1
<1>4. OnlyIn(d.cfg, d1.cfg, {"smsInterval"})
  BY <1>3 DEF OnlyIn
<1>5. d1.cfg.smsInterval = IF c.smsInterval = 0 THEN d.cfg.smsInterval ELSE c.smsInterval
  BY <1>3 DEF OnlyIn, SettingNames
<1> QED
  BY <1>1, <1>2, <1>3, <1>4, <1>5

\* PrintRest().
LEMMA RestRuns ==
  ASSUME NEW c \in Settings, NEW d \in Daemons
  PROVE  LET e == RunAll(d, PrintRest(c)) IN
         /\ IsSeq(PrintRest(c)) /\ e \in Daemons /\ OnlyIn(d.cfg, e.cfg, {"infinite", "plain"})
         /\ e.cfg.infinite = IF c.infinite = TRUE THEN TRUE ELSE d.cfg.infinite
         /\ e.cfg.plain = IF c.plain["loud"] = TRUE THEN [d.cfg.plain EXCEPT !["loud"] = TRUE] ELSE d.cfg.plain
<1> DEFINE b1 == c.infinite
           m1 == <<"infinite", TRUE>>
           b2 == c.plain["loud"]
           m2 == <<"plain", "loud", TRUE>>
           s1 == If(b1, m1)
           s2 == s1 \o If(b2, m2)
           d1 == Give(d, b1, m1)
           d2 == Give(d1, b2, m2)
<1>1. PrintRest(c) = s2
  BY DEF PrintRest
<1>2. IsSeq(s2) /\ RunAll(d, s2) = d2
  <2> HIDE DEF b1, m1, b2, m2
  <2>1. IsSeq(s1) /\ RunAll(d, s1) = d1
    BY IfIsSeq, RunIf
  <2> HIDE DEF s1, d1
  <2> QED
    BY <2>1, RunThen
<1> HIDE DEF s1, s2
<1>3. /\ d1 \in Daemons /\ OnlyIn(d.cfg, d1.cfg, {"infinite"})
      /\ d1.cfg.infinite = IF c.infinite = TRUE THEN TRUE ELSE d.cfg.infinite
  <2>1. /\ b1 \in BOOLEAN
        /\ (b1 <=> c.infinite = TRUE)
        /\ m1[1] = "infinite" /\ m1[2] = TRUE
    BY DEF Settings
  <2>2. d.cfg \in Settings
    BY DEF Daemons
  <2> HIDE DEF b1, m1
  <2>3. OnlyIn(d.cfg, Do(d.cfg, m1), {"infinite"}) /\ Do(d.cfg, m1).infinite = m1[2]
    BY <2>1, <2>2, DoInfinite
  <2> QED
    BY <2>1, <2>3, GiveIs
<1> HIDE DEF d1
<1>4. /\ d2 \in Daemons /\ OnlyIn(d1.cfg, d2.cfg, {"plain"})
      /\ d2.cfg.plain = IF c.plain["loud"] = TRUE THEN [d1.cfg.plain EXCEPT !["loud"] = TRUE] ELSE d1.cfg.plain
  <2>1. /\ b2 \in BOOLEAN
        /\ (b2 <=> c.plain["loud"] = TRUE)
        /\ m2[1] = "plain" /\ m2[2] = "loud" /\ m2[2] \in Plain /\ m2[3] = TRUE
    BY DEF Settings, Plain
  <2>2. d1.cfg \in Settings
    BY <1>3 DEF Daemons
  <2> HIDE DEF b2, m2
  <2>3. OnlyIn(d1.cfg, Do(d1.cfg, m2), {"plain"}) /\ Do(d1.cfg, m2).plain = At(d1.cfg.plain, m2[2], m2[3])
    BY <2>1, <2>2, DoPlain
  <2>4. /\ d2 \in Daemons /\ OnlyIn(d1.cfg, d2.cfg, {"plain"})
        /\ b2 => d2.cfg = Do(d1.cfg, m2)
        /\ ~b2 => d2 = d1
    BY <1>3, <2>1, <2>3, GiveIs
  <2> HIDE DEF d2
  <2>5. CASE b2
    BY <2>1, <2>3, <2>4, <2>5 DEF At
  <2>6. CASE ~b2
    BY <2>1, <2>4, <2>6
  <2> QED
    BY <2>5, <2>6
<1> HIDE DEF d2
<1> HIDE DEF b1, m1, b2, m2
<1>5. OnlyIn(d.cfg, d2.cfg, {"infinite", "plain"})
  BY <1>3, <1>4 DEF OnlyIn
<1>6. d2.cfg.infinite = IF c.infinite = TRUE THEN TRUE ELSE d.cfg.infinite
  BY <1>3, <1>4 DEF OnlyIn, SettingNames
<1>7. d2.cfg.plain = IF c.plain["loud"] = TRUE THEN [d.cfg.plain EXCEPT !["loud"] = TRUE] ELSE d.cfg.plain
  BY <1>3, <1>4 DEF OnlyIn, SettingNames
<1> QED
  BY <1>1, <1>2, <1>4, <1>5, <1>6, <1>7

\* PrintUses().
LEMMA UsesRuns ==
  ASSUME NEW c \in Settings, NEW d \in Daemons
  PROVE  LET e == RunAll(d, PrintUses(c)) IN
         /\ IsSeq(PrintUses(c)) /\ e \in Daemons /\ OnlyIn(d.cfg, e.cfg, {"enable", "use"})
         /\ e.cfg.enable = IF c.enable = TRUE THEN d.cfg.enable ELSE FALSE
         /\ e.cfg.use = [s \in SimNames |-> IF Exists(d.cfg, c.use[s]) THEN c.use[s] ELSE d.cfg.use[s]]
<1> DEFINE b1 == ~c.enable
           m1 == <<"shutdown", TRUE>>
           m2 == <<"use", "sim1", c.use["sim1"]>>
           m3 == <<"use", "sim2", c.use["sim2"]>>
           s1 == If(b1, m1)
           s3 == s1 \o <<m2, m3>>
           d1 == Give(d, b1, m1)
           d2 == Run(d1, m2)
           d3 == Run(d2, m3)
<1>1. PrintUses(c) = s3
  BY DEF PrintUses
<1>2. IsSeq(s3) /\ RunAll(d, s3) = d3
  <2> HIDE DEF b1, m1, m2, m3
  <2>1. IsSeq(s1) /\ RunAll(d, s1) = d1
    BY IfIsSeq, RunIf
  <2> HIDE DEF s1, d1
  <2> QED
    BY <2>1, RunThenTwo
<1> HIDE DEF s1, s3
<1>3. "sim1" \in SimNames /\ "sim2" \in SimNames /\ SimNames = {"sim1", "sim2"}
  BY DEF SimNames
<1>4. /\ d1 \in Daemons /\ OnlyIn(d.cfg, d1.cfg, {"enable"})
      /\ d1.cfg.enable = IF c.enable = TRUE THEN d.cfg.enable ELSE FALSE
  <2>1. /\ b1 \in BOOLEAN
        /\ (b1 <=> c.enable = FALSE)
        /\ m1[1] = "shutdown" /\ m1[2] = TRUE
        /\ (c.enable = TRUE \/ c.enable = FALSE)
    BY <1>3 DEF Settings
  <2>2. d.cfg \in Settings
    BY DEF Daemons
  <2> HIDE DEF b1, m1
  <2>3. OnlyIn(d.cfg, Do(d.cfg, m1), {"enable"}) /\ Do(d.cfg, m1).enable = FALSE
    BY <1>3, <2>1, <2>2, DoShutdown
  <2>4. /\ d1 \in Daemons /\ OnlyIn(d.cfg, d1.cfg, {"enable"})
        /\ b1 => d1.cfg = Do(d.cfg, m1)
        /\ ~b1 => d1 = d
    BY <2>1, <2>3, GiveIs
  <2> HIDE DEF d1
  <2>5. CASE b1
    BY <2>1, <2>3, <2>4, <2>5
  <2>6. CASE ~b1
    BY <2>1, <2>4, <2>6
  <2> QED
    BY <2>5, <2>6
<1> HIDE DEF d1
<1>5. /\ d2 \in Daemons /\ OnlyIn(d1.cfg, d2.cfg, {"use"})
      /\ d2.cfg.use = IF Exists(d1.cfg, c.use["sim1"]) THEN [d1.cfg.use EXCEPT !["sim1"] = c.use["sim1"]] ELSE d1.cfg.use
  <2>1. /\ m2[1] = "use" /\ m2[2] = "sim1" /\ m2[3] = c.use["sim1"]
        /\ m2[3] \in Profiles \cup {0}
    BY <1>3 DEF Settings
  <2>2. d1.cfg \in Settings
    BY <1>4 DEF Daemons
  <2> HIDE DEF m2
  <2>3. OnlyIn(d1.cfg, Do(d1.cfg, m2), {"use"}) /\ Do(d1.cfg, m2).use = IF Exists(d1.cfg, m2[3]) THEN At(d1.cfg.use, m2[2], m2[3]) ELSE d1.cfg.use
    BY <1>3, <2>1, <2>2, DoUse
  <2> QED
    BY <1>4, <2>1, <2>3, LineIs DEF At
<1> HIDE DEF d2
<1>6. /\ d3 \in Daemons /\ OnlyIn(d2.cfg, d3.cfg, {"use"})
      /\ d3.cfg.use = IF Exists(d2.cfg, c.use["sim2"]) THEN [d2.cfg.use EXCEPT !["sim2"] = c.use["sim2"]] ELSE d2.cfg.use
  <2>1. /\ m3[1] = "use" /\ m3[2] = "sim2" /\ m3[3] = c.use["sim2"]
        /\ m3[3] \in Profiles \cup {0}
    BY <1>3 DEF Settings
  <2>2. d2.cfg \in Settings
    BY <1>5 DEF Daemons
  <2> HIDE DEF m3
  <2>3. OnlyIn(d2.cfg, Do(d2.cfg, m3), {"use"}) /\ Do(d2.cfg, m3).use = IF Exists(d2.cfg, m3[3]) THEN At(d2.cfg.use, m3[2], m3[3]) ELSE d2.cfg.use
    BY <1>3, <2>1, <2>2, DoUse
  <2> QED
    BY <1>5, <2>1, <2>3, LineIs DEF At
<1> HIDE DEF d3
<1> HIDE DEF b1, m1, m2, m3
<1>7. OnlyIn(d.cfg, d3.cfg, {"enable", "use"})
  BY <1>4, <1>5, <1>6 DEF OnlyIn
<1>8. d3.cfg.enable = IF c.enable = TRUE THEN d.cfg.enable ELSE FALSE
  BY <1>4, <1>5, <1>6 DEF OnlyIn, SettingNames
<1>9. d3.cfg.use = [s \in SimNames |-> IF Exists(d.cfg, c.use[s]) THEN c.use[s] ELSE d.cfg.use[s]]
  <2>1. d1.cfg.use = d.cfg.use /\ d1.cfg.prof = d.cfg.prof /\ d2.cfg.prof = d.cfg.prof
    BY <1>4, <1>5, <1>6 DEF OnlyIn, SettingNames
  <2>2. \A n : (Exists(d1.cfg, n) <=> Exists(d.cfg, n)) /\ (Exists(d2.cfg, n) <=> Exists(d.cfg, n))
    BY <2>1 DEF Exists
  <2>3. d.cfg.use \in [SimNames -> Profiles \cup {0}] /\ d3.cfg.use \in [SimNames -> Profiles \cup {0}]
    BY <1>6, DaemonHas, Zenon
  <2>4. /\ d3.cfg.use["sim1"] = IF Exists(d.cfg, c.use["sim1"]) THEN c.use["sim1"] ELSE d.cfg.use["sim1"]
        /\ d3.cfg.use["sim2"] = IF Exists(d.cfg, c.use["sim2"]) THEN c.use["sim2"] ELSE d.cfg.use["sim2"]
    <3>1. /\ d2.cfg.use["sim1"] = IF Exists(d.cfg, c.use["sim1"]) THEN c.use["sim1"] ELSE d.cfg.use["sim1"]
          /\ d2.cfg.use["sim2"] = d.cfg.use["sim2"]
      BY <1>3, <1>5, <2>1, <2>2, <2>3
    <3>2. d2.cfg.use \in [SimNames -> Profiles \cup {0}]
      BY <1>5, DaemonHas, Zenon
    <3> QED
      BY <1>3, <1>6, <2>2, <3>1, <3>2
  <2> QED
    BY <1>3, <2>3, <2>4
<1> QED
  BY <1>1, <1>2, <1>6, <1>7, <1>8, <1>9

\* The secondary WAN of a card is printed, and o has the profile it dials with.
Second(c, o, s) == c.wan2[s] = TRUE /\ Exists(o, c.use2[s])

\* PrintWan2().
LEMMA Wan2Runs ==
  ASSUME NEW c \in Settings, NEW d \in Daemons
  PROVE  LET e == RunAll(d, PrintWan2(c)) IN
         /\ IsSeq(PrintWan2(c)) /\ e \in Daemons /\ OnlyIn(d.cfg, e.cfg, {"use2", "wan2"})
         /\ e.cfg.use2 = [s \in SimNames |-> IF Second(c, d.cfg, s) THEN c.use2[s] ELSE d.cfg.use2[s]]
         /\ e.cfg.wan2 = [s \in SimNames |-> IF Second(c, d.cfg, s) THEN TRUE ELSE d.cfg.wan2[s]]
<1> DEFINE b1 == c.wan2["sim1"]
           m1 == <<"wan2", "sim1", c.use2["sim1"]>>
           b2 == c.wan2["sim2"]
           m2 == <<"wan2", "sim2", c.use2["sim2"]>>
           s1 == If(b1, m1)
           s2 == s1 \o If(b2, m2)
           d1 == Give(d, b1, m1)
           d2 == Give(d1, b2, m2)
<1>1. PrintWan2(c) = s2
  BY DEF PrintWan2
<1>2. IsSeq(s2) /\ RunAll(d, s2) = d2
  <2> HIDE DEF b1, m1, b2, m2
  <2>1. IsSeq(s1) /\ RunAll(d, s1) = d1
    BY IfIsSeq, RunIf
  <2> HIDE DEF s1, d1
  <2> QED
    BY <2>1, RunThen
<1> HIDE DEF s1, s2
<1>3. "sim1" \in SimNames /\ "sim2" \in SimNames /\ SimNames = {"sim1", "sim2"}
  BY DEF SimNames
<1>4. /\ d1 \in Daemons /\ OnlyIn(d.cfg, d1.cfg, {"use2", "wan2"})
      /\ Second(c, d.cfg, "sim1") => d1.cfg.use2 = [d.cfg.use2 EXCEPT !["sim1"] = c.use2["sim1"]] /\ d1.cfg.wan2 = [d.cfg.wan2 EXCEPT !["sim1"] = TRUE]
      /\ ~Second(c, d.cfg, "sim1") => d1.cfg.use2 = d.cfg.use2 /\ d1.cfg.wan2 = d.cfg.wan2
  <2>1. /\ b1 \in BOOLEAN
        /\ (b1 <=> c.wan2["sim1"] = TRUE)
        /\ m1[1] = "wan2" /\ m1[2] = "sim1" /\ m1[3] = c.use2["sim1"]
        /\ m1[3] \in Profiles \cup {0}
    BY <1>3 DEF Settings
  <2>2. d.cfg \in Settings
    BY DEF Daemons
  <2> HIDE DEF b1, m1
  <2>3. OnlyIn(d.cfg, Do(d.cfg, m1), {"use2", "wan2"}) /\ (Exists(d.cfg, m1[3]) => Do(d.cfg, m1).use2 = [d.cfg.use2 EXCEPT ![m1[2]] = m1[3]] /\ Do(d.cfg, m1).wan2 = [d.cfg.wan2 EXCEPT ![m1[2]] = TRUE]) /\ (~Exists(d.cfg, m1[3]) => Do(d.cfg, m1) = d.cfg)
    BY <1>3, <2>1, <2>2, DoWan2
  <2>4. /\ d1 \in Daemons /\ OnlyIn(d.cfg, d1.cfg, {"use2", "wan2"})
        /\ b1 => d1.cfg = Do(d.cfg, m1)
        /\ ~b1 => d1 = d
    BY <2>1, <2>3, GiveIs
  <2> HIDE DEF d1
  <2>5. CASE b1
    BY <2>1, <2>3, <2>4, <2>5 DEF Second
  <2>6. CASE ~b1
    BY <2>1, <2>4, <2>6 DEF Second
  <2> QED
    BY <2>5, <2>6
<1> HIDE DEF d1
<1>5. /\ d2 \in Daemons /\ OnlyIn(d1.cfg, d2.cfg, {"use2", "wan2"})
      /\ Second(c, d1.cfg, "sim2") => d2.cfg.use2 = [d1.cfg.use2 EXCEPT !["sim2"] = c.use2["sim2"]] /\ d2.cfg.wan2 = [d1.cfg.wan2 EXCEPT !["sim2"] = TRUE]
      /\ ~Second(c, d1.cfg, "sim2") => d2.cfg.use2 = d1.cfg.use2 /\ d2.cfg.wan2 = d1.cfg.wan2
  <2>1. /\ b2 \in BOOLEAN
        /\ (b2 <=> c.wan2["sim2"] = TRUE)
        /\ m2[1] = "wan2" /\ m2[2] = "sim2" /\ m2[3] = c.use2["sim2"]
        /\ m2[3] \in Profiles \cup {0}
    BY <1>3 DEF Settings
  <2>2. d1.cfg \in Settings
    BY <1>4 DEF Daemons
  <2> HIDE DEF b2, m2
  <2>3. OnlyIn(d1.cfg, Do(d1.cfg, m2), {"use2", "wan2"}) /\ (Exists(d1.cfg, m2[3]) => Do(d1.cfg, m2).use2 = [d1.cfg.use2 EXCEPT ![m2[2]] = m2[3]] /\ Do(d1.cfg, m2).wan2 = [d1.cfg.wan2 EXCEPT ![m2[2]] = TRUE]) /\ (~Exists(d1.cfg, m2[3]) => Do(d1.cfg, m2) = d1.cfg)
    BY <1>3, <2>1, <2>2, DoWan2
  <2>4. /\ d2 \in Daemons /\ OnlyIn(d1.cfg, d2.cfg, {"use2", "wan2"})
        /\ b2 => d2.cfg = Do(d1.cfg, m2)
        /\ ~b2 => d2 = d1
    BY <1>4, <2>1, <2>3, GiveIs
  <2> HIDE DEF d2
  <2>5. CASE b2
    BY <2>1, <2>3, <2>4, <2>5 DEF Second
  <2>6. CASE ~b2
    BY <2>1, <2>4, <2>6 DEF Second
  <2> QED
    BY <2>5, <2>6
<1> HIDE DEF d2
<1> HIDE DEF b1, m1, b2, m2
<1>6. OnlyIn(d.cfg, d2.cfg, {"use2", "wan2"})
  BY <1>4, <1>5 DEF OnlyIn
<1>7. d1.cfg.prof = d.cfg.prof /\ (Second(c, d1.cfg, "sim2") <=> Second(c, d.cfg, "sim2"))
  <2>1. d1.cfg.prof = d.cfg.prof
    BY <1>4, <1>5 DEF OnlyIn, SettingNames
  <2> QED
    BY <2>1 DEF Second, Exists
<1>8. d2.cfg.use2 = [s \in SimNames |-> IF Second(c, d.cfg, s) THEN c.use2[s] ELSE d.cfg.use2[s]]
  <2>3. d.cfg.use2 \in [SimNames -> Profiles \cup {0}] /\ d2.cfg.use2 \in [SimNames -> Profiles \cup {0}]
    BY <1>5 DEF Daemons, Settings
  <2>4. /\ d2.cfg.use2["sim1"] = IF Second(c, d.cfg, "sim1") THEN c.use2["sim1"] ELSE d.cfg.use2["sim1"]
        /\ d2.cfg.use2["sim2"] = IF Second(c, d.cfg, "sim2") THEN c.use2["sim2"] ELSE d.cfg.use2["sim2"]
    BY <1>3, <1>4, <1>5, <1>7, <2>3
  <2> QED
    BY <1>3, <2>3, <2>4
<1>9. d2.cfg.wan2 = [s \in SimNames |-> IF Second(c, d.cfg, s) THEN TRUE ELSE d.cfg.wan2[s]]
  <2>3. d.cfg.wan2 \in [SimNames -> BOOLEAN] /\ d2.cfg.wan2 \in [SimNames -> BOOLEAN]
    BY <1>5 DEF Daemons, Settings
  <2>4. /\ d2.cfg.wan2["sim1"] = IF Second(c, d.cfg, "sim1") THEN TRUE ELSE d.cfg.wan2["sim1"]
        /\ d2.cfg.wan2["sim2"] = IF Second(c, d.cfg, "sim2") THEN TRUE ELSE d.cfg.wan2["sim2"]
    BY <1>3, <1>4, <1>5, <1>7, <2>3
  <2> QED
    BY <1>3, <2>3, <2>4
<1> QED
  BY <1>1, <1>2, <1>5, <1>6, <1>7, <1>8, <1>9

\* PrintDualSim(), when dual SIM is enabled.
LEMMA DualSimRuns ==
  ASSUME NEW c \in Settings, NEW d \in Daemons, c.dual = TRUE
  PROVE  LET e == RunAll(d, PrintDualSim(c)) IN
         /\ IsSeq(PrintDualSim(c)) /\ e \in Daemons /\ OnlyIn(d.cfg, e.cfg, {"dual", "retries", "main", "backup", "policy", "csq", "backtime"})
         /\ e.cfg.dual = TRUE /\ e.cfg.main = c.main /\ e.cfg.backup = OtherName(c.main) /\ e.cfg.policy = c.policy
         /\ e.cfg.retries = IF c.retries = 0 THEN (IF d.cfg.retries = 0 THEN 5 ELSE d.cfg.retries) ELSE c.retries
         /\ e.cfg.csq = [s \in SimNames |-> IF c.csq[s] = TRUE THEN TRUE ELSE d.cfg.csq[s]]
         /\ e.cfg.backtime = IF c.backtime = TRUE THEN TRUE ELSE d.cfg.backtime
<1> DEFINE m1 == <<"dual">>
           m2 == <<"main", c.policy, c.main>>
           b3 == c.retries > 0
           m3 == <<"retries", c.retries>>
           b4 == c.csq["sim1"]
           m4 == <<"csq", "sim1", TRUE>>
           b5 == c.csq["sim2"]
           m5 == <<"csq", "sim2", TRUE>>
           b6 == c.backtime
           m6 == <<"backtime", TRUE>>
           s2 == <<m1, m2>>
           s3 == s2 \o If(b3, m3)
           s4 == s3 \o If(b4, m4)
           s5 == s4 \o If(b5, m5)
           s6 == s5 \o If(b6, m6)
           d1 == Run(d, m1)
           d2 == Run(d1, m2)
           d3 == Give(d2, b3, m3)
           d4 == Give(d3, b4, m4)
           d5 == Give(d4, b5, m5)
           d6 == Give(d5, b6, m6)
<1>1. PrintDualSim(c) = s6
  BY DEF PrintDualSim
<1>2. IsSeq(s6) /\ RunAll(d, s6) = d6
  <2> HIDE DEF m1, m2, b3, m3, b4, m4, b5, m5, b6, m6
  <2>1. IsSeq(s2) /\ RunAll(d, s2) = d2
    BY TwoIsSeq, RunTwo
  <2> HIDE DEF s2, d2
  <2>2. IsSeq(s3) /\ RunAll(d, s3) = d3
    BY <2>1, RunThen
  <2> HIDE DEF s3, d3
  <2>3. IsSeq(s4) /\ RunAll(d, s4) = d4
    BY <2>2, RunThen
  <2> HIDE DEF s4, d4
  <2>4. IsSeq(s5) /\ RunAll(d, s5) = d5
    BY <2>3, RunThen
  <2> HIDE DEF s5, d5
  <2> QED
    BY <2>4, RunThen
<1> HIDE DEF s2, s3, s4, s5, s6
<1>3. "sim1" \in SimNames /\ "sim2" \in SimNames /\ SimNames = {"sim1", "sim2"}
  BY DEF SimNames
<1>4. /\ d1 \in Daemons /\ OnlyIn(d.cfg, d1.cfg, {"dual", "retries"})
      /\ d1.cfg.dual = TRUE /\ d1.cfg.retries = IF d.cfg.retries = 0 THEN 5 ELSE d.cfg.retries
  <2>1. /\ m1[1] = "dual"
    BY <1>3 DEF Settings
  <2>2. d.cfg \in Settings
    BY DEF Daemons
  <2> HIDE DEF m1
  <2>3. OnlyIn(d.cfg, Do(d.cfg, m1), {"dual", "retries"}) /\ Do(d.cfg, m1).dual = TRUE /\ Do(d.cfg, m1).retries = IF d.cfg.retries = 0 THEN 5 ELSE d.cfg.retries
    BY <1>3, <2>1, <2>2, DoDual
  <2> QED
    BY <2>1, <2>3, LineIs
<1> HIDE DEF d1
<1>5. /\ d2 \in Daemons /\ OnlyIn(d1.cfg, d2.cfg, {"main", "backup", "policy"})
      /\ d2.cfg.main = c.main /\ d2.cfg.backup = OtherName(c.main) /\ d2.cfg.policy = c.policy
  <2>1. /\ m2[1] = "main" /\ m2[2] = c.policy /\ m2[2] \in SimNames \cup {"random", "sequence"}
        /\ m2[3] = c.main /\ m2[3] \in SimNames
    BY <1>3 DEF Settings
  <2>2. d1.cfg \in Settings
    BY <1>4 DEF Daemons
  <2> HIDE DEF m2
  <2>3. OnlyIn(d1.cfg, Do(d1.cfg, m2), {"main", "backup", "policy"}) /\ Do(d1.cfg, m2).main = m2[3] /\ Do(d1.cfg, m2).backup = OtherName(m2[3]) /\ Do(d1.cfg, m2).policy = m2[2]
    BY <1>3, <2>1, <2>2, DoMain
  <2> QED
    BY <1>4, <2>1, <2>3, LineIs
<1> HIDE DEF d2
<1>6. /\ d3 \in Daemons /\ OnlyIn(d2.cfg, d3.cfg, {"retries"})
      /\ d3.cfg.retries = IF c.retries = 0 THEN d2.cfg.retries ELSE c.retries
  <2>1. /\ b3 \in BOOLEAN
        /\ (b3 <=> c.retries # 0)
        /\ m3[1] = "retries" /\ m3[2] = c.retries /\ m3[2] \in {0, 3, 5}
    BY <1>3 DEF Settings
  <2>2. d2.cfg \in Settings
    BY <1>5 DEF Daemons
  <2> HIDE DEF b3, m3
  <2>3. OnlyIn(d2.cfg, Do(d2.cfg, m3), {"retries"}) /\ Do(d2.cfg, m3).retries = m3[2]
    BY <1>3, <2>1, <2>2, DoRetries
  <2> QED
    BY <1>5, <2>1, <2>3, GiveIs
<1> HIDE DEF d3
<1>7. /\ d4 \in Daemons /\ OnlyIn(d3.cfg, d4.cfg, {"csq"})
      /\ d4.cfg.csq = IF c.csq["sim1"] = TRUE THEN [d3.cfg.csq EXCEPT !["sim1"] = TRUE] ELSE d3.cfg.csq
  <2>1. /\ b4 \in BOOLEAN
        /\ (b4 <=> c.csq["sim1"] = TRUE)
        /\ m4[1] = "csq" /\ m4[2] = "sim1" /\ m4[3] = TRUE
    BY <1>3 DEF Settings
  <2>2. d3.cfg \in Settings
    BY <1>6 DEF Daemons
  <2> HIDE DEF b4, m4
  <2>3. OnlyIn(d3.cfg, Do(d3.cfg, m4), {"csq"}) /\ Do(d3.cfg, m4).csq = At(d3.cfg.csq, m4[2], m4[3])
    BY <1>3, <2>1, <2>2, DoCsq
  <2>4. /\ d4 \in Daemons /\ OnlyIn(d3.cfg, d4.cfg, {"csq"})
        /\ b4 => d4.cfg = Do(d3.cfg, m4)
        /\ ~b4 => d4 = d3
    BY <1>6, <2>1, <2>3, GiveIs
  <2> HIDE DEF d4
  <2>5. CASE b4
    BY <2>1, <2>3, <2>4, <2>5 DEF At
  <2>6. CASE ~b4
    BY <2>1, <2>4, <2>6
  <2> QED
    BY <2>5, <2>6
<1> HIDE DEF d4
<1>8. /\ d5 \in Daemons /\ OnlyIn(d4.cfg, d5.cfg, {"csq"})
      /\ d5.cfg.csq = IF c.csq["sim2"] = TRUE THEN [d4.cfg.csq EXCEPT !["sim2"] = TRUE] ELSE d4.cfg.csq
  <2>1. /\ b5 \in BOOLEAN
        /\ (b5 <=> c.csq["sim2"] = TRUE)
        /\ m5[1] = "csq" /\ m5[2] = "sim2" /\ m5[3] = TRUE
    BY <1>3 DEF Settings
  <2>2. d4.cfg \in Settings
    BY <1>7 DEF Daemons
  <2> HIDE DEF b5, m5
  <2>3. OnlyIn(d4.cfg, Do(d4.cfg, m5), {"csq"}) /\ Do(d4.cfg, m5).csq = At(d4.cfg.csq, m5[2], m5[3])
    BY <1>3, <2>1, <2>2, DoCsq
  <2>4. /\ d5 \in Daemons /\ OnlyIn(d4.cfg, d5.cfg, {"csq"})
        /\ b5 => d5.cfg = Do(d4.cfg, m5)
        /\ ~b5 => d5 = d4
    BY <1>7, <2>1, <2>3, GiveIs
  <2> HIDE DEF d5
  <2>5. CASE b5
    BY <2>1, <2>3, <2>4, <2>5 DEF At
  <2>6. CASE ~b5
    BY <2>1, <2>4, <2>6
  <2> QED
    BY <2>5, <2>6
<1> HIDE DEF d5
<1>9. /\ d6 \in Daemons /\ OnlyIn(d5.cfg, d6.cfg, {"backtime"})
      /\ d6.cfg.backtime = IF c.backtime = TRUE THEN TRUE ELSE d5.cfg.backtime
  <2>1. /\ b6 \in BOOLEAN
        /\ (b6 <=> c.backtime = TRUE)
        /\ m6[1] = "backtime" /\ m6[2] = TRUE
    BY <1>3 DEF Settings
  <2>2. d5.cfg \in Settings
    BY <1>8 DEF Daemons
  <2> HIDE DEF b6, m6
  <2>3. OnlyIn(d5.cfg, Do(d5.cfg, m6), {"backtime"}) /\ Do(d5.cfg, m6).backtime = m6[2]
    BY <1>3, <2>1, <2>2, DoBacktime
  <2> QED
    BY <1>8, <2>1, <2>3, GiveIs
<1> HIDE DEF d6
<1> HIDE DEF m1, m2, b3, m3, b4, m4, b5, m5, b6, m6
<1>10. OnlyIn(d.cfg, d6.cfg, {"dual", "retries", "main", "backup", "policy", "csq", "backtime"})
  BY <1>4, <1>5, <1>6, <1>7, <1>8, <1>9 DEF OnlyIn
<1>11. d6.cfg.dual = TRUE /\ d6.cfg.main = c.main /\ d6.cfg.backup = OtherName(c.main) /\ d6.cfg.policy = c.policy
  BY <1>4, <1>5, <1>6, <1>7, <1>8, <1>9 DEF OnlyIn, SettingNames
<1>12. d6.cfg.retries = IF c.retries = 0 THEN (IF d.cfg.retries = 0 THEN 5 ELSE d.cfg.retries) ELSE c.retries
  BY <1>4, <1>5, <1>6, <1>7, <1>8, <1>9 DEF OnlyIn, SettingNames
<1>13. d6.cfg.csq = [s \in SimNames |-> IF c.csq[s] = TRUE THEN TRUE ELSE d.cfg.csq[s]]
  <2>1. d3.cfg.csq = d.cfg.csq /\ d6.cfg.csq = d5.cfg.csq
    BY <1>4, <1>5, <1>6, <1>7, <1>8, <1>9 DEF OnlyIn, SettingNames
  <2>2. d.cfg.csq \in [SimNames -> BOOLEAN] /\ d6.cfg.csq \in [SimNames -> BOOLEAN]
    BY <1>9, DaemonHas, Zenon
  <2>3. /\ d6.cfg.csq["sim1"] = IF c.csq["sim1"] = TRUE THEN TRUE ELSE d.cfg.csq["sim1"]
        /\ d6.cfg.csq["sim2"] = IF c.csq["sim2"] = TRUE THEN TRUE ELSE d.cfg.csq["sim2"]
    <3>1. /\ d4.cfg.csq["sim1"] = IF c.csq["sim1"] = TRUE THEN TRUE ELSE d.cfg.csq["sim1"]
          /\ d4.cfg.csq["sim2"] = d.cfg.csq["sim2"]
      BY <1>3, <1>7, <2>1, <2>2
    <3>2. d4.cfg.csq \in [SimNames -> BOOLEAN]
      BY <1>7, DaemonHas, Zenon
    <3> QED
      BY <1>3, <1>8, <2>1, <3>1, <3>2
  <2> QED
    BY <1>3, <2>2, <2>3
<1>14. d6.cfg.backtime = IF c.backtime = TRUE THEN TRUE ELSE d.cfg.backtime
  <2>1. d5.cfg.backtime = d.cfg.backtime
    BY <1>4, <1>5, <1>6, <1>7, <1>8, <1>9 DEF OnlyIn, SettingNames
  <2> QED
    BY <1>9, <2>1
<1> QED
  BY <1>1, <1>2, <1>9, <1>10, <1>11, <1>12, <1>13, <1>14

\* PrintMode(), of a dialer that waits for a demand.
LEMMA DemandRuns ==
  ASSUME NEW c \in Settings, NEW d \in Daemons, c.mode = "DEMAND"
  PROVE  LET e == RunAll(d, PrintMode(c)) IN
         /\ IsSeq(PrintMode(c)) /\ e \in Daemons /\ OnlyIn(d.cfg, e.cfg, {"mode", "trig", "idle"})
         /\ e.cfg.mode = (IF c.trig = {} THEN d.cfg.mode ELSE "DEMAND") /\ e.cfg.trig = d.cfg.trig \cup c.trig
         /\ e.cfg.idle = c.idle
<1> DEFINE b1 == "traffic" \in c.trig
           m1 == <<"activate", "traffic">>
           b2 == "sms" \in c.trig
           m2 == <<"activate", "sms">>
           m3 == <<"idle", c.idle>>
           s1 == If(b1, m1)
           s2 == s1 \o If(b2, m2)
           s3 == s2 \o <<m3>>
           d1 == Give(d, b1, m1)
           d2 == Give(d1, b2, m2)
           d3 == Run(d2, m3)
<1>1. PrintMode(c) = s3
  BY DEF PrintMode
<1>2. IsSeq(s3) /\ RunAll(d, s3) = d3
  <2> HIDE DEF b1, m1, b2, m2, m3
  <2>1. IsSeq(s1) /\ RunAll(d, s1) = d1
    BY IfIsSeq, RunIf
  <2> HIDE DEF s1, d1
  <2>2. IsSeq(s2) /\ RunAll(d, s2) = d2
    BY <2>1, RunThen
  <2> HIDE DEF s2, d2
  <2> QED
    BY <2>2, RunThenOne
<1> HIDE DEF s1, s2, s3
<1>3. /\ d1 \in Daemons /\ OnlyIn(d.cfg, d1.cfg, {"mode", "trig"})
      /\ "traffic" \in c.trig => d1.cfg.mode = "DEMAND" /\ d1.cfg.trig = d.cfg.trig \cup {"traffic"}
      /\ "traffic" \notin c.trig => d1.cfg.mode = d.cfg.mode /\ d1.cfg.trig = d.cfg.trig
  <2>1. /\ b1 \in BOOLEAN
        /\ (b1 <=> "traffic" \in c.trig)
        /\ m1[1] = "activate" /\ m1[2] = "traffic" /\ m1[2] \in Triggers
    BY DEF Settings, Triggers
  <2>2. d.cfg \in Settings
    BY DEF Daemons
  <2> HIDE DEF b1, m1
  <2>3. OnlyIn(d.cfg, Do(d.cfg, m1), {"mode", "trig"}) /\ Do(d.cfg, m1).mode = "DEMAND" /\ Do(d.cfg, m1).trig = d.cfg.trig \cup {m1[2]}
    BY <2>1, <2>2, DoDemand
  <2> QED
    BY <2>1, <2>3, GiveIs
<1> HIDE DEF d1
<1>4. /\ d2 \in Daemons /\ OnlyIn(d1.cfg, d2.cfg, {"mode", "trig"})
      /\ "sms" \in c.trig => d2.cfg.mode = "DEMAND" /\ d2.cfg.trig = d1.cfg.trig \cup {"sms"}
      /\ "sms" \notin c.trig => d2.cfg.mode = d1.cfg.mode /\ d2.cfg.trig = d1.cfg.trig
  <2>1. /\ b2 \in BOOLEAN
        /\ (b2 <=> "sms" \in c.trig)
        /\ m2[1] = "activate" /\ m2[2] = "sms" /\ m2[2] \in Triggers
    BY DEF Settings, Triggers
  <2>2. d1.cfg \in Settings
    BY <1>3 DEF Daemons
  <2> HIDE DEF b2, m2
  <2>3. OnlyIn(d1.cfg, Do(d1.cfg, m2), {"mode", "trig"}) /\ Do(d1.cfg, m2).mode = "DEMAND" /\ Do(d1.cfg, m2).trig = d1.cfg.trig \cup {m2[2]}
    BY <2>1, <2>2, DoDemand
  <2> QED
    BY <1>3, <2>1, <2>3, GiveIs
<1> HIDE DEF d2
<1>5. /\ d3 \in Daemons /\ OnlyIn(d2.cfg, d3.cfg, {"idle"})
      /\ d3.cfg.idle = c.idle
  <2>1. /\ m3[1] = "idle" /\ m3[2] = c.idle /\ m3[2] \in {60, 90}
    BY DEF Settings
  <2>2. d2.cfg \in Settings
    BY <1>4 DEF Daemons
  <2> HIDE DEF m3
  <2>3. OnlyIn(d2.cfg, Do(d2.cfg, m3), {"idle"}) /\ Do(d2.cfg, m3).idle = m3[2]
    BY <2>1, <2>2, DoIdle
  <2> QED
    BY <1>4, <2>1, <2>3, LineIs
<1> HIDE DEF d3
<1> HIDE DEF b1, m1, b2, m2, m3
<1>6. OnlyIn(d.cfg, d3.cfg, {"mode", "trig", "idle"})
  BY <1>3, <1>4, <1>5 DEF OnlyIn
<1>7. d3.cfg.mode = (IF c.trig = {} THEN d.cfg.mode ELSE "DEMAND") /\ d3.cfg.trig = d.cfg.trig \cup c.trig
  <2>1. c.trig \in SUBSET {"traffic", "sms"}
    BY DEF Settings
  <2>2. d3.cfg.mode = d2.cfg.mode /\ d3.cfg.trig = d2.cfg.trig
    BY <1>3, <1>4, <1>5 DEF OnlyIn, SettingNames
  <2> QED
    BY <1>3, <1>4, <2>1, <2>2
<1>8. d3.cfg.idle = c.idle
  BY <1>3, <1>4, <1>5
<1> QED
  BY <1>1, <1>2, <1>5, <1>6, <1>7, <1>8

\* PrintMode(), of a dialer that waits for an order.
LEMMA ManualRuns ==
  ASSUME NEW c \in Settings, NEW d \in Daemons, c.mode = "MANUAL"
  PROVE  LET e == RunAll(d, PrintMode(c)) IN
         /\ IsSeq(PrintMode(c)) /\ e \in Daemons /\ OnlyIn(d.cfg, e.cfg, {"mode", "trig"})
         /\ e.cfg.mode = "MANUAL" /\ e.cfg.trig = {}
<1> DEFINE m1 == <<"activate", "manual">>
           s1 == <<m1>>
           d1 == Run(d, m1)
<1>1. PrintMode(c) = s1
  BY DEF PrintMode
<1>2. IsSeq(s1) /\ RunAll(d, s1) = d1
  <2> HIDE DEF m1
  <2>1. IsSeq(s1) /\ RunAll(d, s1) = d1
    BY OneIsSeq, RunOne
  <2> QED
    BY <2>1
<1> HIDE DEF s1
<1>3. /\ d1 \in Daemons /\ OnlyIn(d.cfg, d1.cfg, {"mode", "trig"})
      /\ d1.cfg.mode = "MANUAL" /\ d1.cfg.trig = {}
  <2>1. /\ m1[1] = "activate" /\ m1[2] = "manual" /\ m1[2] \in {"auto", "manual"}
    BY DEF Settings
  <2>2. d.cfg \in Settings
    BY DEF Daemons
  <2> HIDE DEF m1
  <2>3. OnlyIn(d.cfg, Do(d.cfg, m1), {"mode", "trig"}) /\ Do(d.cfg, m1).mode = (IF m1[2] = "auto" THEN "ONLINE" ELSE "MANUAL") /\ Do(d.cfg, m1).trig = {}
    BY <2>1, <2>2, DoActivate
  <2> QED
    BY <2>1, <2>3, LineIs
<1> HIDE DEF d1
<1> HIDE DEF m1
<1>4. OnlyIn(d.cfg, d1.cfg, {"mode", "trig"})
  BY <1>3 DEF OnlyIn
<1>5. d1.cfg.mode = "MANUAL" /\ d1.cfg.trig = {}
  BY <1>3
<1> QED
  BY <1>1, <1>2, <1>3, <1>4, <1>5

\* PrintMode(), of a dialer that keeps the link up.
LEMMA OnlineRuns ==
  ASSUME NEW c \in Settings, NEW d \in Daemons, c.mode = "ONLINE"
  PROVE  LET e == RunAll(d, PrintMode(c)) IN
         /\ IsSeq(PrintMode(c)) /\ e \in Daemons /\ OnlyIn(d.cfg, e.cfg, {"mode", "trig"})
         /\ e.cfg.mode = "ONLINE" /\ e.cfg.trig = {}
<1> DEFINE m1 == <<"activate", "auto">>
           s1 == <<m1>>
           d1 == Run(d, m1)
<1>1. PrintMode(c) = s1
  BY DEF PrintMode
<1>2. IsSeq(s1) /\ RunAll(d, s1) = d1
  <2> HIDE DEF m1
  <2>1. IsSeq(s1) /\ RunAll(d, s1) = d1
    BY OneIsSeq, RunOne
  <2> QED
    BY <2>1
<1> HIDE DEF s1
<1>3. /\ d1 \in Daemons /\ OnlyIn(d.cfg, d1.cfg, {"mode", "trig"})
      /\ d1.cfg.mode = "ONLINE" /\ d1.cfg.trig = {}
  <2>1. /\ m1[1] = "activate" /\ m1[2] = "auto" /\ m1[2] \in {"auto", "manual"}
    BY DEF Settings
  <2>2. d.cfg \in Settings
    BY DEF Daemons
  <2> HIDE DEF m1
  <2>3. OnlyIn(d.cfg, Do(d.cfg, m1), {"mode", "trig"}) /\ Do(d.cfg, m1).mode = (IF m1[2] = "auto" THEN "ONLINE" ELSE "MANUAL") /\ Do(d.cfg, m1).trig = {}
    BY <2>1, <2>2, DoActivate
  <2> QED
    BY <2>1, <2>3, LineIs
<1> HIDE DEF d1
<1> HIDE DEF m1
<1>4. OnlyIn(d.cfg, d1.cfg, {"mode", "trig"})
  BY <1>3 DEF OnlyIn
<1>5. d1.cfg.mode = "ONLINE" /\ d1.cfg.trig = {}
  BY <1>3
<1> QED
  BY <1>1, <1>2, <1>3, <1>4, <1>5

\* PrintIp(), of an address that is negotiated.
LEMMA NegotiatedRuns ==
  ASSUME NEW c \in Settings, NEW d \in Daemons, c.static = FALSE
  PROVE  LET e == RunAll(d, PrintIp(c)) IN
         /\ IsSeq(PrintIp(c)) /\ e \in Daemons /\ OnlyIn(d.cfg, e.cfg, {"static"})
         /\ e.cfg.static = FALSE
<1> DEFINE m1 == <<"negotiated">>
           s1 == <<m1>>
           d1 == Run(d, m1)
<1>1. PrintIp(c) = s1
  BY DEF PrintIp
<1>2. IsSeq(s1) /\ RunAll(d, s1) = d1
  <2> HIDE DEF m1
  <2>1. IsSeq(s1) /\ RunAll(d, s1) = d1
    BY OneIsSeq, RunOne
  <2> QED
    BY <2>1
<1> HIDE DEF s1
<1>3. /\ d1 \in Daemons /\ OnlyIn(d.cfg, d1.cfg, {"static"})
      /\ d1.cfg.static = FALSE
  <2>1. /\ m1[1] = "negotiated"
    BY DEF Settings
  <2>2. d.cfg \in Settings
    BY DEF Daemons
  <2> HIDE DEF m1
  <2>3. OnlyIn(d.cfg, Do(d.cfg, m1), {"static"}) /\ Do(d.cfg, m1).static = FALSE
    BY <2>1, <2>2, DoNegotiated
  <2> QED
    BY <2>1, <2>3, LineIs
<1> HIDE DEF d1
<1> HIDE DEF m1
<1>4. OnlyIn(d.cfg, d1.cfg, {"static"})
  BY <1>3 DEF OnlyIn
<1>5. d1.cfg.static = FALSE
  BY <1>3
<1> QED
  BY <1>1, <1>2, <1>3, <1>4, <1>5

\* The quiet settings.
LEMMA QuietRuns ==
  ASSUME NEW c \in Settings, NEW d \in Daemons
  PROVE  LET e == RunAll(d, If(c.plain["quiet"], <<"plain", "quiet", TRUE>>)) IN
         /\ IsSeq(If(c.plain["quiet"], <<"plain", "quiet", TRUE>>)) /\ e \in Daemons /\ OnlyIn(d.cfg, e.cfg, {"plain"})
         /\ e.cfg.plain = IF c.plain["quiet"] = TRUE THEN [d.cfg.plain EXCEPT !["quiet"] = TRUE] ELSE d.cfg.plain
<1> DEFINE b1 == c.plain["quiet"]
           m1 == <<"plain", "quiet", TRUE>>
           s1 == If(b1, m1)
           d1 == Give(d, b1, m1)
<1>1. If(c.plain["quiet"], <<"plain", "quiet", TRUE>>) = s1
  BY DEF If
<1>2. IsSeq(s1) /\ RunAll(d, s1) = d1
  <2> HIDE DEF b1, m1
  <2>1. IsSeq(s1) /\ RunAll(d, s1) = d1
    BY IfIsSeq, RunIf
  <2> QED
    BY <2>1
<1> HIDE DEF s1
<1>3. /\ d1 \in Daemons /\ OnlyIn(d.cfg, d1.cfg, {"plain"})
      /\ d1.cfg.plain = IF c.plain["quiet"] = TRUE THEN [d.cfg.plain EXCEPT !["quiet"] = TRUE] ELSE d.cfg.plain
  <2>1. /\ b1 \in BOOLEAN
        /\ (b1 <=> c.plain["quiet"] = TRUE)
        /\ m1[1] = "plain" /\ m1[2] = "quiet" /\ m1[2] \in Plain /\ m1[3] = TRUE
    BY DEF Settings, Plain
  <2>2. d.cfg \in Settings
    BY DEF Daemons
  <2> HIDE DEF b1, m1
  <2>3. OnlyIn(d.cfg, Do(d.cfg, m1), {"plain"}) /\ Do(d.cfg, m1).plain = At(d.cfg.plain, m1[2], m1[3])
    BY <2>1, <2>2, DoPlain
  <2>4. /\ d1 \in Daemons /\ OnlyIn(d.cfg, d1.cfg, {"plain"})
        /\ b1 => d1.cfg = Do(d.cfg, m1)
        /\ ~b1 => d1 = d
    BY <2>1, <2>3, GiveIs
  <2> HIDE DEF d1
  <2>5. CASE b1
    BY <2>1, <2>3, <2>4, <2>5 DEF At
  <2>6. CASE ~b1
    BY <2>1, <2>4, <2>6
  <2> QED
    BY <2>5, <2>6
<1> HIDE DEF d1
<1> HIDE DEF b1, m1
<1>4. OnlyIn(d.cfg, d1.cfg, {"plain"})
  BY <1>3 DEF OnlyIn
<1>5. d1.cfg.plain = IF c.plain["quiet"] = TRUE THEN [d.cfg.plain EXCEPT !["quiet"] = TRUE] ELSE d.cfg.plain
  BY <1>3
<1> QED
  BY <1>1, <1>2, <1>3, <1>4, <1>5

\* PrintIp(), of a static configuration.
LEMMA StaticRuns ==
  ASSUME NEW c \in Settings, NEW d \in Daemons,
         c.static = TRUE, d.cfg.static = FALSE, d.cfg.local = FALSE, d.cfg.netmask = FALSE
  PROVE  LET e == RunAll(d, PrintIp(c)) IN
         /\ IsSeq(PrintIp(c)) /\ e \in Daemons /\ OnlyIn(d.cfg, e.cfg, {"static", "local", "peer", "netmask"})
         /\ e.cfg.netmask = c.netmask /\ e.cfg.local = c.local /\ e.cfg.peer = c.peer
         /\ (c.local = TRUE \/ c.peer # "none" => e.cfg.static = TRUE)
         /\ (c.local = FALSE /\ c.peer = "none" => e.cfg.static = FALSE)
<1> DEFINE b1 == c.local /\ c.peer # "none"
           m1 == <<"both", c.peer>>
           b2 == c.local /\ c.peer = "none"
           m2 == <<"local">>
           b3 == ~c.local /\ c.peer # "none"
           m3 == <<"peer", c.peer>>
           b4 == c.netmask
           m4 == <<"netmask">>
           b5 == c.peer = "none"
           m5 == <<"no peer">>
           b6 == ~c.local
           m6 == <<"no local">>
           b7 == ~c.netmask
           m7 == <<"no netmask">>
           s1 == If(b1, m1)
           s2 == s1 \o If(b2, m2)
           s3 == s2 \o If(b3, m3)
           s4 == s3 \o If(b4, m4)
           s5 == s4 \o If(b5, m5)
           s6 == s5 \o If(b6, m6)
           s7 == s6 \o If(b7, m7)
           d1 == Give(d, b1, m1)
           d2 == Give(d1, b2, m2)
           d3 == Give(d2, b3, m3)
           d4 == Give(d3, b4, m4)
           d5 == Give(d4, b5, m5)
           d6 == Give(d5, b6, m6)
           d7 == Give(d6, b7, m7)
<1>1. PrintIp(c) = s7
  BY DEF PrintIp
<1>2. IsSeq(s7) /\ RunAll(d, s7) = d7
  <2> HIDE DEF b1, m1, b2, m2, b3, m3, b4, m4, b5, m5, b6, m6, b7, m7
  <2>1. IsSeq(s1) /\ RunAll(d, s1) = d1
    BY IfIsSeq, RunIf
  <2> HIDE DEF s1, d1
  <2>2. IsSeq(s2) /\ RunAll(d, s2) = d2
    BY <2>1, RunThen
  <2> HIDE DEF s2, d2
  <2>3. IsSeq(s3) /\ RunAll(d, s3) = d3
    BY <2>2, RunThen
  <2> HIDE DEF s3, d3
  <2>4. IsSeq(s4) /\ RunAll(d, s4) = d4
    BY <2>3, RunThen
  <2> HIDE DEF s4, d4
  <2>5. IsSeq(s5) /\ RunAll(d, s5) = d5
    BY <2>4, RunThen
  <2> HIDE DEF s5, d5
  <2>6. IsSeq(s6) /\ RunAll(d, s6) = d6
    BY <2>5, RunThen
  <2> HIDE DEF s6, d6
  <2> QED
    BY <2>6, RunThen
<1> HIDE DEF s1, s2, s3, s4, s5, s6, s7
<1>3. /\ d1 \in Daemons /\ OnlyIn(d.cfg, d1.cfg, {"static", "local", "peer"})
      /\ (c.local = TRUE /\ c.peer # "none") => d1.cfg.static = TRUE /\ d1.cfg.local = TRUE /\ d1.cfg.peer = c.peer
      /\ ~(c.local = TRUE /\ c.peer # "none") => d1.cfg.static = d.cfg.static /\ d1.cfg.local = d.cfg.local /\ d1.cfg.peer = d.cfg.peer /\ d1.cfg.netmask = d.cfg.netmask
  <2>1. /\ b1 \in BOOLEAN
        /\ (b1 <=> c.local = TRUE /\ c.peer # "none")
        /\ m1[1] = "both" /\ m1[2] = c.peer /\ m1[2] \in {"none", "1.1.1.3", "own"}
    BY DEF Settings
  <2>2. d.cfg \in Settings
    BY DEF Daemons
  <2> HIDE DEF b1, m1
  <2>3. OnlyIn(d.cfg, Do(d.cfg, m1), {"static", "local", "peer"}) /\ Do(d.cfg, m1).static = TRUE /\ Do(d.cfg, m1).local = TRUE /\ Do(d.cfg, m1).peer = m1[2]
    BY <2>1, <2>2, DoBoth
  <2>4. /\ d1 \in Daemons /\ OnlyIn(d.cfg, d1.cfg, {"static", "local", "peer"})
        /\ b1 => d1.cfg = Do(d.cfg, m1)
        /\ ~b1 => d1 = d
    BY <2>1, <2>3, GiveIs
  <2> HIDE DEF d1
  <2>5. CASE b1
    BY <2>1, <2>3, <2>4, <2>5 
  <2>6. CASE ~b1
    BY <2>1, <2>4, <2>6 
  <2> QED
    BY <2>5, <2>6
<1> HIDE DEF d1
<1>4. /\ d2 \in Daemons /\ OnlyIn(d1.cfg, d2.cfg, {"static", "local"})
      /\ (c.local = TRUE /\ c.peer = "none") => d2.cfg.static = TRUE /\ d2.cfg.local = TRUE
      /\ ~(c.local = TRUE /\ c.peer = "none") => d2.cfg.static = d1.cfg.static /\ d2.cfg.local = d1.cfg.local /\ d2.cfg.peer = d1.cfg.peer /\ d2.cfg.netmask = d1.cfg.netmask
  <2>1. /\ b2 \in BOOLEAN
        /\ (b2 <=> c.local = TRUE /\ c.peer = "none")
        /\ m2[1] = "local"
    BY DEF Settings
  <2>2. d1.cfg \in Settings
    BY <1>3 DEF Daemons
  <2> HIDE DEF b2, m2
  <2>3. OnlyIn(d1.cfg, Do(d1.cfg, m2), {"static", "local"}) /\ Do(d1.cfg, m2).static = TRUE /\ Do(d1.cfg, m2).local = TRUE
    BY <2>1, <2>2, DoLocal
  <2>4. /\ d2 \in Daemons /\ OnlyIn(d1.cfg, d2.cfg, {"static", "local"})
        /\ b2 => d2.cfg = Do(d1.cfg, m2)
        /\ ~b2 => d2 = d1
    BY <1>3, <2>1, <2>3, GiveIs
  <2> HIDE DEF d2
  <2>5. CASE b2
    BY <2>1, <2>3, <2>4, <2>5 
  <2>6. CASE ~b2
    BY <2>1, <2>4, <2>6 
  <2> QED
    BY <2>5, <2>6
<1> HIDE DEF d2
<1>5. /\ d3 \in Daemons /\ OnlyIn(d2.cfg, d3.cfg, {"static", "peer"})
      /\ (c.local = FALSE /\ c.peer # "none") => d3.cfg.static = TRUE /\ d3.cfg.peer = c.peer
      /\ ~(c.local = FALSE /\ c.peer # "none") => d3.cfg.static = d2.cfg.static /\ d3.cfg.local = d2.cfg.local /\ d3.cfg.peer = d2.cfg.peer /\ d3.cfg.netmask = d2.cfg.netmask
  <2>1. /\ b3 \in BOOLEAN
        /\ (b3 <=> c.local = FALSE /\ c.peer # "none")
        /\ m3[1] = "peer" /\ m3[2] = c.peer /\ m3[2] \in {"none", "1.1.1.3", "own"}
    BY DEF Settings
  <2>2. d2.cfg \in Settings
    BY <1>4 DEF Daemons
  <2> HIDE DEF b3, m3
  <2>3. OnlyIn(d2.cfg, Do(d2.cfg, m3), {"static", "peer"}) /\ Do(d2.cfg, m3).static = TRUE /\ Do(d2.cfg, m3).peer = m3[2]
    BY <2>1, <2>2, DoPeer
  <2>4. /\ d3 \in Daemons /\ OnlyIn(d2.cfg, d3.cfg, {"static", "peer"})
        /\ b3 => d3.cfg = Do(d2.cfg, m3)
        /\ ~b3 => d3 = d2
    BY <1>4, <2>1, <2>3, GiveIs
  <2> HIDE DEF d3
  <2>5. CASE b3
    BY <2>1, <2>3, <2>4, <2>5 
  <2>6. CASE ~b3
    BY <2>1, <2>4, <2>6 
  <2> QED
    BY <2>5, <2>6
<1> HIDE DEF d3
<1>6. /\ d4 \in Daemons /\ OnlyIn(d3.cfg, d4.cfg, {"static", "netmask"})
      /\ (c.netmask = TRUE) => d4.cfg.static = TRUE /\ d4.cfg.netmask = TRUE
      /\ ~(c.netmask = TRUE) => d4.cfg.static = d3.cfg.static /\ d4.cfg.local = d3.cfg.local /\ d4.cfg.peer = d3.cfg.peer /\ d4.cfg.netmask = d3.cfg.netmask
  <2>1. /\ b4 \in BOOLEAN
        /\ (b4 <=> c.netmask = TRUE)
        /\ m4[1] = "netmask"
    BY DEF Settings
  <2>2. d3.cfg \in Settings
    BY <1>5 DEF Daemons
  <2> HIDE DEF b4, m4
  <2>3. OnlyIn(d3.cfg, Do(d3.cfg, m4), {"static", "netmask"}) /\ Do(d3.cfg, m4).static = TRUE /\ Do(d3.cfg, m4).netmask = TRUE
    BY <2>1, <2>2, DoNetmask
  <2>4. /\ d4 \in Daemons /\ OnlyIn(d3.cfg, d4.cfg, {"static", "netmask"})
        /\ b4 => d4.cfg = Do(d3.cfg, m4)
        /\ ~b4 => d4 = d3
    BY <1>5, <2>1, <2>3, GiveIs
  <2> HIDE DEF d4
  <2>5. CASE b4
    BY <2>1, <2>3, <2>4, <2>5 
  <2>6. CASE ~b4
    BY <2>1, <2>4, <2>6 
  <2> QED
    BY <2>5, <2>6
<1> HIDE DEF d4
<1>7. /\ d5 \in Daemons /\ OnlyIn(d4.cfg, d5.cfg, {"peer", "static"})
      /\ (c.peer = "none") => d5.cfg.peer = "none" /\ (d4.cfg.local = TRUE => d5.cfg.static = d4.cfg.static) /\ (d4.cfg.local = FALSE => d5.cfg.static = FALSE)
      /\ ~(c.peer = "none") => d5.cfg.static = d4.cfg.static /\ d5.cfg.local = d4.cfg.local /\ d5.cfg.peer = d4.cfg.peer /\ d5.cfg.netmask = d4.cfg.netmask
  <2>1. /\ b5 \in BOOLEAN
        /\ (b5 <=> c.peer = "none")
        /\ m5[1] = "no peer"
    BY DEF Settings
  <2>2. d4.cfg \in Settings
    BY <1>6 DEF Daemons
  <2> HIDE DEF b5, m5
  <2>3. OnlyIn(d4.cfg, Do(d4.cfg, m5), {"peer", "static"}) /\ Do(d4.cfg, m5).peer = "none" /\ (d4.cfg.local = TRUE => Do(d4.cfg, m5).static = d4.cfg.static) /\ (d4.cfg.local = FALSE => Do(d4.cfg, m5).static = FALSE)
    BY <2>1, <2>2, DoNoPeer
  <2>4. /\ d5 \in Daemons /\ OnlyIn(d4.cfg, d5.cfg, {"peer", "static"})
        /\ b5 => d5.cfg = Do(d4.cfg, m5)
        /\ ~b5 => d5 = d4
    BY <1>6, <2>1, <2>3, GiveIs
  <2> HIDE DEF d5
  <2>5. CASE b5
    BY <2>1, <2>3, <2>4, <2>5 
  <2>6. CASE ~b5
    BY <2>1, <2>4, <2>6 
  <2> QED
    BY <2>5, <2>6
<1> HIDE DEF d5
<1>8. /\ d6 \in Daemons /\ OnlyIn(d5.cfg, d6.cfg, {"local", "static"})
      /\ (c.local = FALSE) => d6.cfg.local = FALSE /\ (d5.cfg.peer # "none" => d6.cfg.static = d5.cfg.static) /\ (d5.cfg.peer = "none" => d6.cfg.static = FALSE)
      /\ ~(c.local = FALSE) => d6.cfg.static = d5.cfg.static /\ d6.cfg.local = d5.cfg.local /\ d6.cfg.peer = d5.cfg.peer /\ d6.cfg.netmask = d5.cfg.netmask
  <2>1. /\ b6 \in BOOLEAN
        /\ (b6 <=> c.local = FALSE)
        /\ m6[1] = "no local"
    BY DEF Settings
  <2>2. d5.cfg \in Settings
    BY <1>7 DEF Daemons
  <2> HIDE DEF b6, m6
  <2>3. OnlyIn(d5.cfg, Do(d5.cfg, m6), {"local", "static"}) /\ Do(d5.cfg, m6).local = FALSE /\ (d5.cfg.peer # "none" => Do(d5.cfg, m6).static = d5.cfg.static) /\ (d5.cfg.peer = "none" => Do(d5.cfg, m6).static = FALSE)
    BY <2>1, <2>2, DoNoLocal
  <2>4. /\ d6 \in Daemons /\ OnlyIn(d5.cfg, d6.cfg, {"local", "static"})
        /\ b6 => d6.cfg = Do(d5.cfg, m6)
        /\ ~b6 => d6 = d5
    BY <1>7, <2>1, <2>3, GiveIs
  <2> HIDE DEF d6
  <2>5. CASE b6
    BY <2>1, <2>3, <2>4, <2>5 
  <2>6. CASE ~b6
    BY <2>1, <2>4, <2>6 
  <2> QED
    BY <2>5, <2>6
<1> HIDE DEF d6
<1>9. /\ d7 \in Daemons /\ OnlyIn(d6.cfg, d7.cfg, {"netmask", "static"})
      /\ (c.netmask = FALSE) => d7.cfg.netmask = FALSE /\ (d6.cfg.local = TRUE \/ d6.cfg.peer # "none" => d7.cfg.static = d6.cfg.static) /\ (d6.cfg.local = FALSE /\ d6.cfg.peer = "none" => d7.cfg.static = FALSE)
      /\ ~(c.netmask = FALSE) => d7.cfg.static = d6.cfg.static /\ d7.cfg.local = d6.cfg.local /\ d7.cfg.peer = d6.cfg.peer /\ d7.cfg.netmask = d6.cfg.netmask
  <2>1. /\ b7 \in BOOLEAN
        /\ (b7 <=> c.netmask = FALSE)
        /\ m7[1] = "no netmask"
    BY DEF Settings
  <2>2. d6.cfg \in Settings
    BY <1>8 DEF Daemons
  <2> HIDE DEF b7, m7
  <2>3. OnlyIn(d6.cfg, Do(d6.cfg, m7), {"netmask", "static"}) /\ Do(d6.cfg, m7).netmask = FALSE /\ (d6.cfg.local = TRUE \/ d6.cfg.peer # "none" => Do(d6.cfg, m7).static = d6.cfg.static) /\ (d6.cfg.local = FALSE /\ d6.cfg.peer = "none" => Do(d6.cfg, m7).static = FALSE)
    BY <2>1, <2>2, DoNoNetmask
  <2>4. /\ d7 \in Daemons /\ OnlyIn(d6.cfg, d7.cfg, {"netmask", "static"})
        /\ b7 => d7.cfg = Do(d6.cfg, m7)
        /\ ~b7 => d7 = d6
    BY <1>8, <2>1, <2>3, GiveIs
  <2> HIDE DEF d7
  <2>5. CASE b7
    BY <2>1, <2>3, <2>4, <2>5 
  <2>6. CASE ~b7
    BY <2>1, <2>4, <2>6 
  <2> QED
    BY <2>5, <2>6
<1> HIDE DEF d7
<1> HIDE DEF b1, m1, b2, m2, b3, m3, b4, m4, b5, m5, b6, m6, b7, m7
<1>10. OnlyIn(d.cfg, d7.cfg, {"static", "local", "peer", "netmask"})
  BY <1>3, <1>4, <1>5, <1>6, <1>7, <1>8, <1>9 DEF OnlyIn
<1>11. c.local \in BOOLEAN /\ c.netmask \in BOOLEAN
  BY DEF Settings
<1>12. /\ d1.cfg.netmask = FALSE
       /\ c.local = TRUE /\ c.peer # "none" => d1.cfg.static = TRUE /\ d1.cfg.local = TRUE /\ d1.cfg.peer = c.peer
       /\ ~(c.local = TRUE /\ c.peer # "none") => d1.cfg.static = FALSE /\ d1.cfg.local = FALSE
  BY <1>3 DEF OnlyIn, SettingNames
<1>13. /\ d2.cfg.netmask = FALSE /\ (c.local = TRUE => d2.cfg.local = TRUE) /\ (c.local = FALSE => d2.cfg.local = FALSE)
       /\ c.local = TRUE /\ c.peer # "none" => d2.cfg.static = TRUE /\ d2.cfg.peer = c.peer
       /\ (c.local = TRUE => d2.cfg.static = TRUE) /\ (c.local = FALSE => d2.cfg.static = FALSE)
  <2>1. d2.cfg.netmask = d1.cfg.netmask /\ d2.cfg.peer = d1.cfg.peer
    BY <1>4 DEF OnlyIn, SettingNames
  <2>2. CASE c.local = TRUE /\ c.peer = "none"
    BY <1>4, <1>11, <1>12, <2>1, <2>2
  <2>3. CASE c.local = TRUE /\ c.peer # "none"
    BY <1>4, <1>11, <1>12, <2>1, <2>3
  <2>4. CASE c.local = FALSE
    BY <1>4, <1>11, <1>12, <2>1, <2>4
  <2> QED
    BY <1>11, <2>2, <2>3, <2>4
<1>14. /\ d3.cfg.netmask = FALSE /\ (c.local = TRUE => d3.cfg.local = TRUE) /\ (c.local = FALSE => d3.cfg.local = FALSE)
       /\ c.peer # "none" => d3.cfg.peer = c.peer
       /\ (c.local = TRUE \/ c.peer # "none" => d3.cfg.static = TRUE)
       /\ (c.local = FALSE /\ c.peer = "none" => d3.cfg.static = FALSE)
  BY <1>5, <1>11, <1>13 DEF OnlyIn, SettingNames
<1>15. /\ (c.netmask = TRUE => d4.cfg.netmask = TRUE) /\ (c.netmask = FALSE => d4.cfg.netmask = FALSE) /\ (c.local = TRUE => d4.cfg.local = TRUE) /\ (c.local = FALSE => d4.cfg.local = FALSE)
       /\ c.peer # "none" => d4.cfg.peer = c.peer
       /\ (c.local = TRUE \/ c.peer # "none" => d4.cfg.static = TRUE)
  <2>1. d4.cfg.local = d3.cfg.local /\ d4.cfg.peer = d3.cfg.peer
    BY <1>6 DEF OnlyIn, SettingNames
  <2>2. CASE c.netmask = TRUE
    BY <1>6, <1>11, <1>14, <2>1, <2>2
  <2>3. CASE c.netmask = FALSE
    BY <1>6, <1>11, <1>14, <2>1, <2>3
  <2> QED
    BY <1>11, <2>2, <2>3
<1>16. /\ (c.netmask = TRUE => d5.cfg.netmask = TRUE) /\ (c.netmask = FALSE => d5.cfg.netmask = FALSE) /\ (c.local = TRUE => d5.cfg.local = TRUE) /\ (c.local = FALSE => d5.cfg.local = FALSE) /\ d5.cfg.peer = c.peer
       /\ (c.local = TRUE \/ c.peer # "none" => d5.cfg.static = TRUE)
       /\ (c.local = FALSE /\ c.peer = "none" => d5.cfg.static = FALSE)
  <2>1. d5.cfg.local = d4.cfg.local /\ d5.cfg.netmask = d4.cfg.netmask
    BY <1>7 DEF OnlyIn, SettingNames
  <2>2. CASE c.peer = "none" /\ c.local = TRUE
    BY <1>7, <1>11, <1>15, <2>1, <2>2
  <2>3. CASE c.peer = "none" /\ c.local = FALSE
    BY <1>7, <1>11, <1>15, <2>1, <2>3
  <2>4. CASE c.peer # "none"
    BY <1>7, <1>11, <1>15, <2>1, <2>4
  <2> QED
    BY <1>11, <2>2, <2>3, <2>4
<1>17. /\ (c.netmask = TRUE => d6.cfg.netmask = TRUE) /\ (c.netmask = FALSE => d6.cfg.netmask = FALSE) /\ (c.local = TRUE => d6.cfg.local = TRUE) /\ (c.local = FALSE => d6.cfg.local = FALSE) /\ d6.cfg.peer = c.peer
       /\ (c.local = TRUE \/ c.peer # "none" => d6.cfg.static = TRUE)
       /\ (c.local = FALSE /\ c.peer = "none" => d6.cfg.static = FALSE)
  BY <1>8, <1>11, <1>16 DEF OnlyIn, SettingNames
<1>18. /\ (c.netmask = TRUE => d7.cfg.netmask = TRUE) /\ (c.netmask = FALSE => d7.cfg.netmask = FALSE) /\ (c.local = TRUE => d7.cfg.local = TRUE) /\ (c.local = FALSE => d7.cfg.local = FALSE) /\ d7.cfg.peer = c.peer
       /\ (c.local = TRUE \/ c.peer # "none" => d7.cfg.static = TRUE)
       /\ (c.local = FALSE /\ c.peer = "none" => d7.cfg.static = FALSE)
  BY <1>9, <1>11, <1>17 DEF OnlyIn, SettingNames
<1> QED
  BY <1>1, <1>2, <1>9, <1>10, <1>11, <1>12, <1>13, <1>14, <1>15, <1>16, <1>17, <1>18

\* What is printed of the first n profiles.
ProfilesUpto(c, N, g) ==
  g = [n \in 0 .. N |-> IF n = 0 THEN <<>>
                        ELSE g[n - 1] \o If(n \in Profiles /\ c.prof[n] # "none", <<"profile", n, c.prof[n]>>)]

LEMMA ProfilesUptoExists == ASSUME NEW c PROVE \E g : ProfilesUpto(c, MaxProfile, g)
<1> DEFINE N == MaxProfile
           G == {n \in 0 .. N : \E g : ProfilesUpto(c, n, g)}
<1>a. N \in Nat
  BY SettingsConstantsOK
<1> HIDE DEF N
<1>1. 0 \in G
  <2> DEFINE h == [k \in 0 .. 0 |-> <<>>]
  <2>1. h = [n \in 0 .. 0 |-> IF n = 0 THEN <<>>
               ELSE h[n - 1] \o If(n \in Profiles /\ c.prof[n] # "none", <<"profile", n, c.prof[n]>>)]
    OBVIOUS
  <2> HIDE DEF h
  <2>2. ProfilesUpto(c, 0, h)
    BY <2>1 DEF ProfilesUpto
  <2> QED
    BY <1>a, <2>2
<1>2. ASSUME NEW n \in 1 .. N, n - 1 \in G PROVE n \in G
  <2> DEFINE line(k) == If(k \in Profiles /\ c.prof[k] # "none", <<"profile", k, c.prof[k]>>)
  <2>1. PICK g : ProfilesUpto(c, n - 1, g)
    BY <1>2
  <2>2. g = [k \in 0 .. n - 1 |-> IF k = 0 THEN <<>> ELSE g[k - 1] \o line(k)]
    BY <2>1 DEF ProfilesUpto
  <2> DEFINE h == [k \in 0 .. n |-> IF k = n THEN g[n - 1] \o line(n) ELSE g[k]]
  <2>3. ASSUME NEW k \in 0 .. n PROVE h[k] = IF k = 0 THEN <<>> ELSE h[k - 1] \o line(k)
    <3> HIDE DEF line
    <3>1. CASE k = 0
      <4>1. h[k] = g[0] /\ 0 \in 0 .. n - 1
        BY <1>a, <3>1
      <4> HIDE DEF h
      <4>2. g[0] = <<>>
        BY <2>2, <4>1
      <4> QED
        BY <3>1, <4>1, <4>2
    <3>2. CASE k # 0
      <4>1. k - 1 \in 0 .. n - 1 /\ h[k - 1] = g[k - 1]
        BY <1>a, <3>2
      <4>2. CASE k = n
        <5>1. h[k] = g[n - 1] \o line(n)
          BY <4>2
        <5> HIDE DEF h
        <5> QED
          BY <3>2, <4>1, <4>2, <5>1
      <4>3. CASE k # n
        <5>1. h[k] = g[k] /\ k \in 0 .. n - 1
          BY <1>a, <4>3
        <5> HIDE DEF h
        <5>2. g[k] = g[k - 1] \o line(k)
          BY <2>2, <3>2, <5>1
        <5> QED
          BY <3>2, <4>1, <5>1, <5>2
      <4> QED
        BY <4>2, <4>3
    <3> QED
      BY <3>1, <3>2
  <2>4. h = [k \in 0 .. n |-> h[k]]
    OBVIOUS
  <2> HIDE DEF h
  <2>5. h = [k \in 0 .. n |-> IF k = 0 THEN <<>> ELSE h[k - 1] \o line(k)]
    BY <2>3, <2>4
  <2>6. ProfilesUpto(c, n, h)
    BY <2>5 DEF ProfilesUpto
  <2> QED
    BY <1>a, <2>6
<1>3. G \in SUBSET (0 .. N)
  OBVIOUS
<1> HIDE DEF G
<1>4. G = 0 .. N
  BY <1>a, <1>1, <1>2, <1>3, Climb
<1>5. N \in G
  BY <1>a, <1>4
<1> QED
  BY <1>5 DEF G, N

\* PrintProfiles().
LEMMA ProfilesRun ==
  ASSUME NEW c \in Settings, NEW d \in Daemons
  PROVE  LET e == RunAll(d, PrintProfiles(c)) IN
         /\ IsSeq(PrintProfiles(c)) /\ e \in Daemons /\ OnlyIn(d.cfg, e.cfg, {"prof"})
         /\ e.cfg.prof = [k \in Profiles |-> IF c.prof[k] # "none" THEN c.prof[k] ELSE d.cfg.prof[k]]
<1> DEFINE N == MaxProfile
           b(n) == n \in Profiles /\ c.prof[n] # "none"
           m(n) == <<"profile", n, c.prof[n]>>
           upto == CHOOSE g : g = [n \in 0 .. N |-> IF n = 0 THEN <<>> ELSE g[n - 1] \o If(b(n), m(n))]
           e(n) == RunAll(d, upto[n])
           shown(n) == [k \in Profiles |-> IF k <= n /\ c.prof[k] # "none" THEN c.prof[k] ELSE d.cfg.prof[k]]
           G == {n \in 0 .. N : /\ IsSeq(upto[n]) /\ e(n) \in Daemons /\ OnlyIn(d.cfg, e(n).cfg, {"prof"})
                                /\ e(n).cfg.prof = shown(n)}
<1>a. N \in Nat /\ Profiles \subseteq 1 .. N
  BY SettingsConstantsOK
<1>b. PrintProfiles(c) = upto[N]
  BY Zenon DEF PrintProfiles
<1>c. \E g : g = [n \in 0 .. N |-> IF n = 0 THEN <<>> ELSE g[n - 1] \o If(b(n), m(n))]
  BY ProfilesUptoExists DEF ProfilesUpto
<1>d. upto = [n \in 0 .. N |-> IF n = 0 THEN <<>> ELSE upto[n - 1] \o If(b(n), m(n))]
  <2> HIDE DEF b, m, N
  <2> QED
    BY <1>c, Zenon
<1>e. d.cfg \in Settings /\ c.prof \in [Profiles -> {"none", "factory", "gsm", "cdma"}]
      /\ d.cfg.prof \in [Profiles -> {"none", "factory", "gsm", "cdma"}]
  BY DEF Daemons, Settings
<1>f. /\ upto[0] = <<>>
      /\ \A n \in 1 .. N : upto[n] = upto[n - 1] \o If(b(n), m(n))
  <2> DEFINE line(n) == If(b(n), m(n))
  <2> HIDE DEF N, upto
  <2>1. upto = [n \in 0 .. N |-> IF n = 0 THEN <<>> ELSE upto[n - 1] \o line(n)]
    BY <1>d
  <2> HIDE DEF line
  <2>2. upto[0] = <<>>
    <3>1. 0 \in 0 .. N
      BY <1>a
    <3> QED
      BY <2>1, <3>1
  <2>3. ASSUME NEW n \in 1 .. N PROVE upto[n] = upto[n - 1] \o line(n)
    <3>1. n \in 0 .. N /\ n # 0
      BY <1>a
    <3> QED
      BY <2>1, <3>1
  <2> QED
    BY <2>2, <2>3 DEF line
<1> HIDE DEF upto, N
<1>1. 0 \in G
  <2>1. IsSeq(<<>>)
    <3>1. <<>> \in Seq({})
      OBVIOUS
    <3> QED
      BY <3>1 DEF IsSeq
  <2>2. e(0) = d
    <3>1. upto[0] = <<>>
      BY <1>f
    <3>2. e(0) = RunAll(d, <<>>)
      BY <3>1
    <3> HIDE DEF e
    <3> QED
      BY <3>2, RunNone
  <2>3. d.cfg.prof = shown(0)
    <3> DEFINE p == d.cfg.prof
    <3>1. p = [k \in Profiles |-> p[k]]
      BY <1>e
    <3>2. \A k \in Profiles : ~(k <= 0)
      BY <1>a
    <3>3. shown(0) = [k \in Profiles |-> p[k]]
      BY <3>2
    <3> HIDE DEF p, shown
    <3>4. p = shown(0)
      BY <3>1, <3>3
    <3> QED
      BY <3>4 DEF p
  <2>4. OnlyIn(d.cfg, d.cfg, {"prof"})
    BY <1>e DEF OnlyIn
  <2> HIDE DEF e, shown
  <2> QED
    BY <1>a, <1>f, <2>1, <2>2, <2>3, <2>4
<1>2. ASSUME NEW n \in 1 .. N, n - 1 \in G PROVE n \in G
  <2>1. /\ IsSeq(upto[n - 1]) /\ e(n - 1) \in Daemons /\ OnlyIn(d.cfg, e(n - 1).cfg, {"prof"})
        /\ e(n - 1).cfg.prof = shown(n - 1)
    BY <1>2
  <2> DEFINE x == e(n - 1)
             y == e(n)
             bn == b(n)
             mn == m(n)
  <2>2. bn \in BOOLEAN /\ mn[1] = "profile" /\ mn[2] = n /\ mn[3] = c.prof[n]
    OBVIOUS
  <2>3. bn => n \in Profiles /\ c.prof[n] \in {"factory", "gsm", "cdma"}
    BY <1>e
  <2>4. upto[n] = upto[n - 1] \o If(bn, mn)
    BY <1>f
  <2>p. ~bn => n \notin Profiles \/ c.prof[n] = "none"
    OBVIOUS
  <2> HIDE DEF bn, mn
  <2>5. IsSeq(upto[n]) /\ y = Give(x, bn, mn)
    BY <2>1, <2>4, RunThen
  <2>6. x \in Daemons /\ OnlyIn(d.cfg, x.cfg, {"prof"}) /\ x.cfg.prof = shown(n - 1)
    BY <2>1
  <2> HIDE DEF e, x, y
  <2>7. x.cfg \in Settings
    BY <2>6 DEF Daemons
  <2>8. bn => OnlyIn(x.cfg, Do(x.cfg, mn), {"prof"}) /\ Do(x.cfg, mn).prof = [x.cfg.prof EXCEPT ![n] = c.prof[n]]
    <3> SUFFICES ASSUME bn PROVE OnlyIn(x.cfg, Do(x.cfg, mn), {"prof"}) /\ Do(x.cfg, mn).prof = [x.cfg.prof EXCEPT ![n] = c.prof[n]]
      OBVIOUS
    <3>1. mn[1] = "profile" /\ mn[2] \in Profiles /\ mn[3] \in {"factory", "gsm", "cdma"}
      BY <2>2, <2>3
    <3>2. OnlyIn(x.cfg, Do(x.cfg, mn), {"prof"}) /\ Do(x.cfg, mn).prof = [x.cfg.prof EXCEPT ![mn[2]] = mn[3]]
      BY <2>7, <3>1, DoProfile
    <3> QED
      BY <2>2, <3>2
  <2>9. y \in Daemons /\ OnlyIn(x.cfg, y.cfg, {"prof"}) /\ (bn => y.cfg = Do(x.cfg, mn)) /\ (~bn => y = x)
    BY <2>2, <2>5, <2>6, <2>8, GiveIs
  <2>10. OnlyIn(d.cfg, y.cfg, {"prof"})
    BY <2>6, <2>9 DEF OnlyIn
  <2>11. y.cfg.prof = shown(n)
    <3>1. CASE bn
      <4>1. y.cfg.prof = [shown(n - 1) EXCEPT ![n] = c.prof[n]]
        BY <2>6, <2>8, <2>9, <3>1
      <4>2. n \in Profiles /\ c.prof[n] # "none"
        BY <2>3, <3>1
      <4>3. ASSUME NEW k \in Profiles PROVE [shown(n - 1) EXCEPT ![n] = c.prof[n]][k] = shown(n)[k]
        <5>1. k \in Int /\ n \in Int
          BY <1>a
        <5>2. CASE k = n
          BY <4>2, <5>1, <5>2
        <5>3. CASE k # n
          <6>1. k <= n - 1 <=> k <= n
            BY <5>1, <5>3
          <6> QED
            BY <4>2, <5>3, <6>1
        <5> QED
          BY <5>2, <5>3
      <4> DEFINE z == [shown(n - 1) EXCEPT ![n] = c.prof[n]]
      <4>4. z = [k \in Profiles |-> z[k]] /\ shown(n) = [k \in Profiles |-> shown(n)[k]]
        OBVIOUS
      <4>5. \A k \in Profiles : z[k] = shown(n)[k]
        BY <4>3
      <4> HIDE DEF z, shown
      <4>6. z = shown(n)
        BY <4>4, <4>5
      <4> QED
        BY <4>1, <4>6 DEF z
    <3>2. CASE ~bn
      <4>1. ASSUME NEW k \in Profiles PROVE k <= n - 1 /\ c.prof[k] # "none" <=> k <= n /\ c.prof[k] # "none"
        <5>1. k \in Int /\ n \in Int
          BY <1>a
        <5> QED
          BY <2>p, <3>2, <5>1
      <4>2. shown(n - 1) = shown(n)
        BY <4>1
      <4> HIDE DEF shown
      <4> QED
        BY <2>6, <2>9, <3>2, <4>2
    <3> QED
      BY <3>1, <3>2
  <2>12. n \in 0 .. N
    BY <1>a
  <2> HIDE DEF shown
  <2> QED
    BY <2>5, <2>9, <2>10, <2>11, <2>12 DEF y, e
<1>3. G \in SUBSET (0 .. N)
  OBVIOUS
<1>4. G = 0 .. N
  <2> HIDE DEF G
  <2> QED
    BY <1>a, <1>1, <1>2, <1>3, Climb
<1>5. N \in G
  BY <1>a, <1>4
<1>6. shown(N) = [k \in Profiles |-> IF c.prof[k] # "none" THEN c.prof[k] ELSE d.cfg.prof[k]]
  <2>1. \A k \in Profiles : k <= N
    BY <1>a
  <2> QED
    BY <2>1
<1>7. /\ IsSeq(upto[N]) /\ e(N) \in Daemons /\ OnlyIn(d.cfg, e(N).cfg, {"prof"})
      /\ e(N).cfg.prof = shown(N)
  BY <1>5
<1> HIDE DEF shown
<1> QED
  BY <1>b, <1>6, <1>7

-----------------------------------------------------------------------------
(* What a boot should make of the settings.                                *)

LEMMA DefaultIs == Default \in Settings
<1> DEFINE factory == [n \in Profiles |-> IF n = 1 THEN "factory" ELSE "none"]
           zero == [s \in SimNames |-> 0]
           no == [s \in SimNames |-> FALSE]
           yes == [s \in SimNames |-> TRUE]
           any == [s \in SimNames |-> "auto"]
           given == [w \in Wans |-> "default"]
           none == [w \in Wans |-> 0]
           lax == [w \in Wans |-> FALSE]
           off == [f \in Plain |-> FALSE]
<1>1. factory \in [Profiles -> {"none", "factory", "gsm", "cdma"}]
  OBVIOUS
<1>2. zero \in [SimNames -> Profiles \cup {0}] /\ no \in [SimNames -> BOOLEAN] /\ yes \in [SimNames -> BOOLEAN]
  OBVIOUS
<1>3. any \in [SimNames -> {"auto", "4g"}] /\ any \in [SimNames -> {"auto", "verizon"}]
  OBVIOUS
<1>4. /\ given \in [Wans -> {"default", "own"}] /\ none \in [Wans -> {0, 56, 80}]
      /\ lax \in [Wans -> BOOLEAN] /\ off \in [Plain -> BOOLEAN]
  OBVIOUS
<1>5. Infinite \in BOOLEAN /\ "sim1" \in SimNames /\ "sim2" \in SimNames
  BY SettingsConstantsOK DEF SimNames
<1>6. Default =
   [prof |-> factory, use |-> zero, use2 |-> zero, wan2 |-> no,
   net |-> any, nr5g |-> "auto",
   oper |-> any, pin |-> no, roam |-> yes,
   dual |-> FALSE, main |-> "sim1", backup |-> "sim2", policy |-> "sim1",
   retries |-> 5, csq |-> no, backtime |-> FALSE,
   smsInterval |-> 30, enable |-> TRUE,
   mode |-> "ONLINE", trig |-> {}, idle |-> 60,
   static |-> FALSE, local |-> FALSE, peer |-> "1.1.1.3", netmask |-> FALSE,
   infinite |-> Infinite, share |-> "off", pd |-> given,
   prefix |-> none, strict |-> lax,
   plain |-> off]
  BY DEF Default
<1> HIDE DEF factory, zero, no, yes, any, given, none, lax, off
<1> QED
  BY <1>1, <1>2, <1>3, <1>4, <1>5, <1>6 DEF Settings

LEMMA AfterSame ==
  ASSUME NEW c \in Settings
  PROVE  /\ AfterReboot(c).nr5g = c.nr5g /\ AfterReboot(c).oper = c.oper /\ AfterReboot(c).pin = c.pin
         /\ AfterReboot(c).roam = c.roam /\ AfterReboot(c).dual = c.dual /\ AfterReboot(c).enable = c.enable
         /\ AfterReboot(c).share = c.share /\ AfterReboot(c).pd = c.pd /\ AfterReboot(c).strict = c.strict
         /\ AfterReboot(c).plain = c.plain
BY DEF AfterReboot, Settings

LEMMA AfterSimple ==
  ASSUME NEW c \in Settings
  PROVE  /\ AfterReboot(c).prof = [c.prof EXCEPT ![1] = IF c.prof[1] = "none" THEN "factory" ELSE c.prof[1]]
         /\ AfterReboot(c).net = [s \in SimNames |-> c.net["sim1"]]
         /\ AfterReboot(c).smsInterval = IF c.smsInterval = 0 THEN 30 ELSE c.smsInterval
         /\ AfterReboot(c).prefix = [w \in Wans |-> IF c.prefix[w] > 64 THEN 0 ELSE c.prefix[w]]
         /\ AfterReboot(c).peer = IF c.static = TRUE THEN c.peer ELSE "1.1.1.3"
         /\ AfterReboot(c).static \in BOOLEAN
         /\ AfterReboot(c).static = TRUE <=> c.static = TRUE /\ (c.local = TRUE \/ c.peer # "none")
         /\ AfterReboot(c).local \in BOOLEAN
         /\ AfterReboot(c).local = TRUE <=> c.static = TRUE /\ c.local = TRUE
         /\ AfterReboot(c).netmask \in BOOLEAN
         /\ AfterReboot(c).netmask = TRUE <=> c.static = TRUE /\ c.netmask = TRUE
         /\ AfterReboot(c).infinite \in BOOLEAN
         /\ AfterReboot(c).infinite = TRUE <=> c.infinite = TRUE \/ Infinite = TRUE
         /\ AfterReboot(c).mode = IF c.mode = "DEMAND" /\ c.trig = {} THEN "ONLINE" ELSE c.mode
         /\ AfterReboot(c).trig = IF c.mode = "DEMAND" THEN c.trig ELSE {}
         /\ AfterReboot(c).idle = IF c.mode = "DEMAND" THEN c.idle ELSE 60
<1>1. /\ c.static \in BOOLEAN /\ c.local \in BOOLEAN /\ c.netmask \in BOOLEAN /\ c.infinite \in BOOLEAN
      /\ c.smsInterval \in {0, 10, 30}
  BY DEF Settings
<1>2. Infinite \in BOOLEAN
  BY SettingsConstantsOK
<1>3. /\ AfterReboot(c).prof = [c.prof EXCEPT ![1] = IF c.prof[1] = "none" THEN "factory" ELSE c.prof[1]]
      /\ AfterReboot(c).net = [s \in SimNames |-> c.net["sim1"]]
      /\ AfterReboot(c).smsInterval = IF c.smsInterval = 0 THEN 30 ELSE c.smsInterval
      /\ AfterReboot(c).prefix = [w \in Wans |-> IF c.prefix[w] > 64 THEN 0 ELSE c.prefix[w]]
      /\ AfterReboot(c).mode = IF c.mode = "DEMAND" /\ c.trig = {} THEN "ONLINE" ELSE c.mode
      /\ AfterReboot(c).trig = IF c.mode = "DEMAND" THEN c.trig ELSE {}
      /\ AfterReboot(c).idle = IF c.mode = "DEMAND" THEN c.idle ELSE 60
  BY <1>1 DEF AfterReboot, Settings
<1>4. AfterReboot(c).peer = IF c.static = TRUE THEN c.peer ELSE "1.1.1.3"
  BY <1>1 DEF AfterReboot, Settings
<1>5. AfterReboot(c).static = (c.static /\ (c.local \/ c.peer # "none"))
  BY <1>1 DEF AfterReboot, Settings
<1>6. AfterReboot(c).local = (c.static /\ c.local) /\ AfterReboot(c).netmask = (c.static /\ c.netmask)
  BY <1>1 DEF AfterReboot, Settings
<1>7. AfterReboot(c).infinite = (c.infinite \/ Infinite)
  BY <1>1 DEF AfterReboot, Settings
<1>8. /\ AfterReboot(c).static \in BOOLEAN
      /\ AfterReboot(c).static = TRUE <=> c.static = TRUE /\ (c.local = TRUE \/ c.peer # "none")
  BY <1>1, <1>5
<1>9. /\ AfterReboot(c).local \in BOOLEAN /\ AfterReboot(c).netmask \in BOOLEAN
      /\ AfterReboot(c).local = TRUE <=> c.static = TRUE /\ c.local = TRUE
      /\ AfterReboot(c).netmask = TRUE <=> c.static = TRUE /\ c.netmask = TRUE
  BY <1>1, <1>6
<1>10. /\ AfterReboot(c).infinite \in BOOLEAN
       /\ AfterReboot(c).infinite = TRUE <=> c.infinite = TRUE \/ Infinite = TRUE
  BY <1>1, <1>2, <1>7
<1> QED
  BY <1>3, <1>4, <1>8, <1>9, <1>10

LEMMA AfterDual ==
  ASSUME NEW c \in Settings
  PROVE  /\ AfterReboot(c).main = IF c.dual = TRUE THEN c.main ELSE "sim1"
         /\ AfterReboot(c).backup = IF c.dual = TRUE THEN OtherName(c.main) ELSE "sim2"
         /\ AfterReboot(c).policy = IF c.dual = TRUE THEN c.policy ELSE "sim1"
         /\ AfterReboot(c).retries = IF c.dual = TRUE /\ c.retries # 0 THEN c.retries ELSE 5
         /\ AfterReboot(c).csq = IF c.dual = TRUE THEN c.csq ELSE [s \in SimNames |-> FALSE]
         /\ AfterReboot(c).backtime = IF c.dual = TRUE THEN c.backtime ELSE FALSE
<1>1. c.dual \in BOOLEAN
  BY DEF Settings
<1>2. /\ AfterReboot(c).main = IF c.dual = TRUE THEN c.main ELSE "sim1"
      /\ AfterReboot(c).backup = IF c.dual = TRUE THEN OtherName(c.main) ELSE "sim2"
      /\ AfterReboot(c).policy = IF c.dual = TRUE THEN c.policy ELSE "sim1"
      /\ AfterReboot(c).retries = IF c.dual = TRUE /\ c.retries # 0 THEN c.retries ELSE 5
  BY <1>1 DEF AfterReboot, Settings
<1>3. AfterReboot(c).csq = [s \in SimNames |-> c.dual /\ c.csq[s]]
  BY DEF AfterReboot, Settings
<1>4. AfterReboot(c).backtime = (c.dual /\ c.backtime)
  BY DEF AfterReboot, Settings
<1>5. c.csq \in [SimNames -> BOOLEAN] /\ c.backtime \in BOOLEAN
  BY DEF Settings
<1>6. AfterReboot(c).csq = IF c.dual = TRUE THEN c.csq ELSE [s \in SimNames |-> FALSE]
  BY <1>1, <1>3, <1>5
<1>7. AfterReboot(c).backtime = IF c.dual = TRUE THEN c.backtime ELSE FALSE
  BY <1>1, <1>4, <1>5
<1> QED
  BY <1>2, <1>6, <1>7

\* The profile is there after the boot.
KnownAfter(c, n) == n = 0 \/ AfterReboot(c).prof[n] # "none"

LEMMA AfterUses ==
  ASSUME NEW c \in Settings
  PROVE  /\ AfterReboot(c).use = [s \in SimNames |-> IF KnownAfter(c, c.use[s]) THEN c.use[s] ELSE 0]
         /\ AfterReboot(c).use2 = [s \in SimNames |-> IF c.wan2[s] = TRUE /\ KnownAfter(c, c.use2[s]) THEN c.use2[s] ELSE 0]
         /\ AfterReboot(c).wan2 = [s \in SimNames |-> IF c.wan2[s] = TRUE /\ KnownAfter(c, c.use2[s]) THEN TRUE ELSE FALSE]
<1> DEFINE p == [c.prof EXCEPT ![1] = IF c.prof[1] = "none" THEN "factory" ELSE c.prof[1]]
           known(n) == n = 0 \/ p[n] # "none"
<1>1. c.wan2 \in [SimNames -> BOOLEAN]
  BY DEF Settings
<1>2. AfterReboot(c).prof = p
  BY AfterSimple
<1>3. /\ AfterReboot(c).use = [s \in SimNames |-> IF known(c.use[s]) THEN c.use[s] ELSE 0]
      /\ AfterReboot(c).use2 = [s \in SimNames |-> IF c.wan2[s] /\ known(c.use2[s]) THEN c.use2[s] ELSE 0]
      /\ AfterReboot(c).wan2 = [s \in SimNames |-> c.wan2[s] /\ known(c.use2[s])]
  BY DEF AfterReboot, Settings
<1> HIDE DEF p
<1>4. AfterReboot(c).use = [s \in SimNames |-> IF KnownAfter(c, c.use[s]) THEN c.use[s] ELSE 0]
  BY <1>2, <1>3 DEF KnownAfter
<1>5. AfterReboot(c).use2 = [s \in SimNames |-> IF c.wan2[s] = TRUE /\ KnownAfter(c, c.use2[s]) THEN c.use2[s] ELSE 0]
  BY <1>1, <1>2, <1>3 DEF KnownAfter
<1>6. AfterReboot(c).wan2 = [s \in SimNames |-> IF c.wan2[s] = TRUE /\ KnownAfter(c, c.use2[s]) THEN TRUE ELSE FALSE]
  BY <1>1, <1>2, <1>3 DEF KnownAfter
<1> QED
  BY <1>4, <1>5, <1>6

LEMMA AfterIsRecord ==
  ASSUME NEW c \in Settings
  PROVE  AfterReboot(c) = [f \in SettingNames |-> AfterReboot(c)[f]]
<1> DEFINE prof1 == [c.prof EXCEPT ![1] = IF @ = "none" THEN "factory" ELSE @]
           known(n) == n = 0 \/ prof1[n] # "none"
           second(s) == c.wan2[s] /\ known(c.use2[s])
           addressed == c.local \/ c.peer # "none"
           use1 == [s \in SimNames |-> IF known(c.use[s]) THEN c.use[s] ELSE 0]
           use3 == [s \in SimNames |-> IF second(s) THEN c.use2[s] ELSE 0]
           wan1 == [s \in SimNames |-> second(s)]
           net1 == [s \in SimNames |-> c.net["sim1"]]
           main1 == IF c.dual THEN c.main ELSE "sim1"
           backup1 == IF c.dual THEN OtherName(c.main) ELSE "sim2"
           policy1 == IF c.dual THEN c.policy ELSE "sim1"
           retries1 == IF c.dual /\ c.retries # 0 THEN c.retries ELSE 5
           csq1 == [s \in SimNames |-> c.dual /\ c.csq[s]]
           backtime1 == c.dual /\ c.backtime
           sms1 == IF c.smsInterval = 0 THEN 30 ELSE c.smsInterval
           mode1 == IF c.mode = "DEMAND" /\ c.trig = {} THEN "ONLINE" ELSE c.mode
           trig1 == IF c.mode = "DEMAND" THEN c.trig ELSE {}
           idle1 == IF c.mode = "DEMAND" THEN c.idle ELSE 60
           static1 == c.static /\ addressed
           local1 == c.static /\ c.local
           peer1 == IF c.static THEN c.peer ELSE "1.1.1.3"
           netmask1 == c.static /\ c.netmask
           infinite1 == c.infinite \/ Infinite
           prefix1 == [w \in Wans |-> IF c.prefix[w] > 64 THEN 0 ELSE c.prefix[w]]
           r == [prof |-> prof1, use |-> use1, use2 |-> use3, wan2 |-> wan1, net |-> net1, nr5g |-> c.nr5g,
                 oper |-> c.oper, pin |-> c.pin, roam |-> c.roam,
                 dual |-> c.dual, main |-> main1, backup |-> backup1, policy |-> policy1,
                 retries |-> retries1, csq |-> csq1, backtime |-> backtime1,
                 smsInterval |-> sms1, enable |-> c.enable,
                 mode |-> mode1, trig |-> trig1, idle |-> idle1,
                 static |-> static1, local |-> local1, peer |-> peer1, netmask |-> netmask1,
                 infinite |-> infinite1, share |-> c.share, pd |-> c.pd,
                 prefix |-> prefix1, strict |-> c.strict, plain |-> c.plain]
<1>1. AfterReboot(c) = r
  BY Zenon DEF AfterReboot
<1> HIDE DEF prof1, use1, use3, wan1, net1, main1, backup1, policy1, retries1, csq1, backtime1, sms1,
             mode1, trig1, idle1, static1, local1, peer1, netmask1, infinite1, prefix1
<1>2. r = [f \in SettingNames |-> r[f]]
  BY DEF SettingNames
<1> HIDE DEF r
<1> QED
  BY <1>1, <1>2

-----------------------------------------------------------------------------
(* The whole of a boot.                                                    *)

\* PrintDualSim(), after a boot has reset the dual SIM.
LEMMA DualSimSection ==
  ASSUME NEW c \in Settings, NEW d \in Daemons, d.cfg.dual = FALSE, d.cfg.main = "sim1", d.cfg.backup = "sim2",
         d.cfg.policy = "sim1", d.cfg.retries = 5, d.cfg.csq = [s \in SimNames |-> FALSE], d.cfg.backtime = FALSE
  PROVE  LET e == RunAll(d, PrintDualSim(c)) IN
         /\ IsSeq(PrintDualSim(c)) /\ e \in Daemons
         /\ OnlyIn(d.cfg, e.cfg, {"dual", "retries", "main", "backup", "policy", "csq", "backtime"})
         /\ e.cfg.dual = c.dual
         /\ e.cfg.main = IF c.dual = TRUE THEN c.main ELSE "sim1"
         /\ e.cfg.backup = IF c.dual = TRUE THEN OtherName(c.main) ELSE "sim2"
         /\ e.cfg.policy = IF c.dual = TRUE THEN c.policy ELSE "sim1"
         /\ e.cfg.retries = IF c.dual = TRUE /\ c.retries # 0 THEN c.retries ELSE 5
         /\ e.cfg.csq = IF c.dual = TRUE THEN c.csq ELSE [s \in SimNames |-> FALSE]
         /\ e.cfg.backtime = IF c.dual = TRUE THEN c.backtime ELSE FALSE
<1> DEFINE e == RunAll(d, PrintDualSim(c))
           no == [s \in SimNames |-> FALSE]
<1>1. c.dual \in BOOLEAN /\ c.csq \in [SimNames -> BOOLEAN] /\ c.backtime \in BOOLEAN
  BY DEF Settings
<1>2. CASE c.dual = TRUE
  <2>1. /\ IsSeq(PrintDualSim(c)) /\ e \in Daemons
        /\ OnlyIn(d.cfg, e.cfg, {"dual", "retries", "main", "backup", "policy", "csq", "backtime"})
        /\ e.cfg.dual = TRUE /\ e.cfg.main = c.main /\ e.cfg.backup = OtherName(c.main) /\ e.cfg.policy = c.policy
        /\ e.cfg.retries = IF c.retries = 0 THEN (IF d.cfg.retries = 0 THEN 5 ELSE d.cfg.retries) ELSE c.retries
        /\ e.cfg.csq = [s \in SimNames |-> IF c.csq[s] = TRUE THEN TRUE ELSE d.cfg.csq[s]]
        /\ e.cfg.backtime = IF c.backtime = TRUE THEN TRUE ELSE d.cfg.backtime
    BY <1>2, DualSimRuns
  <2> HIDE DEF e
  <2>2. e.cfg.backtime = c.backtime
    BY <1>1, <2>1
  <2>3. \A s \in SimNames : c.csq[s] = (IF c.csq[s] = TRUE THEN TRUE ELSE d.cfg.csq[s])
    BY <1>1
  <2>4. e.cfg.csq = c.csq
    BY <1>1, <2>1, <2>3
  <2>5. e.cfg.retries = IF c.retries # 0 THEN c.retries ELSE 5
    BY <2>1
  <2> QED
    BY <1>2, <2>1, <2>2, <2>4, <2>5 DEF e
<1>3. CASE c.dual = FALSE
  <2>1. PrintDualSim(c) = <<>>
    BY <1>3 DEF PrintDualSim
  <2>2. e = d
    BY <2>1, RunNone
  <2>3. IsSeq(PrintDualSim(c))
    <3>1. <<>> \in Seq({})
      OBVIOUS
    <3> QED
      BY <2>1, <3>1 DEF IsSeq
  <2>4. d.cfg \in Settings
    BY DEF Daemons
  <2>5. OnlyIn(d.cfg, d.cfg, {"dual", "retries", "main", "backup", "policy", "csq", "backtime"})
    BY <2>4 DEF OnlyIn
  <2> HIDE DEF e
  <2> QED
    BY <1>3, <2>2, <2>3, <2>5 DEF e
<1> QED
  BY <1>1, <1>2, <1>3

\* PrintMode(), after a boot.
LEMMA ModeSection ==
  ASSUME NEW c \in Settings, NEW d \in Daemons, d.cfg.mode = "ONLINE", d.cfg.trig = {}, d.cfg.idle = 60
  PROVE  LET e == RunAll(d, PrintMode(c)) IN
         /\ IsSeq(PrintMode(c)) /\ e \in Daemons /\ OnlyIn(d.cfg, e.cfg, {"mode", "trig", "idle"})
         /\ e.cfg.mode = IF c.mode = "DEMAND" /\ c.trig = {} THEN "ONLINE" ELSE c.mode
         /\ e.cfg.trig = IF c.mode = "DEMAND" THEN c.trig ELSE {}
         /\ e.cfg.idle = IF c.mode = "DEMAND" THEN c.idle ELSE 60
<1> DEFINE e == RunAll(d, PrintMode(c))
<1>1. c.mode \in {"ONLINE", "DEMAND", "MANUAL"} /\ c.trig \subseteq {"traffic", "sms"}
  BY DEF Settings
<1>2. CASE c.mode = "DEMAND"
  <2>1. /\ IsSeq(PrintMode(c)) /\ e \in Daemons /\ OnlyIn(d.cfg, e.cfg, {"mode", "trig", "idle"})
        /\ e.cfg.mode = (IF c.trig = {} THEN d.cfg.mode ELSE "DEMAND") /\ e.cfg.trig = d.cfg.trig \cup c.trig
        /\ e.cfg.idle = c.idle
    BY <1>2, DemandRuns
  <2> HIDE DEF e
  <2>2. e.cfg.trig = c.trig
    BY <1>1, <2>1
  <2> QED
    BY <1>2, <2>1, <2>2 DEF e
<1>3. CASE c.mode # "DEMAND"
  <2>1. /\ IsSeq(PrintMode(c)) /\ e \in Daemons /\ OnlyIn(d.cfg, e.cfg, {"mode", "trig"})
        /\ e.cfg.mode = c.mode /\ e.cfg.trig = {}
    BY <1>1, <1>3, ManualRuns, OnlineRuns
  <2> HIDE DEF e
  <2>2. OnlyIn(d.cfg, e.cfg, {"mode", "trig", "idle"})
    BY <2>1 DEF OnlyIn
  <2>3. e.cfg.idle = d.cfg.idle
    BY <2>1 DEF OnlyIn, SettingNames
  <2> QED
    BY <1>3, <2>1, <2>2, <2>3 DEF e
<1> QED
  BY <1>2, <1>3

\* PrintIp(), after a boot.
LEMMA IpSection ==
  ASSUME NEW c \in Settings, NEW d \in Daemons,
         d.cfg.static = FALSE, d.cfg.local = FALSE, d.cfg.netmask = FALSE, d.cfg.peer = "1.1.1.3"
  PROVE  LET e == RunAll(d, PrintIp(c)) IN
         /\ IsSeq(PrintIp(c)) /\ e \in Daemons /\ OnlyIn(d.cfg, e.cfg, {"static", "local", "peer", "netmask"})
         /\ e.cfg.peer = IF c.static = TRUE THEN c.peer ELSE "1.1.1.3"
         /\ e.cfg.static = TRUE <=> c.static = TRUE /\ (c.local = TRUE \/ c.peer # "none")
         /\ e.cfg.local = TRUE <=> c.static = TRUE /\ c.local = TRUE
         /\ e.cfg.netmask = TRUE <=> c.static = TRUE /\ c.netmask = TRUE
<1> DEFINE e == RunAll(d, PrintIp(c))
<1>1. c.static \in BOOLEAN /\ c.local \in BOOLEAN /\ c.netmask \in BOOLEAN
  BY DEF Settings
<1>2. CASE c.static = TRUE
  <2>1. /\ IsSeq(PrintIp(c)) /\ e \in Daemons /\ OnlyIn(d.cfg, e.cfg, {"static", "local", "peer", "netmask"})
        /\ e.cfg.netmask = c.netmask /\ e.cfg.local = c.local /\ e.cfg.peer = c.peer
        /\ (c.local = TRUE \/ c.peer # "none" => e.cfg.static = TRUE)
        /\ (c.local = FALSE /\ c.peer = "none" => e.cfg.static = FALSE)
    BY <1>2, StaticRuns
  <2> HIDE DEF e
  <2>2. e.cfg.static = TRUE <=> (c.local = TRUE \/ c.peer # "none")
    BY <1>1, <2>1
  <2> QED
    BY <1>2, <2>1, <2>2 DEF e
<1>3. CASE c.static = FALSE
  <2>1. IsSeq(PrintIp(c)) /\ e \in Daemons /\ OnlyIn(d.cfg, e.cfg, {"static"}) /\ e.cfg.static = FALSE
    BY <1>3, NegotiatedRuns, Zenon
  <2> HIDE DEF e
  <2>2. OnlyIn(d.cfg, e.cfg, {"static", "local", "peer", "netmask"})
    BY <2>1 DEF OnlyIn
  <2>3. e.cfg.local = d.cfg.local /\ e.cfg.peer = d.cfg.peer /\ e.cfg.netmask = d.cfg.netmask
    BY <2>1 DEF OnlyIn, SettingNames
  <2> QED
    BY <1>3, <2>1, <2>2, <2>3 DEF e
<1> QED
  BY <1>1, <1>2, <1>3

\* A boot, section by section.
Boot1(c) == RunAll(Fresh, PrintProfiles(c))
Boot2(c) == RunAll(Boot1(c), If(c.plain["quiet"], <<"plain", "quiet", TRUE>>))
Boot3(c) == RunAll(Boot2(c), PrintNetwork(c))
Boot4(c) == RunAll(Boot3(c), PrintDualSim(c))
Boot5(c) == RunAll(Boot4(c), PrintSim(c, "sim1"))
Boot6(c) == RunAll(Boot5(c), PrintSim(c, "sim2"))
Boot7(c) == RunAll(Boot6(c), PrintSms(c))
Boot8(c) == RunAll(Boot7(c), PrintUses(c))
Boot9(c) == RunAll(Boot8(c), PrintIpv6(c))
Boot10(c) == RunAll(Boot9(c), PrintWan2(c))
Boot11(c) == RunAll(Boot10(c), PrintMode(c))
Boot12(c) == RunAll(Boot11(c), PrintIp(c))
Boot13(c) == RunAll(Boot12(c), PrintRest(c))

LEMMA BootSections ==
  ASSUME NEW c \in Settings
  PROVE  LET e1 == Boot1(c)
             e2 == Boot2(c)
             e3 == Boot3(c)
             e4 == Boot4(c)
             e5 == Boot5(c)
             e6 == Boot6(c)
             e7 == Boot7(c)
             e8 == Boot8(c)
             e9 == Boot9(c)
             e10 == Boot10(c)
             e11 == Boot11(c)
             e12 == Boot12(c)
             e13 == Boot13(c) IN
           /\ Booted(c) = e13 /\ e13 \in Daemons
           /\ OnlyIn(Fresh.cfg, e1.cfg, {"prof"})
           /\ (e1.cfg.prof = [k \in Profiles |-> IF c.prof[k] # "none" THEN c.prof[k] ELSE Fresh.cfg.prof[k]])
           /\ OnlyIn(e1.cfg, e2.cfg, {"plain"})
           /\ (e2.cfg.plain = IF c.plain["quiet"] = TRUE THEN [e1.cfg.plain EXCEPT !["quiet"] = TRUE] ELSE e1.cfg.plain)
           /\ OnlyIn(e2.cfg, e3.cfg, {"net", "nr5g"})
           /\ (e3.cfg.net = [s \in SimNames |-> c.net["sim1"]] /\ e3.cfg.nr5g = c.nr5g)
           /\ OnlyIn(e3.cfg, e4.cfg, {"dual", "retries", "main", "backup", "policy", "csq", "backtime"})
           /\ (e4.cfg.dual = c.dual)
           /\ (e4.cfg.main = IF c.dual = TRUE THEN c.main ELSE "sim1")
           /\ (e4.cfg.backup = IF c.dual = TRUE THEN OtherName(c.main) ELSE "sim2")
           /\ (e4.cfg.policy = IF c.dual = TRUE THEN c.policy ELSE "sim1")
           /\ (e4.cfg.retries = IF c.dual = TRUE /\ c.retries # 0 THEN c.retries ELSE 5)
           /\ (e4.cfg.csq = IF c.dual = TRUE THEN c.csq ELSE [s \in SimNames |-> FALSE])
           /\ (e4.cfg.backtime = IF c.dual = TRUE THEN c.backtime ELSE FALSE)
           /\ OnlyIn(e4.cfg, e5.cfg, {"pin", "roam", "oper"})
           /\ (\A k \in SimNames : e5.cfg.pin[k] = IF k = "sim1" /\ c.pin["sim1"] = TRUE THEN TRUE ELSE e4.cfg.pin[k])
           /\ (\A k \in SimNames : e5.cfg.roam[k] = IF k = "sim1" /\ c.roam["sim1"] = FALSE THEN FALSE ELSE e4.cfg.roam[k])
           /\ (\A k \in SimNames : e5.cfg.oper[k] = IF k = "sim1" THEN c.oper["sim1"] ELSE e4.cfg.oper[k])
           /\ OnlyIn(e5.cfg, e6.cfg, {"pin", "roam", "oper"})
           /\ (\A k \in SimNames : e6.cfg.pin[k] = IF k = "sim2" /\ c.pin["sim2"] = TRUE THEN TRUE ELSE e5.cfg.pin[k])
           /\ (\A k \in SimNames : e6.cfg.roam[k] = IF k = "sim2" /\ c.roam["sim2"] = FALSE THEN FALSE ELSE e5.cfg.roam[k])
           /\ (\A k \in SimNames : e6.cfg.oper[k] = IF k = "sim2" THEN c.oper["sim2"] ELSE e5.cfg.oper[k])
           /\ OnlyIn(e6.cfg, e7.cfg, {"smsInterval"})
           /\ (e7.cfg.smsInterval = IF c.smsInterval = 0 THEN e6.cfg.smsInterval ELSE c.smsInterval)
           /\ OnlyIn(e7.cfg, e8.cfg, {"enable", "use"})
           /\ (e8.cfg.enable = IF c.enable = TRUE THEN e7.cfg.enable ELSE FALSE)
           /\ (e8.cfg.use = [s \in SimNames |-> IF Exists(e7.cfg, c.use[s]) THEN c.use[s] ELSE e7.cfg.use[s]])
           /\ OnlyIn(e8.cfg, e9.cfg, {"share", "pd", "prefix", "strict"})
           /\ (e9.cfg.share = IF c.share = "off" THEN e8.cfg.share ELSE c.share)
           /\ (e9.cfg.pd = c.pd)
           /\ (e9.cfg.prefix = [w \in Wans |-> IF c.prefix[w] \in 1 .. 64 THEN c.prefix[w] ELSE e8.cfg.prefix[w]])
           /\ (e9.cfg.strict = [w \in Wans |-> IF c.strict[w] = TRUE THEN TRUE ELSE e8.cfg.strict[w]])
           /\ OnlyIn(e9.cfg, e10.cfg, {"use2", "wan2"})
           /\ (e10.cfg.use2 = [s \in SimNames |-> IF Second(c, e9.cfg, s) THEN c.use2[s] ELSE e9.cfg.use2[s]])
           /\ (e10.cfg.wan2 = [s \in SimNames |-> IF Second(c, e9.cfg, s) THEN TRUE ELSE e9.cfg.wan2[s]])
           /\ OnlyIn(e10.cfg, e11.cfg, {"mode", "trig", "idle"})
           /\ (e11.cfg.mode = IF c.mode = "DEMAND" /\ c.trig = {} THEN "ONLINE" ELSE c.mode)
           /\ (e11.cfg.trig = IF c.mode = "DEMAND" THEN c.trig ELSE {})
           /\ (e11.cfg.idle = IF c.mode = "DEMAND" THEN c.idle ELSE 60)
           /\ OnlyIn(e11.cfg, e12.cfg, {"static", "local", "peer", "netmask"})
           /\ (e12.cfg.peer = IF c.static = TRUE THEN c.peer ELSE "1.1.1.3")
           /\ (e12.cfg.static = TRUE <=> c.static = TRUE /\ (c.local = TRUE \/ c.peer # "none"))
           /\ (e12.cfg.local = TRUE <=> c.static = TRUE /\ c.local = TRUE)
           /\ (e12.cfg.netmask = TRUE <=> c.static = TRUE /\ c.netmask = TRUE)
           /\ OnlyIn(e12.cfg, e13.cfg, {"infinite", "plain"})
           /\ (e13.cfg.infinite = IF c.infinite = TRUE THEN TRUE ELSE e12.cfg.infinite)
           /\ (e13.cfg.plain = IF c.plain["loud"] = TRUE THEN [e12.cfg.plain EXCEPT !["loud"] = TRUE] ELSE e12.cfg.plain)
           /\ OnlyIn(Fresh.cfg, e1.cfg, {"prof"})
           /\ OnlyIn(Fresh.cfg, e2.cfg, {"prof", "plain"})
           /\ OnlyIn(Fresh.cfg, e3.cfg, {"prof", "plain", "net", "nr5g"})
           /\ OnlyIn(Fresh.cfg, e4.cfg, {"prof", "plain", "net", "nr5g", "dual", "retries", "main", "backup", "policy", "csq", "backtime"})
           /\ OnlyIn(Fresh.cfg, e5.cfg, {"prof", "plain", "net", "nr5g", "dual", "retries", "main", "backup", "policy", "csq", "backtime", "pin", "roam", "oper"})
           /\ OnlyIn(Fresh.cfg, e6.cfg, {"prof", "plain", "net", "nr5g", "dual", "retries", "main", "backup", "policy", "csq", "backtime", "pin", "roam", "oper"})
           /\ OnlyIn(Fresh.cfg, e7.cfg, {"prof", "plain", "net", "nr5g", "dual", "retries", "main", "backup", "policy", "csq", "backtime", "pin", "roam", "oper", "smsInterval"})
           /\ OnlyIn(Fresh.cfg, e8.cfg, {"prof", "plain", "net", "nr5g", "dual", "retries", "main", "backup", "policy", "csq", "backtime", "pin", "roam", "oper", "smsInterval", "enable", "use"})
           /\ OnlyIn(Fresh.cfg, e9.cfg, {"prof", "plain", "net", "nr5g", "dual", "retries", "main", "backup", "policy", "csq", "backtime", "pin", "roam", "oper", "smsInterval", "enable", "use", "share", "pd", "prefix", "strict"})
           /\ OnlyIn(Fresh.cfg, e10.cfg, {"prof", "plain", "net", "nr5g", "dual", "retries", "main", "backup", "policy", "csq", "backtime", "pin", "roam", "oper", "smsInterval", "enable", "use", "share", "pd", "prefix", "strict", "use2", "wan2"})
           /\ OnlyIn(Fresh.cfg, e11.cfg, {"prof", "plain", "net", "nr5g", "dual", "retries", "main", "backup", "policy", "csq", "backtime", "pin", "roam", "oper", "smsInterval", "enable", "use", "share", "pd", "prefix", "strict", "use2", "wan2", "mode", "trig", "idle"})
           /\ OnlyIn(Fresh.cfg, e12.cfg, {"prof", "plain", "net", "nr5g", "dual", "retries", "main", "backup", "policy", "csq", "backtime", "pin", "roam", "oper", "smsInterval", "enable", "use", "share", "pd", "prefix", "strict", "use2", "wan2", "mode", "trig", "idle", "static", "local", "peer", "netmask"})
           /\ OnlyIn(Fresh.cfg, e13.cfg, {"prof", "plain", "net", "nr5g", "dual", "retries", "main", "backup", "policy", "csq", "backtime", "pin", "roam", "oper", "smsInterval", "enable", "use", "share", "pd", "prefix", "strict", "use2", "wan2", "mode", "trig", "idle", "static", "local", "peer", "netmask", "infinite"})
<1> DEFINE p1 == PrintProfiles(c)
           p2 == If(c.plain["quiet"], <<"plain", "quiet", TRUE>>)
           p3 == PrintNetwork(c)
           p4 == PrintDualSim(c)
           p5 == PrintSim(c, "sim1")
           p6 == PrintSim(c, "sim2")
           p7 == PrintSms(c)
           p8 == PrintUses(c)
           p9 == PrintIpv6(c)
           p10 == PrintWan2(c)
           p11 == PrintMode(c)
           p12 == PrintIp(c)
           p13 == PrintRest(c)
           t1 == p1
           t2 == t1 \o p2
           t3 == t2 \o p3
           t4 == t3 \o p4
           t5 == t4 \o p5
           t6 == t5 \o p6
           t7 == t6 \o p7
           t8 == t7 \o p8
           t9 == t8 \o p9
           t10 == t9 \o p10
           t11 == t10 \o p11
           t12 == t11 \o p12
           t13 == t12 \o p13
           e1 == Boot1(c)
           e2 == Boot2(c)
           e3 == Boot3(c)
           e4 == Boot4(c)
           e5 == Boot5(c)
           e6 == Boot6(c)
           e7 == Boot7(c)
           e8 == Boot8(c)
           e9 == Boot9(c)
           e10 == Boot10(c)
           e11 == Boot11(c)
           e12 == Boot12(c)
           e13 == Boot13(c)
<1>a. Booted(c) = RunAll(Fresh, t13)
  BY DEF Booted, Printed
<1>b. Fresh \in Daemons /\ Fresh.cfg = Default /\ Fresh.cfg \in Settings
  BY DefaultIs DEF Fresh, Daemons, SimNames
<1>1. /\ IsSeq(t1) /\ RunAll(Fresh, t1) = e1 /\ e1 \in Daemons
      /\ OnlyIn(Fresh.cfg, e1.cfg, {"prof"})
      /\ OnlyIn(Fresh.cfg, e1.cfg, {"prof"})
      /\ e1.cfg.prof = [k \in Profiles |-> IF c.prof[k] # "none" THEN c.prof[k] ELSE Fresh.cfg.prof[k]]
  <2>0. e1 = RunAll(Fresh, p1) /\ Fresh \in Daemons
    BY <1>b DEF Boot1
  <2> HIDE DEF e1
  <2>2. /\ IsSeq(p1) /\ e1 \in Daemons
        /\ OnlyIn(Fresh.cfg, e1.cfg, {"prof"})
        /\ e1.cfg.prof = [k \in Profiles |-> IF c.prof[k] # "none" THEN c.prof[k] ELSE Fresh.cfg.prof[k]]
    BY <2>0, ProfilesRun
  <2> HIDE DEF p1
  <2>3. IsSeq(t1) /\ RunAll(Fresh, t1) = e1
    BY <2>0, <2>2
  <2> HIDE DEF e1, t1
  <2>4. OnlyIn(Fresh.cfg, e1.cfg, {"prof"})
    BY <2>2
  <2> QED
    BY <2>2, <2>3, <2>4
<1> HIDE DEF p1, t1, e1
<1>2. /\ IsSeq(t2) /\ RunAll(Fresh, t2) = e2 /\ e2 \in Daemons
      /\ OnlyIn(e1.cfg, e2.cfg, {"plain"})
      /\ OnlyIn(Fresh.cfg, e2.cfg, {"prof", "plain"})
      /\ e2.cfg.plain = IF c.plain["quiet"] = TRUE THEN [e1.cfg.plain EXCEPT !["quiet"] = TRUE] ELSE e1.cfg.plain
  <2>0. e2 = RunAll(e1, p2) /\ e1 \in Daemons
    BY <1>1 DEF Boot2, e1
  <2> HIDE DEF e2
  <2>2. /\ IsSeq(p2) /\ e2 \in Daemons
        /\ OnlyIn(e1.cfg, e2.cfg, {"plain"})
        /\ e2.cfg.plain = IF c.plain["quiet"] = TRUE THEN [e1.cfg.plain EXCEPT !["quiet"] = TRUE] ELSE e1.cfg.plain
    BY <2>0, QuietRuns
  <2> HIDE DEF p2
  <2>3. IsSeq(t2) /\ RunAll(Fresh, t2) = e2
    BY <1>1, <2>0, <2>2, ConcatIsSeq, RunConcat
  <2> HIDE DEF e2, t2
  <2>4. OnlyIn(Fresh.cfg, e2.cfg, {"prof", "plain"})
    BY <1>1, <2>2 DEF OnlyIn
  <2> QED
    BY <2>2, <2>3, <2>4
<1> HIDE DEF p2, t2, e2
<1>3. /\ IsSeq(t3) /\ RunAll(Fresh, t3) = e3 /\ e3 \in Daemons
      /\ OnlyIn(e2.cfg, e3.cfg, {"net", "nr5g"})
      /\ OnlyIn(Fresh.cfg, e3.cfg, {"prof", "plain", "net", "nr5g"})
      /\ e3.cfg.net = [s \in SimNames |-> c.net["sim1"]] /\ e3.cfg.nr5g = c.nr5g
  <2>0. e3 = RunAll(e2, p3) /\ e2 \in Daemons
    BY <1>2 DEF Boot3, e2
  <2> HIDE DEF e3
  <2>2. /\ IsSeq(p3) /\ e3 \in Daemons
        /\ OnlyIn(e2.cfg, e3.cfg, {"net", "nr5g"})
        /\ e3.cfg.net = [s \in SimNames |-> c.net["sim1"]] /\ e3.cfg.nr5g = c.nr5g
    BY <2>0, NetworkRuns
  <2> HIDE DEF p3
  <2>3. IsSeq(t3) /\ RunAll(Fresh, t3) = e3
    BY <1>2, <2>0, <2>2, ConcatIsSeq, RunConcat
  <2> HIDE DEF e3, t3
  <2>4. OnlyIn(Fresh.cfg, e3.cfg, {"prof", "plain", "net", "nr5g"})
    BY <1>2, <2>2 DEF OnlyIn
  <2> QED
    BY <2>2, <2>3, <2>4
<1> HIDE DEF p3, t3, e3
<1>4. /\ IsSeq(t4) /\ RunAll(Fresh, t4) = e4 /\ e4 \in Daemons
      /\ OnlyIn(e3.cfg, e4.cfg, {"dual", "retries", "main", "backup", "policy", "csq", "backtime"})
      /\ OnlyIn(Fresh.cfg, e4.cfg, {"prof", "plain", "net", "nr5g", "dual", "retries", "main", "backup", "policy", "csq", "backtime"})
      /\ e4.cfg.dual = c.dual
      /\ e4.cfg.main = IF c.dual = TRUE THEN c.main ELSE "sim1"
      /\ e4.cfg.backup = IF c.dual = TRUE THEN OtherName(c.main) ELSE "sim2"
      /\ e4.cfg.policy = IF c.dual = TRUE THEN c.policy ELSE "sim1"
      /\ e4.cfg.retries = IF c.dual = TRUE /\ c.retries # 0 THEN c.retries ELSE 5
      /\ e4.cfg.csq = IF c.dual = TRUE THEN c.csq ELSE [s \in SimNames |-> FALSE]
      /\ e4.cfg.backtime = IF c.dual = TRUE THEN c.backtime ELSE FALSE
  <2>1. e3.cfg.dual = FALSE /\ e3.cfg.main = "sim1" /\ e3.cfg.backup = "sim2" /\ e3.cfg.policy = "sim1" /\ e3.cfg.retries = 5 /\ e3.cfg.csq = [s \in SimNames |-> FALSE] /\ e3.cfg.backtime = FALSE
    <3>1. Fresh.cfg.dual = FALSE /\ Fresh.cfg.main = "sim1" /\ Fresh.cfg.backup = "sim2" /\ Fresh.cfg.policy = "sim1" /\ Fresh.cfg.retries = 5 /\ Fresh.cfg.csq = [s \in SimNames |-> FALSE] /\ Fresh.cfg.backtime = FALSE
      BY <1>b DEF Default
    <3> QED
      BY <3>1, <1>3 DEF OnlyIn, SettingNames
  <2>0. e4 = RunAll(e3, p4) /\ e3 \in Daemons
    BY <1>3 DEF Boot4, e3
  <2> HIDE DEF e4
  <2>2. /\ IsSeq(p4) /\ e4 \in Daemons
        /\ OnlyIn(e3.cfg, e4.cfg, {"dual", "retries", "main", "backup", "policy", "csq", "backtime"})
        /\ e4.cfg.dual = c.dual
        /\ e4.cfg.main = IF c.dual = TRUE THEN c.main ELSE "sim1"
        /\ e4.cfg.backup = IF c.dual = TRUE THEN OtherName(c.main) ELSE "sim2"
        /\ e4.cfg.policy = IF c.dual = TRUE THEN c.policy ELSE "sim1"
        /\ e4.cfg.retries = IF c.dual = TRUE /\ c.retries # 0 THEN c.retries ELSE 5
        /\ e4.cfg.csq = IF c.dual = TRUE THEN c.csq ELSE [s \in SimNames |-> FALSE]
        /\ e4.cfg.backtime = IF c.dual = TRUE THEN c.backtime ELSE FALSE
    BY <2>0, <2>1, DualSimSection
  <2> HIDE DEF p4
  <2>3. IsSeq(t4) /\ RunAll(Fresh, t4) = e4
    BY <1>3, <2>0, <2>2, ConcatIsSeq, RunConcat
  <2> HIDE DEF e4, t4
  <2>4. OnlyIn(Fresh.cfg, e4.cfg, {"prof", "plain", "net", "nr5g", "dual", "retries", "main", "backup", "policy", "csq", "backtime"})
    BY <1>3, <2>2 DEF OnlyIn
  <2> QED
    BY <2>2, <2>3, <2>4
<1> HIDE DEF p4, t4, e4
<1>5. /\ IsSeq(t5) /\ RunAll(Fresh, t5) = e5 /\ e5 \in Daemons
      /\ OnlyIn(e4.cfg, e5.cfg, {"pin", "roam", "oper"})
      /\ OnlyIn(Fresh.cfg, e5.cfg, {"prof", "plain", "net", "nr5g", "dual", "retries", "main", "backup", "policy", "csq", "backtime", "pin", "roam", "oper"})
      /\ \A k \in SimNames : e5.cfg.pin[k] = IF k = "sim1" /\ c.pin["sim1"] = TRUE THEN TRUE ELSE e4.cfg.pin[k]
      /\ \A k \in SimNames : e5.cfg.roam[k] = IF k = "sim1" /\ c.roam["sim1"] = FALSE THEN FALSE ELSE e4.cfg.roam[k]
      /\ \A k \in SimNames : e5.cfg.oper[k] = IF k = "sim1" THEN c.oper["sim1"] ELSE e4.cfg.oper[k]
  <2>0. e5 = RunAll(e4, p5) /\ e4 \in Daemons
    BY <1>4 DEF Boot5, e4
  <2> HIDE DEF e5
  <2>2. /\ IsSeq(p5) /\ e5 \in Daemons
        /\ OnlyIn(e4.cfg, e5.cfg, {"pin", "roam", "oper"})
        /\ \A k \in SimNames : e5.cfg.pin[k] = IF k = "sim1" /\ c.pin["sim1"] = TRUE THEN TRUE ELSE e4.cfg.pin[k]
        /\ \A k \in SimNames : e5.cfg.roam[k] = IF k = "sim1" /\ c.roam["sim1"] = FALSE THEN FALSE ELSE e4.cfg.roam[k]
        /\ \A k \in SimNames : e5.cfg.oper[k] = IF k = "sim1" THEN c.oper["sim1"] ELSE e4.cfg.oper[k]
    <3>1. e4 \in Daemons /\ "sim1" \in SimNames
      BY <2>0 DEF SimNames
    <3>2. IsSeq(p5) /\ SimRan(c, "sim1", e4, RunAll(e4, p5))
      BY <3>1, SimRuns
    <3> HIDE DEF p5
    <3> QED
      BY <2>0, <3>2 DEF SimRan
  <2> HIDE DEF p5
  <2>3. IsSeq(t5) /\ RunAll(Fresh, t5) = e5
    BY <1>4, <2>0, <2>2, ConcatIsSeq, RunConcat
  <2> HIDE DEF e5, t5
  <2>4. OnlyIn(Fresh.cfg, e5.cfg, {"prof", "plain", "net", "nr5g", "dual", "retries", "main", "backup", "policy", "csq", "backtime", "pin", "roam", "oper"})
    BY <1>4, <2>2 DEF OnlyIn
  <2> QED
    BY <2>2, <2>3, <2>4
<1> HIDE DEF p5, t5, e5
<1>6. /\ IsSeq(t6) /\ RunAll(Fresh, t6) = e6 /\ e6 \in Daemons
      /\ OnlyIn(e5.cfg, e6.cfg, {"pin", "roam", "oper"})
      /\ OnlyIn(Fresh.cfg, e6.cfg, {"prof", "plain", "net", "nr5g", "dual", "retries", "main", "backup", "policy", "csq", "backtime", "pin", "roam", "oper"})
      /\ \A k \in SimNames : e6.cfg.pin[k] = IF k = "sim2" /\ c.pin["sim2"] = TRUE THEN TRUE ELSE e5.cfg.pin[k]
      /\ \A k \in SimNames : e6.cfg.roam[k] = IF k = "sim2" /\ c.roam["sim2"] = FALSE THEN FALSE ELSE e5.cfg.roam[k]
      /\ \A k \in SimNames : e6.cfg.oper[k] = IF k = "sim2" THEN c.oper["sim2"] ELSE e5.cfg.oper[k]
  <2>0. e6 = RunAll(e5, p6) /\ e5 \in Daemons
    BY <1>5 DEF Boot6, e5
  <2> HIDE DEF e6
  <2>2. /\ IsSeq(p6) /\ e6 \in Daemons
        /\ OnlyIn(e5.cfg, e6.cfg, {"pin", "roam", "oper"})
        /\ \A k \in SimNames : e6.cfg.pin[k] = IF k = "sim2" /\ c.pin["sim2"] = TRUE THEN TRUE ELSE e5.cfg.pin[k]
        /\ \A k \in SimNames : e6.cfg.roam[k] = IF k = "sim2" /\ c.roam["sim2"] = FALSE THEN FALSE ELSE e5.cfg.roam[k]
        /\ \A k \in SimNames : e6.cfg.oper[k] = IF k = "sim2" THEN c.oper["sim2"] ELSE e5.cfg.oper[k]
    <3>1. e5 \in Daemons /\ "sim2" \in SimNames
      BY <2>0 DEF SimNames
    <3>2. IsSeq(p6) /\ SimRan(c, "sim2", e5, RunAll(e5, p6))
      BY <3>1, SimRuns
    <3> HIDE DEF p6
    <3> QED
      BY <2>0, <3>2 DEF SimRan
  <2> HIDE DEF p6
  <2>3. IsSeq(t6) /\ RunAll(Fresh, t6) = e6
    BY <1>5, <2>0, <2>2, ConcatIsSeq, RunConcat
  <2> HIDE DEF e6, t6
  <2>4. OnlyIn(Fresh.cfg, e6.cfg, {"prof", "plain", "net", "nr5g", "dual", "retries", "main", "backup", "policy", "csq", "backtime", "pin", "roam", "oper"})
    BY <1>5, <2>2 DEF OnlyIn
  <2> QED
    BY <2>2, <2>3, <2>4
<1> HIDE DEF p6, t6, e6
<1>7. /\ IsSeq(t7) /\ RunAll(Fresh, t7) = e7 /\ e7 \in Daemons
      /\ OnlyIn(e6.cfg, e7.cfg, {"smsInterval"})
      /\ OnlyIn(Fresh.cfg, e7.cfg, {"prof", "plain", "net", "nr5g", "dual", "retries", "main", "backup", "policy", "csq", "backtime", "pin", "roam", "oper", "smsInterval"})
      /\ e7.cfg.smsInterval = IF c.smsInterval = 0 THEN e6.cfg.smsInterval ELSE c.smsInterval
  <2>0. e7 = RunAll(e6, p7) /\ e6 \in Daemons
    BY <1>6 DEF Boot7, e6
  <2> HIDE DEF e7
  <2>2. /\ IsSeq(p7) /\ e7 \in Daemons
        /\ OnlyIn(e6.cfg, e7.cfg, {"smsInterval"})
        /\ e7.cfg.smsInterval = IF c.smsInterval = 0 THEN e6.cfg.smsInterval ELSE c.smsInterval
    BY <2>0, SmsRuns
  <2> HIDE DEF p7
  <2>3. IsSeq(t7) /\ RunAll(Fresh, t7) = e7
    BY <1>6, <2>0, <2>2, ConcatIsSeq, RunConcat
  <2> HIDE DEF e7, t7
  <2>4. OnlyIn(Fresh.cfg, e7.cfg, {"prof", "plain", "net", "nr5g", "dual", "retries", "main", "backup", "policy", "csq", "backtime", "pin", "roam", "oper", "smsInterval"})
    BY <1>6, <2>2 DEF OnlyIn
  <2> QED
    BY <2>2, <2>3, <2>4
<1> HIDE DEF p7, t7, e7
<1>8. /\ IsSeq(t8) /\ RunAll(Fresh, t8) = e8 /\ e8 \in Daemons
      /\ OnlyIn(e7.cfg, e8.cfg, {"enable", "use"})
      /\ OnlyIn(Fresh.cfg, e8.cfg, {"prof", "plain", "net", "nr5g", "dual", "retries", "main", "backup", "policy", "csq", "backtime", "pin", "roam", "oper", "smsInterval", "enable", "use"})
      /\ e8.cfg.enable = IF c.enable = TRUE THEN e7.cfg.enable ELSE FALSE
      /\ e8.cfg.use = [s \in SimNames |-> IF Exists(e7.cfg, c.use[s]) THEN c.use[s] ELSE e7.cfg.use[s]]
  <2>0. e8 = RunAll(e7, p8) /\ e7 \in Daemons
    BY <1>7 DEF Boot8, e7
  <2> HIDE DEF e8
  <2>2. /\ IsSeq(p8) /\ e8 \in Daemons
        /\ OnlyIn(e7.cfg, e8.cfg, {"enable", "use"})
        /\ e8.cfg.enable = IF c.enable = TRUE THEN e7.cfg.enable ELSE FALSE
        /\ e8.cfg.use = [s \in SimNames |-> IF Exists(e7.cfg, c.use[s]) THEN c.use[s] ELSE e7.cfg.use[s]]
    BY <2>0, UsesRuns
  <2> HIDE DEF p8
  <2>3. IsSeq(t8) /\ RunAll(Fresh, t8) = e8
    BY <1>7, <2>0, <2>2, ConcatIsSeq, RunConcat
  <2> HIDE DEF e8, t8
  <2>4. OnlyIn(Fresh.cfg, e8.cfg, {"prof", "plain", "net", "nr5g", "dual", "retries", "main", "backup", "policy", "csq", "backtime", "pin", "roam", "oper", "smsInterval", "enable", "use"})
    BY <1>7, <2>2 DEF OnlyIn
  <2> QED
    BY <2>2, <2>3, <2>4
<1> HIDE DEF p8, t8, e8
<1>9. /\ IsSeq(t9) /\ RunAll(Fresh, t9) = e9 /\ e9 \in Daemons
      /\ OnlyIn(e8.cfg, e9.cfg, {"share", "pd", "prefix", "strict"})
      /\ OnlyIn(Fresh.cfg, e9.cfg, {"prof", "plain", "net", "nr5g", "dual", "retries", "main", "backup", "policy", "csq", "backtime", "pin", "roam", "oper", "smsInterval", "enable", "use", "share", "pd", "prefix", "strict"})
      /\ e9.cfg.share = IF c.share = "off" THEN e8.cfg.share ELSE c.share
      /\ e9.cfg.pd = c.pd
      /\ e9.cfg.prefix = [w \in Wans |-> IF c.prefix[w] \in 1 .. 64 THEN c.prefix[w] ELSE e8.cfg.prefix[w]]
      /\ e9.cfg.strict = [w \in Wans |-> IF c.strict[w] = TRUE THEN TRUE ELSE e8.cfg.strict[w]]
  <2>0. e9 = RunAll(e8, p9) /\ e8 \in Daemons
    BY <1>8 DEF Boot9, e8
  <2> HIDE DEF e9
  <2>2. /\ IsSeq(p9) /\ e9 \in Daemons
        /\ OnlyIn(e8.cfg, e9.cfg, {"share", "pd", "prefix", "strict"})
        /\ e9.cfg.share = IF c.share = "off" THEN e8.cfg.share ELSE c.share
        /\ e9.cfg.pd = c.pd
        /\ e9.cfg.prefix = [w \in Wans |-> IF c.prefix[w] \in 1 .. 64 THEN c.prefix[w] ELSE e8.cfg.prefix[w]]
        /\ e9.cfg.strict = [w \in Wans |-> IF c.strict[w] = TRUE THEN TRUE ELSE e8.cfg.strict[w]]
    BY <2>0, Ipv6Runs
  <2> HIDE DEF p9
  <2>3. IsSeq(t9) /\ RunAll(Fresh, t9) = e9
    BY <1>8, <2>0, <2>2, ConcatIsSeq, RunConcat
  <2> HIDE DEF e9, t9
  <2>4. OnlyIn(Fresh.cfg, e9.cfg, {"prof", "plain", "net", "nr5g", "dual", "retries", "main", "backup", "policy", "csq", "backtime", "pin", "roam", "oper", "smsInterval", "enable", "use", "share", "pd", "prefix", "strict"})
    BY <1>8, <2>2 DEF OnlyIn
  <2> QED
    BY <2>2, <2>3, <2>4
<1> HIDE DEF p9, t9, e9
<1>10. /\ IsSeq(t10) /\ RunAll(Fresh, t10) = e10 /\ e10 \in Daemons
       /\ OnlyIn(e9.cfg, e10.cfg, {"use2", "wan2"})
       /\ OnlyIn(Fresh.cfg, e10.cfg, {"prof", "plain", "net", "nr5g", "dual", "retries", "main", "backup", "policy", "csq", "backtime", "pin", "roam", "oper", "smsInterval", "enable", "use", "share", "pd", "prefix", "strict", "use2", "wan2"})
       /\ e10.cfg.use2 = [s \in SimNames |-> IF Second(c, e9.cfg, s) THEN c.use2[s] ELSE e9.cfg.use2[s]]
       /\ e10.cfg.wan2 = [s \in SimNames |-> IF Second(c, e9.cfg, s) THEN TRUE ELSE e9.cfg.wan2[s]]
  <2>0. e10 = RunAll(e9, p10) /\ e9 \in Daemons
    BY <1>9 DEF Boot10, e9
  <2> HIDE DEF e10
  <2>2. /\ IsSeq(p10) /\ e10 \in Daemons
        /\ OnlyIn(e9.cfg, e10.cfg, {"use2", "wan2"})
        /\ e10.cfg.use2 = [s \in SimNames |-> IF Second(c, e9.cfg, s) THEN c.use2[s] ELSE e9.cfg.use2[s]]
        /\ e10.cfg.wan2 = [s \in SimNames |-> IF Second(c, e9.cfg, s) THEN TRUE ELSE e9.cfg.wan2[s]]
    BY <2>0, Wan2Runs
  <2> HIDE DEF p10
  <2>3. IsSeq(t10) /\ RunAll(Fresh, t10) = e10
    BY <1>9, <2>0, <2>2, ConcatIsSeq, RunConcat
  <2> HIDE DEF e10, t10
  <2>4. OnlyIn(Fresh.cfg, e10.cfg, {"prof", "plain", "net", "nr5g", "dual", "retries", "main", "backup", "policy", "csq", "backtime", "pin", "roam", "oper", "smsInterval", "enable", "use", "share", "pd", "prefix", "strict", "use2", "wan2"})
    BY <1>9, <2>2 DEF OnlyIn
  <2> QED
    BY <2>2, <2>3, <2>4
<1> HIDE DEF p10, t10, e10
<1>11. /\ IsSeq(t11) /\ RunAll(Fresh, t11) = e11 /\ e11 \in Daemons
       /\ OnlyIn(e10.cfg, e11.cfg, {"mode", "trig", "idle"})
       /\ OnlyIn(Fresh.cfg, e11.cfg, {"prof", "plain", "net", "nr5g", "dual", "retries", "main", "backup", "policy", "csq", "backtime", "pin", "roam", "oper", "smsInterval", "enable", "use", "share", "pd", "prefix", "strict", "use2", "wan2", "mode", "trig", "idle"})
       /\ e11.cfg.mode = IF c.mode = "DEMAND" /\ c.trig = {} THEN "ONLINE" ELSE c.mode
       /\ e11.cfg.trig = IF c.mode = "DEMAND" THEN c.trig ELSE {}
       /\ e11.cfg.idle = IF c.mode = "DEMAND" THEN c.idle ELSE 60
  <2>1. e10.cfg.mode = "ONLINE" /\ e10.cfg.trig = {} /\ e10.cfg.idle = 60
    <3>1. Fresh.cfg.mode = "ONLINE" /\ Fresh.cfg.trig = {} /\ Fresh.cfg.idle = 60
      BY <1>b DEF Default
    <3> QED
      BY <3>1, <1>10 DEF OnlyIn, SettingNames
  <2>0. e11 = RunAll(e10, p11) /\ e10 \in Daemons
    BY <1>10 DEF Boot11, e10
  <2> HIDE DEF e11
  <2>2. /\ IsSeq(p11) /\ e11 \in Daemons
        /\ OnlyIn(e10.cfg, e11.cfg, {"mode", "trig", "idle"})
        /\ e11.cfg.mode = IF c.mode = "DEMAND" /\ c.trig = {} THEN "ONLINE" ELSE c.mode
        /\ e11.cfg.trig = IF c.mode = "DEMAND" THEN c.trig ELSE {}
        /\ e11.cfg.idle = IF c.mode = "DEMAND" THEN c.idle ELSE 60
    BY <2>0, <2>1, ModeSection
  <2> HIDE DEF p11
  <2>3. IsSeq(t11) /\ RunAll(Fresh, t11) = e11
    BY <1>10, <2>0, <2>2, ConcatIsSeq, RunConcat
  <2> HIDE DEF e11, t11
  <2>4. OnlyIn(Fresh.cfg, e11.cfg, {"prof", "plain", "net", "nr5g", "dual", "retries", "main", "backup", "policy", "csq", "backtime", "pin", "roam", "oper", "smsInterval", "enable", "use", "share", "pd", "prefix", "strict", "use2", "wan2", "mode", "trig", "idle"})
    BY <1>10, <2>2 DEF OnlyIn
  <2> QED
    BY <2>2, <2>3, <2>4
<1> HIDE DEF p11, t11, e11
<1>12. /\ IsSeq(t12) /\ RunAll(Fresh, t12) = e12 /\ e12 \in Daemons
       /\ OnlyIn(e11.cfg, e12.cfg, {"static", "local", "peer", "netmask"})
       /\ OnlyIn(Fresh.cfg, e12.cfg, {"prof", "plain", "net", "nr5g", "dual", "retries", "main", "backup", "policy", "csq", "backtime", "pin", "roam", "oper", "smsInterval", "enable", "use", "share", "pd", "prefix", "strict", "use2", "wan2", "mode", "trig", "idle", "static", "local", "peer", "netmask"})
       /\ e12.cfg.peer = IF c.static = TRUE THEN c.peer ELSE "1.1.1.3"
       /\ e12.cfg.static = TRUE <=> c.static = TRUE /\ (c.local = TRUE \/ c.peer # "none")
       /\ e12.cfg.local = TRUE <=> c.static = TRUE /\ c.local = TRUE
       /\ e12.cfg.netmask = TRUE <=> c.static = TRUE /\ c.netmask = TRUE
  <2>1. e11.cfg.static = FALSE /\ e11.cfg.local = FALSE /\ e11.cfg.netmask = FALSE /\ e11.cfg.peer = "1.1.1.3"
    <3>1. Fresh.cfg.static = FALSE /\ Fresh.cfg.local = FALSE /\ Fresh.cfg.netmask = FALSE /\ Fresh.cfg.peer = "1.1.1.3"
      BY <1>b DEF Default
    <3> QED
      BY <3>1, <1>11 DEF OnlyIn, SettingNames
  <2>0. e12 = RunAll(e11, p12) /\ e11 \in Daemons
    BY <1>11 DEF Boot12, e11
  <2> HIDE DEF e12
  <2>2. /\ IsSeq(p12) /\ e12 \in Daemons
        /\ OnlyIn(e11.cfg, e12.cfg, {"static", "local", "peer", "netmask"})
        /\ e12.cfg.peer = IF c.static = TRUE THEN c.peer ELSE "1.1.1.3"
        /\ e12.cfg.static = TRUE <=> c.static = TRUE /\ (c.local = TRUE \/ c.peer # "none")
        /\ e12.cfg.local = TRUE <=> c.static = TRUE /\ c.local = TRUE
        /\ e12.cfg.netmask = TRUE <=> c.static = TRUE /\ c.netmask = TRUE
    BY <2>0, <2>1, IpSection
  <2> HIDE DEF p12
  <2>3. IsSeq(t12) /\ RunAll(Fresh, t12) = e12
    BY <1>11, <2>0, <2>2, ConcatIsSeq, RunConcat
  <2> HIDE DEF e12, t12
  <2>4. OnlyIn(Fresh.cfg, e12.cfg, {"prof", "plain", "net", "nr5g", "dual", "retries", "main", "backup", "policy", "csq", "backtime", "pin", "roam", "oper", "smsInterval", "enable", "use", "share", "pd", "prefix", "strict", "use2", "wan2", "mode", "trig", "idle", "static", "local", "peer", "netmask"})
    BY <1>11, <2>2 DEF OnlyIn
  <2> QED
    BY <2>2, <2>3, <2>4
<1> HIDE DEF p12, t12, e12
<1>13. /\ IsSeq(t13) /\ RunAll(Fresh, t13) = e13 /\ e13 \in Daemons
       /\ OnlyIn(e12.cfg, e13.cfg, {"infinite", "plain"})
       /\ OnlyIn(Fresh.cfg, e13.cfg, {"prof", "plain", "net", "nr5g", "dual", "retries", "main", "backup", "policy", "csq", "backtime", "pin", "roam", "oper", "smsInterval", "enable", "use", "share", "pd", "prefix", "strict", "use2", "wan2", "mode", "trig", "idle", "static", "local", "peer", "netmask", "infinite"})
       /\ e13.cfg.infinite = IF c.infinite = TRUE THEN TRUE ELSE e12.cfg.infinite
       /\ e13.cfg.plain = IF c.plain["loud"] = TRUE THEN [e12.cfg.plain EXCEPT !["loud"] = TRUE] ELSE e12.cfg.plain
  <2>0. e13 = RunAll(e12, p13) /\ e12 \in Daemons
    BY <1>12 DEF Boot13, e12
  <2> HIDE DEF e13
  <2>2. /\ IsSeq(p13) /\ e13 \in Daemons
        /\ OnlyIn(e12.cfg, e13.cfg, {"infinite", "plain"})
        /\ e13.cfg.infinite = IF c.infinite = TRUE THEN TRUE ELSE e12.cfg.infinite
        /\ e13.cfg.plain = IF c.plain["loud"] = TRUE THEN [e12.cfg.plain EXCEPT !["loud"] = TRUE] ELSE e12.cfg.plain
    BY <2>0, RestRuns
  <2> HIDE DEF p13
  <2>3. IsSeq(t13) /\ RunAll(Fresh, t13) = e13
    BY <1>12, <2>0, <2>2, ConcatIsSeq, RunConcat
  <2> HIDE DEF e13, t13
  <2>4. OnlyIn(Fresh.cfg, e13.cfg, {"prof", "plain", "net", "nr5g", "dual", "retries", "main", "backup", "policy", "csq", "backtime", "pin", "roam", "oper", "smsInterval", "enable", "use", "share", "pd", "prefix", "strict", "use2", "wan2", "mode", "trig", "idle", "static", "local", "peer", "netmask", "infinite"})
    BY <1>12, <2>2 DEF OnlyIn
  <2> QED
    BY <2>2, <2>3, <2>4
<1> HIDE DEF p13, t13, e13
<1> QED
  BY <1>a, <1>1, <1>2, <1>3, <1>4, <1>5, <1>6, <1>7, <1>8, <1>9, <1>10, <1>11, <1>12, <1>13, Zenon DEF e1, e2, e3, e4, e5, e6, e7, e8, e9, e10, e11, e12, e13

\* What the last section that has to do with a setting has left is what it is after the boot.
LEMMA BootKeeps ==
  ASSUME NEW c \in Settings
  PROVE  LET e == Booted(c).cfg IN
         /\ e.prof = Boot1(c).cfg.prof
         /\ e.net = Boot3(c).cfg.net /\ e.nr5g = Boot3(c).cfg.nr5g
         /\ e.dual = Boot4(c).cfg.dual /\ e.retries = Boot4(c).cfg.retries /\ e.main = Boot4(c).cfg.main /\ e.backup = Boot4(c).cfg.backup /\ e.policy = Boot4(c).cfg.policy /\ e.csq = Boot4(c).cfg.csq /\ e.backtime = Boot4(c).cfg.backtime
         /\ e.pin = Boot6(c).cfg.pin /\ e.roam = Boot6(c).cfg.roam /\ e.oper = Boot6(c).cfg.oper
         /\ e.smsInterval = Boot7(c).cfg.smsInterval
         /\ e.enable = Boot8(c).cfg.enable /\ e.use = Boot8(c).cfg.use
         /\ e.share = Boot9(c).cfg.share /\ e.pd = Boot9(c).cfg.pd /\ e.prefix = Boot9(c).cfg.prefix /\ e.strict = Boot9(c).cfg.strict
         /\ e.use2 = Boot10(c).cfg.use2 /\ e.wan2 = Boot10(c).cfg.wan2
         /\ e.mode = Boot11(c).cfg.mode /\ e.trig = Boot11(c).cfg.trig /\ e.idle = Boot11(c).cfg.idle
         /\ e.static = Boot12(c).cfg.static /\ e.local = Boot12(c).cfg.local /\ e.peer = Boot12(c).cfg.peer /\ e.netmask = Boot12(c).cfg.netmask
<1> DEFINE e == Booted(c).cfg
<1>13. e = Boot13(c).cfg /\ e \in Settings
  BY BootSections DEF Daemons
<1>12. OnlyIn(Boot12(c).cfg, e, {"infinite", "plain"})
  <2>1. OnlyIn(Boot12(c).cfg, Boot13(c).cfg, {"infinite", "plain"})
    BY BootSections
  <2> HIDE DEF e
  <2> QED
    BY <2>1, <1>13 DEF OnlyIn
<1>11. OnlyIn(Boot11(c).cfg, e, {"static", "local", "peer", "netmask", "infinite", "plain"})
  <2>1. OnlyIn(Boot11(c).cfg, Boot12(c).cfg, {"static", "local", "peer", "netmask"})
    BY BootSections
  <2> HIDE DEF e
  <2> QED
    BY <2>1, <1>12 DEF OnlyIn
<1>10. OnlyIn(Boot10(c).cfg, e, {"mode", "trig", "idle", "static", "local", "peer", "netmask", "infinite", "plain"})
  <2>1. OnlyIn(Boot10(c).cfg, Boot11(c).cfg, {"mode", "trig", "idle"})
    BY BootSections
  <2> HIDE DEF e
  <2> QED
    BY <2>1, <1>11 DEF OnlyIn
<1>9. OnlyIn(Boot9(c).cfg, e, {"use2", "wan2", "mode", "trig", "idle", "static", "local", "peer", "netmask", "infinite", "plain"})
  <2>1. OnlyIn(Boot9(c).cfg, Boot10(c).cfg, {"use2", "wan2"})
    BY BootSections
  <2> HIDE DEF e
  <2> QED
    BY <2>1, <1>10 DEF OnlyIn
<1>8. OnlyIn(Boot8(c).cfg, e, {"share", "pd", "prefix", "strict", "use2", "wan2", "mode", "trig", "idle", "static", "local", "peer", "netmask", "infinite", "plain"})
  <2>1. OnlyIn(Boot8(c).cfg, Boot9(c).cfg, {"share", "pd", "prefix", "strict"})
    BY BootSections
  <2> HIDE DEF e
  <2> QED
    BY <2>1, <1>9 DEF OnlyIn
<1>7. OnlyIn(Boot7(c).cfg, e, {"enable", "use", "share", "pd", "prefix", "strict", "use2", "wan2", "mode", "trig", "idle", "static", "local", "peer", "netmask", "infinite", "plain"})
  <2>1. OnlyIn(Boot7(c).cfg, Boot8(c).cfg, {"enable", "use"})
    BY BootSections
  <2> HIDE DEF e
  <2> QED
    BY <2>1, <1>8 DEF OnlyIn
<1>6. OnlyIn(Boot6(c).cfg, e, {"smsInterval", "enable", "use", "share", "pd", "prefix", "strict", "use2", "wan2", "mode", "trig", "idle", "static", "local", "peer", "netmask", "infinite", "plain"})
  <2>1. OnlyIn(Boot6(c).cfg, Boot7(c).cfg, {"smsInterval"})
    BY BootSections
  <2> HIDE DEF e
  <2> QED
    BY <2>1, <1>7 DEF OnlyIn
<1>5. OnlyIn(Boot5(c).cfg, e, {"pin", "roam", "oper", "smsInterval", "enable", "use", "share", "pd", "prefix", "strict", "use2", "wan2", "mode", "trig", "idle", "static", "local", "peer", "netmask", "infinite", "plain"})
  <2>1. OnlyIn(Boot5(c).cfg, Boot6(c).cfg, {"pin", "roam", "oper"})
    BY BootSections
  <2> HIDE DEF e
  <2> QED
    BY <2>1, <1>6 DEF OnlyIn
<1>4. OnlyIn(Boot4(c).cfg, e, {"pin", "roam", "oper", "smsInterval", "enable", "use", "share", "pd", "prefix", "strict", "use2", "wan2", "mode", "trig", "idle", "static", "local", "peer", "netmask", "infinite", "plain"})
  <2>1. OnlyIn(Boot4(c).cfg, Boot5(c).cfg, {"pin", "roam", "oper"})
    BY BootSections
  <2> HIDE DEF e
  <2> QED
    BY <2>1, <1>5 DEF OnlyIn
<1>3. OnlyIn(Boot3(c).cfg, e, {"dual", "retries", "main", "backup", "policy", "csq", "backtime", "pin", "roam", "oper", "smsInterval", "enable", "use", "share", "pd", "prefix", "strict", "use2", "wan2", "mode", "trig", "idle", "static", "local", "peer", "netmask", "infinite", "plain"})
  <2>1. OnlyIn(Boot3(c).cfg, Boot4(c).cfg, {"dual", "retries", "main", "backup", "policy", "csq", "backtime"})
    BY BootSections
  <2> HIDE DEF e
  <2> QED
    BY <2>1, <1>4 DEF OnlyIn
<1>2. OnlyIn(Boot2(c).cfg, e, {"net", "nr5g", "dual", "retries", "main", "backup", "policy", "csq", "backtime", "pin", "roam", "oper", "smsInterval", "enable", "use", "share", "pd", "prefix", "strict", "use2", "wan2", "mode", "trig", "idle", "static", "local", "peer", "netmask", "infinite", "plain"})
  <2>1. OnlyIn(Boot2(c).cfg, Boot3(c).cfg, {"net", "nr5g"})
    BY BootSections
  <2> HIDE DEF e
  <2> QED
    BY <2>1, <1>3 DEF OnlyIn
<1>1. OnlyIn(Boot1(c).cfg, e, {"net", "nr5g", "dual", "retries", "main", "backup", "policy", "csq", "backtime", "pin", "roam", "oper", "smsInterval", "enable", "use", "share", "pd", "prefix", "strict", "use2", "wan2", "mode", "trig", "idle", "static", "local", "peer", "netmask", "infinite", "plain"})
  <2>1. OnlyIn(Boot1(c).cfg, Boot2(c).cfg, {"plain"})
    BY BootSections
  <2> HIDE DEF e
  <2> QED
    BY <2>1, <1>2 DEF OnlyIn
<1> HIDE DEF e
<1>14. e.prof = Boot1(c).cfg.prof
  BY <1>1 DEF OnlyIn, SettingNames
<1>16. e.net = Boot3(c).cfg.net /\ e.nr5g = Boot3(c).cfg.nr5g
  BY <1>3 DEF OnlyIn, SettingNames
<1>17. e.dual = Boot4(c).cfg.dual /\ e.retries = Boot4(c).cfg.retries /\ e.main = Boot4(c).cfg.main /\ e.backup = Boot4(c).cfg.backup /\ e.policy = Boot4(c).cfg.policy /\ e.csq = Boot4(c).cfg.csq /\ e.backtime = Boot4(c).cfg.backtime
  BY <1>4 DEF OnlyIn, SettingNames
<1>19. e.pin = Boot6(c).cfg.pin /\ e.roam = Boot6(c).cfg.roam /\ e.oper = Boot6(c).cfg.oper
  BY <1>6 DEF OnlyIn, SettingNames
<1>20. e.smsInterval = Boot7(c).cfg.smsInterval
  BY <1>7 DEF OnlyIn, SettingNames
<1>21. e.enable = Boot8(c).cfg.enable /\ e.use = Boot8(c).cfg.use
  BY <1>8 DEF OnlyIn, SettingNames
<1>22. e.share = Boot9(c).cfg.share /\ e.pd = Boot9(c).cfg.pd /\ e.prefix = Boot9(c).cfg.prefix /\ e.strict = Boot9(c).cfg.strict
  BY <1>9 DEF OnlyIn, SettingNames
<1>23. e.use2 = Boot10(c).cfg.use2 /\ e.wan2 = Boot10(c).cfg.wan2
  BY <1>10 DEF OnlyIn, SettingNames
<1>24. e.mode = Boot11(c).cfg.mode /\ e.trig = Boot11(c).cfg.trig /\ e.idle = Boot11(c).cfg.idle
  BY <1>11 DEF OnlyIn, SettingNames
<1>25. e.static = Boot12(c).cfg.static /\ e.local = Boot12(c).cfg.local /\ e.peer = Boot12(c).cfg.peer /\ e.netmask = Boot12(c).cfg.netmask
  BY <1>12 DEF OnlyIn, SettingNames
<1> QED
  BY <1>14, <1>16, <1>17, <1>19, <1>20, <1>21, <1>22, <1>23, <1>24, <1>25 DEF e

\* What a section finds that no section before it has to do with is what a fresh router has.
LEMMA BootFinds ==
  ASSUME NEW c \in Settings
  PROVE 
         /\ Fresh.cfg.prof = Default.prof
         /\ Boot1(c).cfg.plain = Default.plain
         /\ Boot2(c).cfg.net = Default.net /\ Boot2(c).cfg.nr5g = Default.nr5g
         /\ Boot3(c).cfg.dual = Default.dual /\ Boot3(c).cfg.retries = Default.retries /\ Boot3(c).cfg.main = Default.main /\ Boot3(c).cfg.backup = Default.backup /\ Boot3(c).cfg.policy = Default.policy /\ Boot3(c).cfg.csq = Default.csq /\ Boot3(c).cfg.backtime = Default.backtime
         /\ Boot4(c).cfg.pin = Default.pin /\ Boot4(c).cfg.roam = Default.roam /\ Boot4(c).cfg.oper = Default.oper
         /\ Boot6(c).cfg.smsInterval = Default.smsInterval
         /\ Boot7(c).cfg.enable = Default.enable /\ Boot7(c).cfg.use = Default.use
         /\ Boot8(c).cfg.share = Default.share /\ Boot8(c).cfg.pd = Default.pd /\ Boot8(c).cfg.prefix = Default.prefix /\ Boot8(c).cfg.strict = Default.strict
         /\ Boot9(c).cfg.use2 = Default.use2 /\ Boot9(c).cfg.wan2 = Default.wan2
         /\ Boot10(c).cfg.mode = Default.mode /\ Boot10(c).cfg.trig = Default.trig /\ Boot10(c).cfg.idle = Default.idle
         /\ Boot11(c).cfg.static = Default.static /\ Boot11(c).cfg.local = Default.local /\ Boot11(c).cfg.peer = Default.peer /\ Boot11(c).cfg.netmask = Default.netmask
         /\ Boot12(c).cfg.infinite = Default.infinite
<1>0. Fresh.cfg = Default
  BY DEF Fresh
<1>1. Fresh.cfg.prof = Default.prof
  BY <1>0
<1>2. Boot1(c).cfg.plain = Default.plain
  <2>1. OnlyIn(Fresh.cfg, Boot1(c).cfg, {"prof"})
    BY BootSections
  <2> QED
    BY <1>0, <2>1 DEF OnlyIn, SettingNames
<1>3. Boot2(c).cfg.net = Default.net /\ Boot2(c).cfg.nr5g = Default.nr5g
  <2>1. OnlyIn(Fresh.cfg, Boot2(c).cfg, {"prof", "plain"})
    BY BootSections
  <2> QED
    BY <1>0, <2>1 DEF OnlyIn, SettingNames
<1>4. Boot3(c).cfg.dual = Default.dual /\ Boot3(c).cfg.retries = Default.retries /\ Boot3(c).cfg.main = Default.main /\ Boot3(c).cfg.backup = Default.backup /\ Boot3(c).cfg.policy = Default.policy /\ Boot3(c).cfg.csq = Default.csq /\ Boot3(c).cfg.backtime = Default.backtime
  <2>1. OnlyIn(Fresh.cfg, Boot3(c).cfg, {"prof", "plain", "net", "nr5g"})
    BY BootSections
  <2> QED
    BY <1>0, <2>1 DEF OnlyIn, SettingNames
<1>5. Boot4(c).cfg.pin = Default.pin /\ Boot4(c).cfg.roam = Default.roam /\ Boot4(c).cfg.oper = Default.oper
  <2>1. OnlyIn(Fresh.cfg, Boot4(c).cfg, {"prof", "plain", "net", "nr5g", "dual", "retries", "main", "backup", "policy", "csq", "backtime"})
    BY BootSections
  <2> QED
    BY <1>0, <2>1 DEF OnlyIn, SettingNames
<1>7. Boot6(c).cfg.smsInterval = Default.smsInterval
  <2>1. OnlyIn(Fresh.cfg, Boot6(c).cfg, {"prof", "plain", "net", "nr5g", "dual", "retries", "main", "backup", "policy", "csq", "backtime", "pin", "roam", "oper"})
    BY BootSections
  <2> QED
    BY <1>0, <2>1 DEF OnlyIn, SettingNames
<1>8. Boot7(c).cfg.enable = Default.enable /\ Boot7(c).cfg.use = Default.use
  <2>1. OnlyIn(Fresh.cfg, Boot7(c).cfg, {"prof", "plain", "net", "nr5g", "dual", "retries", "main", "backup", "policy", "csq", "backtime", "pin", "roam", "oper", "smsInterval"})
    BY BootSections
  <2> QED
    BY <1>0, <2>1 DEF OnlyIn, SettingNames
<1>9. Boot8(c).cfg.share = Default.share /\ Boot8(c).cfg.pd = Default.pd /\ Boot8(c).cfg.prefix = Default.prefix /\ Boot8(c).cfg.strict = Default.strict
  <2>1. OnlyIn(Fresh.cfg, Boot8(c).cfg, {"prof", "plain", "net", "nr5g", "dual", "retries", "main", "backup", "policy", "csq", "backtime", "pin", "roam", "oper", "smsInterval", "enable", "use"})
    BY BootSections
  <2> QED
    BY <1>0, <2>1 DEF OnlyIn, SettingNames
<1>10. Boot9(c).cfg.use2 = Default.use2 /\ Boot9(c).cfg.wan2 = Default.wan2
  <2>1. OnlyIn(Fresh.cfg, Boot9(c).cfg, {"prof", "plain", "net", "nr5g", "dual", "retries", "main", "backup", "policy", "csq", "backtime", "pin", "roam", "oper", "smsInterval", "enable", "use", "share", "pd", "prefix", "strict"})
    BY BootSections
  <2> QED
    BY <1>0, <2>1 DEF OnlyIn, SettingNames
<1>11. Boot10(c).cfg.mode = Default.mode /\ Boot10(c).cfg.trig = Default.trig /\ Boot10(c).cfg.idle = Default.idle
  <2>1. OnlyIn(Fresh.cfg, Boot10(c).cfg, {"prof", "plain", "net", "nr5g", "dual", "retries", "main", "backup", "policy", "csq", "backtime", "pin", "roam", "oper", "smsInterval", "enable", "use", "share", "pd", "prefix", "strict", "use2", "wan2"})
    BY BootSections
  <2> QED
    BY <1>0, <2>1 DEF OnlyIn, SettingNames
<1>12. Boot11(c).cfg.static = Default.static /\ Boot11(c).cfg.local = Default.local /\ Boot11(c).cfg.peer = Default.peer /\ Boot11(c).cfg.netmask = Default.netmask
  <2>1. OnlyIn(Fresh.cfg, Boot11(c).cfg, {"prof", "plain", "net", "nr5g", "dual", "retries", "main", "backup", "policy", "csq", "backtime", "pin", "roam", "oper", "smsInterval", "enable", "use", "share", "pd", "prefix", "strict", "use2", "wan2", "mode", "trig", "idle"})
    BY BootSections
  <2> QED
    BY <1>0, <2>1 DEF OnlyIn, SettingNames
<1>13. Boot12(c).cfg.infinite = Default.infinite
  <2>1. OnlyIn(Fresh.cfg, Boot12(c).cfg, {"prof", "plain", "net", "nr5g", "dual", "retries", "main", "backup", "policy", "csq", "backtime", "pin", "roam", "oper", "smsInterval", "enable", "use", "share", "pd", "prefix", "strict", "use2", "wan2", "mode", "trig", "idle", "static", "local", "peer", "netmask"})
    BY BootSections
  <2> QED
    BY <1>0, <2>1 DEF OnlyIn, SettingNames
<1> QED
  BY <1>1, <1>2, <1>3, <1>4, <1>5, <1>7, <1>8, <1>9, <1>10, <1>11, <1>12, <1>13

\* Of the sections between only the last has to do with the loud settings.
LEMMA BootLeavesPlain ==
  ASSUME NEW c \in Settings
  PROVE  Boot12(c).cfg.plain = Boot2(c).cfg.plain
<1>0. "plain" \in SettingNames
  BY DEF SettingNames
<1>3. Boot3(c).cfg.plain = Boot2(c).cfg.plain
  <2>1. OnlyIn(Boot2(c).cfg, Boot3(c).cfg, {"net", "nr5g"})
    BY BootSections
  <2> QED
    BY <1>0, <2>1 DEF OnlyIn
<1>4. Boot4(c).cfg.plain = Boot3(c).cfg.plain
  <2>1. OnlyIn(Boot3(c).cfg, Boot4(c).cfg, {"dual", "retries", "main", "backup", "policy", "csq", "backtime"})
    BY BootSections
  <2> QED
    BY <1>0, <2>1 DEF OnlyIn
<1>5. Boot5(c).cfg.plain = Boot4(c).cfg.plain
  <2>1. OnlyIn(Boot4(c).cfg, Boot5(c).cfg, {"pin", "roam", "oper"})
    BY BootSections
  <2> QED
    BY <1>0, <2>1 DEF OnlyIn
<1>6. Boot6(c).cfg.plain = Boot5(c).cfg.plain
  <2>1. OnlyIn(Boot5(c).cfg, Boot6(c).cfg, {"pin", "roam", "oper"})
    BY BootSections
  <2> QED
    BY <1>0, <2>1 DEF OnlyIn
<1>7. Boot7(c).cfg.plain = Boot6(c).cfg.plain
  <2>1. OnlyIn(Boot6(c).cfg, Boot7(c).cfg, {"smsInterval"})
    BY BootSections
  <2> QED
    BY <1>0, <2>1 DEF OnlyIn
<1>8. Boot8(c).cfg.plain = Boot7(c).cfg.plain
  <2>1. OnlyIn(Boot7(c).cfg, Boot8(c).cfg, {"enable", "use"})
    BY BootSections
  <2> QED
    BY <1>0, <2>1 DEF OnlyIn
<1>9. Boot9(c).cfg.plain = Boot8(c).cfg.plain
  <2>1. OnlyIn(Boot8(c).cfg, Boot9(c).cfg, {"share", "pd", "prefix", "strict"})
    BY BootSections
  <2> QED
    BY <1>0, <2>1 DEF OnlyIn
<1>10. Boot10(c).cfg.plain = Boot9(c).cfg.plain
  <2>1. OnlyIn(Boot9(c).cfg, Boot10(c).cfg, {"use2", "wan2"})
    BY BootSections
  <2> QED
    BY <1>0, <2>1 DEF OnlyIn
<1>11. Boot11(c).cfg.plain = Boot10(c).cfg.plain
  <2>1. OnlyIn(Boot10(c).cfg, Boot11(c).cfg, {"mode", "trig", "idle"})
    BY BootSections
  <2> QED
    BY <1>0, <2>1 DEF OnlyIn
<1>12. Boot12(c).cfg.plain = Boot11(c).cfg.plain
  <2>1. OnlyIn(Boot11(c).cfg, Boot12(c).cfg, {"static", "local", "peer", "netmask"})
    BY BootSections
  <2> QED
    BY <1>0, <2>1 DEF OnlyIn
<1> QED
  BY <1>3, <1>4, <1>5, <1>6, <1>7, <1>8, <1>9, <1>10, <1>11, <1>12

\* A boot gives the settings of AfterReboot(), one by one.
LEMMA BootProfiles ==
  ASSUME NEW c \in Settings
  PROVE  /\ Booted(c).cfg.prof = AfterReboot(c).prof
         /\ Booted(c).cfg.enable = AfterReboot(c).enable /\ Booted(c).cfg.use = AfterReboot(c).use
         /\ Booted(c).cfg.use2 = AfterReboot(c).use2 /\ Booted(c).cfg.wan2 = AfterReboot(c).wan2
<1> DEFINE e == Booted(c).cfg
           a == AfterReboot(c)
           b1 == Boot1(c).cfg
           b7 == Boot7(c).cfg
           b8 == Boot8(c).cfg
           b9 == Boot9(c).cfg
           b10 == Boot10(c).cfg
<1>1. /\ e.prof = b1.prof /\ e.enable = b8.enable /\ e.use = b8.use
      /\ e.use2 = b10.use2 /\ e.wan2 = b10.wan2
  BY BootKeeps
<1>2. c.prof \in [Profiles -> {"none", "factory", "gsm", "cdma"}] /\ 1 \in Profiles /\ c.enable \in BOOLEAN
      /\ c.wan2 \in [SimNames -> BOOLEAN]
  BY SettingsConstantsOK DEF Settings
<1>3. /\ b1.prof = [k \in Profiles |-> IF c.prof[k] # "none" THEN c.prof[k] ELSE Default.prof[k]]
      /\ b7.enable = TRUE /\ b7.use = [s \in SimNames |-> 0]
      /\ b9.use2 = [s \in SimNames |-> 0] /\ b9.wan2 = [s \in SimNames |-> FALSE]
  <2>1. b1.prof = [k \in Profiles |-> IF c.prof[k] # "none" THEN c.prof[k] ELSE Fresh.cfg.prof[k]]
    BY BootSections
  <2>2. Fresh.cfg.prof = Default.prof
    BY DEF Fresh
  <2>3. b7.enable = Default.enable /\ b7.use = Default.use /\ b9.use2 = Default.use2 /\ b9.wan2 = Default.wan2
    BY BootFinds
  <2> HIDE DEF b1, b7, b9
  <2> QED
    BY <2>1, <2>2, <2>3 DEF Default
<1>4. /\ b8.enable = IF c.enable = TRUE THEN b7.enable ELSE FALSE
      /\ b8.use = [s \in SimNames |-> IF Exists(b7, c.use[s]) THEN c.use[s] ELSE b7.use[s]]
      /\ b10.use2 = [s \in SimNames |-> IF Second(c, b9, s) THEN c.use2[s] ELSE b9.use2[s]]
      /\ b10.wan2 = [s \in SimNames |-> IF Second(c, b9, s) THEN TRUE ELSE b9.wan2[s]]
  BY BootSections
<1>5. b7.prof = b1.prof /\ b9.prof = b1.prof
  <2>1. "prof" \in SettingNames
    BY DEF SettingNames
  <2>2. OnlyIn(b1, Boot2(c).cfg, {"plain"}) /\ OnlyIn(Boot2(c).cfg, Boot3(c).cfg, {"net", "nr5g"})
        /\ OnlyIn(Boot3(c).cfg, Boot4(c).cfg, {"dual", "retries", "main", "backup", "policy", "csq", "backtime"})
    BY BootSections
  <2>3. OnlyIn(Boot4(c).cfg, Boot5(c).cfg, {"pin", "roam", "oper"}) /\ OnlyIn(Boot5(c).cfg, Boot6(c).cfg, {"pin", "roam", "oper"})
        /\ OnlyIn(Boot6(c).cfg, b7, {"smsInterval"})
    BY BootSections
  <2>4. OnlyIn(b7, b8, {"enable", "use"}) /\ OnlyIn(b8, b9, {"share", "pd", "prefix", "strict"})
    BY BootSections
  <2> HIDE DEF b1, b7, b8, b9
  <2>5. Boot4(c).cfg.prof = b1.prof
    BY <2>1, <2>2 DEF OnlyIn
  <2>6. b7.prof = Boot4(c).cfg.prof
    BY <2>1, <2>3 DEF OnlyIn
  <2>7. b9.prof = b7.prof
    BY <2>1, <2>4 DEF OnlyIn
  <2> QED
    BY <2>5, <2>6, <2>7
<1> HIDE DEF b1, b7, b8, b9, b10, e
<1>6. e.prof = a.prof
  <2> DEFINE p == [c.prof EXCEPT ![1] = IF c.prof[1] = "none" THEN "factory" ELSE c.prof[1]]
             q == [k \in Profiles |-> IF c.prof[k] # "none" THEN c.prof[k] ELSE IF k = 1 THEN "factory" ELSE "none"]
  <2>1. a.prof = p
    BY AfterSimple
  <2>2. e.prof = q
    BY <1>1, <1>3 DEF Default
  <2>3. p = q
    BY <1>2
  <2> QED
    BY <2>1, <2>2, <2>3
<1>7. ASSUME NEW n PROVE (Exists(b7, n) <=> KnownAfter(c, n)) /\ (Exists(b9, n) <=> KnownAfter(c, n))
  BY <1>1, <1>5, <1>6 DEF Exists, KnownAfter
<1>8. e.enable = a.enable
  <2>1. a.enable = c.enable
    BY AfterSame
  <2> QED
    BY <1>1, <1>2, <1>3, <1>4, <2>1
<1>9. e.use = a.use
  <2>1. a.use = [s \in SimNames |-> IF KnownAfter(c, c.use[s]) THEN c.use[s] ELSE 0]
    BY AfterUses
  <2>2. e.use = [s \in SimNames |-> IF KnownAfter(c, c.use[s]) THEN c.use[s] ELSE 0]
    BY <1>1, <1>3, <1>4, <1>7
  <2> QED
    BY <2>1, <2>2
<1>10. ASSUME NEW s \in SimNames PROVE Second(c, b9, s) <=> c.wan2[s] = TRUE /\ KnownAfter(c, c.use2[s])
  BY <1>7 DEF Second
<1>11. e.use2 = a.use2
  <2>1. a.use2 = [s \in SimNames |-> IF c.wan2[s] = TRUE /\ KnownAfter(c, c.use2[s]) THEN c.use2[s] ELSE 0]
    BY AfterUses
  <2>2. e.use2 = [s \in SimNames |-> IF c.wan2[s] = TRUE /\ KnownAfter(c, c.use2[s]) THEN c.use2[s] ELSE 0]
    <3>1. \A s \in SimNames : b9.use2[s] = 0
      BY <1>3
    <3>2. b10.use2 = [s \in SimNames |-> IF Second(c, b9, s) THEN c.use2[s] ELSE 0]
      BY <1>4, <3>1
    <3> QED
      BY <1>1, <1>10, <3>2
  <2> QED
    BY <2>1, <2>2
<1>12. e.wan2 = a.wan2
  <2>1. a.wan2 = [s \in SimNames |-> IF c.wan2[s] = TRUE /\ KnownAfter(c, c.use2[s]) THEN TRUE ELSE FALSE]
    BY AfterUses
  <2>2. e.wan2 = [s \in SimNames |-> IF c.wan2[s] = TRUE /\ KnownAfter(c, c.use2[s]) THEN TRUE ELSE FALSE]
    BY <1>1, <1>3, <1>4, <1>10
  <2> QED
    BY <2>1, <2>2
<1> HIDE DEF a
<1> QED
  BY <1>6, <1>8, <1>9, <1>11, <1>12 DEF e, a

LEMMA BootDualSim ==
  ASSUME NEW c \in Settings
  PROVE  /\ Booted(c).cfg.dual = AfterReboot(c).dual /\ Booted(c).cfg.main = AfterReboot(c).main
         /\ Booted(c).cfg.backup = AfterReboot(c).backup /\ Booted(c).cfg.policy = AfterReboot(c).policy
         /\ Booted(c).cfg.retries = AfterReboot(c).retries /\ Booted(c).cfg.csq = AfterReboot(c).csq
         /\ Booted(c).cfg.backtime = AfterReboot(c).backtime
<1> DEFINE e == Booted(c).cfg
           a == AfterReboot(c)
           b4 == Boot4(c).cfg
<1>1. /\ e.dual = b4.dual /\ e.main = b4.main /\ e.backup = b4.backup /\ e.policy = b4.policy
      /\ e.retries = b4.retries /\ e.csq = b4.csq /\ e.backtime = b4.backtime
  BY BootKeeps
<1>2. b4.dual = c.dual /\ a.dual = c.dual
  BY BootSections, AfterSame
<1>3. b4.main = (IF c.dual = TRUE THEN c.main ELSE "sim1") /\ a.main = (IF c.dual = TRUE THEN c.main ELSE "sim1")
  BY BootSections, AfterDual
<1>4. /\ b4.backup = (IF c.dual = TRUE THEN OtherName(c.main) ELSE "sim2")
      /\ a.backup = (IF c.dual = TRUE THEN OtherName(c.main) ELSE "sim2")
  BY BootSections, AfterDual
<1>5. b4.policy = (IF c.dual = TRUE THEN c.policy ELSE "sim1") /\ a.policy = (IF c.dual = TRUE THEN c.policy ELSE "sim1")
  BY BootSections, AfterDual
<1>6. /\ b4.retries = (IF c.dual = TRUE /\ c.retries # 0 THEN c.retries ELSE 5)
      /\ a.retries = (IF c.dual = TRUE /\ c.retries # 0 THEN c.retries ELSE 5)
  BY BootSections, AfterDual
<1>7. /\ b4.csq = (IF c.dual = TRUE THEN c.csq ELSE [s \in SimNames |-> FALSE])
      /\ a.csq = (IF c.dual = TRUE THEN c.csq ELSE [s \in SimNames |-> FALSE])
  BY BootSections, AfterDual
<1>8. /\ b4.backtime = (IF c.dual = TRUE THEN c.backtime ELSE FALSE)
      /\ a.backtime = (IF c.dual = TRUE THEN c.backtime ELSE FALSE)
  BY BootSections, AfterDual
<1> HIDE DEF e, a, b4
<1> QED
  BY <1>1, <1>2, <1>3, <1>4, <1>5, <1>6, <1>7, <1>8 DEF e, a

LEMMA BootIp ==
  ASSUME NEW c \in Settings
  PROVE  /\ Booted(c).cfg.mode = AfterReboot(c).mode /\ Booted(c).cfg.trig = AfterReboot(c).trig
         /\ Booted(c).cfg.idle = AfterReboot(c).idle
         /\ Booted(c).cfg.static = AfterReboot(c).static /\ Booted(c).cfg.local = AfterReboot(c).local
         /\ Booted(c).cfg.peer = AfterReboot(c).peer /\ Booted(c).cfg.netmask = AfterReboot(c).netmask
<1> DEFINE e == Booted(c).cfg
           a == AfterReboot(c)
           b11 == Boot11(c).cfg
           b12 == Boot12(c).cfg
<1>1. /\ e.mode = b11.mode /\ e.trig = b11.trig /\ e.idle = b11.idle
      /\ e.static = b12.static /\ e.local = b12.local /\ e.peer = b12.peer /\ e.netmask = b12.netmask
  BY BootKeeps
<1>2. b11.mode = (IF c.mode = "DEMAND" /\ c.trig = {} THEN "ONLINE" ELSE c.mode) /\ a.mode = (IF c.mode = "DEMAND" /\ c.trig = {} THEN "ONLINE" ELSE c.mode)
  <2>1. b11.mode = (IF c.mode = "DEMAND" /\ c.trig = {} THEN "ONLINE" ELSE c.mode)
    BY BootSections, Zenon
  <2>2. a.mode = (IF c.mode = "DEMAND" /\ c.trig = {} THEN "ONLINE" ELSE c.mode)
    BY AfterSimple, Zenon
  <2> QED
    BY <2>1, <2>2, Zenon
<1>3. b11.trig = (IF c.mode = "DEMAND" THEN c.trig ELSE {}) /\ a.trig = (IF c.mode = "DEMAND" THEN c.trig ELSE {})
  <2>1. b11.trig = (IF c.mode = "DEMAND" THEN c.trig ELSE {})
    BY BootSections, Zenon
  <2>2. a.trig = (IF c.mode = "DEMAND" THEN c.trig ELSE {})
    BY AfterSimple, Zenon
  <2> QED
    BY <2>1, <2>2, Zenon
<1>4. b11.idle = (IF c.mode = "DEMAND" THEN c.idle ELSE 60) /\ a.idle = (IF c.mode = "DEMAND" THEN c.idle ELSE 60)
  <2>1. b11.idle = (IF c.mode = "DEMAND" THEN c.idle ELSE 60)
    BY BootSections, Zenon
  <2>2. a.idle = (IF c.mode = "DEMAND" THEN c.idle ELSE 60)
    BY AfterSimple, Zenon
  <2> QED
    BY <2>1, <2>2, Zenon
<1>5. b12.peer = (IF c.static = TRUE THEN c.peer ELSE "1.1.1.3") /\ a.peer = (IF c.static = TRUE THEN c.peer ELSE "1.1.1.3")
  <2>1. b12.peer = (IF c.static = TRUE THEN c.peer ELSE "1.1.1.3")
    BY BootSections, Zenon
  <2>2. a.peer = (IF c.static = TRUE THEN c.peer ELSE "1.1.1.3")
    BY AfterSimple, Zenon
  <2> QED
    BY <2>1, <2>2, Zenon
<1>6. /\ b12.static = TRUE <=> c.static = TRUE /\ (c.local = TRUE \/ c.peer # "none")
      /\ b12.local = TRUE <=> c.static = TRUE /\ c.local = TRUE
      /\ b12.netmask = TRUE <=> c.static = TRUE /\ c.netmask = TRUE
  BY BootSections
<1>7. /\ a.static \in BOOLEAN /\ a.local \in BOOLEAN /\ a.netmask \in BOOLEAN
      /\ a.static = TRUE <=> c.static = TRUE /\ (c.local = TRUE \/ c.peer # "none")
      /\ a.local = TRUE <=> c.static = TRUE /\ c.local = TRUE
      /\ a.netmask = TRUE <=> c.static = TRUE /\ c.netmask = TRUE
  BY AfterSimple
<1>8. e.static \in BOOLEAN /\ e.local \in BOOLEAN /\ e.netmask \in BOOLEAN
  <2>1. e \in Settings
    BY BootSections DEF Daemons
  <2> HIDE DEF e
  <2> QED
    BY <2>1 DEF Settings
<1> HIDE DEF e, a, b11, b12
<1>9. e.static = a.static
  BY <1>1, <1>6, <1>7, <1>8
<1>10. e.local = a.local
  BY <1>1, <1>6, <1>7, <1>8
<1>11. e.netmask = a.netmask
  BY <1>1, <1>6, <1>7, <1>8
<1> QED
  BY <1>1, <1>2, <1>3, <1>4, <1>5, <1>9, <1>10, <1>11 DEF e, a

LEMMA BootSims ==
  ASSUME NEW c \in Settings
  PROVE  /\ Booted(c).cfg.net = AfterReboot(c).net /\ Booted(c).cfg.nr5g = AfterReboot(c).nr5g
         /\ Booted(c).cfg.pin = AfterReboot(c).pin /\ Booted(c).cfg.roam = AfterReboot(c).roam
         /\ Booted(c).cfg.oper = AfterReboot(c).oper
<1> DEFINE e == Booted(c).cfg
           a == AfterReboot(c)
           b3 == Boot3(c).cfg
           b4 == Boot4(c).cfg
           b5 == Boot5(c).cfg
           b6 == Boot6(c).cfg
<1>1. e.net = b3.net /\ e.nr5g = b3.nr5g /\ e.pin = b6.pin /\ e.roam = b6.roam /\ e.oper = b6.oper
  BY BootKeeps
<1>2. b3.net = [s \in SimNames |-> c.net["sim1"]] /\ b3.nr5g = c.nr5g
  BY BootSections
<1>3. a.net = [s \in SimNames |-> c.net["sim1"]] /\ a.nr5g = c.nr5g
  BY AfterSimple, AfterSame
<1>4. a.pin = c.pin /\ a.roam = c.roam /\ a.oper = c.oper
  BY AfterSame
<1>5. b4.pin = [s \in SimNames |-> FALSE] /\ b4.roam = [s \in SimNames |-> TRUE]
  <2>1. b4.pin = Default.pin /\ b4.roam = Default.roam
    BY BootFinds
  <2> HIDE DEF b4
  <2> QED
    BY <2>1 DEF Default
<1>6. /\ \A k \in SimNames : b5.pin[k] = IF k = "sim1" /\ c.pin["sim1"] = TRUE THEN TRUE ELSE b4.pin[k]
      /\ \A k \in SimNames : b6.pin[k] = IF k = "sim2" /\ c.pin["sim2"] = TRUE THEN TRUE ELSE b5.pin[k]
  BY BootSections
<1>7. /\ \A k \in SimNames : b5.roam[k] = IF k = "sim1" /\ c.roam["sim1"] = FALSE THEN FALSE ELSE b4.roam[k]
      /\ \A k \in SimNames : b6.roam[k] = IF k = "sim2" /\ c.roam["sim2"] = FALSE THEN FALSE ELSE b5.roam[k]
  BY BootSections
<1>8. /\ \A k \in SimNames : b5.oper[k] = IF k = "sim1" THEN c.oper["sim1"] ELSE b4.oper[k]
      /\ \A k \in SimNames : b6.oper[k] = IF k = "sim2" THEN c.oper["sim2"] ELSE b5.oper[k]
  BY BootSections
<1>9. /\ c.pin \in [SimNames -> BOOLEAN] /\ c.roam \in [SimNames -> BOOLEAN]
      /\ c.oper \in [SimNames -> {"auto", "verizon"}]
  BY DEF Settings
<1>10. /\ e.pin \in [SimNames -> BOOLEAN] /\ e.roam \in [SimNames -> BOOLEAN]
       /\ e.oper \in [SimNames -> {"auto", "verizon"}]
  <2>1. e \in Settings
    BY BootSections DEF Daemons
  <2> HIDE DEF e
  <2> QED
    BY <2>1 DEF Settings
<1> HIDE DEF e, a, b3, b4, b5, b6
<1>11. e.pin = c.pin
  <2>1. ASSUME NEW k \in SimNames PROVE e.pin[k] = c.pin[k]
    <3>1. c.pin[k] \in BOOLEAN /\ b4.pin[k] = FALSE
      BY <1>5, <1>9
    <3>2. CASE k = "sim1"
      <4>1. e.pin[k] = b5.pin[k] /\ b5.pin[k] = IF c.pin[k] = TRUE THEN TRUE ELSE FALSE
        BY <1>1, <1>6, <3>1, <3>2
      <4> QED
        BY <3>1, <4>1
    <3>3. CASE k = "sim2"
      <4>1. b5.pin[k] = FALSE /\ e.pin[k] = IF c.pin[k] = TRUE THEN TRUE ELSE b5.pin[k]
        BY <1>1, <1>6, <3>1, <3>3
      <4> QED
        BY <3>1, <4>1
    <3> QED
      BY <3>2, <3>3 DEF SimNames
  <2> QED
    BY <1>9, <1>10, <2>1
<1>12. e.roam = c.roam
  <2>1. ASSUME NEW k \in SimNames PROVE e.roam[k] = c.roam[k]
    <3>1. c.roam[k] \in BOOLEAN /\ b4.roam[k] = TRUE
      BY <1>5, <1>9
    <3>2. CASE k = "sim1"
      <4>1. e.roam[k] = b5.roam[k] /\ b5.roam[k] = IF c.roam[k] = FALSE THEN FALSE ELSE TRUE
        BY <1>1, <1>7, <3>1, <3>2
      <4> QED
        BY <3>1, <4>1
    <3>3. CASE k = "sim2"
      <4>1. b5.roam[k] = TRUE /\ e.roam[k] = IF c.roam[k] = FALSE THEN FALSE ELSE b5.roam[k]
        BY <1>1, <1>7, <3>1, <3>3
      <4> QED
        BY <3>1, <4>1
    <3> QED
      BY <3>2, <3>3 DEF SimNames
  <2> QED
    BY <1>9, <1>10, <2>1
<1>13. e.oper = c.oper
  <2>1. ASSUME NEW k \in SimNames PROVE e.oper[k] = c.oper[k]
    <3>1. CASE k = "sim1"
      BY <1>1, <1>8, <3>1
    <3>2. CASE k = "sim2"
      BY <1>1, <1>8, <3>2
    <3> QED
      BY <3>1, <3>2 DEF SimNames
  <2> QED
    BY <1>9, <1>10, <2>1
<1> QED
  BY <1>1, <1>2, <1>3, <1>4, <1>11, <1>12, <1>13 DEF e, a

LEMMA BootIpv6 ==
  ASSUME NEW c \in Settings
  PROVE  /\ Booted(c).cfg.share = AfterReboot(c).share /\ Booted(c).cfg.pd = AfterReboot(c).pd
         /\ Booted(c).cfg.prefix = AfterReboot(c).prefix /\ Booted(c).cfg.strict = AfterReboot(c).strict
         /\ Booted(c).cfg.smsInterval = AfterReboot(c).smsInterval
<1> DEFINE e == Booted(c).cfg
           a == AfterReboot(c)
           b6 == Boot6(c).cfg
           b7 == Boot7(c).cfg
           b8 == Boot8(c).cfg
           b9 == Boot9(c).cfg
<1>1. e.smsInterval = b7.smsInterval /\ e.share = b9.share /\ e.pd = b9.pd /\ e.prefix = b9.prefix /\ e.strict = b9.strict
  BY BootKeeps
<1>2. /\ b7.smsInterval = IF c.smsInterval = 0 THEN b6.smsInterval ELSE c.smsInterval
      /\ b9.share = IF c.share = "off" THEN b8.share ELSE c.share
      /\ b9.pd = c.pd
      /\ b9.prefix = [w \in Wans |-> IF c.prefix[w] \in 1 .. 64 THEN c.prefix[w] ELSE b8.prefix[w]]
      /\ b9.strict = [w \in Wans |-> IF c.strict[w] = TRUE THEN TRUE ELSE b8.strict[w]]
  BY BootSections
<1>3. /\ b6.smsInterval = 30 /\ b8.share = "off"
      /\ b8.prefix = [w \in Wans |-> 0] /\ b8.strict = [w \in Wans |-> FALSE]
  <2>1. /\ b6.smsInterval = Default.smsInterval /\ b8.share = Default.share
        /\ b8.prefix = Default.prefix /\ b8.strict = Default.strict
    BY BootFinds
  <2> HIDE DEF b6, b8
  <2> QED
    BY <2>1 DEF Default
<1>4. /\ a.share = c.share /\ a.pd = c.pd /\ a.strict = c.strict
      /\ a.smsInterval = IF c.smsInterval = 0 THEN 30 ELSE c.smsInterval
      /\ a.prefix = [w \in Wans |-> IF c.prefix[w] > 64 THEN 0 ELSE c.prefix[w]]
  <2>1. a.share = c.share /\ a.pd = c.pd /\ a.strict = c.strict
    BY AfterSame, Zenon
  <2>2. a.smsInterval = IF c.smsInterval = 0 THEN 30 ELSE c.smsInterval
    BY AfterSimple, Zenon
  <2>3. a.prefix = [w \in Wans |-> IF c.prefix[w] > 64 THEN 0 ELSE c.prefix[w]]
    BY AfterSimple, Zenon
  <2> QED
    BY <2>1, <2>2, <2>3, Zenon
<1>5. c.prefix \in [Wans -> {0, 56, 80}] /\ c.strict \in [Wans -> BOOLEAN]
  BY DEF Settings
<1> HIDE DEF e, a, b6, b7, b8, b9
<1>6. e.prefix = a.prefix
  <2>1. ASSUME NEW w \in Wans
        PROVE  (IF c.prefix[w] \in 1 .. 64 THEN c.prefix[w] ELSE b8.prefix[w]) = IF c.prefix[w] > 64 THEN 0 ELSE c.prefix[w]
    <3>1. b8.prefix[w] = 0 /\ c.prefix[w] \in {0, 56, 80}
      BY <1>3, <1>5
    <3> QED
      BY <3>1
  <2> QED
    BY <1>1, <1>2, <1>4, <2>1
<1>7. e.strict = c.strict
  <2>1. ASSUME NEW w \in Wans PROVE (IF c.strict[w] = TRUE THEN TRUE ELSE b8.strict[w]) = c.strict[w]
    <3>1. b8.strict[w] = FALSE /\ c.strict[w] \in BOOLEAN
      BY <1>3, <1>5
    <3> QED
      BY <3>1
  <2>2. c.strict = [w \in Wans |-> c.strict[w]]
    BY <1>5
  <2> QED
    BY <1>1, <1>2, <2>1, <2>2
<1> QED
  BY <1>1, <1>2, <1>3, <1>4, <1>6, <1>7 DEF e, a

LEMMA BootPlain ==
  ASSUME NEW c \in Settings
  PROVE  Booted(c).cfg.infinite = AfterReboot(c).infinite /\ Booted(c).cfg.plain = AfterReboot(c).plain
<1> DEFINE e == Booted(c).cfg
           a == AfterReboot(c)
           b1 == Boot1(c).cfg
           b2 == Boot2(c).cfg
           b12 == Boot12(c).cfg
<1>1. /\ b2.plain = IF c.plain["quiet"] = TRUE THEN [b1.plain EXCEPT !["quiet"] = TRUE] ELSE b1.plain
      /\ e.infinite = IF c.infinite = TRUE THEN TRUE ELSE b12.infinite
      /\ e.plain = IF c.plain["loud"] = TRUE THEN [b12.plain EXCEPT !["loud"] = TRUE] ELSE b12.plain
  <2>1. Booted(c) = Boot13(c)
    BY BootSections
  <2>2. /\ b2.plain = IF c.plain["quiet"] = TRUE THEN [b1.plain EXCEPT !["quiet"] = TRUE] ELSE b1.plain
        /\ Boot13(c).cfg.infinite = IF c.infinite = TRUE THEN TRUE ELSE b12.infinite
        /\ Boot13(c).cfg.plain = IF c.plain["loud"] = TRUE THEN [b12.plain EXCEPT !["loud"] = TRUE] ELSE b12.plain
    BY BootSections
  <2> HIDE DEF b1, b2, b12
  <2> QED
    BY <2>1, <2>2
<1>2. b1.plain = [f \in Plain |-> FALSE] /\ b12.infinite = Infinite
  <2>1. b1.plain = Default.plain /\ b12.infinite = Default.infinite
    BY BootFinds
  <2> HIDE DEF b1, b12
  <2> QED
    BY <2>1 DEF Default
<1>3. b12.plain = b2.plain
  BY BootLeavesPlain
<1>4. a.plain = c.plain /\ a.infinite \in BOOLEAN /\ (a.infinite = TRUE <=> c.infinite = TRUE \/ Infinite = TRUE)
  BY AfterSame, AfterSimple
<1>5. c.plain \in [Plain -> BOOLEAN] /\ c.infinite \in BOOLEAN /\ Infinite \in BOOLEAN
  BY SettingsConstantsOK DEF Settings
<1> HIDE DEF e, a, b1, b2, b12
<1>6. e.infinite = a.infinite
  BY <1>1, <1>2, <1>4, <1>5
<1>7. b2.plain = [f \in Plain |-> IF f = "quiet" THEN c.plain[f] ELSE FALSE]
  <2>1. c.plain["quiet"] \in BOOLEAN
    BY <1>5 DEF Plain
  <2>2. CASE c.plain["quiet"] = TRUE
    BY <1>1, <1>2, <2>2
  <2>3. CASE c.plain["quiet"] = FALSE
    <3>1. b2.plain = [f \in Plain |-> FALSE]
      BY <1>1, <1>2, <2>3
    <3>2. \A f \in Plain : (IF f = "quiet" THEN c.plain[f] ELSE FALSE) = FALSE
      BY <2>3
    <3> QED
      BY <3>1, <3>2
  <2> QED
    BY <2>1, <2>2, <2>3
<1>8. e.plain = c.plain
  <2> DEFINE q == b2.plain
  <2>1. /\ e.plain = IF c.plain["loud"] = TRUE THEN [q EXCEPT !["loud"] = TRUE] ELSE q
        /\ q = [f \in Plain |-> IF f = "quiet" THEN c.plain[f] ELSE FALSE]
    BY <1>1, <1>3, <1>7
  <2> HIDE DEF q
  <2>2. q["quiet"] = c.plain["quiet"] /\ q["loud"] = FALSE /\ q = [f \in Plain |-> q[f]]
    BY <2>1 DEF Plain
  <2>3. c.plain["loud"] \in BOOLEAN /\ c.plain = [f \in Plain |-> c.plain[f]]
    BY <1>5 DEF Plain
  <2>4. e.plain = [f \in Plain |-> IF f = "loud" THEN c.plain["loud"] ELSE q[f]]
    <3>1. CASE c.plain["loud"] = TRUE
      BY <2>1, <2>2, <3>1
    <3>2. CASE c.plain["loud"] = FALSE
      <4>1. e.plain = q
        BY <2>1, <3>2
      <4>2. \A f \in Plain : q[f] = (IF f = "loud" THEN c.plain["loud"] ELSE q[f])
        BY <2>2, <3>2
      <4> QED
        BY <2>2, <4>1, <4>2
    <3> QED
      BY <2>3, <3>1, <3>2
  <2>5. \A f \in Plain : (IF f = "loud" THEN c.plain["loud"] ELSE q[f]) = c.plain[f]
    BY <2>2 DEF Plain
  <2> QED
    BY <2>3, <2>4, <2>5
<1> QED
  BY <1>4, <1>6, <1>8 DEF e, a

\* RebootKeeps, for whatever settings: the router that boots has those it was
\* saved with, but for what AfterReboot() says.
LEMMA BootedIs ==
  ASSUME NEW c \in Settings
  PROVE  Booted(c) \in Daemons /\ Booted(c).cfg = AfterReboot(c)
<1> DEFINE e == Booted(c).cfg
           a == AfterReboot(c)
<1>1. Booted(c) \in Daemons /\ e \in Settings
  <2>1. Booted(c) = Boot13(c) /\ Boot13(c) \in Daemons
    BY BootSections
  <2>2. Booted(c) \in Daemons
    BY <2>1
  <2> QED
    BY <2>2 DEF Daemons
<1>2. a = [f \in SettingNames |-> a[f]]
  BY AfterIsRecord
<1>3. \A f \in SettingNames : e[f] = a[f]
  <2> HIDE DEF e, a
  <2> QED
    BY BootProfiles, BootDualSim, BootIp, BootSims, BootIpv6, BootPlain DEF SettingNames, e, a
<1>4. e = [f \in SettingNames |-> e[f]]
  <2> HIDE DEF e
  <2> QED
    BY <1>1 DEF Settings, SettingNames
<1> HIDE DEF e, a
<1>5. e = a
  <2> HIDE DEF SettingNames
  <2> QED
    BY <1>2, <1>3, <1>4
<1> QED
  BY <1>1, <1>5 DEF e, a

-----------------------------------------------------------------------------
(* What the front ends do.                                                 *)

\* e differs from c in nothing that the invariants speak of.
Harmless(c, e) ==
  e \in Settings /\ e.main = c.main /\ e.backup = c.backup /\ e.mode = c.mode /\ e.trig = c.trig /\ e.prof = c.prof

LEMMA OnlyInHarmless ==
  ASSUME NEW c, NEW e, NEW S, OnlyIn(c, e, S), S \cap {"main", "backup", "mode", "trig", "prof"} = {}
  PROVE  Harmless(c, e)
BY DEF OnlyIn, Harmless, SettingNames

\* A command of the command line, with its arguments.
Command(m) ==
  \/ m[1] = "profile" /\ m[2] \in Profiles /\ m[3] \in {"factory", "gsm", "cdma"}
  \/ m[1] = "no profile" /\ m[2] \in Profiles
  \/ m[1] = "network" /\ m[2] \in {"auto", "4g"}
  \/ m[1] = "no network"
  \/ m[1] = "nr5g" /\ m[2] \in {"auto", "sa"}
  \/ m[1] = "pin" /\ m[2] \in SimNames
  \/ m[1] = "forbid" /\ m[2] \in SimNames
  \/ (m[1] = "no sim" \/ m[1] = "no roaming" \/ m[1] = "no pin") /\ m[2] \in SimNames
  \/ m[1] = "operator" /\ m[2] \in SimNames /\ m[3] \in {"auto", "verizon"}
  \/ m[1] = "sms interval" /\ m[2] \in {0, 10, 30}
  \/ m[1] = "main" /\ m[2] \in SimNames \cup {"random", "sequence"} /\ m[3] \in SimNames
  \/ m[1] = "no main"
  \/ m[1] = "dual"
  \/ m[1] = "no dual" \/ m[1] = "no policy"
  \/ m[1] = "negotiated"
  \/ m[1] = "local"
  \/ m[1] = "netmask"
  \/ m[1] = "retries" /\ m[2] \in {0, 3, 5}
  \/ m[1] = "csq" /\ m[2] \in SimNames /\ m[3] \in BOOLEAN
  \/ m[1] = "backtime" /\ m[2] \in BOOLEAN
  \/ m[1] = "activate" /\ m[2] \in {"auto", "manual"}
  \/ m[1] = "activate" /\ m[2] \in Triggers
  \/ m[1] = "no activate" /\ m[2] \in {"all", "manual"}
  \/ m[1] = "no activate" /\ m[2] \in Triggers
  \/ m[1] = "idle" /\ m[2] \in {60, 90}
  \/ m[1] = "use" /\ m[2] \in SimNames /\ m[3] \in Profiles \cup {0}
  \/ m[1] = "wan2" /\ m[2] \in SimNames /\ m[3] \in Profiles \cup {0}
  \/ m[1] = "no use" /\ m[2] \in SimNames
  \/ m[1] = "no wan2" /\ m[2] \in SimNames
  \/ m[1] = "infinite" /\ m[2] \in BOOLEAN
  \/ m[1] = "shutdown" /\ m[2] \in BOOLEAN
  \/ m[1] = "peer" /\ m[2] \in {"none", "1.1.1.3", "own"}
  \/ m[1] = "both" /\ m[2] \in {"none", "1.1.1.3", "own"}
  \/ m[1] = "no static"
  \/ m[1] = "no local"
  \/ m[1] = "no peer"
  \/ m[1] = "no netmask"
  \/ m[1] = "share" /\ m[2] \in {"off", "default", "own"}
  \/ m[1] = "pd" /\ m[2] \in Wans /\ m[3] \in {"default", "own"}
  \/ m[1] = "prefix" /\ m[2] \in Wans /\ m[3] \in {0, 56, 80}
  \/ m[1] = "strict" /\ m[2] \in Wans /\ m[3] \in BOOLEAN
  \/ m[1] = "no prefix" /\ m[2] \in Wans
  \/ m[1] = "plain" /\ m[2] \in Plain /\ m[3] \in BOOLEAN

LEMMA CommandsAre == ASSUME NEW m \in CliCommands PROVE Command(m)
<1> DEFINE C1 == ({"profile"} \X Named \X {"gsm", "cdma"})
           C2 == ({"no profile"} \X Named)
           C3 == ({"network"} \X {"auto", "4g"})
           C4 == ({"nr5g"} \X {"auto", "sa"})
           C5 == ({"pin", "forbid", "no sim", "no roaming", "no pin"} \X SimNames)
           C6 == ({"operator"} \X SimNames \X {"auto", "verizon"})
           C7 == ({"sms interval"} \X {0, 10, 30})
           C8 == {<<"main", s, s>> : s \in SimNames}
           C9 == ({"main"} \X {"random", "sequence"} \X SimNames)
           C10 == ({"no network", "no main", "dual", "no dual", "no policy", "negotiated", "local", "netmask"} \X {"-"})
           C11 == ({"retries"} \X {0, 3, 5})
           C12 == ({"csq"} \X SimNames \X BOOLEAN)
           C13 == ({"activate"} \X {"auto", "traffic", "sms", "manual"})
           C14 == ({"no activate"} \X {"all", "traffic", "sms", "manual"})
           C15 == ({"idle"} \X {60, 90})
           C16 == ({"use", "wan2"} \X SimNames \X (Named \cup {0}))
           C17 == ({"no use", "no wan2"} \X SimNames)
           C18 == ({"backtime", "infinite", "shutdown"} \X BOOLEAN)
           C19 == ({"peer", "both"} \X {"own"})
           C20 == ({"no static", "no local", "no peer", "no netmask"} \X {"-"})
           C21 == ({"share"} \X {"off", "own"})
           C22 == ({"pd"} \X Wans \X {"default", "own"})
           C23 == ({"prefix"} \X Wans \X {56, 80})
           C24 == ({"strict"} \X Wans \X BOOLEAN)
           C25 == ({"no prefix"} \X Wans)
           C26 == ({"plain"} \X Plain \X BOOLEAN)
<1>0. \/ m \in C1 \/ m \in C2 \/ m \in C3 \/ m \in C4 \/ m \in C5 \/ m \in C6
      \/ m \in C7 \/ m \in C8 \/ m \in C9 \/ m \in C10 \/ m \in C11 \/ m \in C12
      \/ m \in C13 \/ m \in C14 \/ m \in C15 \/ m \in C16 \/ m \in C17 \/ m \in C18
      \/ m \in C19 \/ m \in C20 \/ m \in C21 \/ m \in C22 \/ m \in C23 \/ m \in C24
      \/ m \in C25 \/ m \in C26
  BY DEF CliCommands
<1>27. Named \subseteq Profiles
  BY SettingsConstantsOK
<1>1. m \in C1 => Command(m)
  BY <1>27 DEF Command, SimNames, Wans, Plain, Triggers
<1>2. m \in C2 => Command(m)
  BY <1>27 DEF Command, SimNames, Wans, Plain, Triggers
<1>3. m \in C3 => Command(m)
  BY <1>27 DEF Command, SimNames, Wans, Plain, Triggers
<1>4. m \in C4 => Command(m)
  BY <1>27 DEF Command, SimNames, Wans, Plain, Triggers
<1>5. m \in C5 => Command(m)
  BY <1>27 DEF Command, SimNames, Wans, Plain, Triggers
<1>6. m \in C6 => Command(m)
  BY <1>27 DEF Command, SimNames, Wans, Plain, Triggers
<1>7. m \in C7 => Command(m)
  BY <1>27 DEF Command, SimNames, Wans, Plain, Triggers
<1>8. m \in C8 => Command(m)
  <2>1. SUFFICES ASSUME m \in C8 PROVE Command(m)
    OBVIOUS
  <2>2. PICK s \in SimNames : m = <<"main", s, s>>
    BY <2>1
  <2> QED
    BY <2>2 DEF Command
<1>9. m \in C9 => Command(m)
  BY <1>27 DEF Command, SimNames, Wans, Plain, Triggers
<1>10. m \in C10 => Command(m)
  BY <1>27 DEF Command, SimNames, Wans, Plain, Triggers
<1>11. m \in C11 => Command(m)
  BY <1>27 DEF Command, SimNames, Wans, Plain, Triggers
<1>12. m \in C12 => Command(m)
  BY <1>27 DEF Command, SimNames, Wans, Plain, Triggers
<1>13. m \in C13 => Command(m)
  BY <1>27 DEF Command, SimNames, Wans, Plain, Triggers
<1>14. m \in C14 => Command(m)
  BY <1>27 DEF Command, SimNames, Wans, Plain, Triggers
<1>15. m \in C15 => Command(m)
  BY <1>27 DEF Command, SimNames, Wans, Plain, Triggers
<1>16. m \in C16 => Command(m)
  BY <1>27 DEF Command, SimNames, Wans, Plain, Triggers
<1>17. m \in C17 => Command(m)
  BY <1>27 DEF Command, SimNames, Wans, Plain, Triggers
<1>18. m \in C18 => Command(m)
  BY <1>27 DEF Command, SimNames, Wans, Plain, Triggers
<1>19. m \in C19 => Command(m)
  BY <1>27 DEF Command, SimNames, Wans, Plain, Triggers
<1>20. m \in C20 => Command(m)
  BY <1>27 DEF Command, SimNames, Wans, Plain, Triggers
<1>21. m \in C21 => Command(m)
  BY <1>27 DEF Command, SimNames, Wans, Plain, Triggers
<1>22. m \in C22 => Command(m)
  BY <1>27 DEF Command, SimNames, Wans, Plain, Triggers
<1>23. m \in C23 => Command(m)
  BY <1>27 DEF Command, SimNames, Wans, Plain, Triggers
<1>24. m \in C24 => Command(m)
  BY <1>27 DEF Command, SimNames, Wans, Plain, Triggers
<1>25. m \in C25 => Command(m)
  BY <1>27 DEF Command, SimNames, Wans, Plain, Triggers
<1>26. m \in C26 => Command(m)
  BY <1>27 DEF Command, SimNames, Wans, Plain, Triggers
<1> HIDE DEF C1, C2, C3, C4, C5, C6, C7, C8, C9, C10, C11, C12, C13, C14, C15, C16, C17, C18, C19, C20, C21, C22, C23, C24, C25, C26
<1> QED
  BY <1>0, <1>1, <1>2, <1>3, <1>4, <1>5, <1>6, <1>7, <1>8, <1>9, <1>10, <1>11, <1>12, <1>13, <1>14, <1>15, <1>16, <1>17, <1>18, <1>19, <1>20, <1>21, <1>22, <1>23, <1>24, <1>25, <1>26

\* What a command leaves of what the invariants speak of.
CommandDid(c, m, e) ==
  \/ Harmless(c, e)
  \/ m[1] = "profile" /\ OnlyIn(c, e, {"prof"}) /\ e.prof = [c.prof EXCEPT ![m[2]] = m[3]]
  \/ m[1] = "no profile" /\ OnlyIn(c, e, {"prof"}) /\ \A n \in Profiles : e.prof[n] \in {c.prof[n], "none"}
  \/ OnlyIn(c, e, {"main", "backup", "policy"}) /\ e.backup = OtherName(e.main)
  \/ OnlyIn(c, e, {"mode", "trig"}) /\ (e.mode = "DEMAND" => e.trig # {})

LEMMA CommandDoes ==
  ASSUME NEW c \in Settings, NEW m \in CliCommands
  PROVE  CommandDid(c, m, Do(c, m))
<1> DEFINE e == Do(c, m)
<1>0. Command(m)
  BY CommandsAre
<1>1. CASE m[1] = "profile" /\ m[2] \in Profiles /\ m[3] \in {"factory", "gsm", "cdma"}
  BY <1>1, DoProfile DEF CommandDid
<1>2. CASE m[1] = "no profile" /\ m[2] \in Profiles
  BY <1>2, DoNoProfile DEF CommandDid
<1>3. CASE m[1] = "network" /\ m[2] \in {"auto", "4g"}
  <2>1. OnlyIn(c, e, {"net"})
    BY <1>3, DoNetwork
  <2> HIDE DEF e
  <2>2. Harmless(c, e)
    BY <2>1, OnlyInHarmless
  <2> QED
    BY <2>2 DEF CommandDid, e
<1>4. CASE m[1] = "no network"
  <2>1. OnlyIn(c, e, {"net"})
    BY <1>4, DoNoNetwork
  <2> HIDE DEF e
  <2>2. Harmless(c, e)
    BY <2>1, OnlyInHarmless
  <2> QED
    BY <2>2 DEF CommandDid, e
<1>5. CASE m[1] = "nr5g" /\ m[2] \in {"auto", "sa"}
  <2>1. OnlyIn(c, e, {"nr5g"})
    BY <1>5, DoNr5g
  <2> HIDE DEF e
  <2>2. Harmless(c, e)
    BY <2>1, OnlyInHarmless
  <2> QED
    BY <2>2 DEF CommandDid, e
<1>6. CASE m[1] = "pin" /\ m[2] \in SimNames
  <2>1. OnlyIn(c, e, {"pin"})
    BY <1>6, DoPin
  <2> HIDE DEF e
  <2>2. Harmless(c, e)
    BY <2>1, OnlyInHarmless
  <2> QED
    BY <2>2 DEF CommandDid, e
<1>7. CASE m[1] = "forbid" /\ m[2] \in SimNames
  <2>1. OnlyIn(c, e, {"roam"})
    BY <1>7, DoForbid
  <2> HIDE DEF e
  <2>2. Harmless(c, e)
    BY <2>1, OnlyInHarmless
  <2> QED
    BY <2>2 DEF CommandDid, e
<1>8. CASE (m[1] = "no sim" \/ m[1] = "no roaming" \/ m[1] = "no pin") /\ m[2] \in SimNames
  <2>1. OnlyIn(c, e, {"pin", "roam"})
    BY <1>8, DoNoSim
  <2> HIDE DEF e
  <2>2. Harmless(c, e)
    BY <2>1, OnlyInHarmless
  <2> QED
    BY <2>2 DEF CommandDid, e
<1>9. CASE m[1] = "operator" /\ m[2] \in SimNames /\ m[3] \in {"auto", "verizon"}
  <2>1. OnlyIn(c, e, {"oper"})
    BY <1>9, DoOperator
  <2> HIDE DEF e
  <2>2. Harmless(c, e)
    BY <2>1, OnlyInHarmless
  <2> QED
    BY <2>2 DEF CommandDid, e
<1>10. CASE m[1] = "sms interval" /\ m[2] \in {0, 10, 30}
  <2>1. OnlyIn(c, e, {"smsInterval"})
    BY <1>10, DoSms
  <2> HIDE DEF e
  <2>2. Harmless(c, e)
    BY <2>1, OnlyInHarmless
  <2> QED
    BY <2>2 DEF CommandDid, e
<1>11. CASE m[1] = "main" /\ m[2] \in SimNames \cup {"random", "sequence"} /\ m[3] \in SimNames
  BY <1>11, DoMain DEF CommandDid
<1>12. CASE m[1] = "no main"
  BY <1>12, DoNoMain DEF CommandDid
<1>13. CASE m[1] = "dual"
  <2>1. OnlyIn(c, e, {"dual", "retries"})
    BY <1>13, DoDual
  <2> HIDE DEF e
  <2>2. Harmless(c, e)
    BY <2>1, OnlyInHarmless
  <2> QED
    BY <2>2 DEF CommandDid, e
<1>14. CASE m[1] = "no dual" \/ m[1] = "no policy"
  <2>1. OnlyIn(c, e, {"dual", "csq", "backtime", "retries"})
    BY <1>14, DoNoPolicy
  <2> HIDE DEF e
  <2>2. Harmless(c, e)
    BY <2>1, OnlyInHarmless
  <2> QED
    BY <2>2 DEF CommandDid, e
<1>15. CASE m[1] = "negotiated"
  <2>1. OnlyIn(c, e, {"static"})
    BY <1>15, DoNegotiated
  <2> HIDE DEF e
  <2>2. Harmless(c, e)
    BY <2>1, OnlyInHarmless
  <2> QED
    BY <2>2 DEF CommandDid, e
<1>16. CASE m[1] = "local"
  <2>1. OnlyIn(c, e, {"static", "local"})
    BY <1>16, DoLocal
  <2> HIDE DEF e
  <2>2. Harmless(c, e)
    BY <2>1, OnlyInHarmless
  <2> QED
    BY <2>2 DEF CommandDid, e
<1>17. CASE m[1] = "netmask"
  <2>1. OnlyIn(c, e, {"static", "netmask"})
    BY <1>17, DoNetmask
  <2> HIDE DEF e
  <2>2. Harmless(c, e)
    BY <2>1, OnlyInHarmless
  <2> QED
    BY <2>2 DEF CommandDid, e
<1>18. CASE m[1] = "retries" /\ m[2] \in {0, 3, 5}
  <2>1. OnlyIn(c, e, {"retries"})
    BY <1>18, DoRetries
  <2> HIDE DEF e
  <2>2. Harmless(c, e)
    BY <2>1, OnlyInHarmless
  <2> QED
    BY <2>2 DEF CommandDid, e
<1>19. CASE m[1] = "csq" /\ m[2] \in SimNames /\ m[3] \in BOOLEAN
  <2>1. OnlyIn(c, e, {"csq"})
    BY <1>19, DoCsq
  <2> HIDE DEF e
  <2>2. Harmless(c, e)
    BY <2>1, OnlyInHarmless
  <2> QED
    BY <2>2 DEF CommandDid, e
<1>20. CASE m[1] = "backtime" /\ m[2] \in BOOLEAN
  <2>1. OnlyIn(c, e, {"backtime"})
    BY <1>20, DoBacktime
  <2> HIDE DEF e
  <2>2. Harmless(c, e)
    BY <2>1, OnlyInHarmless
  <2> QED
    BY <2>2 DEF CommandDid, e
<1>21. CASE m[1] = "activate" /\ m[2] \in {"auto", "manual"}
  <2>1. OnlyIn(c, e, {"mode", "trig"}) /\ (e.mode = "DEMAND" => e.trig # {})
    BY <1>21, DoActivate
  <2> QED
    BY <2>1 DEF CommandDid
<1>22. CASE m[1] = "activate" /\ m[2] \in Triggers
  <2>1. OnlyIn(c, e, {"mode", "trig"}) /\ (e.mode = "DEMAND" => e.trig # {})
    BY <1>22, DoDemand
  <2> QED
    BY <2>1 DEF CommandDid
<1>23. CASE m[1] = "no activate" /\ m[2] \in {"all", "manual"}
  <2>1. OnlyIn(c, e, {"mode", "trig"}) /\ (e.mode = "DEMAND" => e.trig # {})
    BY <1>23, DoNoActivate
  <2> QED
    BY <2>1 DEF CommandDid
<1>24. CASE m[1] = "no activate" /\ m[2] \in Triggers
  <2>1. OnlyIn(c, e, {"mode", "trig"}) /\ (e.mode = "DEMAND" => e.trig # {})
    BY <1>24, DoNoDemand
  <2> QED
    BY <2>1 DEF CommandDid
<1>25. CASE m[1] = "idle" /\ m[2] \in {60, 90}
  <2>1. OnlyIn(c, e, {"idle"})
    BY <1>25, DoIdle
  <2> HIDE DEF e
  <2>2. Harmless(c, e)
    BY <2>1, OnlyInHarmless
  <2> QED
    BY <2>2 DEF CommandDid, e
<1>26. CASE m[1] = "use" /\ m[2] \in SimNames /\ m[3] \in Profiles \cup {0}
  <2>1. OnlyIn(c, e, {"use"})
    BY <1>26, DoUse
  <2> HIDE DEF e
  <2>2. Harmless(c, e)
    BY <2>1, OnlyInHarmless
  <2> QED
    BY <2>2 DEF CommandDid, e
<1>27. CASE m[1] = "wan2" /\ m[2] \in SimNames /\ m[3] \in Profiles \cup {0}
  <2>1. OnlyIn(c, e, {"use2", "wan2"})
    BY <1>27, DoWan2
  <2> HIDE DEF e
  <2>2. Harmless(c, e)
    BY <2>1, OnlyInHarmless
  <2> QED
    BY <2>2 DEF CommandDid, e
<1>28. CASE m[1] = "no use" /\ m[2] \in SimNames
  <2>1. OnlyIn(c, e, {"use"})
    BY <1>28, DoNoUse
  <2> HIDE DEF e
  <2>2. Harmless(c, e)
    BY <2>1, OnlyInHarmless
  <2> QED
    BY <2>2 DEF CommandDid, e
<1>29. CASE m[1] = "no wan2" /\ m[2] \in SimNames
  <2>1. OnlyIn(c, e, {"wan2"})
    BY <1>29, DoNoWan2
  <2> HIDE DEF e
  <2>2. Harmless(c, e)
    BY <2>1, OnlyInHarmless
  <2> QED
    BY <2>2 DEF CommandDid, e
<1>30. CASE m[1] = "infinite" /\ m[2] \in BOOLEAN
  <2>1. OnlyIn(c, e, {"infinite"})
    BY <1>30, DoInfinite
  <2> HIDE DEF e
  <2>2. Harmless(c, e)
    BY <2>1, OnlyInHarmless
  <2> QED
    BY <2>2 DEF CommandDid, e
<1>31. CASE m[1] = "shutdown" /\ m[2] \in BOOLEAN
  <2>1. OnlyIn(c, e, {"enable"})
    BY <1>31, DoShutdown
  <2> HIDE DEF e
  <2>2. Harmless(c, e)
    BY <2>1, OnlyInHarmless
  <2> QED
    BY <2>2 DEF CommandDid, e
<1>32. CASE m[1] = "peer" /\ m[2] \in {"none", "1.1.1.3", "own"}
  <2>1. OnlyIn(c, e, {"static", "peer"})
    BY <1>32, DoPeer
  <2> HIDE DEF e
  <2>2. Harmless(c, e)
    BY <2>1, OnlyInHarmless
  <2> QED
    BY <2>2 DEF CommandDid, e
<1>33. CASE m[1] = "both" /\ m[2] \in {"none", "1.1.1.3", "own"}
  <2>1. OnlyIn(c, e, {"static", "local", "peer"})
    BY <1>33, DoBoth
  <2> HIDE DEF e
  <2>2. Harmless(c, e)
    BY <2>1, OnlyInHarmless
  <2> QED
    BY <2>2 DEF CommandDid, e
<1>34. CASE m[1] = "no static"
  <2>1. OnlyIn(c, e, {"static"})
    BY <1>34, DoNoStatic
  <2> HIDE DEF e
  <2>2. Harmless(c, e)
    BY <2>1, OnlyInHarmless
  <2> QED
    BY <2>2 DEF CommandDid, e
<1>35. CASE m[1] = "no local"
  <2>1. OnlyIn(c, e, {"local", "static"})
    BY <1>35, DoNoLocal
  <2> HIDE DEF e
  <2>2. Harmless(c, e)
    BY <2>1, OnlyInHarmless
  <2> QED
    BY <2>2 DEF CommandDid, e
<1>36. CASE m[1] = "no peer"
  <2>1. OnlyIn(c, e, {"peer", "static"})
    BY <1>36, DoNoPeer
  <2> HIDE DEF e
  <2>2. Harmless(c, e)
    BY <2>1, OnlyInHarmless
  <2> QED
    BY <2>2 DEF CommandDid, e
<1>37. CASE m[1] = "no netmask"
  <2>1. OnlyIn(c, e, {"netmask", "static"})
    BY <1>37, DoNoNetmask
  <2> HIDE DEF e
  <2>2. Harmless(c, e)
    BY <2>1, OnlyInHarmless
  <2> QED
    BY <2>2 DEF CommandDid, e
<1>38. CASE m[1] = "share" /\ m[2] \in {"off", "default", "own"}
  <2>1. OnlyIn(c, e, {"share"})
    BY <1>38, DoShare
  <2> HIDE DEF e
  <2>2. Harmless(c, e)
    BY <2>1, OnlyInHarmless
  <2> QED
    BY <2>2 DEF CommandDid, e
<1>39. CASE m[1] = "pd" /\ m[2] \in Wans /\ m[3] \in {"default", "own"}
  <2>1. OnlyIn(c, e, {"pd"})
    BY <1>39, DoPd
  <2> HIDE DEF e
  <2>2. Harmless(c, e)
    BY <2>1, OnlyInHarmless
  <2> QED
    BY <2>2 DEF CommandDid, e
<1>40. CASE m[1] = "prefix" /\ m[2] \in Wans /\ m[3] \in {0, 56, 80}
  <2>1. OnlyIn(c, e, {"prefix"})
    BY <1>40, DoPrefix
  <2> HIDE DEF e
  <2>2. Harmless(c, e)
    BY <2>1, OnlyInHarmless
  <2> QED
    BY <2>2 DEF CommandDid, e
<1>41. CASE m[1] = "strict" /\ m[2] \in Wans /\ m[3] \in BOOLEAN
  <2>1. OnlyIn(c, e, {"strict"})
    BY <1>41, DoStrict
  <2> HIDE DEF e
  <2>2. Harmless(c, e)
    BY <2>1, OnlyInHarmless
  <2> QED
    BY <2>2 DEF CommandDid, e
<1>42. CASE m[1] = "no prefix" /\ m[2] \in Wans
  <2>1. OnlyIn(c, e, {"prefix", "strict"})
    BY <1>42, DoNoPrefix
  <2> HIDE DEF e
  <2>2. Harmless(c, e)
    BY <2>1, OnlyInHarmless
  <2> QED
    BY <2>2 DEF CommandDid, e
<1>43. CASE m[1] = "plain" /\ m[2] \in Plain /\ m[3] \in BOOLEAN
  <2>1. OnlyIn(c, e, {"plain"})
    BY <1>43, DoPlain
  <2> HIDE DEF e
  <2>2. Harmless(c, e)
    BY <2>1, OnlyInHarmless
  <2> QED
    BY <2>2 DEF CommandDid, e
<1> HIDE DEF e
<1> QED
  BY <1>0, <1>1, <1>2, <1>3, <1>4, <1>5, <1>6, <1>7, <1>8, <1>9, <1>10, <1>11, <1>12, <1>13, <1>14, <1>15, <1>16, <1>17, <1>18, <1>19, <1>20, <1>21, <1>22, <1>23, <1>24, <1>25, <1>26, <1>27, <1>28, <1>29, <1>30, <1>31, <1>32, <1>33, <1>34, <1>35, <1>36, <1>37, <1>38, <1>39, <1>40, <1>41, <1>42, <1>43 DEF Command, e

\* Until NETCONF has set the main SIM, the backup is the other one.
BackupIsOther == by \subseteq {"cli", "web", "cloud"} => cfg.backup = OtherName(cfg.main)

SettingsIInv == SettingsTypeOK /\ BackupIsOther /\ DemandHasTrigger

\* The main SIM and its backup of e, when c were these of before.
BackupFollows(c, e) == e.backup = OtherName(e.main) \/ (e.main = c.main /\ e.backup = c.backup)

\* One setting after the other.
Amid(c, e, S) == OnlyIn(c, e, S) /\ e \in Settings

LEMMA PutFirst ==
  ASSUME NEW c, c \in Settings, NEW f, NEW v, Fits(f, v), NEW S, f \in S
  PROVE  Amid(c, Put(c, f, v), S)
<1>1. OnlyIn(c, Put(c, f, v), S)
  BY PutOne
<1> QED
  BY <1>1 DEF Amid, OnlyIn

LEMMA PutNext ==
  ASSUME NEW c, NEW e, NEW S, Amid(c, e, S), NEW f, NEW v, Fits(f, v), f \in S
  PROVE  Amid(c, Put(e, f, v), S)
<1> DEFINE g == Put(e, f, v)
<1>1. OnlyIn(c, e, S) /\ e \in Settings
  BY DEF Amid
<1>2. OnlyIn(e, g, S)
  BY <1>1, PutOne
<1> HIDE DEF g
<1>3. OnlyIn(c, g, S)
  BY <1>1, <1>2, OnlyInTwice
<1>4. g \in Settings
  BY <1>2 DEF OnlyIn
<1> QED
  BY <1>3, <1>4 DEF Amid, g

LEMMA DualSet ==
  ASSUME NEW c \in Settings, NEW b \in BOOLEAN
  PROVE  OnlyIn(c, [c EXCEPT !.dual = b], {"dual"})
<1> DEFINE e == Put(c, "dual", b)
<1>1. Fits("dual", b)
  BY ValuesAre DEF Fits, SettingNames
<1>2. OnlyIn(c, e, {"dual"})
  BY <1>1, PutOne
<1> QED
  BY <1>2 DEF Put

LEMMA DualRetriesSet ==
  ASSUME NEW c \in Settings, NEW n \in {0, 3, 5}
  PROVE  OnlyIn(c, [c EXCEPT !.dual = TRUE, !.retries = n], {"dual", "retries"})
<1> DEFINE yes == TRUE
           e == Put(Put(c, "dual", yes), "retries", n)
<1>1. Fits("dual", yes) /\ Fits("retries", n) /\ Apart("dual", "retries")
  BY ValuesAre DEF Fits, Apart, SettingNames
<1>2. e = [c EXCEPT !.dual = TRUE, !.retries = n]
  BY DEF Put
<1> HIDE DEF yes
<1>3. OnlyIn(c, e, {"dual", "retries"})
  BY <1>1, PutTwo
<1> HIDE DEF e
<1> QED
  BY <1>2, <1>3

LEMMA EnableSet ==
  ASSUME NEW c \in Settings, NEW b \in BOOLEAN
  PROVE  OnlyIn(c, [c EXCEPT !.enable = b], {"enable"})
<1> DEFINE e == Put(c, "enable", b)
<1>1. Fits("enable", b)
  BY ValuesAre DEF Fits, SettingNames
<1>2. OnlyIn(c, e, {"enable"})
  BY <1>1, PutOne
<1> QED
  BY <1>2 DEF Put

LEMMA UseSet ==
  ASSUME NEW c \in Settings, NEW s \in SimNames, NEW n \in Profiles \cup {0}
  PROVE  OnlyIn(c, [c EXCEPT !.use[s] = n], {"use"})
<1> DEFINE v == [c.use EXCEPT ![s] = n]
           e == Put(c, "use", v)
<1>1. Fits("use", v)
  BY SettingsHave, ValuesAre DEF Fits, SettingNames
<1>2. e = [c EXCEPT !.use[s] = n]
  BY DEF Put
<1> HIDE DEF v
<1>3. OnlyIn(c, e, {"use"})
  BY <1>1, PutOne
<1> HIDE DEF e
<1> QED
  BY <1>2, <1>3

LEMMA OnlyInNames ==
  ASSUME NEW c, NEW e, NEW S, OnlyIn(c, e, S)
  PROVE  /\ e \in Settings
         /\ "main" \notin S => e.main = c.main
         /\ "backup" \notin S => e.backup = c.backup
         /\ "prof" \notin S => e.prof = c.prof
         /\ "mode" \notin S => e.mode = c.mode
         /\ "trig" \notin S => e.trig = c.trig
         /\ "use" \notin S => e.use = c.use
         /\ "use2" \notin S => e.use2 = c.use2
BY DEF OnlyIn, SettingNames

\* The steps of a front end that keep the settings settings.
ASetting(c, e) == e \in Settings /\ BackupFollows(c, e)

LEMMA WebDualSimIs ==
  ASSUME NEW c \in Settings, NEW form \in Forms
  PROVE  ASetting(c, WebDualSim(c, form)) /\ WebDualSim(c, form).prof = c.prof
<1> DEFINE off == [c EXCEPT !.dual = FALSE]
           m == [c EXCEPT !.dual = TRUE, !.retries = form.retries]
           set == SetMainSim(m, form.policy, form.main)
<1>1. /\ form.dual \in BOOLEAN /\ form.retries \in {0, 3, 5} /\ form.main \in SimNames
      /\ form.policy \in SimNames \cup {"random", "sequence"}
  BY DEF Forms
<1>2. WebDualSim(c, form) \in {off, m, set}
  BY DEF WebDualSim
<1>3. OnlyIn(c, off, {"dual"})
  BY DualSet
<1>4. OnlyIn(c, m, {"dual", "retries"})
  BY <1>1, DualRetriesSet
<1>5. m \in Settings
  BY <1>4 DEF OnlyIn
<1> HIDE DEF off, m
<1>6. OnlyIn(m, set, {"main", "backup", "policy"}) /\ set.backup = OtherName(form.main) /\ set.main = form.main
  BY <1>1, <1>5, MainSimSet
<1> HIDE DEF set
<1>7. off \in Settings /\ off.main = c.main /\ off.backup = c.backup /\ off.prof = c.prof
  BY <1>3, OnlyInNames
<1>8. m.main = c.main /\ m.backup = c.backup /\ m.prof = c.prof
  BY <1>4, OnlyInNames
<1>9. set \in Settings /\ set.prof = m.prof
  BY <1>6, OnlyInNames
<1> QED
  BY <1>2, <1>5, <1>6, <1>7, <1>8, <1>9 DEF ASetting, BackupFollows

\* The addresses, the mode and the profiles of a form.
FormSet(c, b, l, p, d, t, f) ==
  [c EXCEPT !.static = b, !.local = l, !.peer = p, !.mode = d, !.trig = t, !.prof = f]

LEMMA WebFormSet ==
  ASSUME NEW c \in Settings, NEW b \in BOOLEAN, NEW l \in BOOLEAN, NEW p \in {"none", "1.1.1.3", "own"},
         NEW d \in {"ONLINE", "DEMAND", "MANUAL"}, NEW t \in SUBSET {"traffic", "sms"},
         NEW f \in [Profiles -> {"none", "factory", "gsm", "cdma"}]
  PROVE  OnlyIn(c, FormSet(c, b, l, p, d, t, f),
                {"static", "local", "peer", "mode", "trig", "prof"})
<1> DEFINE S == {"static", "local", "peer", "mode", "trig", "prof"}
           c1 == Put(c, "static", b)
           c2 == Put(c1, "local", l)
           c3 == Put(c2, "peer", p)
           c4 == Put(c3, "mode", d)
           c5 == Put(c4, "trig", t)
           c6 == Put(c5, "prof", f)
<1>1. FormSet(c, b, l, p, d, t, f) = c6
  BY DEF FormSet, Put
<1>2. /\ Fits("static", b) /\ Fits("local", l) /\ Fits("peer", p)
      /\ Fits("mode", d) /\ Fits("trig", t) /\ Fits("prof", f)
  BY ValuesAre DEF Fits, SettingNames
<1>3. "static" \in S /\ "local" \in S /\ "peer" \in S /\ "mode" \in S /\ "trig" \in S /\ "prof" \in S
  OBVIOUS
<1> HIDE DEF S, c6
<1>4. Amid(c, c1, S)
  BY <1>2, <1>3, PutFirst
<1> HIDE DEF c1
<1>5. Amid(c, c2, S)
  BY <1>2, <1>3, <1>4, PutNext
<1> HIDE DEF c2
<1>6. Amid(c, c3, S)
  BY <1>2, <1>3, <1>5, PutNext
<1> HIDE DEF c3
<1>7. Amid(c, c4, S)
  BY <1>2, <1>3, <1>6, PutNext
<1> HIDE DEF c4
<1>8. Amid(c, c5, S)
  BY <1>2, <1>3, <1>7, PutNext
<1> HIDE DEF c5
<1>9. Amid(c, c6, S)
  BY <1>2, <1>3, <1>8, PutNext DEF c6
<1> QED
  BY <1>1, <1>9 DEF Amid, S

LEMMA ASettingOf ==
  ASSUME NEW c, NEW e, NEW S, OnlyIn(c, e, S), S \cap {"main", "backup"} = {}
  PROVE  ASetting(c, e)
<1>1. e \in Settings /\ e.main = c.main /\ e.backup = c.backup
  BY OnlyInNames
<1> QED
  BY <1>1 DEF ASetting, BackupFollows

LEMMA ASettingThen ==
  ASSUME NEW c, NEW e, NEW g, NEW S, ASetting(c, e), OnlyIn(e, g, S), S \cap {"main", "backup"} = {}
  PROVE  ASetting(c, g)
<1>1. g \in Settings /\ g.main = e.main /\ g.backup = e.backup
  BY OnlyInNames
<1> QED
  BY <1>1 DEF ASetting, BackupFollows

\* What a step does to the settings, when it is not one of the command line:
\* the profiles do not change without a new dial.
AStep(c, e, again) == ASetting(c, e) /\ (again = TRUE \/ e.prof = c.prof)

LEMMA WebFormStep ==
  ASSUME SettingsTypeOK, WebForm
  PROVE  AStep(cfg, cfg', redial') /\ switching' \in BOOLEAN /\ redial' \in BOOLEAN
<1>1. PICK form \in {f \in Forms : f.policy \in {f.main, "random"}} :
        LET dualDone == WebDualSim(cfg, form)
            secondDone == IF form.dual THEN [dualDone EXCEPT !.use["sim2"] = form.use["sim2"]]
                          ELSE dualDone
            firstDone == [secondDone EXCEPT !.use["sim1"] = form.use["sim1"]]
            done == [firstDone EXCEPT
              !.static = form.static,
              !.local = IF form.static /\ ~cfg.static THEN TRUE ELSE @,
              !.peer = IF form.static /\ ~cfg.static THEN "own" ELSE @,
              !.mode = form.mode, !.trig = IF form.mode = "DEMAND" THEN {"traffic"} ELSE @,
              !.prof = [n \in Profiles |-> IF n \in form.profiles THEN "gsm" ELSE "none"]]
        IN /\ switching' = WebFlag(cfg, form)
           /\ \/ cfg' = [dualDone EXCEPT !.enable = TRUE] /\ redial' = FALSE
              \/ cfg' = [secondDone EXCEPT !.enable = TRUE] /\ redial' = FALSE
              \/ cfg' = [done EXCEPT !.enable = TRUE] /\ redial' = TRUE
  BY DEF WebForm
<1> DEFINE dualDone == WebDualSim(cfg, form)
           secondDone == IF form.dual THEN [dualDone EXCEPT !.use["sim2"] = form.use["sim2"]] ELSE dualDone
           firstDone == [secondDone EXCEPT !.use["sim1"] = form.use["sim1"]]
           local == IF form.static /\ ~cfg.static THEN TRUE ELSE firstDone.local
           peer == IF form.static /\ ~cfg.static THEN "own" ELSE firstDone.peer
           trig == IF form.mode = "DEMAND" THEN {"traffic"} ELSE firstDone.trig
           prof == [n \in Profiles |-> IF n \in form.profiles THEN "gsm" ELSE "none"]
           done == [firstDone EXCEPT !.static = form.static, !.local = local, !.peer = peer,
                                     !.mode = form.mode, !.trig = trig, !.prof = prof]
<1>2. /\ switching' = WebFlag(cfg, form)
      /\ \/ cfg' = [dualDone EXCEPT !.enable = TRUE] /\ redial' = FALSE
         \/ cfg' = [secondDone EXCEPT !.enable = TRUE] /\ redial' = FALSE
         \/ cfg' = [done EXCEPT !.enable = TRUE] /\ redial' = TRUE
  BY <1>1
<1>3. /\ form \in Forms /\ form.use["sim1"] \in Profiles \cup {0} /\ form.use["sim2"] \in Profiles \cup {0}
      /\ form.static \in BOOLEAN /\ form.mode \in {"ONLINE", "DEMAND", "MANUAL"}
  BY SettingsConstantsOK DEF Forms, SimNames
<1>4. cfg \in Settings /\ switching \in BOOLEAN
  BY DEF SettingsTypeOK
<1>5. switching' \in BOOLEAN
  BY <1>2, <1>4 DEF WebFlag
<1>6. prof \in [Profiles -> {"none", "factory", "gsm", "cdma"}]
  OBVIOUS
<1> HIDE DEF prof
<1>7. ASetting(cfg, dualDone) /\ dualDone.prof = cfg.prof
  BY <1>3, <1>4, WebDualSimIs
<1> HIDE DEF dualDone
<1>8. ASetting(cfg, secondDone) /\ secondDone.prof = cfg.prof
  <2> DEFINE second == [dualDone EXCEPT !.use["sim2"] = form.use["sim2"]]
  <2>1. dualDone \in Settings
    BY <1>7 DEF ASetting
  <2>2. OnlyIn(dualDone, second, {"use"})
    BY <2>1, <1>3, UseSet DEF SimNames
  <2>3. secondDone \in {second, dualDone}
    OBVIOUS
  <2> HIDE DEF second, secondDone
  <2>4. ASetting(cfg, second) /\ second.prof = dualDone.prof
    BY <1>7, <2>2, ASettingThen, OnlyInNames
  <2> QED
    BY <1>7, <2>3, <2>4
<1> HIDE DEF secondDone
<1>9. ASetting(cfg, firstDone)
  <2>1. secondDone \in Settings
    BY <1>8 DEF ASetting
  <2>2. OnlyIn(secondDone, firstDone, {"use"})
    BY <2>1, <1>3, UseSet DEF SimNames
  <2> HIDE DEF firstDone
  <2> QED
    BY <1>8, <2>2, ASettingThen
<1> HIDE DEF firstDone
<1>10. ASetting(cfg, done)
  <2>1. firstDone \in Settings
    BY <1>9 DEF ASetting
  <2>2. firstDone.local \in BOOLEAN /\ firstDone.peer \in {"none", "1.1.1.3", "own"}
        /\ firstDone.trig \in SUBSET {"traffic", "sms"}
    BY <2>1 DEF Settings
  <2>3. local \in BOOLEAN /\ peer \in {"none", "1.1.1.3", "own"} /\ trig \in SUBSET {"traffic", "sms"}
    BY <2>2
  <2> HIDE DEF local, peer, trig
  <2>4. OnlyIn(firstDone, done, {"static", "local", "peer", "mode", "trig", "prof"})
    <3>1. OnlyIn(firstDone, FormSet(firstDone, form.static, local, peer, form.mode, trig, prof),
                 {"static", "local", "peer", "mode", "trig", "prof"})
      BY <2>1, <2>3, <1>3, <1>6, WebFormSet
    <3> QED
      BY <3>1 DEF FormSet
  <2> HIDE DEF done
  <2> QED
    BY <1>9, <2>4, ASettingThen
<1> HIDE DEF done
<1>11. ASSUME NEW c, ASetting(cfg, c) PROVE ASetting(cfg, [c EXCEPT !.enable = TRUE]) /\ [c EXCEPT !.enable = TRUE].prof = c.prof
  <2> DEFINE g == [c EXCEPT !.enable = TRUE]
  <2>1. c \in Settings
    BY <1>11 DEF ASetting
  <2>2. OnlyIn(c, g, {"enable"})
    BY <2>1, EnableSet
  <2> HIDE DEF g
  <2>3. ASetting(cfg, g) /\ g.prof = c.prof
    BY <1>11, <2>2, ASettingThen, OnlyInNames
  <2> QED
    BY <2>3 DEF g
<1> DEFINE e1 == [dualDone EXCEPT !.enable = TRUE]
           e2 == [secondDone EXCEPT !.enable = TRUE]
           e3 == [done EXCEPT !.enable = TRUE]
<1>12. ASetting(cfg, e1) /\ e1.prof = dualDone.prof
  BY <1>7, <1>11
<1>13. ASetting(cfg, e2) /\ e2.prof = secondDone.prof
  BY <1>8, <1>11
<1>14. ASetting(cfg, e3)
  BY <1>10, <1>11
<1>15. \/ cfg' = e1 /\ redial' = FALSE
       \/ cfg' = e2 /\ redial' = FALSE
       \/ cfg' = e3 /\ redial' = TRUE
  BY <1>2
<1> HIDE DEF e1, e2, e3
<1> QED
  BY <1>5, <1>7, <1>8, <1>12, <1>13, <1>14, <1>15 DEF AStep

LEMMA WebDisableStep ==
  ASSUME SettingsTypeOK, WebDisable
  PROVE  AStep(cfg, cfg', redial') /\ switching' \in BOOLEAN /\ redial' \in BOOLEAN
<1>1. OnlyIn(cfg, cfg', {"enable"})
  BY EnableSet DEF WebDisable, SettingsTypeOK
<1>2. ASetting(cfg, cfg')
  BY <1>1, ASettingOf
<1> QED
  BY <1>2 DEF AStep, WebDisable, SettingsTypeOK

\* Those that the cloud compares differ when a profile of a card does.
LEMMA ComparedProfiles ==
  ASSUME NEW c, NEW e, Compared(c) = Compared(e)
  PROVE  \A n \in 1 .. 4 : c.prof[n] = e.prof[n]
<1>1. Compared(c)[10] = c.prof[1] /\ Compared(c)[11] = c.prof[2] /\ Compared(c)[12] = c.prof[3]
      /\ Compared(c)[13] = c.prof[4]
  BY DEF Compared
<1>2. Compared(e)[10] = e.prof[1] /\ Compared(e)[11] = e.prof[2] /\ Compared(e)[12] = e.prof[3]
      /\ Compared(e)[13] = e.prof[4]
  BY DEF Compared
<1>3. c.prof[1] = e.prof[1] /\ c.prof[2] = e.prof[2] /\ c.prof[3] = e.prof[3] /\ c.prof[4] = e.prof[4]
  BY <1>1, <1>2
<1> QED
  BY <1>3

\* The fields that CloudSim writes.
CloudSet(c, s, u, u2, w, v) == [c EXCEPT !.use[s] = u, !.use2[s] = u2, !.wan2[s] = w, !.net[s] = v]

LEMMA CloudSimSet ==
  ASSUME NEW c \in Settings, NEW s \in SimNames, NEW u \in Profiles \cup {0}, NEW u2 \in Profiles \cup {0},
         NEW w \in BOOLEAN, NEW v \in {"auto", "4g"}
  PROVE  OnlyIn(c, CloudSet(c, s, u, u2, w, v), {"use", "use2", "wan2", "net"})
<1> DEFINE a == [c.use EXCEPT ![s] = u]
           b == [c.use2 EXCEPT ![s] = u2]
           d == [c.wan2 EXCEPT ![s] = w]
           n == [c.net EXCEPT ![s] = v]
           S == {"use", "use2", "wan2", "net"}
           c1 == Put(c, "use", a)
           c2 == Put(c1, "use2", b)
           c3 == Put(c2, "wan2", d)
           c4 == Put(c3, "net", n)
<1>1. CloudSet(c, s, u, u2, w, v) = c4
  BY DEF CloudSet, Put
<1>2. Fits("use", a) /\ Fits("use2", b) /\ Fits("wan2", d) /\ Fits("net", n)
  BY SettingsHave, ValuesAre DEF Fits, SettingNames
<1>3. "use" \in S /\ "use2" \in S /\ "wan2" \in S /\ "net" \in S
  OBVIOUS
<1> HIDE DEF a, b, d, n, S, c4
<1>4. Amid(c, c1, S)
  BY <1>2, <1>3, PutFirst
<1> HIDE DEF c1
<1>5. Amid(c, c2, S)
  BY <1>2, <1>3, <1>4, PutNext
<1> HIDE DEF c2
<1>6. Amid(c, c3, S)
  BY <1>2, <1>3, <1>5, PutNext
<1> HIDE DEF c3
<1>7. Amid(c, c4, S)
  BY <1>2, <1>3, <1>6, PutNext DEF c4
<1> QED
  BY <1>1, <1>7 DEF Amid, S

\* Nothing of what the properties speak of.
Still(c, e) == e \in Settings /\ e.prof = c.prof /\ e.main = c.main /\ e.backup = c.backup

LEMMA StillSteps == ASSUME NEW c, NEW e, NEW b, Still(c, e) PROVE AStep(c, e, b)
BY DEF Still, AStep, ASetting, BackupFollows

\* A setting that is none of those.
Aside(f) == f \notin {"prof", "main", "backup"}

LEMMA PutStill ==
  ASSUME NEW c, c \in Settings, NEW f, NEW v, Fits(f, v), Aside(f)
  PROVE  Still(c, Put(c, f, v))
<1> DEFINE e == Put(c, f, v)
<1>1. OnlyIn(c, e, {f})
  BY PutOne
<1> HIDE DEF e
<1>2. Still(c, e)
  BY <1>1, OnlyInNames DEF Aside, Still
<1> QED
  BY <1>2 DEF e

LEMMA StillProfiles == ASSUME NEW c, NEW e, Still(c, e) PROVE e \in Settings /\ e.prof = c.prof
BY DEF Still

LEMMA CloudSimStep ==
  ASSUME SettingsTypeOK, CloudSim
  PROVE  AStep(cfg, cfg', redial') /\ switching' \in BOOLEAN /\ redial' \in BOOLEAN
<1>1. PICK s \in SimNames, own \in BOOLEAN, second \in BOOLEAN, net \in {"auto", "4g"} :
        CloudSave(CloudSet(cfg, s, IF own THEN CloudProfile(s) ELSE 0, IF second THEN CloudProfile2(s) ELSE 0,
                           second, net))
  BY DEF CloudSim, CloudSet
<1> DEFINE u == IF own THEN CloudProfile(s) ELSE 0
           u2 == IF second THEN CloudProfile2(s) ELSE 0
<1>2. u \in Profiles \cup {0} /\ u2 \in Profiles \cup {0}
  BY SettingsConstantsOK DEF CloudProfile, CloudProfile2
<1>3. cfg' = CloudSet(cfg, s, u, u2, second, net) /\ redial' \in BOOLEAN
  BY <1>1 DEF CloudSave
<1> HIDE DEF u, u2
<1>4. OnlyIn(cfg, cfg', {"use", "use2", "wan2", "net"})
  BY <1>2, <1>3, CloudSimSet DEF SettingsTypeOK
<1>5. ASetting(cfg, cfg') /\ cfg'.prof = cfg.prof
  BY <1>4, ASettingOf, OnlyInNames
<1> QED
  BY SMTT(30), <1>3, <1>5 DEF AStep, CloudSim, SettingsTypeOK

LEMMA CloudDualSimStep ==
  ASSUME SettingsTypeOK, CloudDualSim
  PROVE  AStep(cfg, cfg', redial') /\ switching' \in BOOLEAN /\ redial' \in BOOLEAN
<1>1. PICK on \in BOOLEAN, s \in SimNames : /\ CloudSave(SetMainSim([cfg EXCEPT !.dual = on], s, s))
                                         /\ switching' = (switching \/ current # s)
  BY DEF CloudDualSim
<1> DEFINE c == [cfg EXCEPT !.dual = on]
           e == SetMainSim(c, s, s)
<1>2. OnlyIn(cfg, c, {"dual"})
  BY DualSet DEF SettingsTypeOK
<1>3. c \in Settings
  BY <1>2 DEF OnlyIn
<1>4. cfg' = e /\ redial' \in BOOLEAN /\ switching' \in BOOLEAN
  BY <1>1 DEF CloudSave, SettingsTypeOK
<1> HIDE DEF c
<1>5. OnlyIn(c, e, {"main", "backup", "policy"}) /\ e.main = s /\ e.backup = OtherName(s)
  BY <1>3, MainSimSet
<1> HIDE DEF e
<1>6. e \in Settings /\ e.prof = c.prof /\ c.prof = cfg.prof
  BY <1>2, <1>5, OnlyInNames
<1> QED
  BY <1>4, <1>5, <1>6 DEF AStep, ASetting, BackupFollows

LEMMA CloudModemStep ==
  ASSUME SettingsTypeOK, CloudModem
  PROVE  AStep(cfg, cfg', redial') /\ switching' \in BOOLEAN /\ redial' \in BOOLEAN
<1>1. cfg \in Settings /\ switching' \in BOOLEAN
  BY DEF SettingsTypeOK, CloudModem
<1>2. redial' \in BOOLEAN
  BY DEF CloudModem, CloudSave
<1>3. CASE \E b \in BOOLEAN : CloudSave([cfg EXCEPT !.enable = b])
  <2>1. PICK b \in BOOLEAN : cfg' = Put(cfg, "enable", b)
    BY <1>3 DEF CloudSave, Put
  <2>2. Fits("enable", b) /\ Aside("enable")
    BY ValuesAre DEF Fits, Aside, SettingNames
  <2>3. Still(cfg, cfg')
    BY <1>1, <2>1, <2>2, PutStill
  <2> QED
    BY <1>1, <1>2, <2>3, StillSteps
<1>4. CASE \E m \in {"ONLINE", "DEMAND", "MANUAL"} : CloudSave([cfg EXCEPT !.mode = m])
  <2>1. PICK m \in {"ONLINE", "DEMAND", "MANUAL"} : cfg' = Put(cfg, "mode", m)
    BY <1>4 DEF CloudSave, Put
  <2>2. Fits("mode", m) /\ Aside("mode")
    BY ValuesAre DEF Fits, Aside, SettingNames
  <2>3. Still(cfg, cfg')
    BY <1>1, <2>1, <2>2, PutStill
  <2> QED
    BY <1>1, <1>2, <2>3, StillSteps
<1>5. CASE \E b \in BOOLEAN : CloudSave([cfg EXCEPT !.netmask = b])
  <2>1. PICK b \in BOOLEAN : cfg' = Put(cfg, "netmask", b)
    BY <1>5 DEF CloudSave, Put
  <2>2. Fits("netmask", b) /\ Aside("netmask")
    BY ValuesAre DEF Fits, Aside, SettingNames
  <2>3. Still(cfg, cfg')
    BY <1>1, <2>1, <2>2, PutStill
  <2> QED
    BY <1>1, <1>2, <2>3, StillSteps
<1>6. CASE \E n \in 1 .. 4 : CloudSave([cfg EXCEPT !.prof[n] = "gsm"])
  <2>1. PICK n \in 1 .. 4 : CloudSave([cfg EXCEPT !.prof[n] = "gsm"])
    BY <1>6
  <2>2. cfg' = [cfg EXCEPT !.prof[n] = "gsm"] /\ redial' = (Compared(cfg') # Compared(cfg))
    BY <2>1 DEF CloudSave
  <2>3. n \in Profiles
    BY SettingsConstantsOK
  <2> DEFINE a == [cfg.prof EXCEPT ![n] = "gsm"]
  <2>4. Fits("prof", a)
    BY <1>1, <2>3, SettingsHave, ValuesAre DEF Fits, SettingNames
  <2>5. cfg' = Put(cfg, "prof", a)
    BY <2>2 DEF Put
  <2>6. DOMAIN cfg.prof = Profiles
    BY <1>1, SettingsHave, ValuesAre DEF SettingNames
  <2>7. \A k \in Profiles : k # n => a[k] = cfg.prof[k]
    BY <2>6
  <2>8. a = [k \in Profiles |-> a[k]] /\ cfg.prof = [k \in Profiles |-> cfg.prof[k]]
    BY <1>1, SettingsHave, ValuesAre DEF SettingNames
  <2> HIDE DEF a
  <2>9. OnlyIn(cfg, cfg', {"prof"}) /\ Has(cfg', "prof", a)
    BY <1>1, <2>4, <2>5, PutOne
  <2>10. cfg' \in Settings /\ cfg'.main = cfg.main /\ cfg'.backup = cfg.backup /\ cfg'.prof = a
    BY <2>9, OnlyInNames DEF Has
  <2>11. redial' = TRUE \/ cfg'.prof[n] = cfg.prof[n]
    BY <2>2, ComparedProfiles
  <2>12. redial' = TRUE \/ cfg'.prof = cfg.prof
    BY <2>3, <2>7, <2>8, <2>10, <2>11
  <2> QED
    BY <1>1, <1>2, <2>10, <2>12 DEF AStep, ASetting, BackupFollows
<1> QED
  BY <1>3, <1>4, <1>5, <1>6 DEF CloudModem

LEMMA NetconfCellularStep ==
  ASSUME SettingsTypeOK, NetconfCellular
  PROVE  /\ cfg' \in Settings /\ switching' \in BOOLEAN /\ redial' \in BOOLEAN
         /\ redial' = TRUE \/ cfg'.prof = cfg.prof
<1>1. cfg \in Settings /\ switching' \in BOOLEAN /\ redial' = TRUE
  BY DEF SettingsTypeOK, NetconfCellular
<1>2. \A s \in SimNames : ApnOf(s) \in Profiles
  BY SettingsConstantsOK DEF ApnOf
<1>3. CASE \E b \in BOOLEAN : cfg' = [cfg EXCEPT !.enable = b]
  <2>1. PICK b \in BOOLEAN : cfg' = Put(cfg, "enable", b)
    BY <1>3 DEF Put
  <2>2. Fits("enable", b) /\ Aside("enable")
    BY ValuesAre DEF Fits, Aside, SettingNames
  <2>3. Still(cfg, cfg')
    BY <1>1, <2>1, <2>2, PutStill
  <2> QED
    BY <1>1, <2>3, StillProfiles
<1>4. CASE \E m \in {"ONLINE", "DEMAND", "MANUAL"} : cfg' = [cfg EXCEPT !.mode = m]
  <2>1. PICK m \in {"ONLINE", "DEMAND", "MANUAL"} : cfg' = Put(cfg, "mode", m)
    BY <1>4 DEF Put
  <2>2. Fits("mode", m) /\ Aside("mode")
    BY ValuesAre DEF Fits, Aside, SettingNames
  <2>3. Still(cfg, cfg')
    BY <1>1, <2>1, <2>2, PutStill
  <2> QED
    BY <1>1, <2>3, StillProfiles
<1>5. CASE \E s \in SimNames, b \in BOOLEAN : cfg' = [cfg EXCEPT !.roam[s] = b]
  <2>1. PICK s \in SimNames, b \in BOOLEAN : cfg' = [cfg EXCEPT !.roam[s] = b]
    BY <1>5
  <2> DEFINE a == [cfg.roam EXCEPT ![s] = b]
  <2>2. Fits("roam", a) /\ Aside("roam")
    BY <1>1, SettingsHave, ValuesAre DEF Fits, Aside, SettingNames
  <2>3. cfg' = Put(cfg, "roam", a)
    BY <2>1 DEF Put
  <2> HIDE DEF a
  <2>4. Still(cfg, cfg')
    BY <1>1, <2>2, <2>3, PutStill
  <2> QED
    BY <1>1, <2>4, StillProfiles
<1>6. CASE \E s \in SimNames, v \in {"auto", "4g"} : cfg' = [cfg EXCEPT !.net[s] = v]
  <2>1. PICK s \in SimNames, v \in {"auto", "4g"} : cfg' = [cfg EXCEPT !.net[s] = v]
    BY <1>6
  <2> DEFINE a == [cfg.net EXCEPT ![s] = v]
  <2>2. Fits("net", a) /\ Aside("net")
    BY <1>1, SettingsHave, ValuesAre DEF Fits, Aside, SettingNames
  <2>3. cfg' = Put(cfg, "net", a)
    BY <2>1 DEF Put
  <2> HIDE DEF a
  <2>4. Still(cfg, cfg')
    BY <1>1, <2>2, <2>3, PutStill
  <2> QED
    BY <1>1, <2>4, StillProfiles
<1>7. CASE \E s \in SimNames : cfg' = [cfg EXCEPT !.prof[ApnOf(s)] = "gsm", !.use[s] = ApnOf(s)]
  <2>1. PICK s \in SimNames : cfg' = [cfg EXCEPT !.prof[ApnOf(s)] = "gsm", !.use[s] = ApnOf(s)]
    BY <1>7
  <2> DEFINE a == [cfg.prof EXCEPT ![ApnOf(s)] = "gsm"]
             d == [cfg.use EXCEPT ![s] = ApnOf(s)]
  <2>2. Fits("prof", a) /\ Fits("use", d) /\ Apart("prof", "use")
    BY <1>1, <1>2, SettingsHave, ValuesAre DEF Fits, Apart, SettingNames
  <2>3. cfg' = Put(Put(cfg, "prof", a), "use", d)
    BY <2>1 DEF Put
  <2> HIDE DEF a, d
  <2>4. OnlyIn(cfg, cfg', {"prof", "use"})
    BY <1>1, <2>2, <2>3, PutTwo
  <2> QED
    BY <1>1, <2>4, OnlyInNames
<1>8. CASE \E s \in SimNames : cfg' = [cfg EXCEPT !.prof[ApnOf(s)] = "none", !.use[s] = 0]
  <2>1. PICK s \in SimNames : cfg' = [cfg EXCEPT !.prof[ApnOf(s)] = "none", !.use[s] = 0]
    BY <1>8
  <2> DEFINE a == [cfg.prof EXCEPT ![ApnOf(s)] = "none"]
             d == [cfg.use EXCEPT ![s] = 0]
  <2>2. Fits("prof", a) /\ Fits("use", d) /\ Apart("prof", "use")
    BY <1>1, <1>2, SettingsHave, ValuesAre DEF Fits, Apart, SettingNames
  <2>3. cfg' = Put(Put(cfg, "prof", a), "use", d)
    BY <2>1 DEF Put
  <2> HIDE DEF a, d
  <2>4. OnlyIn(cfg, cfg', {"prof", "use"})
    BY <1>1, <2>2, <2>3, PutTwo
  <2> QED
    BY <1>1, <2>4, OnlyInNames
<1> QED
  BY <1>1, <1>3, <1>4, <1>5, <1>6, <1>7, <1>8 DEF NetconfCellular

LEMMA NetconfDualSimStep ==
  ASSUME SettingsTypeOK, NetconfDualSim
  PROVE  /\ cfg' \in Settings /\ switching' \in BOOLEAN /\ redial' \in BOOLEAN
         /\ redial' = TRUE \/ cfg'.prof = cfg.prof
<1>1. cfg \in Settings /\ switching' \in BOOLEAN /\ redial' \in BOOLEAN
  BY DEF SettingsTypeOK, NetconfDualSim
<1>2. CASE \E b \in BOOLEAN : cfg' = [cfg EXCEPT !.dual = b]
  <2>1. PICK b \in BOOLEAN : cfg' = Put(cfg, "dual", b)
    BY <1>2 DEF Put
  <2>2. Fits("dual", b) /\ Aside("dual")
    BY ValuesAre DEF Fits, Aside, SettingNames
  <2>3. Still(cfg, cfg')
    BY <1>1, <2>1, <2>2, PutStill
  <2> QED
    BY <1>1, <2>3, StillProfiles
<1>3. CASE \E n \in {0, 3, 5} : cfg' = [cfg EXCEPT !.retries = n]
  <2>1. PICK n \in {0, 3, 5} : cfg' = Put(cfg, "retries", n)
    BY <1>3 DEF Put
  <2>2. Fits("retries", n) /\ Aside("retries")
    BY ValuesAre DEF Fits, Aside, SettingNames
  <2>3. Still(cfg, cfg')
    BY <1>1, <2>1, <2>2, PutStill
  <2> QED
    BY <1>1, <2>3, StillProfiles
<1>4. CASE \E b \in BOOLEAN : cfg' = [cfg EXCEPT !.backtime = b]
  <2>1. PICK b \in BOOLEAN : cfg' = Put(cfg, "backtime", b)
    BY <1>4 DEF Put
  <2>2. Fits("backtime", b) /\ Aside("backtime")
    BY ValuesAre DEF Fits, Aside, SettingNames
  <2>3. Still(cfg, cfg')
    BY <1>1, <2>1, <2>2, PutStill
  <2> QED
    BY <1>1, <2>3, StillProfiles
<1>5. CASE \E s \in SimNames, b \in BOOLEAN : cfg' = [cfg EXCEPT !.csq[s] = b]
  <2>1. PICK s \in SimNames, b \in BOOLEAN : cfg' = [cfg EXCEPT !.csq[s] = b]
    BY <1>5
  <2> DEFINE a == [cfg.csq EXCEPT ![s] = b]
  <2>2. Fits("csq", a) /\ Aside("csq")
    BY <1>1, SettingsHave, ValuesAre DEF Fits, Aside, SettingNames
  <2>3. cfg' = Put(cfg, "csq", a)
    BY <2>1 DEF Put
  <2> HIDE DEF a
  <2>4. Still(cfg, cfg')
    BY <1>1, <2>2, <2>3, PutStill
  <2> QED
    BY <1>1, <2>4, StillProfiles
<1>6. CASE \E s \in SimNames : cfg' = [cfg EXCEPT !.main = s, !.policy = s]
  <2>1. PICK s \in SimNames : cfg' = Put(Put(cfg, "main", s), "policy", s)
    BY <1>6 DEF Put
  <2>2. Fits("main", s) /\ Fits("policy", s) /\ Apart("main", "policy")
    BY ValuesAre DEF Fits, Apart, SettingNames
  <2>3. OnlyIn(cfg, cfg', {"main", "policy"})
    BY <1>1, <2>1, <2>2, PutTwo
  <2> QED
    BY <1>1, <2>3, OnlyInNames
<1>7. CASE \E p \in {"random", "sequence"}, s \in SimNames : cfg' = [cfg EXCEPT !.main = s, !.policy = p]
  <2>1. PICK p \in {"random", "sequence"}, s \in SimNames : cfg' = Put(Put(cfg, "main", s), "policy", p)
    BY <1>7 DEF Put
  <2>2. Fits("main", s) /\ Fits("policy", p) /\ Apart("main", "policy")
    BY ValuesAre DEF Fits, Apart, SettingNames
  <2>3. OnlyIn(cfg, cfg', {"main", "policy"})
    BY <1>1, <2>1, <2>2, PutTwo
  <2> QED
    BY <1>1, <2>3, OnlyInNames
<1> QED
  BY <1>1, <1>2, <1>3, <1>4, <1>5, <1>6, <1>7 DEF NetconfDualSim

LEMMA NetconfAdvancedStep ==
  ASSUME SettingsTypeOK, NetconfAdvanced
  PROVE  /\ cfg' \in Settings /\ switching' \in BOOLEAN /\ redial' \in BOOLEAN
         /\ redial' = TRUE \/ cfg'.prof = cfg.prof
<1>1. cfg \in Settings /\ switching' \in BOOLEAN /\ redial' \in BOOLEAN
  BY DEF SettingsTypeOK, NetconfAdvanced
<1>2. CASE \E b \in BOOLEAN : cfg' = [cfg EXCEPT !.infinite = b]
  <2>1. PICK b \in BOOLEAN : cfg' = Put(cfg, "infinite", b)
    BY <1>2 DEF Put
  <2>2. Fits("infinite", b) /\ Aside("infinite")
    BY ValuesAre DEF Fits, Aside, SettingNames
  <2>3. Still(cfg, cfg')
    BY <1>1, <2>1, <2>2, PutStill
  <2> QED
    BY <1>1, <2>3, StillProfiles
<1>3. CASE \E b \in BOOLEAN : cfg' = [cfg EXCEPT !.plain["loud"] = b]
  <2>1. PICK b \in BOOLEAN : cfg' = [cfg EXCEPT !.plain["loud"] = b]
    BY <1>3
  <2> DEFINE a == [cfg.plain EXCEPT !["loud"] = b]
  <2>2. Fits("plain", a) /\ Aside("plain")
    BY <1>1, SettingsHave, ValuesAre DEF Fits, Aside, SettingNames, Plain
  <2>3. cfg' = Put(cfg, "plain", a)
    BY <2>1 DEF Put
  <2> HIDE DEF a
  <2>4. Still(cfg, cfg')
    BY <1>1, <2>2, <2>3, PutStill
  <2> QED
    BY <1>1, <2>4, StillProfiles
<1> QED
  BY <1>1, <1>2, <1>3 DEF NetconfAdvanced

LEMMA NetconfInterfaceStep ==
  ASSUME SettingsTypeOK, NetconfInterface
  PROVE  /\ cfg' \in Settings /\ switching' \in BOOLEAN /\ redial' \in BOOLEAN
         /\ redial' = TRUE \/ cfg'.prof = cfg.prof
<1>1. cfg \in Settings /\ switching' \in BOOLEAN /\ redial' \in BOOLEAN
  BY DEF SettingsTypeOK, NetconfInterface
<1>2. CASE \E b \in BOOLEAN : cfg' = [cfg EXCEPT !.local = b]
  <2>1. PICK b \in BOOLEAN : cfg' = Put(cfg, "local", b)
    BY <1>2 DEF Put
  <2>2. Fits("local", b) /\ Aside("local")
    BY ValuesAre DEF Fits, Aside, SettingNames
  <2>3. Still(cfg, cfg')
    BY <1>1, <2>1, <2>2, PutStill
  <2> QED
    BY <1>1, <2>3, StillProfiles
<1>3. CASE \E b \in BOOLEAN : cfg' = [cfg EXCEPT !.netmask = b]
  <2>1. PICK b \in BOOLEAN : cfg' = Put(cfg, "netmask", b)
    BY <1>3 DEF Put
  <2>2. Fits("netmask", b) /\ Aside("netmask")
    BY ValuesAre DEF Fits, Aside, SettingNames
  <2>3. Still(cfg, cfg')
    BY <1>1, <2>1, <2>2, PutStill
  <2> QED
    BY <1>1, <2>3, StillProfiles
<1>4. CASE \E p \in {"none", "own"} : cfg' = [cfg EXCEPT !.peer = p]
  <2>1. PICK p \in {"none", "own"} : cfg' = Put(cfg, "peer", p)
    BY <1>4 DEF Put
  <2>2. Fits("peer", p) /\ Aside("peer")
    BY ValuesAre DEF Fits, Aside, SettingNames
  <2>3. Still(cfg, cfg')
    BY <1>1, <2>1, <2>2, PutStill
  <2> QED
    BY <1>1, <2>3, StillProfiles
<1> QED
  BY <1>1, <1>2, <1>3, <1>4 DEF NetconfInterface

LEMMA RunParts ==
  ASSUME NEW d \in Daemons, NEW m, Do(d.cfg, m) \in Settings
  PROVE  /\ Run(d, m).cfg = Do(d.cfg, m)
         /\ Run(d, m).flag \in BOOLEAN /\ Run(d, m).redial \in BOOLEAN
         /\ Do(d.cfg, m) # d.cfg /\ Restarts(Do(d.cfg, m), d.sim, m) => Run(d, m).redial = TRUE
<1>1. Run(d, m) \in Daemons /\ Run(d, m).cfg = Do(d.cfg, m)
  BY RunIs
<1>2. Run(d, m).redial = (Do(d.cfg, m) # d.cfg /\ Restarts(Do(d.cfg, m), d.sim, m))
  BY DEF Run
<1> QED
  BY <1>1, <1>2 DEF Daemons

\* What a command of the command line does.
LEMMA CliStep ==
  ASSUME SettingsTypeOK, Cli
  PROVE  /\ cfg' \in Settings /\ switching' \in BOOLEAN /\ redial' \in BOOLEAN
         /\ BackupFollows(cfg, cfg')
         /\ (cfg.mode = "DEMAND" => cfg.trig # {}) => (cfg'.mode = "DEMAND" => cfg'.trig # {})
         /\ \A n \in Profiles :
              cfg'.prof[n] # cfg.prof[n] /\ cfg'.prof[n] # "none"
              /\ (\E s \in SimNames : n = cfg.use[s] \/ n = cfg.use2[s]) => redial' = TRUE
<1>1. PICK m \in CliCommands :
        LET d == Run([cfg |-> cfg, sim |-> current, flag |-> switching, redial |-> FALSE], m)
        IN cfg' = d.cfg /\ switching' = d.flag /\ redial' = d.redial
  BY DEF Cli
<1> DEFINE f == [cfg |-> cfg, sim |-> current, flag |-> switching, redial |-> FALSE]
           e == Do(cfg, m)
<1>2. f \in Daemons /\ f.cfg = cfg /\ f.sim = current
  BY DEF SettingsTypeOK, Daemons
<1>3. cfg' = Run(f, m).cfg /\ switching' = Run(f, m).flag /\ redial' = Run(f, m).redial
  BY <1>1
<1> HIDE DEF f
<1>4. cfg \in Settings
  BY DEF SettingsTypeOK
<1>5. CommandDid(cfg, m, e)
  BY <1>4, CommandDoes
<1> HIDE DEF e
<1>6. e \in Settings
  BY <1>5 DEF CommandDid, Harmless, OnlyIn
<1>7. /\ Run(f, m).cfg = e /\ Run(f, m).flag \in BOOLEAN /\ Run(f, m).redial \in BOOLEAN
      /\ e # cfg /\ Restarts(e, current, m) => Run(f, m).redial = TRUE
  <2>1. Do(f.cfg, m) = e
    BY <1>2 DEF e
  <2>2. Do(f.cfg, m) \in Settings
    BY <2>1, <1>6
  <2> QED
    BY <1>2, <2>1, <2>2, RunParts
<1>8. cfg' = e /\ switching' \in BOOLEAN /\ redial' \in BOOLEAN
  BY <1>3, <1>7
<1>9. e # cfg /\ Restarts(e, current, m) => redial' = TRUE
  BY <1>3, <1>7
<1> DEFINE Same == e.main = cfg.main /\ e.backup = cfg.backup
           SameMode == e.mode = cfg.mode /\ e.trig = cfg.trig
<1>10. CASE Harmless(cfg, e)
  BY <1>6, <1>8, <1>10 DEF Harmless, BackupFollows
<1>11. CASE m[1] = "profile" /\ OnlyIn(cfg, e, {"prof"}) /\ e.prof = [cfg.prof EXCEPT ![m[2]] = m[3]]
  <2>1. Same /\ SameMode /\ e.use = cfg.use /\ e.use2 = cfg.use2
    BY <1>11, OnlyInNames
  <2>2. ASSUME NEW n \in Profiles, e.prof[n] # cfg.prof[n], NEW s \in SimNames, n = cfg.use[s] \/ n = cfg.use2[s]
        PROVE  redial' = TRUE
    <3>1. n = m[2]
      <4>1. cfg.prof \in [Profiles -> {"none", "factory", "gsm", "cdma"}]
        BY <1>4 DEF Settings
      <4> QED
        BY <4>1, <1>11, <2>2
    <3>2. InUse(e, m[2])
      BY <2>1, <2>2, <3>1 DEF InUse
    <3>3. Restarts(e, current, m)
      BY <1>11, <3>2 DEF Restarts
    <3> QED
      BY <1>9, <2>2, <3>3
  <2> QED
    BY <1>6, <1>8, <2>1, <2>2 DEF BackupFollows
<1>12. CASE m[1] = "no profile" /\ OnlyIn(cfg, e, {"prof"}) /\ \A n \in Profiles : e.prof[n] \in {cfg.prof[n], "none"}
  <2>0. OnlyIn(cfg, e, {"prof"})
    BY <1>12
  <2>1. Same /\ SameMode
    BY <2>0, OnlyInNames
  <2> QED
    BY <1>6, <1>8, <1>12, <2>1 DEF BackupFollows
<1>13. CASE OnlyIn(cfg, e, {"main", "backup", "policy"}) /\ e.backup = OtherName(e.main)
  <2>1. SameMode /\ e.prof = cfg.prof
    BY <1>13, OnlyInNames
  <2> QED
    BY <1>6, <1>8, <1>13, <2>1 DEF BackupFollows
<1>14. CASE OnlyIn(cfg, e, {"mode", "trig"}) /\ (e.mode = "DEMAND" => e.trig # {})
  <2>1. Same /\ e.prof = cfg.prof
    BY <1>14, OnlyInNames
  <2> QED
    BY <1>6, <1>8, <1>14, <2>1 DEF BackupFollows
<1> QED
  BY <1>5, <1>10, <1>11, <1>12, <1>13, <1>14 DEF CommandDid

\* A boot.
LEMMA RebootStep ==
  ASSUME SettingsTypeOK, Reboot
  PROVE  /\ cfg' \in Settings /\ switching' \in BOOLEAN /\ redial' = TRUE
         /\ cfg'.backup = OtherName(cfg'.main)
         /\ cfg'.mode = "DEMAND" => cfg'.trig # {}
<1> DEFINE b == Booted(cfg)
           a == AfterReboot(cfg)
<1>1. cfg \in Settings
  BY DEF SettingsTypeOK
<1>2. b \in Daemons /\ b.cfg = a
  BY <1>1, BootedIs
<1>3. cfg' = b.cfg /\ switching' = b.flag /\ redial' = TRUE
  BY DEF Reboot
<1> HIDE DEF b
<1>4. cfg' \in Settings /\ switching' \in BOOLEAN /\ cfg' = a
  BY <1>2, <1>3 DEF Daemons
<1>5. a.main = IF cfg.dual = TRUE THEN cfg.main ELSE "sim1"
  BY <1>1, AfterDual
<1>6. a.backup = IF cfg.dual = TRUE THEN OtherName(cfg.main) ELSE "sim2"
  BY <1>1, AfterDual
<1>7. a.mode = (IF cfg.mode = "DEMAND" /\ cfg.trig = {} THEN "ONLINE" ELSE cfg.mode)
  BY <1>1, AfterSimple
<1>8. a.trig = (IF cfg.mode = "DEMAND" THEN cfg.trig ELSE {})
  BY <1>1, AfterSimple
<1> HIDE DEF a
<1>9. a.backup = OtherName(a.main)
  BY <1>5, <1>6 DEF OtherName
<1> QED
  BY <1>3, <1>4, <1>7, <1>8, <1>9

-----------------------------------------------------------------------------
(* The settings.                                                           *)

\* A front end other than the command line, once its step is known.
LEMMA StepByOther ==
  ASSUME SettingsIInv, NEW f, ChangedBy(f), f # "cli", f = "netconf" \/ BackupFollows(cfg, cfg'),
         cfg' \in Settings, switching' \in BOOLEAN, redial' \in BOOLEAN
  PROVE  SettingsIInv'
<1>1. SettingsTypeOK /\ BackupIsOther
  BY DEF SettingsIInv
<1>2. SettingsTypeOK'
  BY <1>1, SettingsConstantsOK DEF SettingsTypeOK, ChangedBy
<1>3. f \in by' /\ by' = by \cup {f}
  BY DEF ChangedBy
<1>4. BackupIsOther'
  BY <1>1, <1>3 DEF BackupIsOther, BackupFollows
<1>5. DemandHasTrigger'
  BY <1>3 DEF DemandHasTrigger
<1> QED
  BY <1>2, <1>4, <1>5 DEF SettingsIInv

LEMMA StepByFront ==
  ASSUME SettingsIInv, NEW f, ChangedBy(f), f # "cli", AStep(cfg, cfg', redial'),
         switching' \in BOOLEAN, redial' \in BOOLEAN
  PROVE  SettingsIInv'
<1>1. cfg' \in Settings /\ BackupFollows(cfg, cfg')
  BY DEF AStep, ASetting
<1> QED
  BY <1>1, StepByOther

LEMMA SettingsStart == SettingsInit => SettingsIInv
<1> SUFFICES ASSUME SettingsInit PROVE SettingsIInv
  OBVIOUS
<1>1. cfg = Default /\ Default \in Settings
  BY DefaultIs DEF SettingsInit
<1>2. cfg \in Settings
  BY <1>1
<1>3. current = "sim1" /\ switching = FALSE /\ redial = FALSE /\ by = {} /\ commands = 0
  BY DEF SettingsInit
<1>4. SettingsTypeOK
  <2>1. MaxCommands \in Nat
    BY SettingsConstantsOK
  <2>2. commands \in 0 .. MaxCommands /\ by \subseteq Fronts
    BY <1>3, <2>1
  <2>3. current \in SimNames
    BY <1>3 DEF SimNames
  <2> QED
    BY <1>2, <1>3, <2>2, <2>3 DEF SettingsTypeOK
<1>5. Default.main = "sim1" /\ Default.backup = "sim2" /\ Default.mode = "ONLINE"
  BY DEF Default
<1> HIDE DEF Default
<1> QED
  BY <1>1, <1>4, <1>5 DEF SettingsIInv, BackupIsOther, DemandHasTrigger, OtherName

\* Whatever is done to the settings, the invariant stays.
LEMMA SettingsStay == SettingsIInv /\ [SettingsNext]_settingsVars => SettingsIInv'
<1> SUFFICES ASSUME SettingsIInv, [SettingsNext]_settingsVars PROVE SettingsIInv'
  OBVIOUS
<1>1. SettingsTypeOK /\ BackupIsOther /\ DemandHasTrigger
  BY DEF SettingsIInv
<1>2. CASE Cli
  <2>1. /\ cfg' \in Settings /\ switching' \in BOOLEAN /\ redial' \in BOOLEAN
        /\ BackupFollows(cfg, cfg')
        /\ (cfg.mode = "DEMAND" => cfg.trig # {}) => (cfg'.mode = "DEMAND" => cfg'.trig # {})
    BY <1>1, <1>2, CliStep
  <2>2. by' = by \cup {"cli"} /\ "cli" \in Fronts /\ commands' = commands + 1 /\ commands < MaxCommands
        /\ current' = current
    BY <1>2 DEF Cli
  <2>3. SettingsTypeOK'
    BY <1>1, <2>1, <2>2, SettingsConstantsOK DEF SettingsTypeOK
  <2>4. BackupIsOther'
    <3> SUFFICES ASSUME by' \subseteq {"cli", "web", "cloud"} PROVE cfg'.backup = OtherName(cfg'.main)
      BY Zenon DEF BackupIsOther
    <3>1. by \subseteq {"cli", "web", "cloud"}
      BY <2>2
    <3>2. cfg.backup = OtherName(cfg.main)
      BY <1>1, <3>1, Zenon DEF BackupIsOther
    <3>3. BackupFollows(cfg, cfg')
      BY <2>1, Zenon
    <3> QED
      BY <3>2, <3>3, Zenon DEF BackupFollows
  <2>5. DemandHasTrigger'
    <3> SUFFICES ASSUME by' \subseteq {"cli"} PROVE cfg'.mode = "DEMAND" => cfg'.trig # {}
      BY Zenon DEF DemandHasTrigger
    <3>1. by \subseteq {"cli"}
      BY <2>2
    <3>2. cfg.mode = "DEMAND" => cfg.trig # {}
      BY <1>1, <3>1, Zenon DEF DemandHasTrigger
    <3> QED
      BY <2>1, <3>2, Zenon
  <2> QED
    BY <2>3, <2>4, <2>5 DEF SettingsIInv
<1>3. CASE WebForm
  BY <1>1, <1>3, WebFormStep, StepByFront DEF WebForm
<1>4. CASE WebDisable
  BY <1>1, <1>4, WebDisableStep, StepByFront DEF WebDisable
<1>5. CASE CloudSim
  BY <1>1, <1>5, CloudSimStep, StepByFront DEF CloudSim
<1>6. CASE CloudDualSim
  BY <1>1, <1>6, CloudDualSimStep, StepByFront DEF CloudDualSim
<1>7. CASE CloudModem
  <2>1. ChangedBy("cloud")
    BY <1>7 DEF CloudModem
  <2> QED
    BY <1>1, <1>7, <2>1, CloudModemStep, StepByFront
<1>8. CASE NetconfCellular
  <2>1. ChangedBy("netconf")
    BY <1>8 DEF NetconfCellular
  <2> QED
    BY <1>1, <1>8, <2>1, NetconfCellularStep, StepByOther
<1>9. CASE NetconfDualSim
  BY <1>1, <1>9, NetconfDualSimStep, StepByOther DEF NetconfDualSim
<1>10. CASE NetconfAdvanced
  BY <1>1, <1>10, NetconfAdvancedStep, StepByOther DEF NetconfAdvanced
<1>11. CASE NetconfInterface
  BY <1>1, <1>11, NetconfInterfaceStep, StepByOther DEF NetconfInterface
<1>12. CASE NetconfSwitch
  BY <1>1, <1>12, StepByOther DEF NetconfSwitch, SettingsTypeOK
<1>13. CASE Switch
  <2>1. SettingsTypeOK'
    <3>1. cfg.main \in SimNames /\ cfg.backup \in SimNames
      BY <1>1 DEF SettingsTypeOK, Settings
    <3>2. current' \in SimNames /\ switching' = FALSE /\ redial' = FALSE
      BY <3>1, <1>13 DEF Switch
    <3>3. cfg' = cfg /\ by' = by /\ commands' = commands
      BY <1>13 DEF Switch
    <3> QED
      BY <1>1, <3>2, <3>3 DEF SettingsTypeOK
  <2> QED
    BY <1>1, <1>13, <2>1 DEF Switch, SettingsIInv, BackupIsOther, DemandHasTrigger
<1>14. CASE Reboot
  <2>1. /\ cfg' \in Settings /\ switching' \in BOOLEAN /\ redial' = TRUE
        /\ cfg'.backup = OtherName(cfg'.main)
        /\ cfg'.mode = "DEMAND" => cfg'.trig # {}
    BY <1>1, <1>14, RebootStep
  <2>2. by' = by /\ commands' = commands + 1 /\ commands < MaxCommands /\ current' = "sim1"
    BY <1>14 DEF Reboot
  <2>3. SettingsTypeOK'
    BY <1>1, <2>1, <2>2, SettingsConstantsOK DEF SettingsTypeOK, SimNames
  <2> QED
    BY <2>1, <2>3 DEF SettingsIInv, BackupIsOther, DemandHasTrigger
<1>15. CASE UNCHANGED settingsVars
  BY <1>1, <1>15 DEF SettingsIInv, SettingsTypeOK, BackupIsOther, DemandHasTrigger, settingsVars
<1> QED
  BY <1>2, <1>3, <1>4, <1>5, <1>6, <1>7, <1>8, <1>9, <1>10, <1>11, <1>12, <1>13, <1>14, <1>15 DEF SettingsNext

\* The inductive invariant of the settings: their types, the backup that follows
\* the main SIM until NETCONF sets it, and the triggers of a dialer on demand.
THEOREM SettingsInvariant == SettingsSpec => []SettingsIInv
<1>1. SettingsInit => SettingsIInv
  BY SettingsStart
<1>2. SettingsIInv /\ [SettingsNext]_settingsVars => SettingsIInv'
  BY SettingsStay
<1> QED
  BY <1>1, <1>2, PTL DEF SettingsSpec

\* SettingsLast: whatever commands, forms, messages and boots there have been, the
\* router that boots next has the settings it was saved with, but for what
\* AfterReboot() says, and a dialer that the command line alone has set up to wait
\* for a demand has something that can demand it.
THEOREM SettingsAlwaysLast == SettingsSpec => []SettingsLast
<1>1. SettingsIInv => SettingsLast
  <2> SUFFICES ASSUME SettingsIInv PROVE SettingsLast
    OBVIOUS
  <2>1. SettingsTypeOK /\ DemandHasTrigger
    BY DEF SettingsIInv
  <2>2. RebootKeeps
    BY <2>1, BootedIs DEF RebootKeeps, SettingsTypeOK
  <2> QED
    BY <2>1, <2>2 DEF SettingsLast
<1> QED
  BY <1>1, SettingsInvariant, PTL

\* The two parts of SettingsTakeEffect, for one step.
RedialsOnChange ==
  \A n \in Profiles :
    cfg'.prof[n] # cfg.prof[n] /\ cfg'.prof[n] # "none" /\ current' = current /\ commands' # commands
    /\ (\E s \in SimNames : n = cfg.use[s] \/ (cfg.wan2[s] /\ n = cfg.use2[s]))
      => redial'

SwitchesToOther ==
  by \subseteq {"cli", "web", "cloud"} /\ commands' = commands /\ switching /\ ~switching'
    => current' # current

LEMMA RedialStep == SettingsIInv /\ [SettingsNext]_settingsVars => RedialsOnChange
<1> SUFFICES ASSUME SettingsIInv, [SettingsNext]_settingsVars PROVE RedialsOnChange
  OBVIOUS
<1>1. SettingsTypeOK
  BY DEF SettingsIInv
<1>2. CASE Cli
  BY <1>1, <1>2, CliStep DEF RedialsOnChange
<1>3. ASSUME redial' = TRUE \/ cfg'.prof = cfg.prof PROVE RedialsOnChange
  BY <1>3 DEF RedialsOnChange
<1>4. CASE WebForm \/ WebDisable \/ CloudSim \/ CloudDualSim \/ CloudModem
  <2>1. AStep(cfg, cfg', redial')
    BY <1>1, <1>4, WebFormStep, WebDisableStep, CloudSimStep, CloudDualSimStep, CloudModemStep
  <2> QED
    BY <2>1, <1>3 DEF AStep
<1>5. CASE NetconfCellular \/ NetconfDualSim \/ NetconfAdvanced \/ NetconfInterface
  <2>1. redial' = TRUE \/ cfg'.prof = cfg.prof
    BY <1>1, <1>5, NetconfCellularStep, NetconfDualSimStep, NetconfAdvancedStep, NetconfInterfaceStep
  <2> QED
    BY <2>1, <1>3
<1>6. CASE NetconfSwitch \/ Switch \/ UNCHANGED settingsVars
  BY <1>3, <1>6 DEF NetconfSwitch, Switch, settingsVars
<1>7. CASE Reboot
  BY <1>3, <1>7 DEF Reboot
<1> QED
  BY <1>2, <1>4, <1>5, <1>6, <1>7 DEF SettingsNext

LEMMA SwitchStep == SettingsIInv /\ [SettingsNext]_settingsVars => SwitchesToOther
<1> SUFFICES ASSUME SettingsIInv, [SettingsNext]_settingsVars PROVE SwitchesToOther
  OBVIOUS
<1>1. current \in SimNames /\ commands \in Nat /\ BackupIsOther /\ cfg \in Settings
  BY SettingsConstantsOK DEF SettingsIInv, SettingsTypeOK
<1>2. CASE Switch
  <2>1. current' = IF current = cfg.main THEN cfg.backup ELSE cfg.main
    BY <1>2 DEF Switch
  <2>2. by \subseteq {"cli", "web", "cloud"} => cfg.backup # cfg.main
    BY <1>1 DEF BackupIsOther, OtherName
  <2> QED
    BY <2>1, <2>2 DEF SwitchesToOther
<1>3. CASE UNCHANGED settingsVars
  BY <1>3 DEF settingsVars, SwitchesToOther
<1>4. CASE SettingsNext /\ ~Switch
  <2>1. commands' = commands + 1 \/ commands' = commands + 2
    <3>1. CASE Cli
      BY <3>1 DEF Cli
    <3>2. CASE Reboot
      BY <3>2 DEF Reboot
    <3>3. ASSUME NEW f, ChangedBy(f) PROVE commands' = commands + 2
      BY <3>3 DEF ChangedBy
    <3>4. CASE WebForm
      BY <3>3, <3>4, Zenon DEF WebForm
    <3>5. CASE WebDisable
      BY <3>3, <3>5, Zenon DEF WebDisable
    <3>6. CASE CloudSim
      BY <3>3, <3>6, Zenon DEF CloudSim
    <3>7. CASE CloudDualSim
      BY <3>3, <3>7, Zenon DEF CloudDualSim
    <3>8. CASE CloudModem
      BY <3>3, <3>8, Zenon DEF CloudModem
    <3>9. CASE NetconfCellular
      BY <3>3, <3>9, Zenon DEF NetconfCellular
    <3>10. CASE NetconfDualSim
      BY <3>3, <3>10, Zenon DEF NetconfDualSim
    <3>11. CASE NetconfAdvanced
      BY <3>3, <3>11, Zenon DEF NetconfAdvanced
    <3>12. CASE NetconfInterface
      BY <3>3, <3>12, Zenon DEF NetconfInterface
    <3>13. CASE NetconfSwitch
      BY <3>3, <3>13, Zenon DEF NetconfSwitch
    <3> QED
      BY <1>4, <3>1, <3>2, <3>4, <3>5, <3>6, <3>7, <3>8, <3>9, <3>10, <3>11, <3>12, <3>13 DEF SettingsNext
  <2>2. commands' # commands
    BY <1>1, <2>1
  <2> QED
    BY <2>2 DEF SwitchesToOther
<1> QED
  BY <1>2, <1>3, <1>4

\* SettingsTakeEffect: no front end changes a profile in use without a new dial, and
\* no switch of the SIM cards ends on the card it began with, unless NETCONF has
\* set the two.
THEOREM SettingsAlwaysTakeEffect == SettingsSpec => SettingsTakeEffect
<1>1. SettingsIInv /\ [SettingsNext]_settingsVars => [RedialsOnChange]_settingsVars /\ [SwitchesToOther]_settingsVars
  BY RedialStep, SwitchStep
<1>2. SettingsSpec => [][RedialsOnChange]_settingsVars /\ [][SwitchesToOther]_settingsVars
  BY <1>1, SettingsInvariant, PTL DEF SettingsSpec
<1> QED
  BY <1>2 DEF SettingsTakeEffect, ProfileChangeRedials, SwitchMovesToOther, RedialsOnChange, SwitchesToOther
==============================================================================
