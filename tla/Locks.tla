-------------------------------- MODULE Locks --------------------------------
(***************************************************************************)
(* The two locks of libshared: file_lock(), a System V semaphore made on   *)
(* first use and given back by the kernel when its holder dies (SEM_UNDO), *)
(* and simple_lock(), a file whose PRESENCE means that the lock is free    *)
(* and which a process that has waited long enough takes by force.         *)
(*                                                                         *)
(* One action per system call that another process can interleave with.    *)
(***************************************************************************)
EXTENDS Naturals, FiniteSets

CONSTANTS
  Procs,  \* the processes that lock
  Tries   \* 5 + pid % 10: looks at the lock file before it is broken

ASSUME LocksConstantsOK == IsFiniteSet(Procs) /\ Tries \in Nat \ {0}

VARIABLES
  made,    \* the semaphore set exists
  inited,  \* its creator has set it to 1
  value,   \* the value of the semaphore
  at,      \* where each process is
  undo,    \* semadj of each process: what the kernel gives back when it dies
  free,    \* the lock file exists
  left,    \* the looks each process has left
  breaks   \* locks broken so far, up to one for every process

semaphore == <<made, inited, value, undo>>
file      == <<free, left, breaks>>
lockVars  == <<made, inited, value, at, undo, free, left, breaks>>

\* The timeout of sem_op(): negative, zero, positive.
Waits  == {"blocked", "once", "timed"}
Places == Waits \cup {"out", "creating", "held", "trying", "in"}

LocksTypeOK ==
  /\ made \in BOOLEAN /\ inited \in BOOLEAN /\ value \in Nat
  /\ at \in [Procs -> Places] /\ undo \in [Procs -> 0 .. 1]
  /\ free \in BOOLEAN /\ left \in [Procs -> 0 .. Tries]
  /\ breaks \in Nat

LocksInit ==
  /\ made = FALSE /\ inited = FALSE /\ value = 0
  /\ at = [p \in Procs |-> "out"] /\ undo = [p \in Procs |-> 0]
  /\ free \in BOOLEAN /\ left = [p \in Procs |-> 0] /\ breaks = 0

MoveTo(p, place) == at' = [at EXCEPT ![p] = place]

-----------------------------------------------------------------------------
(* file_lock(): sem_new(), then sem_lock().                                *)

Create(p) ==
  /\ at[p] = "out" /\ ~made
  /\ made' = TRUE /\ MoveTo(p, "creating")
  /\ UNCHANGED <<inited, value, undo, file>>

\* SETVAL also clears what the kernel would undo.
SetVal(p) ==
  /\ at[p] = "creating"
  /\ inited' = TRUE /\ value' = 1 /\ undo' = [q \in Procs |-> 0]
  /\ \E w \in Waits : MoveTo(p, w)
  /\ UNCHANGED <<made, file>>

\* Mutant: whoever finds the set has not been operated on yet initialises it.
OpenAndInit(p) ==
  /\ at[p] = "out" /\ made
  /\ value' = 1 /\ inited' = TRUE
  /\ \E w \in Waits : MoveTo(p, w)
  /\ UNCHANGED <<made, undo, file>>

\* "FIXME": a set found is taken to be initialised, whatever sem_otime says.
Open(p) ==
  /\ at[p] = "out" /\ made
  /\ \E w \in Waits : MoveTo(p, w)
  /\ UNCHANGED <<semaphore, file>>

\* Mutant: without SEM_UNDO.
TakeForEver(p) ==
  /\ at[p] \in Waits /\ value > 0
  /\ value' = value - 1 /\ MoveTo(p, "held")
  /\ UNCHANGED <<made, inited, undo, file>>

\* semop(-1) succeeds.  The loop of a positive timeout tries again until it
\* does: it never counts its timeout down.
Take(p) ==
  /\ at[p] \in Waits /\ value > 0
  /\ value' = value - 1 /\ undo' = [undo EXCEPT ![p] = @ + 1]
  /\ MoveTo(p, "held")
  /\ UNCHANGED <<made, inited, file>>

\* timeout 0: one attempt; file_lock() returns -1, with which file_unlock()
\* does nothing.
GiveUp(p) ==
  /\ at[p] = "once" /\ value = 0
  /\ MoveTo(p, "out")
  /\ UNCHANGED <<semaphore, file>>

FileUnlock(p) ==
  /\ at[p] = "held"
  /\ value' = value + 1 /\ undo' = [undo EXCEPT ![p] = @ - 1]
  /\ MoveTo(p, "out")
  /\ UNCHANGED <<made, inited, file>>

-----------------------------------------------------------------------------
(* simple_lock().                                                          *)

SimpleLock(p) ==
  /\ at[p] = "out"
  /\ left' = [left EXCEPT ![p] = Tries] /\ MoveTo(p, "trying")
  /\ UNCHANGED <<semaphore, free, breaks>>

\* One round of the loop: unlink() takes the lock if the file was there; at
\* the last look the lock is broken.
Try(p) ==
  /\ at[p] = "trying"
  /\ \/ /\ free
        /\ free' = FALSE /\ MoveTo(p, "in")
        /\ UNCHANGED <<left, breaks>>
     \/ /\ ~free
        /\ left' = [left EXCEPT ![p] = @ - 1]
        /\ IF left[p] = 1
           THEN /\ MoveTo(p, "in")
                /\ breaks' = IF breaks < Cardinality(Procs) THEN breaks + 1 ELSE breaks
           ELSE UNCHANGED <<at, breaks>>
        /\ UNCHANGED free
  /\ UNCHANGED semaphore

SimpleUnlock(p) ==
  /\ at[p] = "in"
  /\ free' = TRUE /\ MoveTo(p, "out")
  /\ UNCHANGED <<semaphore, left, breaks>>

-----------------------------------------------------------------------------
\* A process dies; the kernel undoes its semaphore operations, nobody puts
\* the lock file back.
Die(p) ==
  /\ at[p] # "out"
  /\ value' = value + undo[p] /\ undo' = [undo EXCEPT ![p] = 0]
  /\ MoveTo(p, "out")
  /\ UNCHANGED <<made, inited, file>>

LocksNext ==
  \E p \in Procs :
    \/ Create(p) \/ SetVal(p) \/ Open(p) \/ Take(p) \/ GiveUp(p) \/ FileUnlock(p)
    \/ SimpleLock(p) \/ Try(p) \/ SimpleUnlock(p)
    \/ Die(p)

LocksSpec == LocksInit /\ [][LocksNext]_lockVars

\* A process that waits without a timeout sleeps in semop(); any other tries with
\* IPC_NOWAIT, every 100 ms if it has a timeout.
TakeAsleep(p) == at[p] = "blocked" /\ Take(p)
TakeAwake(p)  == at[p] # "blocked" /\ Take(p)

\* A process runs.  The kernel queues the sleepers of a semaphore and wakes them in
\* turn; it does not know of those that poll.
LocksFairness ==
  \A p \in Procs : /\ WF_lockVars(SetVal(p)) /\ WF_lockVars(GiveUp(p))
                   /\ WF_lockVars(FileUnlock(p)) /\ WF_lockVars(Try(p))
                   /\ SF_lockVars(TakeAsleep(p)) /\ WF_lockVars(TakeAwake(p))

LocksFairSpec == LocksSpec /\ LocksFairness

-----------------------------------------------------------------------------
(* Properties.                                                             *)

Holders == {p \in Procs : at[p] = "held"}
Inside  == {p \in Procs : at[p] = "in"}

\* file_lock() excludes: whoever made the semaphore, whoever found it half
\* made, and whoever died holding it, two processes never hold it (sysv_ipc.c
\* l.156-282).
FileLockExcludes == \A p, q \in Holders : p = q

\* Once initialised the semaphore is never lost and never doubled: either it is
\* free or exactly one living process has it (SEM_UNDO, l.257).
SemaphoreIsConserved == inited => value + Cardinality(Holders) = 1

\* simple_lock() excludes as long as nobody has broken it, and each break lets
\* at most one process too many in, however it is released afterwards (lock.c
\* l.84-125).
BreaksAreBounded == Cardinality(Inside) + (IF free THEN 1 ELSE 0) <= 1 + breaks

\* Nor does a dead holder block file_lock() for ever, unless the process that
\* was creating the semaphore died before it had set it: a sleeper gets the
\* semaphore; one that polls gets it too, or has been forestalled by another, as
\* it may be again and again.
DeathIsSurvived ==
  \A p \in Procs :
    /\ []<>~(inited /\ at[p] = "blocked")
    /\ []<>~(inited /\ at[p] = "timed" /\ \A q \in Procs : at[q] # "held")

\* The locks the programs share, as they rely on them (sysv_ipc.c l.156-282,
\* lock.c l.84-125).
LockIsKept ==
  LocksTypeOK /\ FileLockExcludes /\ SemaphoreIsConserved /\ BreaksAreBounded
=============================================================================
