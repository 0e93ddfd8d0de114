-------------------------------- MODULE Mutex --------------------------------
(***************************************************************************)
(* mutex_lock_interruptible and mutex_unlock of Linux,                     *)
(* kernel/locking/mutex.c, the lock sync_lock of the workers: the word     *)
(* lock->owner (a task and three flags) that is changed by compare and     *)
(* exchange, and the list of waiters under the spin lock wait_lock.        *)
(*                                                                         *)
(* A failed trylock of the fast path or of the optimistic spin changes     *)
(* nothing and is not a step; a step under wait_lock is split wherever the *)
(* word may change in between.                                             *)
(***************************************************************************)
EXTENDS Naturals, Sequences

CONSTANTS
  Tasks,
  Interruptible,  \* the tasks a signal may reach
  Nobody

ASSUME NobodyIsNoTask == Nobody \notin Tasks /\ Interruptible \subseteq Tasks

VARIABLES
  owner,      \* the task in lock->owner
  flags,      \* the flags in lock->owner: WAITERS, HANDOFF, PICKUP
  wait_list,
  wait_lock,  \* who has the spin lock
  pc,         \* where each task is
  sleeping,   \* it is in TASK_INTERRUPTIBLE
  first,      \* its variable first
  handoff,    \* the flag HANDOFF in its copy of lock->owner, in unlock
  next,       \* its variable next, in unlock
  signal      \* a signal is pending for it

word == <<owner, flags>>
waiters == <<wait_list, wait_lock>>
vars == <<word, waiters, pc, sleeping, first, handoff, next, signal>>

Init ==
  /\ owner = Nobody
  /\ flags = {}
  /\ wait_list = <<>>
  /\ wait_lock = Nobody
  /\ pc = [t \in Tasks |-> "idle"]
  /\ sleeping = [t \in Tasks |-> FALSE]
  /\ first = [t \in Tasks |-> FALSE]
  /\ handoff = [t \in Tasks |-> FALSE]
  /\ next = [t \in Tasks |-> Nobody]
  /\ signal = [t \in Tasks |-> FALSE]

Goto(t, l) == pc' = [pc EXCEPT ![t] = l]
Sleep(t, b) == sleeping' = [sleeping EXCEPT ![t] = b]

CanTakeAnyPickup(t) ==  \* mutant: any task may pick up
  owner = Nobody \/ "PICKUP" \in flags

(* __mutex_trylock_common gets the lock.                                   *)
CanTake(t) == owner = Nobody \/ (owner = t /\ "PICKUP" \in flags)
Take(t) == owner' = t /\ flags' = flags \ {"PICKUP"}

IsFirst(t) == wait_list # <<>> /\ Head(wait_list) = t

(* list_del.                                                               *)
Others(t) ==
  LET k == CHOOSE j \in 1 .. Len(wait_list) : wait_list[j] = t
  IN  SubSeq(wait_list, 1, k - 1) \o SubSeq(wait_list, k + 1, Len(wait_list))

(* __mutex_remove_waiter, and the spin lock is released.                   *)
RemoveWaiter(t) ==
  /\ wait_list' = Others(t)
  /\ flags' = IF Others(t) = <<>> THEN {} ELSE flags
  /\ wait_lock' = Nobody
-----------------------------------------------------------------------------
Lock(t) ==
  /\ pc[t] = "idle"
  /\ Goto(t, "enter")
  /\ UNCHANGED <<word, waiters, sleeping, first, handoff, next, signal>>

(* The fast path, the first trylock of the slow path, optimistic spinning. *)
Trylock(t) ==
  /\ pc[t] = "enter"
  /\ CanTake(t)
  /\ Take(t)
  /\ Goto(t, "held")
  /\ UNCHANGED <<waiters, sleeping, first, handoff, next, signal>>

(* The spin lock is taken, and the mutex tried again.                      *)
EnterSlowpath(t) ==
  /\ pc[t] = "enter"
  /\ wait_lock = Nobody
  /\ IF CanTake(t)
     THEN Take(t) /\ Goto(t, "held") /\ UNCHANGED wait_lock
     ELSE wait_lock' = t /\ Goto(t, "add") /\ UNCHANGED word
  /\ UNCHANGED <<wait_list, sleeping, first, handoff, next, signal>>

AddAndSleep(t) ==  \* mutant: the mutex is not tried again once in the list
  /\ pc[t] = "add"
  /\ wait_list' = Append(wait_list, t)
  /\ flags' = flags \cup IF wait_list = <<>> THEN {"WAITERS"} ELSE {}
  /\ Sleep(t, TRUE)
  /\ Goto(t, "signal")
  /\ UNCHANGED <<owner, wait_lock, first, handoff, next, signal>>

AddWaiter(t) ==
  /\ pc[t] = "add"
  /\ wait_list' = Append(wait_list, t)
  /\ flags' = flags \cup IF wait_list = <<>> THEN {"WAITERS"} ELSE {}
  /\ Sleep(t, TRUE)
  /\ Goto(t, "check")
  /\ UNCHANGED <<owner, wait_lock, first, handoff, next, signal>>

(* The top of the loop, under wait_lock.                                   *)
TrylockWaiting(t) ==
  /\ pc[t] = "check"
  /\ IF CanTake(t)
     THEN Take(t) /\ Goto(t, "acquired")
     ELSE Goto(t, "signal") /\ UNCHANGED word
  /\ UNCHANGED <<waiters, sleeping, first, handoff, next, signal>>

CheckSignal(t) ==
  /\ pc[t] = "signal"
  /\ IF signal[t]
     THEN RemoveWaiter(t) /\ Sleep(t, FALSE) /\ Goto(t, "eintr")
     ELSE /\ wait_lock' = Nobody /\ Goto(t, "schedule")
          /\ UNCHANGED <<wait_list, flags, sleeping>>
  /\ UNCHANGED <<owner, first, handoff, next, signal>>

(* schedule() returns when the task was woken or has a signal.             *)
Awake(t) ==
  /\ pc[t] = "schedule"
  /\ ~sleeping[t] \/ signal[t]
  /\ first' = [first EXCEPT ![t] = IsFirst(t)]
  /\ Sleep(t, TRUE)
  /\ Goto(t, "again")
  /\ UNCHANGED <<word, waiters, handoff, next, signal>>

(* __mutex_trylock_or_handoff: the first waiter asks for the mutex.        *)
TrylockOrHandoff(t) ==
  /\ pc[t] = "again"
  /\ IF CanTake(t)
     THEN Take(t) /\ Goto(t, "acquired")
     ELSE /\ flags' = flags \cup IF first[t] /\ "PICKUP" \notin flags
                                 THEN {"HANDOFF"} ELSE {}
          /\ Goto(t, "relock")
          /\ UNCHANGED owner
  /\ UNCHANGED <<waiters, sleeping, first, handoff, next, signal>>

(* Optimistic spinning of the first waiter.                                *)
TrylockFirst(t) ==
  /\ pc[t] = "relock"
  /\ first[t]
  /\ CanTake(t)
  /\ Take(t)
  /\ Goto(t, "acquired")
  /\ UNCHANGED <<waiters, sleeping, first, handoff, next, signal>>

RelockSignalFirst(t) ==  \* mutant: the signal is tested before the trylock
  /\ pc[t] = "relock"
  /\ wait_lock = Nobody
  /\ wait_lock' = t
  /\ Goto(t, IF signal[t] THEN "signal" ELSE "check")
  /\ UNCHANGED <<word, wait_list, sleeping, first, handoff, next, signal>>

Relock(t) ==
  /\ pc[t] = "relock"
  /\ wait_lock = Nobody
  /\ wait_lock' = t
  /\ Goto(t, "check")
  /\ UNCHANGED <<word, wait_list, sleeping, first, handoff, next, signal>>

(* The label acquired.                                                     *)
Acquired(t) ==
  /\ pc[t] = "acquired"
  /\ wait_lock \in {Nobody, t}
  /\ RemoveWaiter(t)
  /\ Sleep(t, FALSE)
  /\ Goto(t, "held")
  /\ UNCHANGED <<owner, first, handoff, next, signal>>

UnlockNoHandoff(t) ==  \* mutant: the word is released in any case
  /\ pc[t] = "held"
  /\ owner' = Nobody
  /\ Goto(t, IF flags \cap {"HANDOFF", "WAITERS"} = {} THEN "done"
             ELSE "unlock_slowpath")
  /\ UNCHANGED <<flags, waiters, sleeping, first, handoff, next, signal>>

(* mutex_unlock: the word is released, unless the first waiter asked for   *)
(* it.                                                                     *)
Unlock(t) ==
  /\ pc[t] = "held"
  /\ handoff' = [handoff EXCEPT ![t] = "HANDOFF" \in flags]
  /\ owner' = IF "HANDOFF" \in flags THEN owner ELSE Nobody
  /\ Goto(t, IF flags \cap {"HANDOFF", "WAITERS"} = {} THEN "done"
             ELSE "unlock_slowpath")
  /\ UNCHANGED <<flags, waiters, sleeping, first, next, signal>>

(* The first waiter is to be woken, and gets the mutex if it asked for it. *)
UnlockSlowpath(t) ==
  LET n == IF wait_list = <<>> THEN Nobody ELSE Head(wait_list)
  IN  /\ pc[t] = "unlock_slowpath"
      /\ wait_lock = Nobody
      /\ next' = [next EXCEPT ![t] = n]
      /\ IF handoff[t]
         THEN /\ owner' = n
              /\ flags' = (flags \cap {"WAITERS"})
                          \cup IF n # Nobody THEN {"PICKUP"} ELSE {}
         ELSE UNCHANGED word
      /\ Goto(t, "wake_up")
      /\ UNCHANGED <<waiters, sleeping, first, handoff, signal>>

WakeUp(t) ==
  /\ pc[t] = "wake_up"
  /\ sleeping' = [u \in Tasks |-> sleeping[u] /\ u # next[t]]
  /\ next' = [next EXCEPT ![t] = Nobody]
  /\ Goto(t, "done")
  /\ UNCHANGED <<word, waiters, first, handoff, signal>>

(* A signal: for the workers, the kthread_stop of the call.                *)
Interrupt(t) ==
  /\ t \in Interruptible
  /\ ~signal[t]
  /\ signal' = [signal EXCEPT ![t] = TRUE]
  /\ UNCHANGED <<word, waiters, pc, sleeping, first, handoff, next>>

(* The worker is over; another one may take its place.                     *)
Leave(t) ==
  /\ pc[t] \in {"done", "eintr"}
  /\ Goto(t, "idle")
  /\ first' = [first EXCEPT ![t] = FALSE]
  /\ handoff' = [handoff EXCEPT ![t] = FALSE]
  /\ signal' = [signal EXCEPT ![t] = FALSE]
  /\ UNCHANGED <<word, waiters, sleeping, next>>

(* __mutex_lock_common, and mutex_unlock.                                  *)
LockStep(t) ==
  \/ Trylock(t)
  \/ EnterSlowpath(t)
  \/ AddWaiter(t)
  \/ TrylockWaiting(t)
  \/ CheckSignal(t)
  \/ Awake(t)
  \/ TrylockOrHandoff(t)
  \/ TrylockFirst(t)
  \/ Relock(t)
  \/ Acquired(t)

UnlockStep(t) == Unlock(t) \/ UnlockSlowpath(t) \/ WakeUp(t)

Next ==
  \E t \in Tasks :
    \/ Lock(t)
    \/ LockStep(t)
    \/ UnlockStep(t)
    \/ Interrupt(t)
    \/ Leave(t)

Spec == Init /\ [][Next]_vars

(* Tasks run and a holder unlocks.  The fairness is strong for the sake of *)
(* the steps that take the spin lock, which is a queued one and serves     *)
(* every task in its turn; the others stay enabled until they are taken.   *)
FairSpec == Spec /\ \A t \in Tasks : SF_vars(LockStep(t) \/ UnlockStep(t))
-----------------------------------------------------------------------------
Labels ==
  {"idle", "enter", "add", "check", "signal", "schedule", "again", "relock",
   "acquired", "held", "unlock_slowpath", "wake_up", "done", "eintr"}

(* Every variable keeps its type.                                          *)
TypeOK ==
  /\ owner \in Tasks \cup {Nobody}
  /\ flags \subseteq {"WAITERS", "HANDOFF", "PICKUP"}
  /\ wait_list \in Seq(Tasks)
  /\ wait_lock \in Tasks \cup {Nobody}
  /\ pc \in [Tasks -> Labels]
  /\ sleeping \in [Tasks -> BOOLEAN]
  /\ first \in [Tasks -> BOOLEAN]
  /\ handoff \in [Tasks -> BOOLEAN]
  /\ next \in [Tasks -> Tasks \cup {Nobody}]
  /\ signal \in [Tasks -> BOOLEAN]

(* The three MUTEX_WARN_ON of the code are never true: a free word has     *)
(* neither HANDOFF nor PICKUP, and whoever unlocks is in the word, without *)
(* PICKUP.                                                                 *)
NoWarning ==
  /\ owner = Nobody => flags \cap {"HANDOFF", "PICKUP"} = {}
  /\ \A t \in Tasks :
       \/ pc[t] = "held"
       \/ pc[t] = "unlock_slowpath" /\ handoff[t]
       => owner = t /\ "PICKUP" \notin flags

(* The mutex belongs to somebody who will release it: a task in the        *)
(* critical section, or the waiter it was handed to, which is still in the *)
(* loop and has not left with -EINTR.                                      *)
HandoffNotLost ==
  owner # Nobody =>
    pc[owner] \in IF "PICKUP" \in flags
                  THEN {"check", "signal", "schedule", "again", "relock"}
                  ELSE {"acquired", "held", "unlock_slowpath"}

PhaseOf(t) ==
  CASE owner = t -> "in"
    [] owner # t /\ pc[t] = "enter" -> "asking"
    [] owner # t /\ pc[t] \in {"add", "check", "signal", "schedule", "again",
                               "relock"} -> "waiting"
    [] owner # t /\ pc[t] = "eintr" -> "interrupted"
    [] OTHER -> "out"

Phase == [t \in Tasks |-> PhaseOf(t)]

Abstract == INSTANCE InterruptibleLock WITH holder <- owner, phase <- Phase

(* The mutex is the lock XorSyscall takes it for: one holder, -EINTR only  *)
(* for a task that found it held and was interrupted.                      *)
ImplementsLock == Abstract!Spec

(* mutex_lock_interruptible returns: no wake-up goes missing, and a        *)
(* sleeper is not overtaken for ever by tasks that take the mutex as they  *)
(* come.                                                                   *)
LockReturns ==
  \A t \in Tasks : pc[t] = "enter" ~> pc[t] \in {"held", "eintr"}
=============================================================================
