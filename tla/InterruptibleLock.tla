-------------------------- MODULE InterruptibleLock --------------------------
(***************************************************************************)
(* What mutex_lock_interruptible and mutex_unlock promise, and what the    *)
(* workers of XorSyscall use: one holder at a time, a task waits only when *)
(* it found the lock held, and gives up waiting only if it was             *)
(* interrupted.                                                            *)
(***************************************************************************)
CONSTANTS Tasks, Nobody

VARIABLES
  holder,  \* the task that has the lock
  phase,   \* what each task is doing about it
  signal   \* it has been interrupted

vars == <<holder, phase, signal>>

Init ==
  /\ holder = Nobody
  /\ phase = [t \in Tasks |-> "out"]
  /\ signal = [t \in Tasks |-> FALSE]

Enter(t, p) == phase' = [phase EXCEPT ![t] = p]

Ask(t) ==
  /\ phase[t] = "out"
  /\ Enter(t, "asking")
  /\ UNCHANGED <<holder, signal>>

Acquire(t) ==
  /\ phase[t] \in {"asking", "waiting"}
  /\ holder = Nobody
  /\ holder' = t
  /\ Enter(t, "in")
  /\ UNCHANGED signal

Wait(t) ==
  /\ phase[t] = "asking"
  /\ holder \notin {Nobody, t}
  /\ Enter(t, "waiting")
  /\ UNCHANGED <<holder, signal>>

GiveUp(t) ==
  /\ phase[t] = "waiting"
  /\ signal[t]
  /\ Enter(t, "interrupted")
  /\ UNCHANGED <<holder, signal>>

Release(t) ==
  /\ phase[t] = "in"
  /\ holder' = Nobody
  /\ Enter(t, "out")
  /\ UNCHANGED signal

(* Release(t) and at once Acquire(u).                                      *)
HandOver(t, u) ==
  /\ phase[t] = "in"
  /\ phase[u] = "waiting"
  /\ holder' = u
  /\ phase' = [phase EXCEPT ![t] = "out", ![u] = "in"]
  /\ UNCHANGED signal

Interrupt(t) ==
  /\ signal' = [signal EXCEPT ![t] = TRUE]
  /\ UNCHANGED <<holder, phase>>

(* The task goes on to something else.                                     *)
Leave(t) ==
  /\ phase[t] \in {"out", "interrupted"}
  /\ Enter(t, "out")
  /\ signal' = [signal EXCEPT ![t] = FALSE]
  /\ UNCHANGED holder

Next ==
  \E t \in Tasks :
    \/ Ask(t)
    \/ Acquire(t)
    \/ Wait(t)
    \/ GiveUp(t)
    \/ Release(t)
    \/ \E u \in Tasks : HandOver(t, u)
    \/ Interrupt(t)
    \/ Leave(t)

Spec == Init /\ [][Next]_vars
=============================================================================
