--------------------------- MODULE KthreadCreate ---------------------------
(***************************************************************************)
(* kthread_run and kthread_stop of Linux, kernel/kthread.c, as my_encrypt  *)
(* and my_decrypt use them: a creator hands a structure on the heap        *)
(* (create) with a pointer to a completion on its own stack (done) to the  *)
(* thread kthreadd, which forks the new thread.  A creator that gets a     *)
(* fatal signal returns at once: whoever exchanges create->done for NULL   *)
(* first decides who frees the structure and whether the new thread may    *)
(* live.  A creator that got the thread may stop it at any time, also      *)
(* before it has run its function.  The task_struct is taken to live until *)
(* kthread_stop has returned; what follows when it does not is in          *)
(* XorSyscall.                                                             *)
(***************************************************************************)
EXTENDS Naturals, Sequences, FiniteSets

CONSTANTS Creators, Nobody

ASSUME NobodyCreates == Nobody \notin Creators

VARIABLES
  pc,           \* where each creator is in kthread_run and kthread_stop
  killed,       \* it has got a fatal signal
  create,       \* the memory of its structure
  full_name,    \* the memory of the name
  done,         \* is create->done set?
  completed,    \* done, on the creator's stack, is complete
  result,       \* create->result
  queue,        \* kthread_create_list
  kthreadd,     \* where kthreadd is
  job,          \* the structure in create_kthread
  asleep,       \* kthreadd is in TASK_INTERRUPTIBLE
  thread,       \* where the new thread is in kthread()
  parked,       \* it is in TASK_UNINTERRUPTIBLE
  should_stop   \* its flag KTHREAD_SHOULD_STOP

creatorVars == <<pc, killed>>
createVars == <<create, full_name, done, completed, result>>
kthreaddVars == <<queue, kthreadd, job, asleep>>
threadVars == <<thread, parked, should_stop>>
vars == <<creatorVars, createVars, kthreaddVars, threadVars>>

Init ==
  /\ pc = [c \in Creators |-> "start"]
  /\ killed = [c \in Creators |-> FALSE]
  /\ create = [c \in Creators |-> "none"]
  /\ full_name = [c \in Creators |-> "none"]
  /\ done = [c \in Creators |-> FALSE]
  /\ completed = [c \in Creators |-> FALSE]
  /\ result = [c \in Creators |-> "none"]
  /\ queue = <<>>
  /\ kthreadd = "loop"
  /\ job = Nobody
  /\ asleep = FALSE
  /\ thread = [c \in Creators |-> "none"]
  /\ parked = [c \in Creators |-> FALSE]
  /\ should_stop = [c \in Creators |-> FALSE]

Goto(c, l) == pc' = [pc EXCEPT ![c] = l]
Free(mem, c) == mem' = [mem EXCEPT ![c] = "freed"]
-----------------------------------------------------------------------------
(* The creator: __kthread_create_on_node.                                  *)
AllocCreate(c) ==
  /\ pc[c] = "start"
  /\ create' = [create EXCEPT ![c] = "live"]
  /\ full_name' = [full_name EXCEPT ![c] = "live"]
  /\ done' = [done EXCEPT ![c] = TRUE]
  /\ queue' = Append(queue, c)
  /\ Goto(c, "wake_up")
  /\ UNCHANGED <<killed, completed, result, kthreadd, job, asleep, threadVars>>

AllocFails(c) ==
  /\ pc[c] = "start"
  /\ \E m \in {"none", "freed"} : create' = [create EXCEPT ![c] = m]
  /\ Goto(c, "error")
  /\ UNCHANGED <<killed, full_name, done, completed, result, kthreaddVars,
                 threadVars>>

WakeKthreadd(c) ==
  /\ pc[c] = "wake_up"
  /\ asleep' = FALSE
  /\ Goto(c, "wait_killable")
  /\ UNCHANGED <<killed, createVars, queue, kthreadd, job, threadVars>>

(* wait_for_completion_killable returns an error.                          *)
WaitKilled(c) ==
  /\ pc[c] = "wait_killable"
  /\ killed[c] /\ ~completed[c]
  /\ Goto(c, "xchg")
  /\ UNCHANGED <<killed, createVars, kthreaddVars, threadVars>>

GiveUpAtOnce(c) ==  \* mutant: create->done is not looked at
  /\ pc[c] = "xchg"
  /\ done' = [done EXCEPT ![c] = FALSE]
  /\ Goto(c, "error")
  /\ UNCHANGED <<killed, create, full_name, completed, result, kthreaddVars,
                 threadVars>>

(* The structure is left to the other side, unless that has taken done:    *)
(* then it is about to complete it, and the creator must stay.             *)
GiveUp(c) ==
  /\ pc[c] = "xchg"
  /\ done' = [done EXCEPT ![c] = FALSE]
  /\ Goto(c, IF done[c] THEN "error" ELSE "wait")
  /\ UNCHANGED <<killed, create, full_name, completed, result, kthreaddVars,
                 threadVars>>

(* Either wait ends, and the creator frees the structure.                  *)
Collect(c) ==
  /\ pc[c] \in {"wait_killable", "wait"}
  /\ completed[c]
  /\ Free(create, c)
  /\ Goto(c, IF result[c] = "task" THEN "run" ELSE "error")
  /\ UNCHANGED <<killed, full_name, done, completed, result, kthreaddVars,
                 threadVars>>

RunCreatedOnly(c) ==  \* mutant: kthread_create in the place of kthread_run
  /\ pc[c] = "run"
  /\ Goto(c, "task")
  /\ UNCHANGED <<killed, createVars, kthreaddVars, threadVars>>

(* The rest of kthread_run: wake_up_process.                               *)
Run(c) ==
  /\ pc[c] = "run"
  /\ parked' = [parked EXCEPT ![c] = FALSE]
  /\ Goto(c, "task")
  /\ UNCHANGED <<killed, createVars, kthreaddVars, thread, should_stop>>

StopTaskWakeOnly(c) ==  \* mutant: the flag is not set
  /\ pc[c] = "task"
  /\ parked' = [parked EXCEPT ![c] = FALSE]
  /\ Goto(c, "join")
  /\ UNCHANGED <<killed, createVars, kthreaddVars, thread, should_stop>>

(* kthread_stop asks the thread to stop and wakes it up,                   *)
StopTask(c) ==
  /\ pc[c] = "task"
  /\ should_stop' = [should_stop EXCEPT ![c] = TRUE]
  /\ parked' = [parked EXCEPT ![c] = FALSE]
  /\ Goto(c, "join")
  /\ UNCHANGED <<killed, createVars, kthreaddVars, thread>>

(* and waits, killed or not, for its exit.                                 *)
JoinTask(c) ==
  /\ pc[c] = "join"
  /\ thread[c] = "exited"
  /\ Goto(c, "stopped")
  /\ UNCHANGED <<killed, createVars, kthreaddVars, threadVars>>

Creator(c) ==
  \/ AllocCreate(c)
  \/ AllocFails(c)
  \/ WakeKthreadd(c)
  \/ WaitKilled(c)
  \/ GiveUp(c)
  \/ Collect(c)
  \/ Run(c)
  \/ JoinTask(c)

(* A fatal signal: kill -9, or the OOM killer.                             *)
Kill(c) ==
  /\ ~killed[c]
  /\ pc[c] \notin {"error", "task", "join", "stopped"}
  /\ killed' = [killed EXCEPT ![c] = TRUE]
  /\ UNCHANGED <<pc, createVars, kthreaddVars, threadVars>>
-----------------------------------------------------------------------------
(* The loop of kthreadd.                                                   *)
SetInterruptible ==
  /\ kthreadd = "loop"
  /\ asleep' = TRUE
  /\ kthreadd' = "check"
  /\ UNCHANGED <<creatorVars, createVars, queue, job, threadVars>>

CheckList ==
  /\ kthreadd = "check"
  /\ IF queue = <<>>
     THEN kthreadd' = "schedule" /\ UNCHANGED asleep
     ELSE kthreadd' = "take" /\ asleep' = FALSE
  /\ UNCHANGED <<creatorVars, createVars, queue, job, threadVars>>

Schedule ==
  /\ kthreadd = "schedule"
  /\ ~asleep
  /\ kthreadd' = "take"
  /\ UNCHANGED <<creatorVars, createVars, queue, job, asleep, threadVars>>

TakeCreate ==
  /\ kthreadd = "take"
  /\ IF queue = <<>>
     THEN kthreadd' = "loop" /\ UNCHANGED <<queue, job>>
     ELSE kthreadd' = "fork" /\ job' = Head(queue) /\ queue' = Tail(queue)
  /\ UNCHANGED <<creatorVars, createVars, asleep, threadVars>>

(* create_kthread.                                                         *)
Fork ==
  /\ kthreadd = "fork"
  /\ thread' = [thread EXCEPT ![job] = "born"]
  /\ job' = Nobody
  /\ kthreadd' = "take"
  /\ UNCHANGED <<creatorVars, createVars, queue, asleep, parked,
                 should_stop>>

ForkFails ==
  /\ kthreadd = "fork"
  /\ done' = [done EXCEPT ![job] = FALSE]
  /\ Free(full_name, job)
  /\ IF done[job]
     THEN kthreadd' = "report" /\ UNCHANGED <<create, job>>
     ELSE kthreadd' = "take" /\ Free(create, job) /\ job' = Nobody
  /\ UNCHANGED <<creatorVars, completed, result, queue, asleep, threadVars>>

ReportNothing ==  \* mutant: the creator is not told
  /\ kthreadd = "report"
  /\ job' = Nobody
  /\ kthreadd' = "take"
  /\ UNCHANGED <<creatorVars, createVars, queue, asleep, threadVars>>

Report ==
  /\ kthreadd = "report"
  /\ result' = [result EXCEPT ![job] = "error"]
  /\ completed' = [completed EXCEPT ![job] = TRUE]
  /\ job' = Nobody
  /\ kthreadd' = "take"
  /\ UNCHANGED <<creatorVars, create, full_name, done, queue, asleep,
                 threadVars>>

Kthreadd ==
  \/ SetInterruptible
  \/ CheckList
  \/ Schedule
  \/ TakeCreate
  \/ Fork
  \/ ForkFails
  \/ Report
-----------------------------------------------------------------------------
TakeDoneLeaks(c) ==  \* mutant: the structure is left to the creator
  /\ thread[c] = "born"
  /\ done' = [done EXCEPT ![c] = FALSE]
  /\ thread' = [thread EXCEPT ![c] = IF done[c] THEN "tell" ELSE "gone"]
  /\ UNCHANGED <<creatorVars, create, full_name, completed, result,
                 kthreaddVars, parked, should_stop>>

(* The new thread, kthread(): it frees the structure and ends when the     *)
(* creator has given up.                                                   *)
TakeDone(c) ==
  /\ thread[c] = "born"
  /\ done' = [done EXCEPT ![c] = FALSE]
  /\ IF done[c]
     THEN /\ thread' = [thread EXCEPT ![c] = "tell"]
          /\ UNCHANGED <<create, full_name>>
     ELSE /\ thread' = [thread EXCEPT ![c] = "gone"]
          /\ Free(create, c) /\ Free(full_name, c)
  /\ UNCHANGED <<creatorVars, completed, result, kthreaddVars, parked,
                 should_stop>>

(* It says that it exists and waits for wake_up_process.                   *)
Tell(c) ==
  /\ thread[c] = "tell"
  /\ parked' = [parked EXCEPT ![c] = TRUE]
  /\ result' = [result EXCEPT ![c] = "task"]
  /\ thread' = [thread EXCEPT ![c] = "complete"]
  /\ UNCHANGED <<creatorVars, create, full_name, done, completed,
                 kthreaddVars, should_stop>>

Complete(c) ==
  /\ thread[c] = "complete"
  /\ completed' = [completed EXCEPT ![c] = TRUE]
  /\ thread' = [thread EXCEPT ![c] = "schedule"]
  /\ UNCHANGED <<creatorVars, create, full_name, done, result, kthreaddVars,
                 parked, should_stop>>

RunThreadfnAtOnce(c) ==  \* mutant: the thread does not wait to be woken
  /\ thread[c] = "schedule"
  /\ thread' = [thread EXCEPT ![c] = IF should_stop[c] THEN "exited"
                                     ELSE "threadfn"]
  /\ UNCHANGED <<creatorVars, createVars, kthreaddVars, parked, should_stop>>

(* Woken, it calls its function, or exits when it is to stop already.      *)
RunThreadfn(c) ==
  /\ thread[c] = "schedule"
  /\ ~parked[c]
  /\ thread' = [thread EXCEPT ![c] = IF should_stop[c] THEN "exited"
                                     ELSE "threadfn"]
  /\ UNCHANGED <<creatorVars, createVars, kthreaddVars, parked, should_stop>>

(* The function returns, asked to or not, and the thread exits.            *)
ThreadfnReturns(c) ==
  /\ thread[c] = "threadfn"
  /\ thread' = [thread EXCEPT ![c] = "exited"]
  /\ UNCHANGED <<creatorVars, createVars, kthreaddVars, parked, should_stop>>

Kthread(c) == TakeDone(c) \/ Tell(c) \/ Complete(c) \/ RunThreadfn(c)
-----------------------------------------------------------------------------
Next ==
  \/ \E c \in Creators :
       Creator(c) \/ StopTask(c) \/ Kill(c) \/ Kthread(c) \/ ThreadfnReturns(c)
  \/ Kthreadd

Spec == Init /\ [][Next]_vars

(* The scheduler runs every thread that is not blocked.  A creator need    *)
(* not stop its thread, and the function of a thread need not return       *)
(* before it is asked to; that the workers return then is part of          *)
(* EveryCallReturns in XorSyscall.                                         *)
FairSpec ==
  /\ Spec
  /\ WF_vars(Kthreadd)
  /\ \A c \in Creators :
       /\ WF_vars(Creator(c)) /\ WF_vars(Kthread(c))
       /\ WF_vars(should_stop[c] /\ ThreadfnReturns(c))
-----------------------------------------------------------------------------
(* Every variable keeps its type.                                          *)
TypeOK ==
  /\ pc \in [Creators -> {"start", "wake_up", "wait_killable", "xchg", "wait",
                          "run", "task", "join", "stopped", "error"}]
  /\ killed \in [Creators -> BOOLEAN]
  /\ create \in [Creators -> {"none", "live", "freed"}]
  /\ full_name \in [Creators -> {"none", "live", "freed"}]
  /\ done \in [Creators -> BOOLEAN]
  /\ completed \in [Creators -> BOOLEAN]
  /\ result \in [Creators -> {"none", "task", "error"}]
  /\ queue \in Seq(Creators)
  /\ kthreadd \in {"loop", "check", "schedule", "take", "fork", "report"}
  /\ job \in Creators \cup {Nobody}
  /\ asleep \in BOOLEAN
  /\ thread \in [Creators -> {"none", "born", "tell", "complete", "schedule",
                              "threadfn", "exited", "gone"}]
  /\ parked \in [Creators -> BOOLEAN]
  /\ should_stop \in [Creators -> BOOLEAN]

Queued(c) == \E k \in 1 .. Len(queue) : queue[k] = c

(* Whoever is about to use the structure finds it allocated, and whoever   *)
(* is about to complete done finds the creator still in the function that  *)
(* has done on its stack; so nothing is freed twice either.                *)
CreateAlive ==
  \A c \in Creators :
    /\ \/ Queued(c) \/ job = c
       \/ thread[c] \in {"born", "tell"}
       \/ pc[c] \in {"wake_up", "wait_killable", "xchg", "wait"}
       => create[c] = "live"
    /\ \/ thread[c] \in {"tell", "complete"}
       \/ kthreadd = "report" /\ job = c
       => pc[c] \in {"wake_up", "wait_killable", "xchg", "wait"}

(* A worker runs its function only between the return of kthread_run and   *)
(* the return of kthread_stop, and never when kthread_run returned an      *)
(* error: the system calls count on it when they free the buffers after    *)
(* such an error and after their loop of kthread_stop.                     *)
ErrorMeansNeverRun ==
  \A c \in Creators : thread[c] = "threadfn" => pc[c] \in {"task", "join"}

(* When a creator has returned and its thread has started or will never    *)
(* do, nobody has forgotten to free the structure; the name lives as long  *)
(* as the thread or what is left of it.                                    *)
NothingLeaks ==
  \A c \in Creators :
    /\ pc[c] \in {"error", "task", "join", "stopped"}
    /\ thread[c] \in {"none", "threadfn", "exited", "gone"}
    /\ ~Queued(c) /\ job # c
    => /\ create[c] # "live"
       /\ full_name[c] = "live" <=> thread[c] \in {"threadfn", "exited"}

(* kthread_run returns, killed or not.                                     *)
CreatorReturns ==
  \A c \in Creators : <>(pc[c] \in {"error", "task", "join", "stopped"})

(* A worker that kthread_run returned runs its function, or has run it,    *)
(* unless kthread_stop was called first.                                   *)
TaskStarts ==
  \A c \in Creators :
    pc[c] = "task" ~> thread[c] \in {"threadfn", "exited"} \/ should_stop[c]

(* kthread_stop returns, whatever the thread was doing when it was called: *)
(* it may not even have left the schedule() of kthread().                  *)
StopReturns == \A c \in Creators : pc[c] = "join" ~> pc[c] = "stopped"
=============================================================================
