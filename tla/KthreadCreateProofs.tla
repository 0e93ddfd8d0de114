------------------------- MODULE KthreadCreateProofs -------------------------
(***************************************************************************)
(* The handshake of kthread_run is safe for any number of creators.        *)
(***************************************************************************)
EXTENDS KthreadCreate, SequenceTheorems, TLAPS

(* The creator has not left the function that has done on its stack.       *)
InFrame == {"wake_up", "wait_killable", "xchg", "wait"}

(* kthread_run has got the thread.                                         *)
Created == {"run", "task", "join", "stopped"}

(* The thread has told its creator that it exists.                         *)
Started == {"schedule", "threadfn", "exited"}

(* Nobody has exchanged create->done on the side of kthreadd.              *)
Pending(c) ==
  \/ Queued(c)
  \/ job = c /\ kthreadd = "fork"
  \/ thread[c] = "born"

(* kthreadd or the new thread has done and is about to complete it.        *)
Taken(c) ==
  \/ job = c /\ kthreadd = "report"
  \/ thread[c] \in {"tell", "complete"}

(* A structure is in one place: in the list, with kthreadd, with a thread. *)
QueueDistinct ==
  \A k, l \in 1 .. Len(queue) : queue[k] = queue[l] => k = l

PlaceInv ==
  /\ QueueDistinct
  /\ kthreadd \in {"fork", "report"} <=> job # Nobody
  /\ \A c \in Creators :
       /\ Queued(c) => job # c /\ thread[c] = "none"
       /\ job = c => thread[c] = "none"

Fresh(c) ==
  pc[c] = "start" =>
    /\ ~Queued(c) /\ job # c /\ thread[c] = "none"
    /\ done[c] = FALSE /\ completed[c] = FALSE
    /\ create[c] = "none" /\ full_name[c] = "none"

PendingInv(c) ==
  /\ Pending(c) =>
       /\ create[c] = "live" /\ full_name[c] = "live"
       /\ completed[c] = FALSE
       /\ done[c] = TRUE => pc[c] \in InFrame \ {"wait"}
       /\ done[c] = FALSE => pc[c] = "error"
  /\ done[c] = TRUE => Pending(c)

TakenInv(c) ==
  Taken(c) =>
    /\ create[c] = "live"
    /\ done[c] = FALSE /\ completed[c] = FALSE
    /\ pc[c] \in InFrame
    /\ full_name[c] = IF job = c THEN "freed" ELSE "live"
    /\ thread[c] = "complete" => result[c] = "task" /\ parked[c] = TRUE

AnsweredInv(c) ==
  /\ completed[c] = TRUE =>
       /\ done[c] = FALSE
       /\ \/ /\ thread[c] = "none" /\ job # c
             /\ result[c] = "error" /\ full_name[c] = "freed"
          \/ /\ thread[c] \in Started
             /\ result[c] = "task" /\ full_name[c] = "live"
       /\ \/ pc[c] \in InFrame /\ create[c] = "live"
          \/ /\ create[c] = "freed"
             /\ pc[c] \in IF result[c] = "task" THEN Created ELSE {"error"}
  /\ thread[c] \in Started => completed[c] = TRUE
  /\ thread[c] = "threadfn" => pc[c] \in {"task", "join"}
  /\ thread[c] = "exited" => pc[c] \in {"task", "join", "stopped"}
  /\ pc[c] = "stopped" => thread[c] = "exited"
  /\ thread[c] = "schedule" /\ pc[c] \in InFrame \cup {"run"} =>
       parked[c] = TRUE

OverInv(c) ==
  /\ thread[c] = "gone" =>
       /\ pc[c] = "error" /\ create[c] = "freed" /\ full_name[c] = "freed"
       /\ done[c] = FALSE /\ completed[c] = FALSE
  /\ pc[c] \in InFrame =>
       \/ Pending(c) /\ done[c] = TRUE
       \/ Taken(c)
       \/ completed[c] = TRUE
  /\ pc[c] = "wait" => done[c] = FALSE
  /\ pc[c] \in Created => completed[c] = TRUE /\ result[c] = "task"
  /\ /\ pc[c] = "error" /\ ~Pending(c)
     /\ completed[c] = FALSE /\ thread[c] # "gone"
     => thread[c] = "none" /\ create[c] # "live" /\ full_name[c] # "live"

CreateInv(c) ==
  Fresh(c) /\ PendingInv(c) /\ TakenInv(c) /\ AnsweredInv(c) /\ OverInv(c)

IInv == TypeOK /\ PlaceInv /\ \A c \in Creators : CreateInv(c)
-----------------------------------------------------------------------------
(* What the two operations on kthread_create_list do to its members.       *)
LEMMA QueueSame ==
  ASSUME UNCHANGED queue
  PROVE  /\ \A d \in Creators : Queued(d)' <=> Queued(d)
         /\ QueueDistinct' <=> QueueDistinct
BY DEF Queued, QueueDistinct

LEMMA QueueAppend ==
  ASSUME TypeOK, QueueDistinct, NEW c \in Creators, ~Queued(c),
         queue' = Append(queue, c)
  PROVE  /\ queue' \in Seq(Creators)
         /\ \A d \in Creators : Queued(d)' <=> Queued(d) \/ d = c
         /\ QueueDistinct'
<1>1. queue \in Seq(Creators)
  BY DEF TypeOK
<1>2. /\ queue' \in Seq(Creators)
      /\ Len(queue') = Len(queue) + 1
      /\ queue'[Len(queue) + 1] = c
      /\ \A k \in 1 .. Len(queue) : queue'[k] = queue[k]
  BY <1>1, AppendProperties
<1>3. Len(queue) \in Nat
  BY <1>1, LenProperties
<1>4. ASSUME NEW d \in Creators
      PROVE  Queued(d)' <=> Queued(d) \/ d = c
  BY <1>2, <1>3 DEF Queued
<1>5. QueueDistinct'
  <2> SUFFICES ASSUME NEW k \in 1 .. Len(queue'), NEW l \in 1 .. Len(queue'),
                      queue'[k] = queue'[l]
               PROVE  k = l
    BY DEF QueueDistinct
  <2>1. CASE k <= Len(queue) /\ l <= Len(queue)
    BY <2>1, <1>2, <1>3 DEF QueueDistinct
  <2>2. CASE k <= Len(queue) /\ l = Len(queue) + 1
    BY <2>2, <1>2, <1>3 DEF Queued
  <2>3. CASE k = Len(queue) + 1 /\ l <= Len(queue)
    BY <2>3, <1>2, <1>3 DEF Queued
  <2> QED
    BY <2>1, <2>2, <2>3, <1>2, <1>3
<1> QED
  BY <1>2, <1>4, <1>5

LEMMA QueueTail ==
  ASSUME TypeOK, QueueDistinct, queue # <<>>, queue' = Tail(queue)
  PROVE  /\ queue' \in Seq(Creators)
         /\ Head(queue) \in Creators
         /\ Queued(Head(queue))
         /\ \A d \in Creators : Queued(d)' <=> Queued(d) /\ d # Head(queue)
         /\ QueueDistinct'
<1>1. queue \in Seq(Creators)
  BY DEF TypeOK
<1>2. /\ Head(queue) \in Creators
      /\ queue' \in Seq(Creators)
      /\ Head(queue) = queue[1]
      /\ Len(queue) \in Nat \ {0}
      /\ Len(queue') = Len(queue) - 1
      /\ \A k \in 1 .. Len(queue') : queue'[k] = queue[k + 1]
  BY <1>1, HeadTailProperties, EmptySeq, LenProperties
<1>3. Queued(Head(queue))
  BY <1>2 DEF Queued
<1>4. ASSUME NEW d \in Creators
      PROVE  Queued(d)' <=> Queued(d) /\ d # Head(queue)
  <2>1. ASSUME Queued(d)'  PROVE Queued(d) /\ d # Head(queue)
    <3>1. PICK k \in 1 .. Len(queue') : queue'[k] = d
      BY <2>1 DEF Queued
    <3>2. k + 1 \in 1 .. Len(queue) /\ queue[k + 1] = d
      BY <3>1, <1>2
    <3> QED
      BY <3>2, <1>2 DEF Queued, QueueDistinct
  <2>2. ASSUME Queued(d), d # Head(queue)  PROVE Queued(d)'
    <3>1. PICK k \in 1 .. Len(queue) : queue[k] = d
      BY <2>2 DEF Queued
    <3>2. k - 1 \in 1 .. Len(queue') /\ queue'[k - 1] = d
      BY <3>1, <2>2, <1>2
    <3> QED
      BY <3>2 DEF Queued
  <2> QED
    BY <2>1, <2>2
<1>5. QueueDistinct'
  <2> SUFFICES ASSUME NEW k \in 1 .. Len(queue'), NEW l \in 1 .. Len(queue'),
                      queue'[k] = queue'[l]
               PROVE  k = l
    BY DEF QueueDistinct
  <2>1. k + 1 \in 1 .. Len(queue) /\ l + 1 \in 1 .. Len(queue)
    BY <1>2
  <2>2. queue[k + 1] = queue[l + 1]
    BY <1>2
  <2>3. k + 1 = l + 1
    BY <2>1, <2>2 DEF QueueDistinct
  <2> QED
    BY <2>3, <1>2
<1> QED
  BY <1>2, <1>3, <1>4, <1>5
-----------------------------------------------------------------------------
(* The invariant holds in the beginning.                                   *)
LEMMA InitInv == Init => IInv
<1> SUFFICES ASSUME Init PROVE IInv
  OBVIOUS
<1>1. queue \in Seq(Creators) /\ Len(queue) = 0
  BY DEF Init
<1>2. TypeOK
  BY <1>1 DEF Init, TypeOK
<1>3. \A c \in Creators : ~Queued(c)
  BY <1>1 DEF Queued
<1>4. QueueDistinct
  BY <1>1 DEF QueueDistinct
<1>5. PlaceInv
  BY <1>3, <1>4, NobodyCreates DEF Init, PlaceInv
<1>6. ASSUME NEW c \in Creators PROVE CreateInv(c)
  BY <1>3, NobodyCreates
     DEF Init, CreateInv, Fresh, PendingInv, TakenInv, AnsweredInv, OverInv,
         Pending, Taken, InFrame, Created, Started
<1> QED
  BY <1>2, <1>5, <1>6 DEF IInv

(* The steps of a creator keep it.                                         *)
LEMMA CreatorStep ==
  ASSUME IInv, NEW c \in Creators, Creator(c) \/ StopTask(c) \/ Kill(c)
  PROVE  IInv'
<1> USE NobodyCreates
    DEF IInv, Fresh, PendingInv, TakenInv, AnsweredInv, OverInv, Pending,
        Taken, InFrame, Created, Started, creatorVars, createVars,
        kthreaddVars, threadVars
<1>1. CASE AllocCreate(c)
  <2>1. /\ \A d \in Creators : Queued(d)' <=> Queued(d) \/ d = c
        /\ QueueDistinct'
        /\ queue' \in Seq(Creators)
    <3>1. ~Queued(c)
      BY <1>1 DEF AllocCreate, CreateInv
    <3> QED
      BY <1>1, <3>1, QueueAppend DEF AllocCreate, PlaceInv
  <2>2. TypeOK'
    BY <1>1, <2>1 DEF TypeOK, AllocCreate, Goto
  <2>3. PlaceInv'
    BY <1>1, <2>1 DEF TypeOK, PlaceInv, CreateInv, AllocCreate, Goto
  <2>4. ASSUME NEW d \in Creators
        PROVE  CreateInv(d)'
    BY <1>1, <2>1 DEF TypeOK, PlaceInv, CreateInv, AllocCreate, Goto
  <2> QED
    BY <2>2, <2>3, <2>4
<1>2. CASE AllocFails(c)
  <2>1. /\ \A d \in Creators : Queued(d)' <=> Queued(d)
        /\ QueueDistinct' <=> QueueDistinct
    BY <1>2, QueueSame DEF AllocFails
  <2>2. TypeOK'
    BY <1>2, <2>1 DEF TypeOK, AllocFails, Goto
  <2>3. PlaceInv'
    BY <1>2, <2>1 DEF TypeOK, PlaceInv, CreateInv, AllocFails, Goto
  <2>4. ASSUME NEW d \in Creators
        PROVE  CreateInv(d)'
    BY <1>2, <2>1 DEF TypeOK, PlaceInv, CreateInv, AllocFails, Goto
  <2> QED
    BY <2>2, <2>3, <2>4
<1>3. CASE WakeKthreadd(c)
  <2>1. /\ \A d \in Creators : Queued(d)' <=> Queued(d)
        /\ QueueDistinct' <=> QueueDistinct
    BY <1>3, QueueSame DEF WakeKthreadd
  <2>2. TypeOK'
    BY <1>3, <2>1 DEF TypeOK, WakeKthreadd, Goto
  <2>3. PlaceInv'
    BY <1>3, <2>1 DEF TypeOK, PlaceInv, CreateInv, WakeKthreadd, Goto
  <2>4. ASSUME NEW d \in Creators
        PROVE  CreateInv(d)'
    BY <1>3, <2>1 DEF TypeOK, PlaceInv, CreateInv, WakeKthreadd, Goto
  <2> QED
    BY <2>2, <2>3, <2>4
<1>4. CASE WaitKilled(c)
  <2>1. /\ \A d \in Creators : Queued(d)' <=> Queued(d)
        /\ QueueDistinct' <=> QueueDistinct
    BY <1>4, QueueSame DEF WaitKilled
  <2>2. TypeOK'
    BY <1>4, <2>1 DEF TypeOK, WaitKilled, Goto
  <2>3. PlaceInv'
    BY <1>4, <2>1 DEF TypeOK, PlaceInv, CreateInv, WaitKilled, Goto
  <2>4. ASSUME NEW d \in Creators
        PROVE  CreateInv(d)'
    BY <1>4, <2>1 DEF TypeOK, PlaceInv, CreateInv, WaitKilled, Goto
  <2> QED
    BY <2>2, <2>3, <2>4
<1>5. CASE GiveUp(c)
  <2>1. /\ \A d \in Creators : Queued(d)' <=> Queued(d)
        /\ QueueDistinct' <=> QueueDistinct
    BY <1>5, QueueSame DEF GiveUp
  <2>2. TypeOK'
    BY <1>5, <2>1 DEF TypeOK, GiveUp, Goto
  <2>3. PlaceInv'
    BY <1>5, <2>1 DEF TypeOK, PlaceInv, CreateInv, GiveUp, Goto
  <2>4. ASSUME NEW d \in Creators
        PROVE  CreateInv(d)'
    BY <1>5, <2>1 DEF TypeOK, PlaceInv, CreateInv, GiveUp, Goto
  <2> QED
    BY <2>2, <2>3, <2>4
<1>6. CASE Collect(c)
  <2>1. /\ \A d \in Creators : Queued(d)' <=> Queued(d)
        /\ QueueDistinct' <=> QueueDistinct
    BY <1>6, QueueSame DEF Collect
  <2>2. TypeOK'
    BY <1>6, <2>1 DEF TypeOK, Collect, Goto, Free
  <2>3. PlaceInv'
    BY <1>6, <2>1 DEF TypeOK, PlaceInv, CreateInv, Collect, Goto, Free
  <2>4. ASSUME NEW d \in Creators
        PROVE  CreateInv(d)'
    BY <1>6, <2>1 DEF TypeOK, PlaceInv, CreateInv, Collect, Goto, Free
  <2> QED
    BY <2>2, <2>3, <2>4
<1>7. CASE Run(c)
  <2>1. /\ \A d \in Creators : Queued(d)' <=> Queued(d)
        /\ QueueDistinct' <=> QueueDistinct
    BY <1>7, QueueSame DEF Run
  <2>2. TypeOK'
    BY <1>7, <2>1 DEF TypeOK, Run, Goto
  <2>3. PlaceInv'
    BY <1>7, <2>1 DEF TypeOK, PlaceInv, CreateInv, Run, Goto
  <2>4. ASSUME NEW d \in Creators
        PROVE  CreateInv(d)'
    BY <1>7, <2>1 DEF TypeOK, PlaceInv, CreateInv, Run, Goto
  <2> QED
    BY <2>2, <2>3, <2>4
<1>8. CASE Kill(c)
  <2>1. /\ \A d \in Creators : Queued(d)' <=> Queued(d)
        /\ QueueDistinct' <=> QueueDistinct
    BY <1>8, QueueSame DEF Kill
  <2>2. TypeOK'
    BY <1>8, <2>1 DEF TypeOK, Kill
  <2>3. PlaceInv'
    BY <1>8, <2>1 DEF TypeOK, PlaceInv, CreateInv, Kill
  <2>4. ASSUME NEW d \in Creators
        PROVE  CreateInv(d)'
    BY <1>8, <2>1 DEF TypeOK, PlaceInv, CreateInv, Kill
  <2> QED
    BY <2>2, <2>3, <2>4
<1>9. CASE StopTask(c)
  <2>1. /\ \A d \in Creators : Queued(d)' <=> Queued(d)
        /\ QueueDistinct' <=> QueueDistinct
    BY <1>9, QueueSame DEF StopTask
  <2>2. TypeOK'
    BY <1>9, <2>1 DEF TypeOK, StopTask, Goto
  <2>3. PlaceInv'
    BY <1>9, <2>1 DEF TypeOK, PlaceInv, CreateInv, StopTask, Goto
  <2>4. ASSUME NEW d \in Creators
        PROVE  CreateInv(d)'
    BY <1>9, <2>1 DEF TypeOK, PlaceInv, CreateInv, StopTask, Goto
  <2> QED
    BY <2>2, <2>3, <2>4
<1>10. CASE JoinTask(c)
  <2>1. /\ \A d \in Creators : Queued(d)' <=> Queued(d)
        /\ QueueDistinct' <=> QueueDistinct
    BY <1>10, QueueSame DEF JoinTask
  <2>2. TypeOK'
    BY <1>10, <2>1 DEF TypeOK, JoinTask, Goto
  <2>3. PlaceInv'
    BY <1>10, <2>1 DEF TypeOK, PlaceInv, CreateInv, JoinTask, Goto
  <2>4. ASSUME NEW d \in Creators
        PROVE  CreateInv(d)'
    BY <1>10, <2>1 DEF TypeOK, PlaceInv, CreateInv, JoinTask, Goto
  <2> QED
    BY <2>2, <2>3, <2>4
<1> QED
  BY <1>1, <1>2, <1>3, <1>4, <1>5, <1>6, <1>7, <1>8, <1>9, <1>10 DEF Creator

(* The steps of a new thread keep it.                                      *)
LEMMA ThreadStep ==
  ASSUME IInv, NEW c \in Creators, Kthread(c) \/ ThreadfnReturns(c)
  PROVE  IInv'
<1> USE NobodyCreates
    DEF IInv, Fresh, PendingInv, TakenInv, AnsweredInv, OverInv, Pending,
        Taken, InFrame, Created, Started, creatorVars, createVars,
        kthreaddVars, threadVars
<1>1. CASE TakeDone(c)
  <2>1. /\ \A d \in Creators : Queued(d)' <=> Queued(d)
        /\ QueueDistinct' <=> QueueDistinct
    BY <1>1, QueueSame DEF TakeDone
  <2>2. TypeOK'
    BY <1>1, <2>1, SMTT(30) DEF TypeOK, TakeDone, Free
  <2>3. PlaceInv'
    BY <1>1, <2>1 DEF TypeOK, PlaceInv, CreateInv, TakeDone, Free
  <2>4. ASSUME NEW d \in Creators
        PROVE  CreateInv(d)'
    BY <1>1, <2>1 DEF TypeOK, PlaceInv, CreateInv, TakeDone, Free
  <2> QED
    BY <2>2, <2>3, <2>4
<1>2. CASE Tell(c)
  <2>1. /\ \A d \in Creators : Queued(d)' <=> Queued(d)
        /\ QueueDistinct' <=> QueueDistinct
    BY <1>2, QueueSame DEF Tell
  <2>2. TypeOK'
    BY <1>2, <2>1 DEF TypeOK, Tell
  <2>3. PlaceInv'
    BY <1>2, <2>1 DEF TypeOK, PlaceInv, CreateInv, Tell
  <2>4. ASSUME NEW d \in Creators
        PROVE  CreateInv(d)'
    BY <1>2, <2>1 DEF TypeOK, PlaceInv, CreateInv, Tell
  <2> QED
    BY <2>2, <2>3, <2>4
<1>3. CASE Complete(c)
  <2>1. /\ \A d \in Creators : Queued(d)' <=> Queued(d)
        /\ QueueDistinct' <=> QueueDistinct
    BY <1>3, QueueSame DEF Complete
  <2>2. TypeOK'
    BY <1>3, <2>1 DEF TypeOK, Complete
  <2>3. PlaceInv'
    BY <1>3, <2>1 DEF TypeOK, PlaceInv, CreateInv, Complete
  <2>4. ASSUME NEW d \in Creators
        PROVE  CreateInv(d)'
    BY <1>3, <2>1 DEF TypeOK, PlaceInv, CreateInv, Complete
  <2> QED
    BY <2>2, <2>3, <2>4
<1>4. CASE RunThreadfn(c)
  <2>1. /\ \A d \in Creators : Queued(d)' <=> Queued(d)
        /\ QueueDistinct' <=> QueueDistinct
    BY <1>4, QueueSame DEF RunThreadfn
  <2>2. TypeOK'
    BY <1>4, <2>1 DEF TypeOK, RunThreadfn
  <2>3. PlaceInv'
    BY <1>4, <2>1 DEF TypeOK, PlaceInv, CreateInv, RunThreadfn
  <2>4. ASSUME NEW d \in Creators
        PROVE  CreateInv(d)'
    BY <1>4, <2>1 DEF TypeOK, PlaceInv, CreateInv, RunThreadfn
  <2> QED
    BY <2>2, <2>3, <2>4
<1>5. CASE ThreadfnReturns(c)
  <2>1. /\ \A d \in Creators : Queued(d)' <=> Queued(d)
        /\ QueueDistinct' <=> QueueDistinct
    BY <1>5, QueueSame DEF ThreadfnReturns
  <2>2. TypeOK'
    BY <1>5, <2>1 DEF TypeOK, ThreadfnReturns
  <2>3. PlaceInv'
    BY <1>5, <2>1 DEF TypeOK, PlaceInv, CreateInv, ThreadfnReturns
  <2>4. ASSUME NEW d \in Creators
        PROVE  CreateInv(d)'
    BY <1>5, <2>1 DEF TypeOK, PlaceInv, CreateInv, ThreadfnReturns
  <2> QED
    BY <2>2, <2>3, <2>4
<1> QED
  BY <1>1, <1>2, <1>3, <1>4, <1>5 DEF Kthread

(* The steps of kthreadd keep it: it owns the structure it has taken.      *)
LEMMA KthreaddStep ==
  ASSUME IInv, Kthreadd
  PROVE  IInv'
<1> USE NobodyCreates
    DEF IInv, Fresh, PendingInv, TakenInv, AnsweredInv, OverInv, Pending,
        Taken, InFrame, Created, Started, creatorVars, createVars,
        kthreaddVars, threadVars
<1>1. CASE SetInterruptible
  <2>1. /\ \A d \in Creators : Queued(d)' <=> Queued(d)
        /\ QueueDistinct' <=> QueueDistinct
    BY <1>1, QueueSame DEF SetInterruptible
  <2>2. TypeOK'
    BY <1>1, <2>1 DEF TypeOK, SetInterruptible
  <2>3. PlaceInv'
    BY <1>1, <2>1 DEF TypeOK, PlaceInv, CreateInv, SetInterruptible
  <2>4. ASSUME NEW d \in Creators
        PROVE  CreateInv(d)'
    BY <1>1, <2>1 DEF TypeOK, PlaceInv, CreateInv, SetInterruptible
  <2> QED
    BY <2>2, <2>3, <2>4
<1>2. CASE CheckList
  <2>1. /\ \A d \in Creators : Queued(d)' <=> Queued(d)
        /\ QueueDistinct' <=> QueueDistinct
    BY <1>2, QueueSame DEF CheckList
  <2>2. TypeOK'
    BY <1>2, <2>1 DEF TypeOK, CheckList
  <2>3. PlaceInv'
    BY <1>2, <2>1 DEF TypeOK, PlaceInv, CreateInv, CheckList
  <2>4. ASSUME NEW d \in Creators
        PROVE  CreateInv(d)'
    BY <1>2, <2>1 DEF TypeOK, PlaceInv, CreateInv, CheckList
  <2> QED
    BY <2>2, <2>3, <2>4
<1>3. CASE Schedule
  <2>1. /\ \A d \in Creators : Queued(d)' <=> Queued(d)
        /\ QueueDistinct' <=> QueueDistinct
    BY <1>3, QueueSame DEF Schedule
  <2>2. TypeOK'
    BY <1>3, <2>1 DEF TypeOK, Schedule
  <2>3. PlaceInv'
    BY <1>3, <2>1 DEF TypeOK, PlaceInv, CreateInv, Schedule
  <2>4. ASSUME NEW d \in Creators
        PROVE  CreateInv(d)'
    BY <1>3, <2>1 DEF TypeOK, PlaceInv, CreateInv, Schedule
  <2> QED
    BY <2>2, <2>3, <2>4
<1>4. CASE TakeCreate
  <2>1. \/ /\ queue = <<>> /\ UNCHANGED <<queue, job>> /\ kthreadd' = "loop"
           /\ \A d \in Creators : Queued(d)' <=> Queued(d)
           /\ QueueDistinct' <=> QueueDistinct
        \/ /\ job' \in Creators /\ kthreadd' = "fork" /\ Queued(job')
           /\ queue' \in Seq(Creators)
           /\ \A d \in Creators : Queued(d)' <=> Queued(d) /\ d # job'
           /\ QueueDistinct'
    BY <1>4, QueueSame, QueueTail DEF TakeCreate, PlaceInv
  <2>2. TypeOK'
    BY <1>4, <2>1 DEF TypeOK, TakeCreate
  <2>3. PlaceInv'
    BY <1>4, <2>1 DEF TypeOK, PlaceInv, CreateInv, TakeCreate
  <2>4. ASSUME NEW d \in Creators
        PROVE  CreateInv(d)'
    BY <1>4, <2>1 DEF TypeOK, PlaceInv, CreateInv, TakeCreate
  <2> QED
    BY <2>2, <2>3, <2>4
<1>5. CASE Fork
  <2>1. /\ \A d \in Creators : Queued(d)' <=> Queued(d)
        /\ QueueDistinct' <=> QueueDistinct
    BY <1>5, QueueSame DEF Fork
  <2>2. TypeOK'
    BY <1>5, <2>1 DEF TypeOK, Fork
  <2>3. PlaceInv'
    BY <1>5, <2>1 DEF TypeOK, PlaceInv, CreateInv, Fork
  <2>4. ASSUME NEW d \in Creators
        PROVE  CreateInv(d)'
    BY <1>5, <2>1 DEF TypeOK, PlaceInv, CreateInv, Fork
  <2> QED
    BY <2>2, <2>3, <2>4
<1>6. CASE ForkFails
  <2>1. /\ \A d \in Creators : Queued(d)' <=> Queued(d)
        /\ QueueDistinct' <=> QueueDistinct
    BY <1>6, QueueSame DEF ForkFails
  <2>2. TypeOK'
    BY <1>6, <2>1 DEF TypeOK, ForkFails, Free
  <2>3. PlaceInv'
    BY <1>6, <2>1 DEF TypeOK, PlaceInv, CreateInv, ForkFails, Free
  <2>4. ASSUME NEW d \in Creators
        PROVE  CreateInv(d)'
    BY <1>6, <2>1 DEF TypeOK, PlaceInv, CreateInv, ForkFails, Free
  <2> QED
    BY <2>2, <2>3, <2>4
<1>7. CASE Report
  <2>1. /\ \A d \in Creators : Queued(d)' <=> Queued(d)
        /\ QueueDistinct' <=> QueueDistinct
    BY <1>7, QueueSame DEF Report
  <2>2. TypeOK'
    BY <1>7, <2>1 DEF TypeOK, Report
  <2>3. PlaceInv'
    BY <1>7, <2>1 DEF TypeOK, PlaceInv, CreateInv, Report
  <2>4. ASSUME NEW d \in Creators
        PROVE  CreateInv(d)'
    BY <1>7, <2>1 DEF TypeOK, PlaceInv, CreateInv, Report
  <2> QED
    BY <2>2, <2>3, <2>4
<1> QED
  BY <1>1, <1>2, <1>3, <1>4, <1>5, <1>6, <1>7 DEF Kthreadd

(* A step that changes nothing keeps it.                                   *)
LEMMA StutterStep ==
  ASSUME IInv, UNCHANGED vars
  PROVE  IInv'
BY DEF IInv, TypeOK, PlaceInv, QueueDistinct, Queued, CreateInv, Fresh,
       PendingInv, TakenInv, AnsweredInv, OverInv, Pending, Taken, InFrame,
       Created, Started, vars,
       creatorVars, createVars, kthreaddVars, threadVars

(* Every structure of kthread_create_list, whatever the creators, kthreadd *)
(* and the new threads do, is where IInv says and has the owner it says.   *)
THEOREM HandshakeInvariant == Spec => []IInv
<1>1. IInv /\ [Next]_vars => IInv'
  BY CreatorStep, KthreaddStep, ThreadStep, StutterStep DEF Next
<1> QED
  BY <1>1, InitInv, PTL DEF Spec

(* No side of the handshake of kthread_run, for any number of creators,    *)
(* uses a structure that was freed, or completes done on the stack of a    *)
(* creator that has returned.                                              *)
THEOREM StructureIsAlive == Spec => []CreateAlive
<1>1. IInv => CreateAlive
  BY NobodyCreates
     DEF IInv, PlaceInv, TypeOK, CreateInv, Fresh, PendingInv, TakenInv,
         AnsweredInv, OverInv, Pending, Taken, InFrame, Created, Started, CreateAlive
<1> QED
  BY <1>1, HandshakeInvariant, PTL

(* The function of a thread runs only between the return of kthread_run    *)
(* and the return of kthread_stop: after an error, and after the loop of   *)
(* kthread_stop, the system calls may free what it would use.              *)
THEOREM FailedNeverRuns == Spec => []ErrorMeansNeverRun
<1>1. IInv => ErrorMeansNeverRun
  BY DEF IInv, CreateInv, AnsweredInv, ErrorMeansNeverRun
<1> QED
  BY <1>1, HandshakeInvariant, PTL

(* The structure and the name are freed by exactly one side, also when the *)
(* creator was killed.                                                     *)
THEOREM HandshakeFrees == Spec => []NothingLeaks
<1>1. IInv => NothingLeaks
  BY NobodyCreates
     DEF IInv, PlaceInv, TypeOK, CreateInv, Fresh, PendingInv, TakenInv,
         AnsweredInv, OverInv, Pending, Taken, InFrame, Created, Started, NothingLeaks
<1> QED
  BY <1>1, HandshakeInvariant, PTL
=============================================================================
