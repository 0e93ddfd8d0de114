----------------------------- MODULE MutexProofs -----------------------------
(***************************************************************************)
(* Theorems about Mutex for any number of tasks, and their proofs.         *)
(***************************************************************************)
EXTENDS Mutex, SequenceTheorems, TLAPS

Listed(t) == \E k \in 1 .. Len(wait_list) : wait_list[k] = t

(* The tasks in the list are those in the loop of the slow path.           *)
InLoop == {"check", "signal", "schedule", "again", "relock", "acquired"}

Distinct ==
  \A k, l \in 1 .. Len(wait_list) : wait_list[k] = wait_list[l] => k = l

ListInv ==
  /\ Distinct
  /\ \A t \in Tasks : Listed(t) <=> pc[t] \in InLoop

(* wait_lock is held by the task that is at a step under it.               *)
SpinInv ==
  \A t \in Tasks :
    /\ pc[t] \in {"add", "check", "signal"} => wait_lock = t
    /\ wait_lock = t => pc[t] \in {"add", "check", "signal", "acquired"}

(* Who is in the word.  With PICKUP it is a waiter that has yet to find    *)
(* out, and that cannot be past the trylock at the top of the loop.        *)
Holds(t) ==
  \/ pc[t] \in {"acquired", "held"}
  \/ pc[t] = "unlock_slowpath" /\ handoff[t] = TRUE

WordInv ==
  /\ owner = Nobody => "HANDOFF" \notin flags /\ "PICKUP" \notin flags
  /\ \A t \in Tasks : Holds(t) => owner = t /\ "PICKUP" \notin flags
  /\ \A t \in Tasks :
       owner = t => \/ Holds(t)
                    \/ /\ "PICKUP" \in flags
                       /\ pc[t] \in {"check", "schedule", "again", "relock"}

IInv == TypeOK /\ ListInv /\ SpinInv /\ WordInv
-----------------------------------------------------------------------------
(* What the operations on wait_list do to its members.                     *)
LEMMA ListSame ==
  ASSUME UNCHANGED wait_list
  PROVE  /\ \A u \in Tasks : Listed(u)' <=> Listed(u)
         /\ Distinct' <=> Distinct
BY DEF Listed, Distinct

LEMMA ListHead ==
  ASSUME TypeOK, wait_list # <<>>
  PROVE  Head(wait_list) \in Tasks /\ Listed(Head(wait_list))
<1>1. /\ Len(wait_list) \in Nat \ {0}
      /\ Head(wait_list) = wait_list[1]
      /\ Head(wait_list) \in Tasks
  BY HeadTailProperties, EmptySeq, LenProperties DEF TypeOK
<1> QED
  BY <1>1 DEF Listed

LEMMA ListAppend ==
  ASSUME TypeOK, Distinct, NEW t \in Tasks, ~Listed(t),
         wait_list' = Append(wait_list, t)
  PROVE  /\ wait_list' \in Seq(Tasks)
         /\ \A u \in Tasks : Listed(u)' <=> Listed(u) \/ u = t
         /\ Distinct'
<1>1. wait_list \in Seq(Tasks)
  BY DEF TypeOK
<1>2. /\ wait_list' \in Seq(Tasks)
      /\ Len(wait_list') = Len(wait_list) + 1
      /\ wait_list'[Len(wait_list) + 1] = t
      /\ \A k \in 1 .. Len(wait_list) : wait_list'[k] = wait_list[k]
  BY <1>1, AppendProperties
<1>3. Len(wait_list) \in Nat
  BY <1>1, LenProperties
<1>4. ASSUME NEW u \in Tasks
      PROVE  Listed(u)' <=> Listed(u) \/ u = t
  BY <1>2, <1>3 DEF Listed
<1>5. Distinct'
  <2> SUFFICES ASSUME NEW k \in 1 .. Len(wait_list'),
                      NEW l \in 1 .. Len(wait_list'),
                      wait_list'[k] = wait_list'[l]
               PROVE  k = l
    BY DEF Distinct
  <2>1. CASE k <= Len(wait_list) /\ l <= Len(wait_list)
    BY <2>1, <1>2, <1>3 DEF Distinct
  <2>2. CASE k > Len(wait_list) \/ l > Len(wait_list)
    BY <2>2, <1>2, <1>3 DEF Listed
  <2> QED
    BY <2>1, <2>2, <1>2, <1>3
<1> QED
  BY <1>2, <1>4, <1>5

LEMMA ListRemove ==
  ASSUME TypeOK, Distinct, NEW t \in Tasks, Listed(t),
         wait_list' = Others(t)
  PROVE  /\ wait_list' \in Seq(Tasks)
         /\ wait_list' = <<>> <=> \A u \in Tasks : ~Listed(u)'
         /\ \A u \in Tasks : Listed(u)' <=> Listed(u) /\ u # t
         /\ Distinct'
<1> DEFINE n == Len(wait_list)
           k == CHOOSE j \in 1 .. n : wait_list[j] = t
           a == SubSeq(wait_list, 1, k - 1)
           b == SubSeq(wait_list, k + 1, n)
<1>1. wait_list \in Seq(Tasks) /\ n \in Nat
  BY LenProperties DEF TypeOK
<1>2. k \in 1 .. n /\ wait_list[k] = t
  BY DEF Listed
<1>3. wait_list' = a \o b
  BY DEF Others
<1> HIDE DEF n, k
<1>4. /\ a \in Seq(Tasks) /\ Len(a) = k - 1
      /\ \A j \in 1 .. k - 1 : a[j] = wait_list[j]
  BY <1>1, <1>2, SubSeqProperties DEF n
<1>5. /\ b \in Seq(Tasks) /\ Len(b) = n - k
      /\ \A j \in 1 .. n - k : b[j] = wait_list[k + j]
  BY <1>1, <1>2, SubSeqProperties DEF n
<1> HIDE DEF a, b
<1>6. /\ wait_list' \in Seq(Tasks)
      /\ Len(wait_list') = n - 1
      /\ \A j \in 1 .. n - 1 :
           wait_list'[j] = wait_list[IF j < k THEN j ELSE j + 1]
  <2>1. /\ wait_list' \in Seq(Tasks)
        /\ Len(wait_list') = Len(a) + Len(b)
        /\ \A j \in 1 .. Len(a) + Len(b) :
             wait_list'[j] = IF j <= Len(a) THEN a[j] ELSE b[j - Len(a)]
    <3>1. a \o b \in Seq(Tasks) /\ Len(a \o b) = Len(a) + Len(b)
      BY <1>4, <1>5, ConcatProperties
    <3>2. \A j \in 1 .. Len(a) + Len(b) :
            (a \o b)[j] = IF j <= Len(a) THEN a[j] ELSE b[j - Len(a)]
      BY <1>4, <1>5, ConcatProperties
    <3> QED
      BY <1>3, <3>1, <3>2, Zenon
  <2>2. ASSUME NEW j \in 1 .. n - 1
        PROVE  wait_list'[j] = wait_list[IF j < k THEN j ELSE j + 1]
    <3>1. CASE j < k
      BY <3>1, <2>1, <1>1, <1>2, <1>4, <1>5
    <3>2. CASE j >= k
      <4>1. j - (k - 1) \in 1 .. n - k /\ k + (j - (k - 1)) = j + 1
        BY <3>2, <1>1, <1>2
      <4> QED
        BY <3>2, <4>1, <2>1, <1>1, <1>2, <1>4, <1>5
    <3> QED
      BY <3>1, <3>2, <1>1, <1>2
  <2> QED
    BY <2>1, <2>2, <1>1, <1>2, <1>4, <1>5
<1>7. ASSUME NEW u \in Tasks
      PROVE  Listed(u)' <=> Listed(u) /\ u # t
  <2>1. ASSUME Listed(u)' PROVE Listed(u) /\ u # t
    <3>1. PICK j \in 1 .. n - 1 : wait_list'[j] = u
      BY <2>1, <1>6 DEF Listed
    <3>2. /\ (IF j < k THEN j ELSE j + 1) \in 1 .. n
          /\ (IF j < k THEN j ELSE j + 1) # k
      BY <1>1, <1>2
    <3> QED
      BY <3>1, <3>2, <1>2, <1>6 DEF Listed, Distinct, n
  <2>2. ASSUME Listed(u), u # t PROVE Listed(u)'
    <3>1. PICK j \in 1 .. n : wait_list[j] = u
      BY <2>2 DEF Listed, n
    <3>2. j # k
      BY <3>1, <2>2, <1>2
    <3>3. PICK m \in 1 .. n - 1 : (IF m < k THEN m ELSE m + 1) = j
      <4>1. CASE j < k
        BY <4>1, <1>1, <1>2
      <4>2. CASE j > k
        <5>1. j - 1 \in 1 .. n - 1 /\ ~(j - 1 < k) /\ j - 1 + 1 = j
          BY <4>2, <1>1, <1>2
        <5> QED
          BY <5>1
      <4> QED
        BY <4>1, <4>2, <3>2, <1>1, <1>2
    <3> QED
      BY <3>1, <3>3, <1>6 DEF Listed
  <2> QED
    BY <2>1, <2>2
<1>8. Distinct'
  <2> SUFFICES ASSUME NEW j \in 1 .. n - 1, NEW m \in 1 .. n - 1,
                      wait_list'[j] = wait_list'[m]
               PROVE  j = m
    BY <1>6 DEF Distinct
  <2>1. /\ (IF j < k THEN j ELSE j + 1) \in 1 .. n
        /\ (IF m < k THEN m ELSE m + 1) \in 1 .. n
    BY <1>1, <1>2
  <2>2. (IF j < k THEN j ELSE j + 1) = (IF m < k THEN m ELSE m + 1)
    BY <2>1, <1>6 DEF Distinct, n
  <2> QED
    BY <2>2, <1>1, <1>2
<1>9. wait_list' = <<>> <=> \A u \in Tasks : ~Listed(u)'
  <2>1. CASE n = 1
    <3>1. wait_list' = <<>>
      BY <2>1, <1>6, EmptySeq
    <3> QED
      BY <2>1, <3>1, <1>6 DEF Listed
  <2>2. CASE n # 1
    <3>1. 1 \in 1 .. Len(wait_list')
      BY <2>2, <1>1, <1>2, <1>6
    <3>2. wait_list'[1] \in Tasks
      BY <3>1, <1>6, ElementOfSeq
    <3>3. wait_list' # <<>>
      BY <3>1, EmptySeq
    <3> QED
      BY <3>1, <3>2, <3>3 DEF Listed
  <2> QED
    BY <2>1, <2>2
<1> QED
  BY <1>6, <1>7, <1>8, <1>9
-----------------------------------------------------------------------------
(* The invariant holds in the beginning.                                   *)
LEMMA InitInv == Init => IInv
<1> SUFFICES ASSUME Init PROVE IInv
  OBVIOUS
<1>1. wait_list \in Seq(Tasks) /\ Len(wait_list) = 0
  BY DEF Init
<1>2. TypeOK
  BY <1>1 DEF Init, TypeOK, Labels
<1>3. ListInv
  BY <1>1 DEF Init, ListInv, Distinct, Listed, InLoop
<1>4. SpinInv /\ WordInv
  BY NobodyIsNoTask DEF Init, SpinInv, WordInv, Holds
<1> QED
  BY <1>2, <1>3, <1>4 DEF IInv

(* The steps of mutex_lock_interruptible keep it.                          *)
LEMMA LockStepInv ==
  ASSUME IInv, NEW t \in Tasks, LockStep(t)
  PROVE  IInv'
<1> USE NobodyIsNoTask DEF IInv, InLoop, word, waiters
<1>1. CASE Trylock(t)
  <2>1. /\ \A u \in Tasks : Listed(u)' <=> Listed(u)
        /\ Distinct' <=> Distinct
    BY <1>1, ListSame DEF Trylock
  <2>2. TypeOK'
    BY <1>1, <2>1 DEF TypeOK, Labels, Trylock, CanTake, Take, Goto
  <2>3. ListInv'
    BY <1>1, <2>1 DEF TypeOK, ListInv, Trylock, CanTake, Take, Goto
  <2>4. SpinInv'
    BY <1>1, <2>1 DEF TypeOK, SpinInv, Trylock, CanTake, Take, Goto
  <2>5. WordInv'
    BY <1>1, <2>1
       DEF TypeOK, WordInv, Holds, ListInv, SpinInv, Trylock, CanTake, Take,
           Goto
  <2> QED
    BY <2>2, <2>3, <2>4, <2>5
<1>2. CASE EnterSlowpath(t)
  <2>1. /\ \A u \in Tasks : Listed(u)' <=> Listed(u)
        /\ Distinct' <=> Distinct
    BY <1>2, ListSame DEF EnterSlowpath
  <2>2. TypeOK'
    BY <1>2, <2>1 DEF TypeOK, Labels, EnterSlowpath, CanTake, Take, Goto
  <2>3. ListInv'
    BY <1>2, <2>1 DEF TypeOK, ListInv, EnterSlowpath, CanTake, Take, Goto
  <2>4. SpinInv'
    BY <1>2, <2>1 DEF TypeOK, SpinInv, EnterSlowpath, CanTake, Take, Goto
  <2>5. WordInv'
    BY <1>2, <2>1
       DEF TypeOK, WordInv, Holds, ListInv, SpinInv, EnterSlowpath, CanTake,
           Take, Goto
  <2> QED
    BY <2>2, <2>3, <2>4, <2>5
<1>3. CASE AddWaiter(t)
  <2>1. /\ wait_list' \in Seq(Tasks)
        /\ \A u \in Tasks : Listed(u)' <=> Listed(u) \/ u = t
        /\ Distinct'
    BY <1>3, ListAppend DEF AddWaiter, TypeOK, ListInv
  <2>2. TypeOK'
    BY <1>3, <2>1 DEF TypeOK, Labels, AddWaiter, Goto, Sleep
  <2>3. ListInv'
    BY <1>3, <2>1 DEF TypeOK, ListInv, AddWaiter, Goto, Sleep
  <2>4. SpinInv'
    BY <1>3, <2>1 DEF TypeOK, SpinInv, AddWaiter, Goto, Sleep
  <2>5. WordInv'
    BY <1>3, <2>1
       DEF TypeOK, WordInv, Holds, ListInv, SpinInv, AddWaiter, Goto, Sleep
  <2> QED
    BY <2>2, <2>3, <2>4, <2>5
<1>4. CASE TrylockWaiting(t)
  <2>1. /\ \A u \in Tasks : Listed(u)' <=> Listed(u)
        /\ Distinct' <=> Distinct
    BY <1>4, ListSame DEF TrylockWaiting
  <2>2. TypeOK'
    BY <1>4, <2>1 DEF TypeOK, Labels, TrylockWaiting, CanTake, Take, Goto
  <2>3. ListInv'
    BY <1>4, <2>1 DEF TypeOK, ListInv, TrylockWaiting, CanTake, Take, Goto
  <2>4. SpinInv'
    BY <1>4, <2>1 DEF TypeOK, SpinInv, TrylockWaiting, CanTake, Take, Goto
  <2>5. WordInv'
    BY <1>4, <2>1
       DEF TypeOK, WordInv, Holds, ListInv, SpinInv, TrylockWaiting,
           CanTake, Take, Goto
  <2> QED
    BY <2>2, <2>3, <2>4, <2>5
<1>5. CASE CheckSignal(t)
  <2>1. /\ wait_list' \in Seq(Tasks)
        /\ \A u \in Tasks :
             Listed(u)' <=> Listed(u) /\ ~(signal[t] /\ u = t)
        /\ Distinct'
        /\ \/ UNCHANGED <<owner, flags>>
           \/ /\ UNCHANGED owner /\ flags' = {}
              /\ \A u \in Tasks : ~Listed(u)'
    <3>1. CASE signal[t] = TRUE
      BY <1>5, <3>1, ListRemove
         DEF CheckSignal, RemoveWaiter, TypeOK, ListInv
    <3>2. CASE signal[t] = FALSE
      BY <1>5, <3>2, ListSame DEF CheckSignal, TypeOK, ListInv
    <3> QED
      BY <3>1, <3>2 DEF TypeOK
  <2>2. TypeOK'
    BY <1>5, <2>1, ZenonT(60)
    DEF TypeOK, Labels, CheckSignal, Goto, Sleep, RemoveWaiter
  <2>3. ListInv'
    BY <1>5, <2>1 DEF TypeOK, ListInv, CheckSignal, Goto, Sleep, RemoveWaiter
  <2>4. SpinInv'
    BY <1>5, <2>1 DEF TypeOK, SpinInv, CheckSignal, Goto, Sleep, RemoveWaiter
  <2>5. WordInv'
    BY <1>5, <2>1
       DEF TypeOK, WordInv, Holds, ListInv, SpinInv, CheckSignal, Goto,
           Sleep, RemoveWaiter
  <2> QED
    BY <2>2, <2>3, <2>4, <2>5
<1>6. CASE Awake(t)
  <2>1. /\ \A u \in Tasks : Listed(u)' <=> Listed(u)
        /\ Distinct' <=> Distinct
    BY <1>6, ListSame DEF Awake
  <2>2. TypeOK'
    BY <1>6, <2>1 DEF TypeOK, Labels, Awake, IsFirst, Goto, Sleep
  <2>3. ListInv'
    BY <1>6, <2>1 DEF TypeOK, ListInv, Awake, IsFirst, Goto, Sleep
  <2>4. SpinInv'
    BY <1>6, <2>1 DEF TypeOK, SpinInv, Awake, IsFirst, Goto, Sleep
  <2>5. WordInv'
    BY <1>6, <2>1
       DEF TypeOK, WordInv, Holds, ListInv, SpinInv, Awake, IsFirst, Goto,
           Sleep
  <2> QED
    BY <2>2, <2>3, <2>4, <2>5
<1>7. CASE TrylockOrHandoff(t)
  <2>1. /\ \A u \in Tasks : Listed(u)' <=> Listed(u)
        /\ Distinct' <=> Distinct
    BY <1>7, ListSame DEF TrylockOrHandoff
  <2>2. TypeOK'
    BY <1>7, <2>1 DEF TypeOK, Labels, TrylockOrHandoff, CanTake, Take, Goto
  <2>3. ListInv'
    BY <1>7, <2>1 DEF TypeOK, ListInv, TrylockOrHandoff, CanTake, Take, Goto
  <2>4. SpinInv'
    BY <1>7, <2>1 DEF TypeOK, SpinInv, TrylockOrHandoff, CanTake, Take, Goto
  <2>5. WordInv'
    BY <1>7, <2>1
       DEF TypeOK, WordInv, Holds, ListInv, SpinInv, TrylockOrHandoff,
           CanTake, Take, Goto
  <2> QED
    BY <2>2, <2>3, <2>4, <2>5
<1>8. CASE TrylockFirst(t)
  <2>1. /\ \A u \in Tasks : Listed(u)' <=> Listed(u)
        /\ Distinct' <=> Distinct
    BY <1>8, ListSame DEF TrylockFirst
  <2>2. TypeOK'
    BY <1>8, <2>1 DEF TypeOK, Labels, TrylockFirst, CanTake, Take, Goto
  <2>3. ListInv'
    BY <1>8, <2>1 DEF TypeOK, ListInv, TrylockFirst, CanTake, Take, Goto
  <2>4. SpinInv'
    BY <1>8, <2>1 DEF TypeOK, SpinInv, TrylockFirst, CanTake, Take, Goto
  <2>5. WordInv'
    BY <1>8, <2>1
       DEF TypeOK, WordInv, Holds, ListInv, SpinInv, TrylockFirst, CanTake,
           Take, Goto
  <2> QED
    BY <2>2, <2>3, <2>4, <2>5
<1>9. CASE Relock(t)
  <2>1. /\ \A u \in Tasks : Listed(u)' <=> Listed(u)
        /\ Distinct' <=> Distinct
    BY <1>9, ListSame DEF Relock
  <2>2. TypeOK'
    BY <1>9, <2>1 DEF TypeOK, Labels, Relock, Goto
  <2>3. ListInv'
    BY <1>9, <2>1 DEF TypeOK, ListInv, Relock, Goto
  <2>4. SpinInv'
    BY <1>9, <2>1 DEF TypeOK, SpinInv, Relock, Goto
  <2>5. WordInv'
    BY <1>9, <2>1 DEF TypeOK, WordInv, Holds, ListInv, SpinInv, Relock, Goto
  <2> QED
    BY <2>2, <2>3, <2>4, <2>5
<1>10. CASE Acquired(t)
  <2>1. /\ wait_list' \in Seq(Tasks)
        /\ \A u \in Tasks : Listed(u)' <=> Listed(u) /\ u # t
        /\ Distinct'
        /\ UNCHANGED flags \/ flags' = {}
    BY <1>10, ListRemove DEF Acquired, RemoveWaiter, TypeOK, ListInv
  <2>2. TypeOK'
    BY <1>10, <2>1 DEF TypeOK, Labels, Acquired, Goto, Sleep, RemoveWaiter
  <2>3. ListInv'
    BY <1>10, <2>1 DEF TypeOK, ListInv, Acquired, Goto, Sleep, RemoveWaiter
  <2>4. SpinInv'
    BY <1>10, <2>1 DEF TypeOK, SpinInv, Acquired, Goto, Sleep, RemoveWaiter
  <2>5. WordInv'
    BY <1>10, <2>1
       DEF TypeOK, WordInv, Holds, ListInv, SpinInv, Acquired, Goto, Sleep,
           RemoveWaiter
  <2> QED
    BY <2>2, <2>3, <2>4, <2>5
<1> QED
  BY <1>1, <1>2, <1>3, <1>4, <1>5, <1>6, <1>7, <1>8, <1>9, <1>10 DEF LockStep

(* The steps of mutex_unlock keep it.                                      *)
LEMMA UnlockStepInv ==
  ASSUME IInv, NEW t \in Tasks, UnlockStep(t)
  PROVE  IInv'
<1> USE NobodyIsNoTask DEF IInv, InLoop, word, waiters
<1>1. CASE Unlock(t)
  <2>1. /\ \A u \in Tasks : Listed(u)' <=> Listed(u)
        /\ Distinct' <=> Distinct
    BY <1>1, ListSame DEF Unlock
  <2>2. TypeOK'
    BY <1>1, <2>1 DEF TypeOK, Labels, Unlock, Goto
  <2>3. ListInv'
    BY <1>1, <2>1 DEF TypeOK, ListInv, Unlock, Goto
  <2>4. SpinInv'
    BY <1>1, <2>1 DEF TypeOK, SpinInv, Unlock, Goto
  <2>5. WordInv'
    BY <1>1, <2>1 DEF TypeOK, WordInv, Holds, ListInv, SpinInv, Unlock, Goto
  <2> QED
    BY <2>2, <2>3, <2>4, <2>5
<1>2. CASE UnlockSlowpath(t)
  <2>1. /\ \A u \in Tasks : Listed(u)' <=> Listed(u)
        /\ Distinct' <=> Distinct
        /\ wait_list # <<>> =>
             Head(wait_list) \in Tasks /\ Listed(Head(wait_list))
    BY <1>2, ListSame, ListHead DEF UnlockSlowpath
  <2>2. TypeOK'
    BY <1>2, <2>1, ZenonT(60) DEF TypeOK, Labels, UnlockSlowpath, Goto
  <2>3. ListInv'
    BY <1>2, <2>1 DEF TypeOK, ListInv, UnlockSlowpath, Goto
  <2>4. SpinInv'
    BY <1>2, <2>1 DEF TypeOK, SpinInv, UnlockSlowpath, Goto
  <2>5. WordInv'
    BY <1>2, <2>1
       DEF TypeOK, WordInv, Holds, ListInv, SpinInv, UnlockSlowpath, Goto
  <2> QED
    BY <2>2, <2>3, <2>4, <2>5
<1>3. CASE WakeUp(t)
  <2>1. /\ \A u \in Tasks : Listed(u)' <=> Listed(u)
        /\ Distinct' <=> Distinct
    BY <1>3, ListSame DEF WakeUp
  <2>2. TypeOK'
    BY <1>3, <2>1 DEF TypeOK, Labels, WakeUp, Goto
  <2>3. ListInv'
    BY <1>3, <2>1 DEF TypeOK, ListInv, WakeUp, Goto
  <2>4. SpinInv'
    BY <1>3, <2>1 DEF TypeOK, SpinInv, WakeUp, Goto
  <2>5. WordInv'
    BY <1>3, <2>1 DEF TypeOK, WordInv, Holds, ListInv, SpinInv, WakeUp, Goto
  <2> QED
    BY <2>2, <2>3, <2>4, <2>5
<1> QED
  BY <1>1, <1>2, <1>3 DEF UnlockStep

(* What the tasks do between, and signals, keep it.                        *)
LEMMA TaskStepInv ==
  ASSUME IInv, NEW t \in Tasks, Lock(t) \/ Interrupt(t) \/ Leave(t)
  PROVE  IInv'
<1> USE NobodyIsNoTask DEF IInv, InLoop, word, waiters
<1>1. CASE Lock(t)
  <2>1. /\ \A u \in Tasks : Listed(u)' <=> Listed(u)
        /\ Distinct' <=> Distinct
    BY <1>1, ListSame DEF Lock
  <2>2. TypeOK'
    BY <1>1, <2>1 DEF TypeOK, Labels, Lock, Goto
  <2>3. ListInv'
    BY <1>1, <2>1 DEF TypeOK, ListInv, Lock, Goto
  <2>4. SpinInv'
    BY <1>1, <2>1 DEF TypeOK, SpinInv, Lock, Goto
  <2>5. WordInv'
    BY <1>1, <2>1 DEF TypeOK, WordInv, Holds, ListInv, SpinInv, Lock, Goto
  <2> QED
    BY <2>2, <2>3, <2>4, <2>5
<1>2. CASE Interrupt(t)
  <2>1. /\ \A u \in Tasks : Listed(u)' <=> Listed(u)
        /\ Distinct' <=> Distinct
    BY <1>2, ListSame DEF Interrupt
  <2>2. TypeOK'
    BY <1>2, <2>1 DEF TypeOK, Labels, Interrupt
  <2>3. ListInv'
    BY <1>2, <2>1 DEF TypeOK, ListInv, Interrupt
  <2>4. SpinInv'
    BY <1>2, <2>1 DEF TypeOK, SpinInv, Interrupt
  <2>5. WordInv'
    BY <1>2, <2>1 DEF TypeOK, WordInv, Holds, ListInv, SpinInv, Interrupt
  <2> QED
    BY <2>2, <2>3, <2>4, <2>5
<1>3. CASE Leave(t)
  <2>1. /\ \A u \in Tasks : Listed(u)' <=> Listed(u)
        /\ Distinct' <=> Distinct
    BY <1>3, ListSame DEF Leave
  <2>2. TypeOK'
    BY <1>3, <2>1 DEF TypeOK, Labels, Leave, Goto
  <2>3. ListInv'
    BY <1>3, <2>1 DEF TypeOK, ListInv, Leave, Goto
  <2>4. SpinInv'
    BY <1>3, <2>1 DEF TypeOK, SpinInv, Leave, Goto
  <2>5. WordInv'
    BY <1>3, <2>1 DEF TypeOK, WordInv, Holds, ListInv, SpinInv, Leave, Goto
  <2> QED
    BY <2>2, <2>3, <2>4, <2>5
<1> QED
  BY <1>1, <1>2, <1>3

(* A step that changes nothing keeps it.                                   *)
LEMMA StutterInv ==
  ASSUME IInv, UNCHANGED vars
  PROVE  IInv'
BY DEF IInv, TypeOK, ListInv, Distinct, Listed, SpinInv, WordInv, Holds, vars,
       word, waiters

(* IInv is an invariant of the mutex, for any tasks.                       *)
THEOREM MutexInvariant == Spec => []IInv
<1>1. IInv /\ [Next]_vars => IInv'
  BY LockStepInv, UnlockStepInv, TaskStepInv, StutterInv DEF Next
<1> QED
  BY <1>1, InitInv, PTL DEF Spec

(* The MUTEX_WARN_ON of mutex.c are never true, whatever the number of     *)
(* tasks that lock, unlock, sleep and are interrupted.                     *)
THEOREM WarningsNeverFire == Spec => []NoWarning
<1>1. IInv => NoWarning
  BY DEF IInv, TypeOK, WordInv, Holds, NoWarning
<1> QED
  BY <1>1, MutexInvariant, PTL

(* A mutex that is handed to a waiter is not lost when that waiter is      *)
(* interrupted at the same time.                                           *)
THEOREM HandoffArrives == Spec => []HandoffNotLost
<1>1. IInv => HandoffNotLost
  BY DEF IInv, TypeOK, WordInv, Holds, HandoffNotLost
<1> QED
  BY <1>1, MutexInvariant, PTL
-----------------------------------------------------------------------------
(* The mutex implements InterruptibleLock.                                 *)
(* What PhaseOf says, without its CASE.                                    *)
LEMMA PhaseValues ==
  ASSUME NEW t \in Tasks
  PROVE  /\ owner = t => PhaseOf(t) = "in"
         /\ owner # t /\ pc[t] = "enter" => PhaseOf(t) = "asking"
         /\ /\ owner # t
            /\ pc[t] \in {"add", "check", "signal", "schedule", "again",
                          "relock"}
            => PhaseOf(t) = "waiting"
         /\ owner # t /\ pc[t] = "eintr" => PhaseOf(t) = "interrupted"
         /\ /\ owner # t
            /\ pc[t] \in {"idle", "acquired", "held", "unlock_slowpath",
                          "wake_up", "done"}
            => PhaseOf(t) = "out"
BY DEF PhaseOf

LEMMA PhaseValuesNext ==
  ASSUME NEW t \in Tasks
  PROVE  /\ owner' = t => PhaseOf(t)' = "in"
         /\ owner' # t /\ pc'[t] = "enter" => PhaseOf(t)' = "asking"
         /\ /\ owner' # t
            /\ pc'[t] \in {"add", "check", "signal", "schedule", "again",
                           "relock"}
            => PhaseOf(t)' = "waiting"
         /\ owner' # t /\ pc'[t] = "eintr" => PhaseOf(t)' = "interrupted"
         /\ /\ owner' # t
            /\ pc'[t] \in {"idle", "acquired", "held", "unlock_slowpath",
                           "wake_up", "done"}
            => PhaseOf(t)' = "out"
BY DEF PhaseOf

(* A step of t that gives the mutex to nobody else changes its phase only. *)
LEMMA PhaseStep ==
  ASSUME NEW t \in Tasks,
         \A u \in Tasks \ {t} :
           pc'[u] = pc[u] /\ (owner' = u <=> owner = u)
  PROVE  /\ Phase' = [Phase EXCEPT ![t] = PhaseOf(t)']
         /\ Phase[t] = PhaseOf(t)
         /\ PhaseOf(t)' = PhaseOf(t) => Phase' = Phase
<1>1. ASSUME NEW u \in Tasks \ {t} PROVE PhaseOf(u)' = PhaseOf(u)
  BY DEF PhaseOf
<1> QED
  BY <1>1, Zenon DEF Phase

(* Every step of a task is a step of the abstract lock or changes nothing  *)
(* there.                                                                  *)
LEMMA StepSimulation ==
  ASSUME IInv, NEW t \in Tasks,
         Lock(t) \/ LockStep(t) \/ UnlockStep(t) \/ Interrupt(t) \/ Leave(t)
  PROVE  [Abstract!Next]_(Abstract!vars)
<1> USE NobodyIsNoTask DEF IInv, word, waiters
<1>1. CASE Lock(t)
  <2>1. \A u \in Tasks \ {t} : pc'[u] = pc[u] /\ (owner' = u <=> owner = u)
    BY <1>1 DEF TypeOK, WordInv, Holds, Lock, Goto
  <2>2. Abstract!Ask(t)
    BY <1>1, <2>1, PhaseStep, PhaseValues, PhaseValuesNext
       DEF TypeOK, WordInv, Holds, Lock, Goto, Abstract!Ask, Abstract!Enter
  <2> QED
    BY <2>2 DEF Abstract!Next, Abstract!vars
<1>2. CASE Trylock(t)
  <2>1. \A u \in Tasks \ {t} : pc'[u] = pc[u] /\ (owner' = u <=> owner = u)
    BY <1>2 DEF TypeOK, WordInv, Holds, Trylock, CanTake, Take, Goto
  <2>2. Abstract!Acquire(t)
    BY <1>2, <2>1, PhaseStep, PhaseValues, PhaseValuesNext
       DEF TypeOK, WordInv, Holds, Trylock, CanTake, Take, Goto,
           Abstract!Acquire, Abstract!Enter
  <2> QED
    BY <2>2 DEF Abstract!Next, Abstract!vars
<1>3. CASE EnterSlowpath(t)
  <2>1. \A u \in Tasks \ {t} : pc'[u] = pc[u] /\ (owner' = u <=> owner = u)
    BY <1>3 DEF TypeOK, WordInv, Holds, EnterSlowpath, CanTake, Take, Goto
  <2>2. Abstract!Acquire(t) \/ Abstract!Wait(t)
    BY <1>3, <2>1, PhaseStep, PhaseValues, PhaseValuesNext
       DEF TypeOK, WordInv, Holds, EnterSlowpath, CanTake, Take, Goto,
           Abstract!Acquire, Abstract!Wait, Abstract!Enter
  <2> QED
    BY <2>2 DEF Abstract!Next, Abstract!vars
<1>4. CASE AddWaiter(t)
  <2>1. \A u \in Tasks \ {t} : pc'[u] = pc[u] /\ (owner' = u <=> owner = u)
    BY <1>4 DEF TypeOK, WordInv, Holds, AddWaiter, Goto
  <2>2. UNCHANGED <<owner, Phase, signal>>
    BY <1>4, <2>1, PhaseStep, PhaseValues, PhaseValuesNext
       DEF TypeOK, WordInv, Holds, AddWaiter, Goto
  <2> QED
    BY <2>2 DEF Abstract!Next, Abstract!vars
<1>5. CASE TrylockWaiting(t)
  <2>1. \A u \in Tasks \ {t} : pc'[u] = pc[u] /\ (owner' = u <=> owner = u)
    BY <1>5 DEF TypeOK, WordInv, Holds, TrylockWaiting, CanTake, Take, Goto
  <2>2. Abstract!Acquire(t) \/ UNCHANGED <<owner, Phase, signal>>
    BY <1>5, <2>1, PhaseStep, PhaseValues, PhaseValuesNext
       DEF TypeOK, WordInv, Holds, TrylockWaiting, CanTake, Take, Goto,
           Abstract!Acquire, Abstract!Enter
  <2> QED
    BY <2>2 DEF Abstract!Next, Abstract!vars
<1>6. CASE CheckSignal(t)
  <2>1. \A u \in Tasks \ {t} : pc'[u] = pc[u] /\ (owner' = u <=> owner = u)
    BY <1>6 DEF TypeOK, WordInv, Holds, CheckSignal, Goto
  <2>2. Abstract!GiveUp(t) \/ UNCHANGED <<owner, Phase, signal>>
    BY <1>6, <2>1, PhaseStep, PhaseValues, PhaseValuesNext, ZenonT(60)
       DEF TypeOK, WordInv, Holds, CheckSignal, Goto, Abstract!GiveUp,
           Abstract!Enter
  <2> QED
    BY <2>2 DEF Abstract!Next, Abstract!vars
<1>7. CASE Awake(t)
  <2>1. \A u \in Tasks \ {t} : pc'[u] = pc[u] /\ (owner' = u <=> owner = u)
    BY <1>7 DEF TypeOK, WordInv, Holds, Awake, Goto
  <2>2. UNCHANGED <<owner, Phase, signal>>
    BY <1>7, <2>1, PhaseStep, PhaseValues, PhaseValuesNext
       DEF TypeOK, WordInv, Holds, Awake, Goto
  <2> QED
    BY <2>2 DEF Abstract!Next, Abstract!vars
<1>8. CASE TrylockOrHandoff(t)
  <2>1. \A u \in Tasks \ {t} : pc'[u] = pc[u] /\ (owner' = u <=> owner = u)
    BY <1>8 DEF TypeOK, WordInv, Holds, TrylockOrHandoff, CanTake, Take, Goto
  <2>2. Abstract!Acquire(t) \/ UNCHANGED <<owner, Phase, signal>>
    BY <1>8, <2>1, PhaseStep, PhaseValues, PhaseValuesNext
       DEF TypeOK, WordInv, Holds, TrylockOrHandoff, CanTake, Take, Goto,
           Abstract!Acquire, Abstract!Enter
  <2> QED
    BY <2>2 DEF Abstract!Next, Abstract!vars
<1>9. CASE TrylockFirst(t)
  <2>1. \A u \in Tasks \ {t} : pc'[u] = pc[u] /\ (owner' = u <=> owner = u)
    BY <1>9 DEF TypeOK, WordInv, Holds, TrylockFirst, CanTake, Take, Goto
  <2>2. Abstract!Acquire(t) \/ UNCHANGED <<owner, Phase, signal>>
    BY <1>9, <2>1, PhaseStep, PhaseValues, PhaseValuesNext
       DEF TypeOK, WordInv, Holds, TrylockFirst, CanTake, Take, Goto,
           Abstract!Acquire, Abstract!Enter
  <2> QED
    BY <2>2 DEF Abstract!Next, Abstract!vars
<1>10. CASE Relock(t)
  <2>1. \A u \in Tasks \ {t} : pc'[u] = pc[u] /\ (owner' = u <=> owner = u)
    BY <1>10 DEF TypeOK, WordInv, Holds, Relock, Goto
  <2>2. UNCHANGED <<owner, Phase, signal>>
    BY <1>10, <2>1, PhaseStep, PhaseValues, PhaseValuesNext
       DEF TypeOK, WordInv, Holds, Relock, Goto
  <2> QED
    BY <2>2 DEF Abstract!Next, Abstract!vars
<1>11. CASE Acquired(t)
  <2>1. \A u \in Tasks \ {t} : pc'[u] = pc[u] /\ (owner' = u <=> owner = u)
    BY <1>11 DEF TypeOK, WordInv, Holds, Acquired, Goto
  <2>2. UNCHANGED <<owner, Phase, signal>>
    BY <1>11, <2>1, PhaseStep, PhaseValues, PhaseValuesNext
       DEF TypeOK, WordInv, Holds, Acquired, Goto
  <2> QED
    BY <2>2 DEF Abstract!Next, Abstract!vars
<1>12. CASE Unlock(t)
  <2>1. \A u \in Tasks \ {t} : pc'[u] = pc[u] /\ (owner' = u <=> owner = u)
    BY <1>12 DEF TypeOK, WordInv, Holds, Unlock, Goto
  <2>2. Abstract!Release(t) \/ UNCHANGED <<owner, Phase, signal>>
    BY <1>12, <2>1, PhaseStep, PhaseValues, PhaseValuesNext
       DEF TypeOK, WordInv, Holds, Unlock, Goto, Abstract!Release,
           Abstract!Enter
  <2> QED
    BY <2>2 DEF Abstract!Next, Abstract!vars
<1>13. CASE UnlockSlowpath(t) /\ ~(handoff[t] /\ wait_list # <<>>)
  <2>1. \A u \in Tasks \ {t} : pc'[u] = pc[u] /\ (owner' = u <=> owner = u)
    BY <1>13 DEF TypeOK, WordInv, Holds, UnlockSlowpath, Goto
  <2>2. Abstract!Release(t) \/ UNCHANGED <<owner, Phase, signal>>
    BY <1>13, <2>1, PhaseStep, PhaseValues, PhaseValuesNext
       DEF TypeOK, WordInv, Holds, UnlockSlowpath, Goto, Abstract!Release,
           Abstract!Enter
  <2> QED
    BY <2>2 DEF Abstract!Next, Abstract!vars
<1>14. CASE UnlockSlowpath(t) /\ handoff[t] /\ wait_list # <<>>
  <2>1. PICK n \in Tasks : n = Head(wait_list) /\ Listed(n)
    BY <1>14, ListHead
  <2>2. /\ owner = t /\ owner' = n /\ n # t
        /\ pc[n] \in {"schedule", "again", "relock"}
        /\ pc'[t] = "wake_up"
        /\ \A u \in Tasks \ {t} : pc'[u] = pc[u]
        /\ UNCHANGED signal
    <3>1. owner = t /\ owner' = n /\ pc' = [pc EXCEPT ![t] = "wake_up"]
      BY <1>14, <2>1 DEF TypeOK, WordInv, Holds, UnlockSlowpath, Goto
    <3>2. pc[n] \in InLoop /\ n # t
      BY <1>14, <2>1 DEF ListInv, InLoop, UnlockSlowpath
    <3>3. pc[n] \in {"schedule", "again", "relock"}
      BY <1>14, <2>1, <3>1, <3>2
         DEF InLoop, SpinInv, WordInv, Holds, UnlockSlowpath
    <3> QED
      BY <1>14, <3>1, <3>2, <3>3 DEF TypeOK, UnlockSlowpath
  <2>3. ASSUME NEW u \in Tasks \ {t, n} PROVE PhaseOf(u)' = PhaseOf(u)
    BY <2>2 DEF PhaseOf
  <2>4. /\ PhaseOf(t) = "in" /\ PhaseOf(t)' = "out"
        /\ PhaseOf(n) = "waiting" /\ PhaseOf(n)' = "in"
    BY <2>1, <2>2, PhaseValues, PhaseValuesNext
  <2>5. Abstract!HandOver(t, n)
    BY <2>1, <2>2, <2>3, <2>4 DEF Phase, Abstract!HandOver
  <2> QED
    BY <2>1, <2>5 DEF Abstract!Next
<1>15. CASE WakeUp(t)
  <2>1. \A u \in Tasks \ {t} : pc'[u] = pc[u] /\ (owner' = u <=> owner = u)
    BY <1>15 DEF TypeOK, WordInv, Holds, WakeUp, Goto
  <2>2. UNCHANGED <<owner, Phase, signal>>
    BY <1>15, <2>1, PhaseStep, PhaseValues, PhaseValuesNext
       DEF TypeOK, WordInv, Holds, WakeUp, Goto
  <2> QED
    BY <2>2 DEF Abstract!Next, Abstract!vars
<1>16. CASE Leave(t)
  <2>1. \A u \in Tasks \ {t} : pc'[u] = pc[u] /\ (owner' = u <=> owner = u)
    BY <1>16 DEF TypeOK, WordInv, Holds, Leave, Goto
  <2>2. Abstract!Leave(t)
    BY <1>16, <2>1, PhaseStep, PhaseValues, PhaseValuesNext
       DEF TypeOK, WordInv, Holds, Leave, Goto, Abstract!Leave,
           Abstract!Enter
  <2> QED
    BY <2>2 DEF Abstract!Next, Abstract!vars
<1>17. CASE Interrupt(t)
  <2>1. Abstract!Interrupt(t)
    BY <1>17 DEF Interrupt, Phase, PhaseOf, Abstract!Interrupt
  <2> QED
    BY <2>1 DEF Abstract!Next
<1> QED
  BY <1>1, <1>2, <1>3, <1>4, <1>5, <1>6, <1>7, <1>8, <1>9, <1>10, <1>11,
     <1>12,
     <1>13, <1>14, <1>15, <1>16, <1>17 DEF LockStep, UnlockStep

(* mutex_lock_interruptible and mutex_unlock implement, for any tasks, the *)
(* lock with one holder that gives -EINTR only to an interrupted waiter.   *)
THEOREM MutexIsLock == Spec => ImplementsLock
<1>1. Init => Abstract!Init
  BY NobodyIsNoTask DEF Init, Phase, PhaseOf, Abstract!Init
<1>2. IInv /\ [Next]_vars => [Abstract!Next]_(Abstract!vars)
  <2> SUFFICES ASSUME IInv, [Next]_vars
               PROVE  [Abstract!Next]_(Abstract!vars)
    OBVIOUS
  <2>1. CASE Next
    BY <2>1, StepSimulation DEF Next
  <2>2. CASE UNCHANGED vars
    BY <2>2 DEF vars, word, waiters, Phase, PhaseOf, Abstract!vars
  <2> QED
    BY <2>1, <2>2
<1> QED
  BY <1>1, <1>2, MutexInvariant, PTL DEF Spec, ImplementsLock, Abstract!Spec
=============================================================================
