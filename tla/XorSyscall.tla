----------------------------- MODULE XorSyscall -----------------------------
(***************************************************************************)
(* The two system calls of Practica2: my_encrypt (kernel/my_encrypt.c) and *)
(* my_decrypt (kernel/my_decrypt.c).  An invocation reads a data file and  *)
(* a key file, starts num_threads kernel threads that XOR one segment of   *)
(* the data each, stops them, and writes the buffer to the output file.    *)
(*                                                                         *)
(* The two C files are one program under a renaming of identifiers; what   *)
(* tells them apart at run time is the mutex their workers take.  Each     *)
(* step is defined once, from my_encrypt.c, and the last section puts the  *)
(* steps together under the function names of both files.                  *)
(*                                                                         *)
(* A call is one invocation by one process; a worker is <<call, i>>, the   *)
(* kernel thread workers[i] of that call.  Byte k of a C buffer is element *)
(* k + 1 of a sequence.                                                    *)
(***************************************************************************)
EXTENDS Integers, Sequences

CONSTANTS
  EncryptCalls,  \* invocations of system call 548
  DecryptCalls,  \* invocations of system call 549
  Files,         \* path names
  Byte,          \* the values of an unsigned char
  Xor(_, _),     \* the ^ operator on Byte
  MaxThreads,    \* bound on num_threads
  Requests,      \* the argument tuples a process may pass
  InitialDisks,  \* the file systems a behaviour may start from
  Faults         \* failures of the environment that may happen

Calls == EncryptCalls \cup DecryptCalls
Slots == 0 .. MaxThreads - 1
Workers == Calls \X Slots

ASSUME CallsDisjoint == EncryptCalls \cap DecryptCalls = {}

ASSUME XorInvolution ==
  \A b, k \in Byte : Xor(b, k) \in Byte /\ Xor(Xor(b, k), k) = b

ASSUME MaxThreadsNat == MaxThreads \in Nat

ASSUME RequestsType ==
  \A r \in Requests :
    /\ r \in [src_file : Files, dest_file : Files,
              key_filepath : Files, num_threads : Int]
    /\ r.num_threads <= MaxThreads

ASSUME InitialDisksType ==
  \A d \in InitialDisks :
    DOMAIN d \subseteq Files /\ d \in [DOMAIN d -> Seq(Byte)]

ASSUME FaultsType ==
  Faults \subseteq {"copy", "open", "read", "alloc", "spawn", "write"}

VARIABLES
  disk,       \* the files that exist and their contents
  locked,     \* sync_lock and decrypt_mutex: is the mutex held?
  corrupted,  \* history: a thread has used memory after it was freed
  pc,         \* where each call is
  req,        \* its arguments
  buf,        \* file_data; data_len is Len(buf)
  key,        \* key_data; key_len is Len(key)
  plain,      \* history: buf as the workers found it
  short,      \* history: kernel_read or kernel_write moved fewer bytes
  mem,        \* the allocations the call has not freed
  cur,        \* the loop variable i
  offset,     \* the local variable offset
  result,     \* the value returned
  phase,      \* where each worker is
  range,      \* worker_args[i].range_start and range_end
  idx,        \* the worker's loop variable
  ret,        \* the value threadfn returned, kept in kthread->result
  stop,       \* KTHREAD_SHOULD_STOP and TIF_NOTIFY_SIGNAL
  task        \* the thread whose task_struct is where workers[i] points

ioVars == <<disk, buf, key, plain, short>>
workerVars == <<phase, range, idx, ret, stop, task>>
vars == <<disk, locked, corrupted, pc, req, buf, key, plain, short, mem, cur,
          offset, result, phase, range, idx, ret, stop, task>>

PCs == {"idle", "read_data", "fill_data", "load_key", "fill_key", "alloc",
        "spawn", "stop", "join", "save", "write", "cleanup", "returned",
        "oops"}
Results == {"none", "0", "-EFAULT", "-EIO", "-ENOMEM", "spawn error",
            "save error"}
Phases == {"none", "woken", "lock", "wait", "loop", "xor", "exited", "joined",
           "gone"}
Allocations == {"file_data", "key_data", "workers", "worker_args"}

MutexOf(c) == IF c \in EncryptCalls THEN "sync_lock" ELSE "decrypt_mutex"
Mutexes == {"sync_lock", "decrypt_mutex"}

num_threads(c) == req[c].num_threads
segment_size(c) == Len(buf[c]) \div num_threads(c)

(* The first n bytes of new over the first n bytes of old: what a read     *)
(* into a buffer and a write into a file that is not truncated both do.    *)
Overwrite(old, new, n) ==
  [k \in 1 .. (IF n > Len(old) THEN n ELSE Len(old)) |->
     IF k <= n THEN new[k] ELSE old[k]]

Init ==
  /\ disk \in InitialDisks
  /\ locked = [m \in Mutexes |-> FALSE]
  /\ corrupted = FALSE
  /\ pc = [c \in Calls |-> "idle"]
  /\ req \in [Calls -> Requests]
  /\ buf = [c \in Calls |-> <<>>]
  /\ key = [c \in Calls |-> <<>>]
  /\ plain = [c \in Calls |-> <<>>]
  /\ short = [c \in Calls |-> FALSE]
  /\ mem = [c \in Calls |-> {}]
  /\ cur = [c \in Calls |-> 0]
  /\ offset = [c \in Calls |-> 0]
  /\ result = [c \in Calls |-> "none"]
  /\ phase = [w \in Workers |-> "none"]
  /\ range = [w \in Workers |-> <<0, 0>>]
  /\ idx = [w \in Workers |-> 0]
  /\ ret = [w \in Workers |-> "none"]
  /\ stop = [w \in Workers |-> FALSE]
  /\ task = [w \in Workers |-> w]

Goto(c, l) == pc' = [pc EXCEPT ![c] = l]

(* Leave the system call with value v, the allocations in m never freed.   *)
Return(c, v, m) ==
  /\ Goto(c, "returned")
  /\ result' = [result EXCEPT ![c] = v]
  /\ mem' = [mem EXCEPT ![c] = m]
-----------------------------------------------------------------------------
(* The three copy_from_user of the path names.                             *)
CopyFromUser(c) ==
  /\ pc[c] = "idle"
  /\ Goto(c, "read_data")
  /\ UNCHANGED <<ioVars, workerVars, locked, corrupted, req, mem, cur, offset,
                 result>>

CopyFault(c) ==
  /\ pc[c] = "idle"
  /\ "copy" \in Faults
  /\ Return(c, "-EFAULT", {})
  /\ UNCHANGED <<ioVars, workerVars, locked, corrupted, req, cur, offset>>

(* filp_open, i_size_read and kmalloc of a loader succeed only on a file   *)
(* that exists and is not empty.                                           *)
Loadable(f) == f \in DOMAIN disk /\ Len(disk[f]) > 0
LoadFailure(f) == ~Loadable(f) \/ "open" \in Faults

(* How many bytes kernel_read may move from file f into a buffer of size n.*)
(* The loaders drop this count.                                            *)
ReadCounts(f, n) ==
  LET avail == IF Len(disk[f]) < n THEN Len(disk[f]) ELSE n
  IN  IF "read" \in Faults THEN 0 .. avail ELSE {avail}

(* read_data_from_file *)
ReadDataFails(c) ==
  /\ pc[c] = "read_data"
  /\ LoadFailure(req[c].src_file)
  /\ Return(c, "-EIO", {})
  /\ UNCHANGED <<ioVars, workerVars, locked, corrupted, req, cur, offset>>

(* The size is read and the buffer allocated, its bytes not initialized.   *)
SizeData(c) ==
  /\ pc[c] = "read_data"
  /\ Loadable(req[c].src_file)
  /\ \E junk \in [1 .. Len(disk[req[c].src_file]) -> Byte] :
       buf' = [buf EXCEPT ![c] = junk]
  /\ mem' = [mem EXCEPT ![c] = @ \cup {"file_data"}]
  /\ Goto(c, "fill_data")
  /\ UNCHANGED <<workerVars, disk, key, plain, short, locked, corrupted, req,
                 cur, offset, result>>

FillData(c) ==
  /\ pc[c] = "fill_data"
  /\ \E n \in ReadCounts(req[c].src_file, Len(buf[c])) :
       /\ buf' = [buf EXCEPT ![c] = Overwrite(@, disk[req[c].src_file], n)]
       /\ short' = [short EXCEPT ![c] = @ \/ n < Len(buf[c])]
  /\ plain' = [plain EXCEPT ![c] = buf'[c]]
  /\ Goto(c, "load_key")
  /\ UNCHANGED <<workerVars, disk, key, locked, corrupted, req, mem, cur,
                 offset, result>>

LoadKeyFailsNoFree(c) ==  \* mutant: file_data is not freed
  /\ pc[c] = "load_key"
  /\ LoadFailure(req[c].key_filepath)
  /\ Return(c, "-EIO", mem[c])
  /\ UNCHANGED <<ioVars, workerVars, locked, corrupted, req, cur, offset>>

(* load_key_from_file; on failure the caller frees file_data *)
LoadKeyFails(c) ==
  /\ pc[c] = "load_key"
  /\ LoadFailure(req[c].key_filepath)
  /\ Return(c, "-EIO", mem[c] \ {"file_data"})
  /\ UNCHANGED <<ioVars, workerVars, locked, corrupted, req, cur, offset>>

SizeKey(c) ==
  /\ pc[c] = "load_key"
  /\ Loadable(req[c].key_filepath)
  /\ \E junk \in [1 .. Len(disk[req[c].key_filepath]) -> Byte] :
       key' = [key EXCEPT ![c] = junk]
  /\ mem' = [mem EXCEPT ![c] = @ \cup {"key_data"}]
  /\ Goto(c, "fill_key")
  /\ UNCHANGED <<workerVars, disk, buf, plain, short, locked, corrupted, req,
                 cur, offset, result>>

FillKey(c) ==
  /\ pc[c] = "fill_key"
  /\ \E n \in ReadCounts(req[c].key_filepath, Len(key[c])) :
       /\ key' = [key EXCEPT ![c] = Overwrite(@, disk[req[c].key_filepath], n)]
       /\ short' = [short EXCEPT ![c] = @ \/ n < Len(key[c])]
  /\ Goto(c, "alloc")
  /\ UNCHANGED <<workerVars, disk, buf, plain, locked, corrupted, req, mem,
                 cur, offset, result>>
-----------------------------------------------------------------------------
(* kmalloc_array of workers and worker_args.  A negative num_threads       *)
(* overflows the size, so that both return NULL; zero yields ZERO_SIZE_PTR,*)
(* which is not NULL.  On failure only file_data and key_data are freed.   *)
AllocFails(c) ==
  /\ pc[c] = "alloc"
  /\ \E got \in SUBSET {"workers", "worker_args"} :
       /\ \/ num_threads(c) < 0 /\ got = {}
          \/ /\ num_threads(c) > 0
             /\ "alloc" \in Faults
             /\ got # {"workers", "worker_args"}
       /\ Return(c, "-ENOMEM", (mem[c] \ {"file_data", "key_data"}) \cup got)
  /\ UNCHANGED <<ioVars, workerVars, locked, corrupted, req, cur, offset>>

AllocWorkers(c) ==
  /\ pc[c] = "alloc"
  /\ num_threads(c) > 0
  /\ mem' = [mem EXCEPT ![c] = @ \cup {"workers", "worker_args"}]
  /\ offset' = [offset EXCEPT ![c] = 0]
  /\ cur' = [cur EXCEPT ![c] = 0]
  /\ Goto(c, "spawn")
  /\ UNCHANGED <<ioVars, workerVars, locked, corrupted, req, result>>

(* data_len / num_threads with num_threads = 0: the kernel kills the       *)
(* process inside the call.                                                *)
DivideByZero(c) ==
  /\ pc[c] = "alloc"
  /\ num_threads(c) = 0
  /\ Goto(c, "oops")
  /\ UNCHANGED <<ioVars, workerVars, locked, corrupted, req, mem, cur, offset,
                 result>>

(* The for loops over i: go round at label again, or leave to label after. *)
LastWorker(c) == cur[c] = num_threads(c) - 1

NextWorkerNoReset(c, again, after) ==  \* mutant: second loop without i = 0
  /\ Goto(c, IF LastWorker(c) THEN after ELSE again)
  /\ cur' = [cur EXCEPT ![c] = @ + 1]

NextWorker(c, again, after) ==
  /\ Goto(c, IF LastWorker(c) THEN after ELSE again)
  /\ cur' = [cur EXCEPT ![c] = IF LastWorker(c) THEN 0 ELSE @ + 1]

FillWorkerArgsOverlap(c) ==  \* mutant: range_end one too far
  /\ range' = [range EXCEPT ![<<c, cur[c]>>] =
       <<offset[c], IF LastWorker(c) THEN Len(buf[c])
                    ELSE offset[c] + segment_size(c) + 1>>]
  /\ offset' = [offset EXCEPT ![c] = @ + segment_size(c)]

FillWorkerArgsNoRest(c) ==  \* mutant: no worker takes the remainder
  /\ range' = [range EXCEPT ![<<c, cur[c]>>] =
       <<offset[c], offset[c] + segment_size(c)>>]
  /\ offset' = [offset EXCEPT ![c] = @ + segment_size(c)]

FillWorkerArgs(c) ==
  /\ range' = [range EXCEPT ![<<c, cur[c]>>] =
       <<offset[c],
         IF LastWorker(c) THEN Len(buf[c]) ELSE offset[c] + segment_size(c)>>]
  /\ offset' = [offset EXCEPT ![c] = @ + segment_size(c)]

(* The task_struct of the new thread w may be one that was freed: the      *)
(* pointers to that one then point to w.                                   *)
NewTask(w) ==
  \/ UNCHANGED task
  \/ \E g \in Workers :
       /\ phase[g] = "gone"
       /\ \E v \in Workers : task[v] = g
       /\ task' = [v \in Workers |-> IF task[v] = g THEN w ELSE task[v]]

(* kthread_run: the thread is created and woken, but has not run yet.      *)
SpawnWorker(c) ==
  /\ pc[c] = "spawn"
  /\ FillWorkerArgs(c)
  /\ NewTask(<<c, cur[c]>>)
  /\ phase' = [phase EXCEPT ![<<c, cur[c]>>] = "woken"]
  /\ NextWorker(c, "spawn", "stop")
  /\ UNCHANGED <<ioVars, locked, corrupted, req, mem, result, idx, ret, stop>>

(* kthread_run returns an ERR_PTR; the threads already started keep        *)
(* running while the call goes to cleanup.                                 *)
SpawnFails(c) ==
  /\ pc[c] = "spawn"
  /\ "spawn" \in Faults
  /\ FillWorkerArgs(c)
  /\ result' = [result EXCEPT ![c] = "spawn error"]
  /\ Goto(c, "cleanup")
  /\ UNCHANGED <<ioVars, locked, corrupted, req, mem, cur, phase, idx, ret,
                 stop, task>>

(* kthread_stop acts on the thread that workers[i] points to, and this is  *)
(* not the one that was started if that one has been freed.                *)
Stopped(c) == task[<<c, cur[c]>>]

(* kthread_stop up to wait_for_completion: it takes a reference to the     *)
(* task, sets KTHREAD_SHOULD_STOP and TIF_NOTIFY_SIGNAL and wakes it.      *)
StopWorker(c) ==
  /\ pc[c] = "stop"
  /\ phase[Stopped(c)] # "gone"
  /\ stop' = [stop EXCEPT ![Stopped(c)] = TRUE]
  /\ Goto(c, "join")
  /\ UNCHANGED <<ioVars, locked, corrupted, req, mem, cur, offset, result,
                 phase, range, idx, ret, task>>

(* kthread_stop of a freed task_struct that no other worker has taken: its *)
(* worker_private is NULL and the access through it kills the process.     *)
StopFreedTask(c) ==
  /\ pc[c] = "stop"
  /\ phase[Stopped(c)] = "gone"
  /\ Goto(c, "oops")
  /\ UNCHANGED <<ioVars, workerVars, locked, corrupted, req, mem, cur, offset,
                 result>>

JoinWorkerNoWait(c) ==  \* mutant: the exit of the thread is not awaited
  /\ pc[c] = "join"
  /\ NextWorker(c, "stop", "save")
  /\ UNCHANGED <<ioVars, workerVars, locked, corrupted, req, mem, offset,
                 result>>

JoinWorkerRetry(c) ==  \* mutant: an interrupted worker is stopped again
  /\ pc[c] = "join"
  /\ phase[Stopped(c)] = "exited"
  /\ IF ret[Stopped(c)] = "-EINTR" THEN Goto(c, "stop") /\ UNCHANGED cur
     ELSE NextWorker(c, "stop", "save")
  /\ UNCHANGED <<ioVars, workerVars, locked, corrupted, req, mem, offset,
                 result>>

(* wait_for_completion(&kthread->exited) and what follows it.  The         *)
(* completion serves one waiter.  The value returned is only logged.       *)
JoinWorker(c) ==
  /\ pc[c] = "join"
  /\ phase[Stopped(c)] = "exited"
  /\ phase' = [phase EXCEPT ![Stopped(c)] = "joined"]
  /\ NextWorker(c, "stop", "save")
  /\ UNCHANGED <<ioVars, locked, corrupted, req, mem, offset, result, range,
                 idx, ret, stop, task>>

(* kthread_stop of a thread that another kthread_stop has waited for.      *)
Hangs(c) == pc[c] = "join" /\ phase[Stopped(c)] = "joined"

(* save_data_to_file: O_WRONLY | O_CREAT, without O_TRUNC *)
SaveOpen(c) ==
  /\ pc[c] = "save"
  /\ LET f == req[c].dest_file
     IN  disk' = IF f \in DOMAIN disk THEN disk
                 ELSE [g \in DOMAIN disk \cup {f} |->
                         IF g = f THEN <<>> ELSE disk[g]]
  /\ Goto(c, "write")
  /\ UNCHANGED <<workerVars, buf, key, plain, short, locked, corrupted, req,
                 mem, cur, offset, result>>

(* A write that stops early still makes save_data_to_file return 0.        *)
SaveWrite(c) ==
  /\ pc[c] = "write"
  /\ \E n \in IF "write" \in Faults THEN 0 .. Len(buf[c]) ELSE {Len(buf[c])} :
       /\ disk' = [disk EXCEPT ![req[c].dest_file] = Overwrite(@, buf[c], n)]
       /\ short' = [short EXCEPT ![c] = @ \/ n < Len(buf[c])]
  /\ result' = [result EXCEPT ![c] = "0"]
  /\ Goto(c, "cleanup")
  /\ UNCHANGED <<workerVars, buf, key, plain, locked, corrupted, req, mem, cur,
                 offset>>

SaveFails(c) ==
  /\ pc[c] \in {"save", "write"}
  /\ "write" \in Faults
  /\ result' = [result EXCEPT ![c] = "save error"]
  /\ Goto(c, "cleanup")
  /\ UNCHANGED <<ioVars, workerVars, locked, corrupted, req, mem, cur, offset>>

(* The label cleanup: four kfree and the return.                           *)
Cleanup(c) ==
  /\ pc[c] = "cleanup"
  /\ Return(c, result[c], {})
  /\ UNCHANGED <<ioVars, workerVars, locked, corrupted, req, cur, offset>>
-----------------------------------------------------------------------------
(* The kernel threads.                                                     *)
callVars == <<disk, key, plain, short, pc, req, mem, cur, offset, result,
              range, stop, task>>

(* threadfn returns v, or is never called: kthread_exit(v).                *)
Exit(c, i, v) ==
  /\ phase' = [phase EXCEPT ![<<c, i>>] = "exited"]
  /\ ret' = [ret EXCEPT ![<<c, i>>] = v]

SetLocked(c, b) == locked' = [locked EXCEPT ![MutexOf(c)] = b]

(* kthread(): a thread stopped before its first step never calls threadfn. *)
StartWorker(c, i) ==
  /\ phase[<<c, i>>] = "woken"
  /\ IF stop[<<c, i>>]
     THEN Exit(c, i, "-EINTR")
     ELSE phase' = [phase EXCEPT ![<<c, i>>] = "lock"] /\ UNCHANGED ret
  /\ UNCHANGED <<callVars, locked, corrupted, buf, idx>>

LockMutexHeld(c, i) ==  \* mutant: the mutex is taken though it is held
  /\ phase[<<c, i>>] \in {"lock", "wait"}
  /\ SetLocked(c, TRUE)
  /\ phase' = [phase EXCEPT ![<<c, i>>] = "loop"]
  /\ idx' = [idx EXCEPT ![<<c, i>>] = range[<<c, i>>][1]]
  /\ UNCHANGED <<callVars, corrupted, buf, ret>>

(* mutex_lock_interruptible: take the mutex if it is free, at the first    *)
(* attempt or from the wait list; the loop variable is then initialized.   *)
LockMutex(c, i) ==
  /\ phase[<<c, i>>] \in {"lock", "wait"}
  /\ ~locked[MutexOf(c)]
  /\ SetLocked(c, TRUE)
  /\ phase' = [phase EXCEPT ![<<c, i>>] = "loop"]
  /\ idx' = [idx EXCEPT ![<<c, i>>] = range[<<c, i>>][1]]
  /\ UNCHANGED <<callVars, corrupted, buf, ret>>

WaitForMutex(c, i) ==
  /\ phase[<<c, i>>] = "lock"
  /\ locked[MutexOf(c)]
  /\ phase' = [phase EXCEPT ![<<c, i>>] = "wait"]
  /\ UNCHANGED <<callVars, locked, corrupted, buf, idx, ret>>

(* A waiter with TIF_NOTIFY_SIGNAL set leaves the wait list with -EINTR.   *)
LockInterrupted(c, i) ==
  /\ phase[<<c, i>>] = "wait"
  /\ stop[<<c, i>>]
  /\ Exit(c, i, "-EINTR")
  /\ UNCHANGED <<callVars, locked, corrupted, buf, idx>>

InLoop == {"loop", "xor"}

(* The buffers and the arguments a worker reads exist until cleanup.       *)
BuffersLive(c) == {"file_data", "key_data", "worker_args"} \subseteq mem[c]

(* kthread_should_stop() was false; the byte is XORed in a later step.     *)
CheckStop(c, i) ==
  /\ phase[<<c, i>>] = "loop"
  /\ BuffersLive(c)
  /\ idx[<<c, i>>] < range[<<c, i>>][2]
  /\ ~stop[<<c, i>>]
  /\ phase' = [phase EXCEPT ![<<c, i>>] = "xor"]
  /\ UNCHANGED <<callVars, locked, corrupted, buf, idx, ret>>

XorByteSegmentKey(c, i) ==  \* mutant: the key restarts with each segment
  /\ phase[<<c, i>>] = "xor"
  /\ BuffersLive(c)
  /\ buf' = [buf EXCEPT ![c][idx[<<c, i>>] + 1] =
       Xor(@, key[c][((idx[<<c, i>>] - range[<<c, i>>][1]) % Len(key[c]))
                     + 1])]
  /\ idx' = [idx EXCEPT ![<<c, i>>] = @ + 1]
  /\ phase' = [phase EXCEPT ![<<c, i>>] = "loop"]
  /\ UNCHANGED <<callVars, locked, corrupted, ret>>

XorByte(c, i) ==
  /\ phase[<<c, i>>] = "xor"
  /\ BuffersLive(c)
  /\ buf' = [buf EXCEPT ![c][idx[<<c, i>>] + 1] =
               Xor(@, key[c][(idx[<<c, i>>] % Len(key[c])) + 1])]
  /\ idx' = [idx EXCEPT ![<<c, i>>] = @ + 1]
  /\ phase' = [phase EXCEPT ![<<c, i>>] = "loop"]
  /\ UNCHANGED <<callVars, locked, corrupted, ret>>

WorkerStoppedNoUnlock(c, i) ==  \* mutant: the early return keeps the mutex
  /\ phase[<<c, i>>] = "loop"
  /\ BuffersLive(c)
  /\ idx[<<c, i>>] < range[<<c, i>>][2]
  /\ stop[<<c, i>>]
  /\ Exit(c, i, "-EINTR")
  /\ UNCHANGED <<callVars, locked, corrupted, buf, idx>>

WorkerStopped(c, i) ==
  /\ phase[<<c, i>>] = "loop"
  /\ BuffersLive(c)
  /\ idx[<<c, i>>] < range[<<c, i>>][2]
  /\ stop[<<c, i>>]
  /\ SetLocked(c, FALSE)
  /\ Exit(c, i, "-EINTR")
  /\ UNCHANGED <<callVars, corrupted, buf, idx>>

WorkerDone(c, i) ==
  /\ phase[<<c, i>>] = "loop"
  /\ BuffersLive(c)
  /\ idx[<<c, i>>] >= range[<<c, i>>][2]
  /\ SetLocked(c, FALSE)
  /\ Exit(c, i, "0")
  /\ UNCHANGED <<callVars, corrupted, buf, idx>>

(* A worker in its loop after its call freed the buffers.  It may die with *)
(* the mutex held.  Otherwise it leaves the loop when it reads that it is  *)
(* at its end; or goes on, as kthread_should_stop() still tells it, which  *)
(* is not in the memory that was freed, and writes into memory that may be *)
(* the buffer of another call by now.                                      *)
UseFreedBuffers(c, i) ==
  /\ phase[<<c, i>>] \in InLoop
  /\ ~BuffersLive(c)
  /\ corrupted' = TRUE
  /\ \/ Exit(c, i, "-EINTR") /\ UNCHANGED <<locked, buf>>
     \/ /\ phase[<<c, i>>] = "loop"
        /\ \/ Exit(c, i, "0")
           \/ stop[<<c, i>>] /\ Exit(c, i, "-EINTR")
        /\ SetLocked(c, FALSE)
        /\ UNCHANGED buf
     \/ /\ phase[<<c, i>>] = "loop"
        /\ ~stop[<<c, i>>]
        /\ phase' = [phase EXCEPT ![<<c, i>>] = "xor"]
        /\ UNCHANGED <<locked, buf, ret>>
     \/ /\ phase[<<c, i>>] = "xor"
        /\ \/ UNCHANGED buf
           \/ \E d \in Calls, b \in Byte :
                /\ "file_data" \in mem[d]
                /\ \E k \in 1 .. Len(buf[d]) : buf' = [buf EXCEPT ![d][k] = b]
        /\ phase' = [phase EXCEPT ![<<c, i>>] = "loop"]
        /\ UNCHANGED <<locked, ret>>
  /\ UNCHANGED <<callVars, idx>>

(* The reaped task's last reference is dropped after an RCU grace period,  *)
(* unless kthread_stop holds one.                                          *)
FreeTask(c, i) ==
  /\ phase[<<c, i>>] \in {"exited", "joined"}
  /\ \A d \in Calls : pc[d] = "join" => Stopped(d) # <<c, i>>
  /\ phase' = [phase EXCEPT ![<<c, i>>] = "gone"]
  /\ UNCHANGED <<callVars, locked, corrupted, buf, idx, ret>>
-----------------------------------------------------------------------------
(* The functions of my_encrypt.c ...                                       *)
xor_encrypt_worker(c, i) ==
  \/ StartWorker(c, i)
  \/ LockMutex(c, i)
  \/ WaitForMutex(c, i)
  \/ LockInterrupted(c, i)
  \/ CheckStop(c, i)
  \/ XorByte(c, i)
  \/ WorkerStopped(c, i)
  \/ WorkerDone(c, i)
  \/ UseFreedBuffers(c, i)

read_data_from_file(c) == ReadDataFails(c) \/ SizeData(c) \/ FillData(c)

load_key_from_file(c) == LoadKeyFails(c) \/ SizeKey(c) \/ FillKey(c)

save_data_to_file(c) == SaveOpen(c) \/ SaveWrite(c) \/ SaveFails(c)

xor_encrypt_syscall(c) ==
  \/ CopyFromUser(c)
  \/ CopyFault(c)
  \/ read_data_from_file(c)
  \/ load_key_from_file(c)
  \/ AllocFails(c)
  \/ AllocWorkers(c)
  \/ DivideByZero(c)
  \/ SpawnWorker(c)
  \/ SpawnFails(c)
  \/ StopWorker(c)
  \/ StopFreedTask(c)
  \/ JoinWorker(c)
  \/ save_data_to_file(c)
  \/ Cleanup(c)

(* ... and those of my_decrypt.c, which are the same but for their names.  *)
xor_decrypt_worker(c, i) == xor_encrypt_worker(c, i)

load_key(c) == load_key_from_file(c)

load_data(c) == read_data_from_file(c)

save_data(c) == save_data_to_file(c)

xor_decrypt(c) ==
  \/ CopyFromUser(c)
  \/ CopyFault(c)
  \/ load_data(c)
  \/ load_key(c)
  \/ AllocFails(c)
  \/ AllocWorkers(c)
  \/ DivideByZero(c)
  \/ SpawnWorker(c)
  \/ SpawnFails(c)
  \/ StopWorker(c)
  \/ StopFreedTask(c)
  \/ JoinWorker(c)
  \/ save_data(c)
  \/ Cleanup(c)

Syscall(c) ==
  \/ c \in EncryptCalls /\ xor_encrypt_syscall(c)
  \/ c \in DecryptCalls /\ xor_decrypt(c)

Worker(c, i) ==
  \/ c \in EncryptCalls /\ xor_encrypt_worker(c, i)
  \/ c \in DecryptCalls /\ xor_decrypt_worker(c, i)

(* Every invocation is over or hangs: nothing is left to do.               *)
Terminated ==
  /\ \A c \in Calls : pc[c] \in {"returned", "oops"} \/ Hangs(c)
  /\ UNCHANGED vars

Next ==
  \/ \E c \in Calls : Syscall(c)
  \/ \E c \in Calls, i \in Slots : Worker(c, i) \/ FreeTask(c, i)
  \/ Terminated

Spec == Init /\ [][Next]_vars

(* The scheduler runs every task that can run: the process in the call and *)
(* each of its threads.  Nothing forces the process to make the call.      *)
Fairness ==
  /\ \A c \in Calls : WF_vars(pc[c] # "idle" /\ Syscall(c))
  /\ \A c \in Calls, i \in Slots : WF_vars(Worker(c, i))

FairSpec == Spec /\ Fairness
-----------------------------------------------------------------------------
(* Properties.                                                             *)

VarTypes ==
  /\ DOMAIN disk \subseteq Files /\ disk \in [DOMAIN disk -> Seq(Byte)]
  /\ locked \in [Mutexes -> BOOLEAN]
  /\ corrupted \in BOOLEAN
  /\ pc \in [Calls -> PCs]
  /\ req \in [Calls -> Requests]
  /\ buf \in [Calls -> Seq(Byte)]
  /\ key \in [Calls -> Seq(Byte)]
  /\ plain \in [Calls -> Seq(Byte)]
  /\ short \in [Calls -> BOOLEAN]
  /\ mem \in [Calls -> SUBSET Allocations]
  /\ cur \in [Calls -> Nat]
  /\ offset \in [Calls -> Nat]
  /\ result \in [Calls -> Results]
  /\ phase \in [Workers -> Phases]
  /\ range \in [Workers -> Nat \X Nat]
  /\ idx \in [Workers -> Nat]
  /\ ret \in [Workers -> {"none", "0", "-EINTR"}]
  /\ stop \in [Workers -> BOOLEAN]
  /\ task \in [Workers -> Workers]

LoopInBounds ==
  \A c \in Calls :
    pc[c] \in {"spawn", "stop", "join"} => cur[c] \in 0 .. num_threads(c) - 1

(* Every variable keeps its type, and the index i of the loops over the    *)
(* workers stays inside the arrays workers and worker_args, which have     *)
(* num_threads elements.                                                   *)
TypeOK == VarTypes /\ LoopInBounds

(* At most one worker per mutex is inside the loop that encrypts, whatever *)
(* calls the workers belong to: sync_lock and decrypt_mutex exclude.       *)
MutualExclusion ==
  \A c, d \in Calls : \A i, j \in Slots :
    /\ phase[<<c, i>>] \in InLoop /\ phase[<<d, j>>] \in InLoop
    /\ MutexOf(c) = MutexOf(d)
    => c = d /\ i = j

(* Byte k of the buffer of call c (counted from 0) has been XORed.         *)
Processed(c, k) ==
  \E i \in Slots :
    /\ phase[<<c, i>>] \in {"loop", "xor", "exited", "joined", "gone"}
    /\ range[<<c, i>>][1] <= k /\ k < idx[<<c, i>>]

CipherByte(c, k) == Xor(plain[c][k + 1], key[c][(k % Len(key[c])) + 1])

(* While no thread has used freed memory, every byte of the buffer is what *)
(* was read if no worker has reached it and that byte XORed exactly once   *)
(* with its key byte otherwise: segments do not overlap, whatever          *)
(* num_threads and data_len are, and the key is aligned with the file and  *)
(* not with the segment.                                                   *)
XoredOnce ==
  ~corrupted =>
    \A c \in Calls :
      pc[c] \in {"spawn", "stop", "join", "save", "write"} =>
        \A k \in 0 .. Len(buf[c]) - 1 :
          buf[c][k + 1] = IF Processed(c, k) THEN CipherByte(c, k)
                          ELSE plain[c][k + 1]

(* When the buffer is about to be written, a byte that is still clear lies *)
(* in the segment of a worker that returned -EINTR: were kthread_stop's    *)
(* value checked for 0, the output would be known to be complete.          *)
ClearOnlyIfInterrupted ==
  ~corrupted =>
    \A c \in Calls :
      pc[c] \in {"save", "write"} =>
        \A k \in 0 .. Len(buf[c]) - 1 :
          \/ buf[c][k + 1] = CipherByte(c, k)
          \/ \E i \in 0 .. num_threads(c) - 1 :
               /\ range[<<c, i>>][1] <= k /\ k < range[<<c, i>>][2]
               /\ ret[<<c, i>>] = "-EINTR"

(* Once the call has stopped its workers and until it has written the      *)
(* buffer, nobody changes the buffer: kthread_stop waits for the exit of   *)
(* each thread, so that the write cannot race with a worker.               *)
OutputStable ==
  [][\A c \in Calls :
       pc[c] \in {"save", "write"} /\ ~corrupted' => buf'[c] = buf[c]]_vars

(* Freed memory is only used if some call failed to start one of its       *)
(* workers: every other path to cleanup has joined the workers first.      *)
CorruptedOnlyBySpawnError ==
  corrupted => \E c \in Calls : result[c] = "spawn error"

(* A call that returns has freed all its memory, except the one array that *)
(* could be allocated when the other of workers and worker_args could not. *)
LeakOnlyOnPartialAlloc ==
  \A c \in Calls :
    pc[c] = "returned" /\ mem[c] # {} =>
      /\ result[c] = "-ENOMEM"
      /\ mem[c] = {"workers"} \/ mem[c] = {"worker_args"}

(* Every call that is made comes back or is killed: kthread_stop does not  *)
(* wait for ever, not even for a worker that queues behind a mutex whose   *)
(* owner died, since TIF_NOTIFY_SIGNAL ends the wait.  The one exception   *)
(* is a kthread_stop whose thread another kthread_stop has waited for      *)
(* already, because a second pointer workers[j], of this or of another     *)
(* call, led to the same task_struct, which was freed and used again.      *)
EveryCallReturns ==
  \A c \in Calls :
    pc[c] # "idle" ~>
      \/ pc[c] \in {"returned", "oops"}
      \/ /\ Hangs(c)
         /\ \E w \in Workers \ {<<c, cur[c]>>} : task[w] = Stopped(c)

(* A mutex is not held for ever, unless freed memory has been used: every  *)
(* path out of the worker's loop unlocks.                                  *)
MutexReleased ==
  \A m \in Mutexes : locked[m] ~> (~locked[m] \/ corrupted)
-----------------------------------------------------------------------------
(* What the documents say of the system calls and the code does not keep.  *)

(* Every fragment is encrypted before the buffer is written to the output  *)
(* file.                                                                   *)
FragmentsProcessed ==
  \A c \in Calls :
    pc[c] = "write" =>
      \A k \in 0 .. Len(buf[c]) - 1 : buf[c][k + 1] = CipherByte(c, k)

(* The output file is the encrypted data and nothing else.                 *)
OutputIsTheData ==
  \A c \in Calls :
    pc[c] = "cleanup" /\ result[c] = "0" => disk[req[c].dest_file] = buf[c]

(* The task_struct passed to kthread_stop cannot have gone away.           *)
TaskAliveWhenStopped ==
  \A c \in Calls : pc[c] = "stop" => phase[<<c, cur[c]>>] # "gone"
=============================================================================
