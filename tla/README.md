# A TLA+ verification of SO2_2S

The repository holds three pieces of operating-systems course work. The largest
part of its files is Linux 6.6.45, which is vendored. The code of its own is
small, and its core is a pair of multithreaded system calls (Practica2). This
project models that core, the two programs that use it, the two services of Linux
it rests on and the web page of Proyecto. It checks the models with TLC on small
instances, and proves every invariant and every safety property of an action that
the passing runs check with TLAPS, for any number of calls, threads, bytes, tasks,
commands and mounts. Liveness is model-checked only.

All line numbers without a file name refer to
`src/Practica2/linux-6.6.45/kernel/my_encrypt.c`.

## 1. Inventory

| Component | Source | State | Operations | Modelled |
|---|---|---|---|---|
| `my_encrypt`, system call 548 | `Practica2/linux-6.6.45/kernel/my_encrypt.c` | `sync_lock` (global); per call the buffers `file_data`, `key_data`, the arrays `workers`, `worker_args`; per worker `range_start`, `range_end`, `idx` | load data and key, start the workers, stop them, write the output, clean up | `XorSyscall` |
| `my_decrypt`, system call 549 | `Practica2/linux-6.6.45/kernel/my_decrypt.c` | the same with `decrypt_mutex` | the same program under other names | `XorSyscall` |
| kthread service | `Practica1/linux-6.6.45/kernel/kthread.c`, `exit.c` | `kthread_create_list`, `struct kthread_create_info` and its `done`, `KTHREAD_SHOULD_STOP`, `exited`, the life of a `task_struct` | `kthread_run`, `kthreadd`, `kthread`, `kthread_stop` | `KthreadCreate`; stopping also in `XorSyscall` |
| mutex service | `Practica1/linux-6.6.45/kernel/locking/mutex.c` | the word `lock->owner` with three flags, `wait_list`, `wait_lock` | `mutex_lock_interruptible`, `mutex_unlock` | `Mutex`, `InterruptibleLock` |
| `encrypt_app`, `decrypt_app` | `Practica2/apps/*.c` | the command buffer, the tokens, the four parameters, `error_parametros` | read a command, split it, parse it, make the system call, report | `Apps`, `Practica2` |
| system call table, build | `Practica2/linux-6.6.45/{arch/x86/entry/syscalls/syscall_64.tbl, kernel/Makefile, include/linux/syscalls_usac.h}` | none | none | no |
| `get_current_time`, `get_system_uptime` | `Practica1/linux-6.6.45/kernel/get_*.c` | none: they return one clock of the kernel each | one read | no |
| boot message, system name | `Practica1/linux-6.6.45/{init/main.c, include/linux/uts.h}` | none | one print | no |
| backend | `Proyecto/backend/app.py` | none: random figures in each answer | `GET /api/memory`, restart by the debugger | `Dashboard` |
| dashboard | `Proyecto/dashboard/src/{App,index}.js` | `memoryData` | mount, request, answer, failure | `Dashboard` |
| charts | `Proyecto/dashboard/src/components/*.js` | none: they render their props | select fields | `Dashboard` |

**Interactions.** A user types a command to `encrypt_app` or `decrypt_app`, which
makes one blocking system call. The call runs in the process of the program.
It shares memory with its kernel threads (the buffer, the key, the arguments of
each worker) and talks to them through `kthread_run`, `kthread_stop` and the
value their function returns. All the workers of all the calls of one kind share
one mutex. Calls of both kinds share the file system, with no lock around it.
The dashboard asks the backend once, over HTTP, when it is mounted. The calls of
Practica2 and the dashboard do not touch each other.

**What is hard.**

- `kthread_stop` (169) is called right after the threads were started. It is a
  request to stop *and* a wait. The scheduler decides whether a worker has
  finished, is between two bytes, waits for the mutex or has not run at all.
- Nothing keeps the `task_struct` of a worker alive that returns before
  `kthread_stop` is called on it.
- When a worker cannot be started (160-163), the buffers are freed under the
  workers that do run.
- Early returns free part of what was allocated; the byte counts of
  `kernel_read` (63, 91) are dropped and a short `kernel_write` (107) is success.
- Arithmetic at the edges: the remainder of `data_len / num_threads`, fewer bytes
  than threads, a negative number of threads (142), zero threads (149).
- A process in `kthread_run` may be killed while `kthreadd` or the new thread is
  about to answer it, on the stack of the process (`kthread.c:466`).
- A waiter for the mutex may be interrupted at the moment the mutex is handed to
  it (`mutex.c:659`), and whether anyone must be woken is decided without the
  spin lock (`mutex.c:925`).
- The programs do not test the result of `fgets`, cut their own buffer with
  `strtok`, drop all tokens past the tenth, and `continue` different loops.
- The page sends two requests under `React.StrictMode`, cancels none, and does
  not retry.

**What makes it correct.** Each byte is XORed at most once, and with the key
byte of its position in the *file*. A byte left clear is attributable to a worker
that reported `-EINTR`. The buffer does not change while it is written. Memory
is freed once, on every path, and not while a worker uses it. Workers exclude
each other. Calls return. Encrypting and then decrypting restores the data. A
system call is made of one command, once, and changes the file named after `-o`.
A thread whose creator got an error never runs. A mutex that was handed over is
not lost, and no sleeper is forgotten. A page that got an answer shows it.

`PROJECT.json` lists every hazard with its line and the properties aimed at it.

## 2. Modules

| Module | Content |
|---|---|
| `XorSyscall` | the two system calls, their threads, the mutexes, the files; the properties |
| `RoundTrip` | `XorSyscall` with a decryption that starts when the encryptions are over |
| `XorService` | what a process may expect of a call: an abstract specification |
| `XorRefinement` | the refinement mapping from `XorSyscall` to `XorService` |
| `Apps` | the two programs over a kernel that does with a call what it likes |
| `Practica2` | the composition: `Apps` over `XorService`, on one file system |
| `KthreadCreate` | `kthread_run`: creators, `kthreadd`, new threads |
| `Mutex` | `mutex_lock_interruptible` and `mutex_unlock` |
| `InterruptibleLock` | the lock that `Mutex` implements |
| `Dashboard` | the page, the server and the network between them |
| `MCXorSyscall`, `MCRoundTrip`, `MCXorRefinement`, `MCApps`, `MCPractica2`, `MCDashboard` | instances for TLC; `KthreadCreate` and `Mutex` need none |
| `XorSyscallProofs` | theorems on types, locks, memory and threads of the system calls |
| `XorDataProofs` | theorems on the bytes, and on an encryption followed by a decryption |
| `XorRefinementProofs` | the proof of the refinement |
| `AppsProofs`, `Practica2Proofs` | theorems on the programs, alone and over the service |
| `KthreadCreateProofs`, `MutexProofs`, `DashboardProofs` | theorems on these components |

### XorSyscall

The two C files are the same program up to identifiers (`my_decrypt.c` prints one
message less). Each step is defined once, from `my_encrypt.c`. The last section
groups the steps under the function names of both files: `xor_encrypt_syscall`,
`xor_encrypt_worker`, `read_data_from_file`, ... and `xor_decrypt`,
`xor_decrypt_worker`, `load_data`, .... What differs at run time is the mutex
(`MutexOf`).

A *call* is one invocation. `pc[c]` is its place in the code; `req`, `buf`, `key`,
`mem`, `cur` (the loop variable `i`), `offset` and `result` are its locals. A
*worker* is `<<c, i>>`; its phases are `woken` (created, has not run), `lock`
(before its first try for the mutex), `wait` (on the wait list), `loop` (before
the test of `kthread_should_stop`), `xor` (between the test and the assignment),
`exited`, `joined` (a `kthread_stop` has waited for it) and `gone`
(`task_struct` freed). `plain`, `short` and `corrupted` are history variables.

| Code | Actions |
|---|---|
| 127-129 `copy_from_user` | `CopyFromUser`, `CopyFault` |
| 69-94, 131-134 | `SizeData` (open, size, `kmalloc`), `FillData` (`kernel_read`), `ReadDataFails` |
| 41-67, 136-140 | `SizeKey`, `FillKey`, `LoadKeyFails` |
| 142-150 | `AllocWorkers`, `AllocFails`, `DivideByZero` |
| 152-165 | `SpawnWorker`, `SpawnFails` |
| 167-176 and `kthread_stop` | `StopWorker` (request), `JoinWorker` (the completion), `StopFreedTask` |
| 96-116, 178 | `SaveOpen`, `SaveWrite`, `SaveFails` |
| 180-186 | `Cleanup` |
| `kthread()` before `threadfn` | `StartWorker` |
| 25-28 | `LockMutex`, `WaitForMutex`, `LockInterrupted` |
| 30-38 | `CheckStop`, `XorByte`, `WorkerStopped`, `WorkerDone` |
| a worker after `goto cleanup` | `UseFreedBuffers` |
| the reaping of a thread | `FreeTask`, `NewTask` |

Steps end where another task can observe or interfere. Size and bytes of a file
are read in two steps, since the file may change in between. Creating the output
and writing it are two steps. The test of `kthread_should_stop` and the XOR are
two steps, and each byte is one step.

**The kernel underneath.** Linux is vendored, and Practica2 carries only the files
it changes, so the services are modelled as the environment of the two calls,
read in the copy of the same version under `src/Practica1/linux-6.6.45/kernel`:
`kthread()` tests `KTHREAD_SHOULD_STOP` before it calls `threadfn`
(`kthread.c:385-391`, `StartWorker`); `kthread_stop` takes a reference, sets
`KTHREAD_SHOULD_STOP` and `TIF_NOTIFY_SIGNAL`, wakes the thread and waits for
`exited` (`kthread.c:696-716`, `StopWorker`, `JoinWorker`); a thread stores its
result and exits in `kthread_exit` (`kthread.c:312`, `Exit`); a waiter for a mutex
retries, then looks for a signal (`locking/mutex.c:650-670`, `LockMutex`,
`LockInterrupted`), and `TIF_NOTIFY_SIGNAL` counts as one
(`include/linux/sched/signal.h:392`); an exited task is freed after a grace period
(`exit.c:218-233`, `FreeTask`); `complete()` serves one waiter
(`sched/completion.c`, `Hangs`).

**Undefined behaviour.** It is a choice over outcomes. The bytes a short read
leaves uninitialized are arbitrary. A worker that runs on freed buffers may
die with the mutex held, leave its loop, or go on and change a byte in the buffer
of any call (`UseFreedBuffers`); `corrupted` then stays set. It still obeys a
request to stop, which is not in the freed memory. `kthread_stop` on a freed
`task_struct` kills the process (`worker_private` is NULL,
`free_kthread_struct`), unless a new worker has taken over the memory: `task`
says which thread a pointer `workers[i]` points to now, and `NewTask` lets a new
thread take over a freed one. `kthread_stop` then stops that thread, and since
its completion serves one waiter, the second `kthread_stop` of one thread never
returns (`Hangs`).

**Abstractions.** Bytes are members of a constant set with an operation `Xor`
assumed to be its own inverse (`XorInvolution`). Path names are
members of `Files`. `kernel_read` and `kernel_write` are one step each.
`kthread_stop` sets its flags and wakes the thread in one step. A freed
`task_struct` is taken over by workers of these calls only. The NUL byte after
the key, the error codes passed through from the VFS and the log messages are
left out. `Faults` names the failures of the environment that may happen:
`copy` (bad pointers), `open` (open or `kmalloc` in a loader), `read` (short
reads), `alloc` (the arrays), `spawn` (`kthread_run`), `write` (open, write
error, short write).

### RoundTrip

The manual of Practica2 (`src/Practica2/README.md`) has its reader encrypt a file
with `encrypt_app` and then decrypt the result with `decrypt_app`. `InTurn` keeps
a decryption from starting before the encryptions are over. `RoundTripRestores`
assumes that both calls returned 0, moved all the bytes, and had no worker
interrupted (`Complete`). It does *not* assume equal numbers of threads, although
the manual asks for them (README.md:267-269): the key is aligned with the file,
so they need not be equal. Nor does it assume that the files are new. It does
assume that the encryption is not told to write onto its own key file: nothing in
the code refuses that, and the decryption then reads another key.

### XorService and XorRefinement

`XorService` has no threads, mutexes, buffers or memory. A call takes one snapshot
of its data file and one of its key file, creates the output if there is none,
and overwrites its beginning in one step, by bytes each of which is clear or
encrypted once (`Blends`). It may fail or die before it writes, not after. This is
all the code promises: `claim_fragments` shows that it does not promise
encryption. `XorRefinement` maps the places of `XorSyscall` to eight statuses;
`ImplementsService` says that every behaviour of any number of calls, with all
their threads, is one of `XorService`. When a call failed to start a worker
(`damaged`), the bytes that later calls write are arbitrary.

### Apps and Practica2

A line is the sequence of its fields, so that `strtok` is modelled by what it does:
it skips empty fields (token `k` is the field of `Rank` `k` among those that are not
empty) and leaves only the first token in the buffer (`Cut`). That
is why the end of the input, which leaves the buffer as it was, executes no command
again (`NoCallAfterEnd`); the program loops on for ever instead, unless `salir`
came first.

| Code (`encrypt_app.c`) | Actions |
|---|---|
| 23-35 `fgets`, `salir` | `Salir`, first part of `ReadCommand` |
| 37-51 `strtok`, reset of the parameters | `ReadCommand`, `Tokens`, `FirstTokens`, `Cut` |
| 53-72 the loop over the tokens | `ParseOption`, `ParseUnknown` |
| 74-92 the checks | `Rejected`, `Accepted` |
| 100-110 `syscall` and the report | `SyscallReturns`, `SyscallKills`; `Call`, `Return` in `Practica2` |

The programs differ in two places. After an unknown token `encrypt_app` gives the
command up and `decrypt_app` goes on with the next token; and only `decrypt_app`
wants `-t`. `Practica2` joins `Apps` with `XorService`: `Call` hands the parameters
over (`Arguments`), `Return` takes the outcome. It uses the abstract specification
instead of `XorSyscall`, which is sound for the properties of files and outcomes
that `session` checks, because `CallsImplementService` proves the refinement. Short
reads and short writes may happen in every call, as in the code; the history
variable `written` is the number of bytes `kernel_write` moved. A success may
therefore leave less than was read, or an empty file. `SuccessLeavesOutput` says what
remains true: there were data, and the output exists and holds at least what was
moved, whatever the other process does to it before the report.

### KthreadCreate

The creator puts `create` (heap) into `kthread_create_list` with a pointer to `done`
(its stack); `kthreadd` forks the thread; the thread, or `kthreadd` when the fork
failed, exchanges `create->done` for NULL and completes it. A creator with a fatal
signal exchanges it first (`GiveUp`) and leaves the structure to the other side, or
finds it gone and waits. Actions end at each exchange, wake-up and sleep;
`SetInterruptible`, `CheckList`, `Schedule` are separate steps because a lost wake-up
would be between them. `Kill` is the fatal signal. Every creator calls once.

A creator that got a thread may then call `kthread_stop` at any time (`StopTask`,
`JoinTask`), as the two system calls do at once. A thread that reads
`KTHREAD_SHOULD_STOP` when it leaves its first `schedule()` exits without having
called its function (`RunThreadfn`, `kthread.c:384-391`). So `TaskStarts` says that a
thread which `kthread_run` returned runs its function *unless* it was stopped first,
and `StopReturns` that `kthread_stop` ends however early it came.

### Mutex and InterruptibleLock

The word is `owner` and `flags`; each compare-and-exchange is a step. What happens
under `wait_lock` is split where the word may change. `Awake` to `Relock` is the loop
of a waiter, with the hand-off the first waiter asks for (`TrylockOrHandoff`) and
optimistic spinning of the first (`TrylockFirst`). Tasks lock and unlock again and
again, and those in `Interruptible` may be signalled any time. `InterruptibleLock` is
the lock `XorSyscall` takes the mutex for: a task waits only if it found the lock
held, and gives up only if interrupted. `HandOver` is a release and an acquisition in
one step: that is what `UnlockSlowpath` does to the word.

### Dashboard

`UseEffect` sends the request of one mount, `SetMemoryData` and `Catch` are the two ends
of the promise, `memory_data` is the route of the server. Answers carry a stamp and
the names of their fields; figures are left out. The charts are the sets of fields
they select. `Restart` is the reloader of `app.run(debug=True)`, `Reload` the user.

## 3. Runs

| Run | Instance | Properties | Shows |
|---|---|---|---|
| `encrypt` | one encryption, -1 to 3 threads, 0, 1 or 3 bytes, key of 1 or 2 bytes, missing and empty files, output onto the input, all faults; 463,624 states | `TypeOK`, `XoredOnce`, `ClearOnlyIfInterrupted`, `LeakOnlyOnPartialAlloc`, `OutputStable` | what each interleaving does to the buffer, to memory and to the file |
| `pair` | two decryptions at once with 1 or 2 threads, 2 bytes, the output of one the data of the other, `copy`, `spawn` and `write` faults, fair scheduling; 89,734 states | `MutualExclusion`, `ImplementsService`, `EveryCallReturns`, `MutexReleased` | the calls compete for one mutex, may take over each other's `task_struct`s, and still are the atomic service; they return, with one exception (see Fairness) |
| `roundtrip` | one encryption, then one decryption with -1 to 2 threads, in place, onto the key file or elsewhere, old output longer than the data, all faults but short reads; 2.8 million states | `RoundTripRestores`, `CorruptedOnlyBySpawnError` | decryption restores the data for any two numbers of threads; the buffers are safe unless a worker could not be started |
| `apps` | each program on every input of up to two lines, or three with `salir`, out of 20 kinds of lines; about 41,000 states | `AppsTypeOK`, `CallIsOneCommand`, `NoCallAfterEnd`, `OptionsOnly`, `ThreadsChecked`, `SalirEnds` | what a system call is made of, and that `salir` ends the program |
| `session` | both programs at the same time, one with one command and the other with up to two, on three files and one byte of data, or one command each on two bytes, short reads and writes; 666,452 states | `SuccessLeavesOutput`, `OnlyNamedFileChanges` | what the user is told agrees with the files, and no other file changes |
| `kthread` | two creators that may stop their threads, fork failures, fatal signals, fair scheduling; 23,330 states | `CreateAlive`, `ErrorMeansNeverRun`, `NothingLeaks`, `CreatorReturns`, `TaskStarts`, `StopReturns` | the handshake uses no freed memory, leaks none, ends, and loses no wake-up; `kthread_stop` returns |
| `mutex` | three tasks, two of them interruptible, for ever; 151,134 states | `NoWarning`, `HandoffNotLost`, `ImplementsLock`, `LockReturns` | the lock is the one `XorSyscall` assumes and starves nobody |
| `dashboard` | two mounts, two loads, lost answers, restarts; 376 states | `ChartsComplete`, `StaysShown`, `PageSettles` | what the page shows in the end |
| `claim_fragments` | one encryption, no faults | `FragmentsProcessed` (violated) | fragments are written in clear |
| `claim_output` | one encryption into a longer file, no faults | `OutputIsTheData` (violated) | the old tail stays |
| `claim_task` | one encryption, no faults | `TaskAliveWhenStopped` (violated) | `kthread_stop` gets a freed `task_struct` |
| `claim_threads` | the inputs of `apps` | `ThreadsPositive` (violated) | `encrypt_app` asks for zero threads |

**Bounds.** Three threads over three bytes, one byte and no bytes give equal
segments, a remainder, and empty segments with everything left to the last
worker; two key bytes over three data bytes make the key wrap inside and across
segments. Two values of a byte tell clear from encrypted, and a byte XORed twice
from one XORed once. Two calls suffice for every interaction between calls in
the code: the mutex, a buffer overwritten by a stray worker, a `task_struct`
taken over, one output read by the other. `MaxThreads` bounds `num_threads` in
every instance, and each call is made once. `MaxArguments` is the ten pointers of
the programs; two lines suffice for a command to leave something to the next, and
the 20 kinds have every option missing, doubled, without a value and cut off by the
tenth token. `MaxCalls` bounds the calls of a session, `MaxLoads` the loads of a page.
In `session` two bytes of data let a write stop after none, one or both of them, and a
second command of one program lets a later call meet the output of an earlier one.
Two creators are enough for one to queue while `kthreadd` serves the other; three
tasks are enough for a holder, a first waiter and one that overtakes it. The
proofs need no bound to be small.

**Fairness.** `Fairness` of `XorSyscall` is weak fairness of each process inside a
call and of each kernel thread: the scheduler runs every runnable task. Nothing
obliges a process to make the call (`pc[c] # "idle"` is part of the fair action), nor
the reaper to free a `task_struct` (`FreeTask` is not fair). `EveryCallReturns` has
one exception, which TLC found: a `kthread_stop` that waits for a thread whose
completion another `kthread_stop` has consumed, because a second pointer `workers[j]`
led to the same `task_struct`, freed and used again. It holds for that call alone
and only while it waits there; every other call still has to return.
`KthreadCreate` has the same weak fairness of tasks; neither a fatal signal nor
`kthread_stop` is obliged, and a function returns once it was asked to stop. In `Mutex` fairness is strong:
taking the spin lock is enabled and disabled again while others hold it, and the
queued spin lock of the kernel serves every task in its turn; tasks need not lock,
and a holder unlocks. In `Apps` a process runs and its system call ends. In `Dashboard`
the page runs its effects and axios settles every request; nothing is assumed of
the server or the network.

**Deadlock** is checked in every run but `kthread`, where all is over once the
creators have returned and the threads have ended. `Terminated`, `RoundTripOver`, `AppsOver`
and `Over` are the states in which there is nothing left to do: in `Terminated` a call
may hang in `kthread_stop`.

**Mutants.** Each property of a passing run is paired in `PROJECT.json` with a
mutated definition of the code (`...NoReset`, `...NoWait`, `...SegmentKey`, ...)
under which TLC finds it violated. Mutants stand before the definition they mutate.

## 4. What the code does not keep

1. **Fragments may be written in clear** (`claim_fragments`). The loop of
   `kthread_stop` interrupts the workers; the call writes the buffer, logs
   "finalizó correctamente" and returns 0. README.md:50-52 says that each fragment
   is encrypted. `ClearOnlyIfInterrupted` states how this could be detected: the
   value of `kthread_stop` is `-EINTR` for some worker.
2. **The output may keep an old tail** (`claim_output`): no `O_TRUNC` in 101.
3. **`kthread_stop` may be given a freed `task_struct`** (`claim_task`), against
   the comment at `kthread.c:690-691`.

4. **`encrypt_app` may ask for zero threads** (`claim_threads`): `-t` is not among the
   parameters it checks (75), although its own message calls a missing `-t` an
   error; the system call then divides by zero. `ThreadsChecked` says that this is
   the only way, and that `decrypt_app` never does so.

Seen while reading and not expressed as runs: `syscall_64.tbl` names
`sys_my_encrypt` and `sys_my_decrypt`, while the C files define
`xor_encrypt_syscall` and `xor_decrypt`, so that the tree does not link as it
stands; the older of the two answers of a page may overwrite the newer one, which
nothing in the code or its documents forbids; `dashboard/src/App.test.js` is the
unchanged template and looks for a text ("learn react") the page does not have.

## 5. Proofs

### The system calls

`XorSyscallProofs` proves, from the assumptions on the constants named in
`XorSyscall` and nothing else, for every set of calls (finite or not), every
`MaxThreads`, every alphabet and all faults:

| Theorem | Statement |
|---|---|
| `TypeCorrect` | `Spec => []TypeOK` |
| `WorkersExclude` | `Spec => []MutualExclusion` |
| `LeaksBounded` | `Spec => []LeakOnlyOnPartialAlloc` |
| `BuffersSafe` | `Spec => []CorruptedOnlyBySpawnError` |
| `WriteIsStable` | `Spec => OutputStable` |

None of these is inductive as it stands. The argument has four layers, each
using the ones before it:

- `TypeOK` has the types of the variables (`VarTypes`) and that the loops stay below
  `num_threads` (`LoopInBounds`, else `cur` could leave the arrays). `TypeInv` adds
  that a loaded key is not empty (`KeyLoaded`, else `idx % key_length` has no value)
  and that a file which was opened exists (`FilesOpen`).
- `LockInv` adds to `MutualExclusion` that the mutex is held while a worker is in
  its loop. The converse is false: a worker that dies keeps the mutex held.
- `MemInv` says which allocations a call owns at each label. The only way to
  return with some left is the partial failure of 144.
- `ThreadInv` says where the workers may be, given the label of their call. While
  the call joins worker `i`, the workers below `i` are quiet (never started, or
  their function is over). From `save` on all are quiet; in `cleanup` and after
  it they are quiet or the result is the spawn error. `TaskInv` carries the proof
  across stale pointers: `workers[i]` points to its own thread until this is
  freed. So when a `kthread_stop` waits for the wrong thread, the right one is
  over already, and the join is still one.

`BuffersSafe` follows because a worker in its loop is not quiet, and a call whose
buffers are freed has left `cleanup`. `WriteIsStable` follows because only workers
write a buffer after it was loaded, and none of the call's own is in its loop in
`save` or `write`.

### kthread_run

`KthreadCreateProofs` proves for every set of creators, from `NobodyCreates` only:

| Theorem | Statement |
|---|---|
| `HandshakeInvariant` | `Spec => []IInv` |
| `StructureIsAlive` | `Spec => []CreateAlive` |
| `FailedNeverRuns` | `Spec => []ErrorMeansNeverRun` |
| `HandshakeFrees` | `Spec => []NothingLeaks` |

The invariant follows one structure through its life. `PlaceInv`: it is in the list
once, or with `kthreadd`, or with a thread. `PendingInv`: while nobody on that side
has exchanged `done`, the structure is allocated, and `done` is set exactly if the
creator has not given up. `TakenInv`: whoever took `done` finds the creator in its
frame. `AnsweredInv`: a completed creator knows what happened, and its thread is
parked until `wake_up_process`. `OverInv`: a creator in its frame has an answer
pending, taken or given, so it does not wait in vain, and what is over was freed. The
three lemmas on the queue (`QueueSame`, `QueueAppend`, `QueueTail`) keep the sequence
out of the other proofs.

### The mutex

`MutexProofs` proves for every set of tasks, from `NobodyIsNoTask` only:

| Theorem | Statement |
|---|---|
| `WarningsNeverFire` | `Spec => []NoWarning` |
| `HandoffArrives` | `Spec => []HandoffNotLost` |
| `MutexIsLock` | `Spec => ImplementsLock`: the refinement |

`IInv` has three parts. `ListInv`: the tasks in `wait_list` are, once each, those in the
loop of the slow path. `SpinInv`: a task at a step under `wait_lock` has it. `WordInv`:
a task past its trylock is in the word, and a task in the word is past it, or has
`PICKUP` and is at a place from which the trylock comes before the test of the
signal. The last is what fails if the test came first. An unlocker that hands over
has `wait_lock` and is in the word, so the first waiter is neither at that test nor
past its trylock. `StepSimulation` maps every action to one step of
`InterruptibleLock` or to a stutter; `UnlockSlowpath` with a waiter is `HandOver`.

### The bytes

`XorDataProofs` builds on the layers above, from the same assumptions:

| Theorem | Statement |
|---|---|
| `BytesXoredOnce` | `Spec => []XoredOnce` |
| `ClearBytesAreInterrupted` | `Spec => []ClearOnlyIfInterrupted` |
| `DecryptionRestores` | `RoundTripSpec => []RoundTripRestores`, for one encryption and one decryption |

`ShapeInv` holds in every state. `BufferInv`: until its bytes arrive a buffer fits the
file it is read from, which may grow meanwhile and never shrinks. `LoopInv`: in the
loop of 152-165 `offset` is `i * segment_size`, and every worker below `i` was started.
`SegmentInv`: the worker `i` has the range from `i * segment_size` to the next multiple,
or to the end of the data for the last one, and its `idx` stays in it, between the
test and the XOR as long as the buffers are not freed (`FreedStays`: once freed they
stay so). The segments
of two workers are disjoint because `i < j` gives `(i + 1) * size <= j * size`, and
`n * (len \div n) <= len` keeps them inside the buffer (`Multiples`, `Quotient`).

`DataInv` holds unless `corrupted`. `BytesInv` is `XoredOnce` from the moment the data
are read to the end of the call; when a worker XORs byte `idx` it is the only one
whose segment has that byte, so the byte is clear before and encrypted after.
`EndInv`: a function that is over returned `-EINTR`, or 0 at the end of its segment.
`ClearBytesAreInterrupted` then needs that the segments cover the buffer: of the
starts of segments not after byte `k`, the last belongs to the worker that has `k`.

`DecryptionRestores` follows the data over the disk. `TurnInv`: the calls come one
after the other, so a file has the size it had when its bytes are read. `ChainInv`,
where the calls are `Chained`: the key file holds the key of the encryption, the
output begins with its buffer, the decryption's data begin with it and its key is
the same. At the end each byte was XORed twice with one key byte, and `XorInvolution`
gives it back. The hypothesis that there is one call of each kind is the manual's
scenario; a third call could change the file in between. The attempt to prove
`RoundTripRestores` without the condition on the key file failed for a good reason:
with `-o` and `-k` the same the property is false, as TLC confirmed once
`MCRoundTrip` had such a request.

### The refinement

`XorRefinementProofs` proves `CallsImplementService`, `Spec => ImplementsService`, for any
number of calls. Every action is mapped to a step of `XorService` or to a stutter:
`FillData` to `ReadData`, `FillKey` to `ReadKey`, `SaveOpen` to `CreateOutput`,
`SaveWrite` to `WriteOutput` with the same number of bytes (`SimulateWrite`), failures to `Fail`, `oops` to `Die`, the corruption of
memory to `Damage`, all steps of workers to stutters. The write needs `BytesInv`: what
is written is a blend of clear and encrypted bytes of one snapshot (`Blends`). The
other invariants are used for what a step may not change in passing: `ThreadInv` and
`MemInv` for buffers, `CorruptedOnlyBySpawnError` for `Damage`, which needs a failed call.

### The programs

`AppsProofs` proves for any set of processes, inputs and lines of any length, from
the typing of the constants (`AtoiType`, `NullType`, `InputsType`, `GarbageType`) and
`AppsDisjoint`:

| Theorem | Statement |
|---|---|
| `AppsTypeCorrect` | `AppsSpec => []AppsTypeOK` |
| `CallsAreOneCommand` | `AppsSpec => []CallIsOneCommand` |
| `CallsHaveOptionsOnly` | `AppsSpec => []OptionsOnly` |
| `ThreadNumbersChecked` | `AppsSpec => []ThreadsChecked` |
| `NoCallsAfterEnd` | `AppsSpec => []NoCallAfterEnd`, if every input has a line |

The lemmas about `strtok` come first: the fields that are not empty are numbered
without gaps (`RankOnto`), so `Tokens` is a sequence of words (`TokensSeq`), and the cut
line has at most one token (`CutTokens`). `ParsedInv`: a parameter that is set
stands after its option in the tokens of *this* command, since `ReadCommand` resets
all four. `StrictInv`: as long as `encrypt_app` has found no error it stands at an odd
token and all odd tokens before are options. `EndInv`: once the input is used up the
buffer has one token or none, and one token is no command. The hypothesis of
`NoCallsAfterEnd` is needed: with no input at all the first `fgets` leaves the array
uninitialized, and what it happens to hold is split and parsed. The instances of
`apps` have such an input; their `Garbage` holds no whole command.

`Practica2Proofs` proves for any number of processes and commands, from the
assumptions of `Apps` and `XorService`, `MaxCallsNat` and `InitialDisksType`:

| Theorem | Statement |
|---|---|
| `SuccessMeansOutput` | `Spec => []SuccessLeavesOutput` |
| `FilesChangeByCommand` | `Spec => OnlyNamedFileChanges` |

`SessionApps` shows that the programs take only steps of `Apps` here, which carries
`AppsTypeOK` and `CommandInv` over. `SessionInv` ties the two sides together: only the
last call of a process runs, the process waits for it, and its arguments are the
parameters just parsed (`CallInv`); a call that succeeded had data and has an output not
shorter than what it wrote, and no other call shortens it (`OutputInv`). Together with
`CallsImplementService` the results hold for the system calls themselves.

### The dashboard

`DashboardProofs` proves for any number of mounts and loads, from `NullIsNoAnswer`:
`ChartsAreComplete` (`Spec => []ChartsComplete`) and `DataStayShown`
(`Spec => StaysShown`). `PageInv` says that only what `get_fake_memory_data` returns is on
its way to the page or in its state, and `SelectedInSchema` compares the fields of
the charts with those of the server one by one.

All the inductive invariants were checked with TLC before they were proved.

### Only model-checked

`EveryCallReturns`, `MutexReleased`, `SalirEnds`, `CreatorReturns`, `TaskStarts`,
`StopReturns`, `LockReturns` and `PageSettles`: liveness under fairness is outside the prover's
reach. Every other property of a passing run is the statement of a theorem.

## 6. Plan

1. *Done:* `XorSyscall`, `RoundTrip`, their runs and theorems.
2. *Done:* `XorService` and the refinement; `Apps`; the composition `Practica2`.
3. *Done:* `KthreadCreate` and `Mutex` with their theorems; `Dashboard`.
4. *Done:* the theorems on the bytes, the round trip, the refinement, the programs,
   the session and the page.
5. Left: the safety that the liveness properties rest on (a sleeping waiter of
   `Mutex` has someone who will wake it; a call in `join` waits for a thread that has
   not ended) could be stated as invariants and proved.

## 7. Not modelled

- The table, the build file and the header (static); the two clock calls
  (stateless: each returns one clock of the kernel); the boot message and the
  system name (output only).
- Of `kthread.c`: parking, CPU binding, kthread workers. Of `mutex.c`: ww_mutexes,
  the OSQ lock that orders optimistic spinners, the debug variants.
- The rest of Linux 6.6.45. More than 99.9 % of the lines of the repository are this
  vendored tree; its subsystems (BPF, KVM, tracing, the scheduler, drivers, ...)
  carry nothing of this program's logic, and no project of this size could model
  a share of them that would show in a line count. All state-changing code written
  for this repository is modelled, and of the kernel what that code calls to start
  and stop threads and to lock.
