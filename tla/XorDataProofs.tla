---------------------------- MODULE XorDataProofs ----------------------------
(***************************************************************************)
(* What the workers of XorSyscall do to the data, for every number of      *)
(* calls and of threads and for data and keys of every length: each byte   *)
(* is XORed at most once, with the key byte of its position, and a byte    *)
(* that stays clear lies in the segment of a worker that was interrupted.  *)
(* Hence an encryption and a decryption of its output restore the data.    *)
(***************************************************************************)
EXTENDS XorSyscallProofs, RoundTrip

(* The segment of worker i, from the values of segment_size and offset in  *)
(* the loop that starts the workers.                                       *)
SegmentStart(c, i) == i * segment_size(c)
SegmentEnd(c, i) ==
  IF i = num_threads(c) - 1 THEN Len(buf[c]) ELSE (i + 1) * segment_size(c)

Ended == {"exited", "joined", "gone"}

(* The buffers of a call that has not been given its bytes yet fit the     *)
(* files they are read from, and from then on plain is as long as buf.     *)
BufferInv(c) ==
  /\ pc[c] = "fill_data" =>
       0 < Len(buf[c]) /\ Len(buf[c]) <= Len(disk[req[c].src_file])
  /\ pc[c] = "fill_key" =>
       0 < Len(key[c]) /\ Len(key[c]) <= Len(disk[req[c].key_filepath])
  /\ pc[c] \in {"idle", "read_data", "fill_data", "load_key"} => key[c] = <<>>
  /\ pc[c] # "fill_data" => Len(plain[c]) = Len(buf[c])

(* The loop that starts the workers gives each of them its segment.        *)
LoopInv(c) ==
  /\ pc[c] = "spawn" => offset[c] = SegmentStart(c, cur[c])
  /\ pc[c] = "spawn" =>
       \A i \in 0 .. cur[c] - 1 : phase[<<c, i>>] # "none"
  /\ \/ pc[c] \in {"stop", "join", "save", "write"}
     \/ pc[c] \in {"cleanup", "returned"} /\ result[c] = "0"
     => /\ num_threads(c) > 0
        /\ \A i \in 0 .. num_threads(c) - 1 : phase[<<c, i>>] # "none"

(* Every worker keeps to its segment.                                      *)
SegmentInv(c, i) ==
  LET w == <<c, i>>
  IN  /\ phase[w] # "none" =>
           /\ range[w] = <<SegmentStart(c, i), SegmentEnd(c, i)>>
           /\ idx[w] <= SegmentEnd(c, i)
      /\ phase[w] \in {"none", "woken", "lock", "wait"} => idx[w] = 0
      /\ phase[w] \in InLoop => SegmentStart(c, i) <= idx[w]
      /\ phase[w] = "xor" /\ BuffersLive(c) => idx[w] < SegmentEnd(c, i)

(* A thread function that is over has returned 0 at the end of its segment *)
(* or -EINTR.                                                              *)
EndInv(c, i) ==
  phase[<<c, i>>] \in Ended =>
    \/ ret[<<c, i>>] = "-EINTR"
    \/ ret[<<c, i>>] = "0" /\ idx[<<c, i>>] = SegmentEnd(c, i)

(* XoredOnce, from the moment the data are read to the end of the call.    *)
BytesInv(c) ==
  pc[c] # "fill_data" =>
    \A k \in 0 .. Len(buf[c]) - 1 :
      buf[c][k + 1] = IF Processed(c, k) THEN CipherByte(c, k)
                      ELSE plain[c][k + 1]

ShapeInv ==
  /\ \A c \in Calls : BufferInv(c) /\ LoopInv(c)
  /\ \A c \in Calls, i \in Slots : SegmentInv(c, i)

DataInv ==
  ~corrupted =>
    /\ \A c \in Calls : BytesInv(c)
    /\ \A c \in Calls, i \in Slots : EndInv(c, i)
-----------------------------------------------------------------------------
(* Arithmetic of the segments.                                             *)

LEMMA Quotient ==
  ASSUME NEW len \in Nat, NEW n \in Nat \ {0}
  PROVE  len \div n \in Nat /\ n * (len \div n) <= len
OBVIOUS

LEMMA Multiples ==
  ASSUME NEW i \in Nat, NEW j \in Nat, NEW s \in Nat, i < j
  PROVE  (i + 1) * s = i * s + s /\ (i + 1) * s <= j * s
OBVIOUS

(* The segments of n workers that share len bytes: inside the buffer, one  *)
(* after the other, and all of it.                                         *)
LEMMA SegmentsShare ==
  ASSUME NEW len \in Nat, NEW n \in Nat \ {0}
  PROVE  LET s == len \div n
             End(i) == IF i = n - 1 THEN len ELSE (i + 1) * s
         IN  /\ \A i \in 0 .. n - 1 :
                  i * s \in Nat /\ i * s <= End(i) /\ End(i) <= len
             /\ \A i, j \in 0 .. n - 1 : i < j => End(i) <= j * s
             /\ \A k \in 0 .. len - 1 : \E i \in 0 .. n - 1 :
                  i * s <= k /\ k < End(i)
<1> DEFINE s == len \div n
           End(i) == IF i = n - 1 THEN len ELSE (i + 1) * s
<1>1. s \in Nat /\ n * s <= len
  BY Quotient
<1> HIDE DEF s
<1>2. \A i \in 0 .. n - 1 :
        i * s \in Nat /\ (i + 1) * s = i * s + s /\ (i + 1) * s <= n * s
  <2> TAKE i \in 0 .. n - 1
  <2>1. i \in Nat /\ i < n
    OBVIOUS
  <2>2. (i + 1) * s = i * s + s /\ i * s \in Nat
    BY <1>1, <2>1
  <2>3. CASE i + 1 = n
    BY <1>1, <2>2, <2>3
  <2>4. CASE i + 1 < n
    BY <1>1, <2>1, <2>2, <2>4, Multiples
  <2> QED
    BY <2>1, <2>2, <2>3, <2>4
<1>3. \A i \in 0 .. n - 1 :
        i * s \in Nat /\ i * s <= End(i) /\ End(i) <= len
  BY <1>1, <1>2
<1>4. ASSUME NEW i \in 0 .. n - 1, NEW j \in 0 .. n - 1, i < j
      PROVE  End(i) <= j * s
  <2>1. (i + 1) * s <= j * s
    BY <1>1, <1>4, Multiples
  <2> QED
    BY <1>4, <2>1
<1>5. ASSUME NEW k \in 0 .. len - 1
      PROVE  \E i \in 0 .. n - 1 : i * s <= k /\ k < End(i)
  <2>1. CASE (n - 1) * s <= k
    <3>1. n - 1 \in 0 .. n - 1 /\ k < End(n - 1)
      BY <1>5
    <3> QED
      BY <2>1, <3>1
  <2>2. CASE ~((n - 1) * s <= k)
    <3>1. n - 1 \in Nat /\ (n - 1) * s \in Nat
      BY <1>1
    <3>2. s # 0
      BY <2>2, <3>1
    <3> DEFINE q == k \div s
    <3>3. q \in Nat /\ q * s <= k /\ k < (q + 1) * s
      BY <1>1, <3>2
    <3> HIDE DEF q
    <3>4. q < n - 1
      <4>1. SUFFICES ASSUME ~(q < n - 1) PROVE FALSE
        OBVIOUS
      <4>2. (n - 1) * s <= q * s
        BY <1>1, <3>1, <3>3, <4>1
      <4> QED
        BY <2>2, <3>1, <3>3, <4>2, <1>1
    <3>5. q \in 0 .. n - 1 /\ End(q) = (q + 1) * s
      BY <3>3, <3>4
    <3> QED
      BY <3>3, <3>5
  <2> QED
    BY <2>1, <2>2
<1> QED
  BY <1>3, <1>4, <1>5 DEF s
-----------------------------------------------------------------------------
(* Frames.                                                                 *)

(* The files that exist stay and never become shorter.                     *)
LEMMA FilesGrow ==
  ASSUME TypeInv, Next
  PROVE  \A f \in DOMAIN disk :
           f \in DOMAIN disk' /\ Len(disk'[f]) >= Len(disk[f])
<1>0. /\ \A f \in DOMAIN disk : disk[f] \in Seq(Byte) /\ Len(disk[f]) \in Nat
      /\ \A c \in Calls : buf[c] \in Seq(Byte) /\ Len(buf[c]) \in Nat
  BY LenProperties DEF TypeInv, VarTypes
<1>1. CASE UNCHANGED disk
  BY <1>0, <1>1
<1>2. ASSUME NEW c \in Calls, SaveOpen(c)
      PROVE  \A f \in DOMAIN disk :
               f \in DOMAIN disk' /\ Len(disk'[f]) >= Len(disk[f])
  <2>1. CASE disk' = disk
    BY <1>0, <2>1
  <2>2. CASE /\ req[c].dest_file \notin DOMAIN disk
             /\ disk' = [g \in DOMAIN disk \cup {req[c].dest_file} |->
                           IF g = req[c].dest_file THEN <<>> ELSE disk[g]]
    BY <1>0, <2>2
  <2> QED
    BY <1>2, <2>1, <2>2 DEF SaveOpen
<1>3. ASSUME NEW c \in Calls, SaveWrite(c)
      PROVE  \A f \in DOMAIN disk :
               f \in DOMAIN disk' /\ Len(disk'[f]) >= Len(disk[f])
  <2> DEFINE g == req[c].dest_file
  <2>1. PICK n \in IF "write" \in Faults THEN 0 .. Len(buf[c])
                   ELSE {Len(buf[c])} :
          disk' = [disk EXCEPT ![g] = Overwrite(@, buf[c], n)]
    BY <1>3 DEF SaveWrite
  <2>2. g \in DOMAIN disk /\ n \in Nat /\ n <= Len(buf[c])
    BY <1>0, <1>3 DEF SaveWrite, TypeInv, FilesOpen
  <2>3. Len(Overwrite(disk[g], buf[c], n)) >= Len(disk[g])
    BY <1>0, <2>2, OverwriteSeq
  <2> QED
    BY <1>0, <2>1, <2>2, <2>3
<1>4. \/ UNCHANGED disk
      \/ \E c \in Calls : SaveOpen(c) \/ SaveWrite(c)
  <2>1. ASSUME NEW c \in Calls, Syscall(c)
        PROVE  UNCHANGED disk \/ SaveOpen(c) \/ SaveWrite(c)
    BY <2>1
    DEF Syscall, xor_encrypt_syscall, xor_decrypt, read_data_from_file,
         load_key_from_file, save_data_to_file, load_data, load_key, save_data,
         CopyFromUser, CopyFault, ReadDataFails, SizeData, FillData,
         LoadKeyFails, SizeKey, FillKey, AllocFails, AllocWorkers,
         DivideByZero, SpawnWorker, SpawnFails, StopWorker, StopFreedTask,
         JoinWorker, SaveFails, Cleanup, ioVars
  <2>2. ASSUME NEW c \in Calls, NEW i \in Slots,
               Worker(c, i) \/ FreeTask(c, i)
        PROVE  UNCHANGED disk
    BY <2>2, WorkerFrame DEF callVars
  <2> QED
    BY <2>1, <2>2 DEF Next, Terminated, vars
<1> QED
  BY <1>1, <1>2, <1>3, <1>4

(* The steps of a system call that change buffers or arguments of workers. *)
LEMMA BufferSteps ==
  ASSUME NEW c \in Calls, Syscall(c)
  PROVE  \/ SizeData(c) \/ FillData(c) \/ SizeKey(c) \/ FillKey(c)
         \/ AllocWorkers(c) \/ SpawnWorker(c) \/ SpawnFails(c)
         \/ UNCHANGED <<buf, key, plain, offset, range>>
BY DEF Syscall, xor_encrypt_syscall, xor_decrypt, read_data_from_file,
       load_key_from_file, save_data_to_file, load_data, load_key, save_data,
       CopyFromUser, CopyFault, ReadDataFails, LoadKeyFails, AllocFails,
       DivideByZero, StopWorker, StopFreedTask, JoinWorker, SaveOpen,
       SaveWrite, SaveFails, Cleanup, ioVars, workerVars

(* A step of a system call leaves the buffers of the other calls alone,    *)
(* and the arguments of their workers.                                     *)
LEMMA OtherBuffers ==
  ASSUME TypeInv, NEW c \in Calls, Syscall(c), NEW d \in Calls, d # c
  PROVE  /\ buf'[d] = buf[d] /\ key'[d] = key[d] /\ plain'[d] = plain[d]
         /\ offset'[d] = offset[d]
         /\ \A i \in Slots : range'[<<d, i>>] = range[<<d, i>>]
<1> USE DEF TypeInv, VarTypes
<1>1. CASE SizeData(c) \/ FillData(c)
  BY <1>1 DEF SizeData, FillData, workerVars
<1>2. CASE SizeKey(c) \/ FillKey(c)
  BY <1>2 DEF SizeKey, FillKey, workerVars
<1>3. CASE AllocWorkers(c)
  BY <1>3 DEF AllocWorkers, ioVars, workerVars
<1>4. CASE SpawnWorker(c) \/ SpawnFails(c)
  <2>1. UNCHANGED <<buf, key, plain>> /\ FillWorkerArgs(c)
    BY <1>4 DEF SpawnWorker, SpawnFails, ioVars
  <2>2. offset'[d] = offset[d]
    BY <2>1 DEF FillWorkerArgs
  <2>3. \A i \in Slots : <<d, i>> \in Workers /\ <<d, i>> # <<c, cur[c]>>
    BY DEF Workers
  <2>4. \A i \in Slots : range'[<<d, i>>] = range[<<d, i>>]
    BY <2>1, <2>3 DEF FillWorkerArgs
  <2> QED
    BY <2>1, <2>2, <2>4
<1> QED
  BY <1>1, <1>2, <1>3, <1>4, BufferSteps

(* The arguments of threadfn, idx and ret are its own.                     *)
LEMMA SyscallWorkers ==
  ASSUME NEW c \in Calls, Syscall(c)
  PROVE  UNCHANGED <<idx, ret>>
BY DEF Syscall, xor_encrypt_syscall, xor_decrypt, read_data_from_file,
         load_key_from_file, save_data_to_file, load_data, load_key, save_data,
         CopyFromUser, CopyFault, ReadDataFails, SizeData, FillData,
         LoadKeyFails, SizeKey, FillKey, AllocFails, AllocWorkers,
         DivideByZero, SpawnWorker, SpawnFails, StopWorker, StopFreedTask,
         JoinWorker, SaveOpen, SaveWrite, SaveFails, Cleanup,
         workerVars

(* A system call starts the worker cur, or moves an ended worker on.       *)
LEMMA SyscallPhases ==
  ASSUME TypeInv, ThreadInv, NEW c \in Calls, Syscall(c), NEW w \in Workers
  PROVE  \/ phase'[w] = phase[w]
         \/ phase[w] \in Ended /\ phase'[w] \in Ended
         \/ /\ SpawnWorker(c)
            /\ w = <<c, cur[c]>>
            /\ phase[w] = "none" /\ phase'[w] = "woken"
<1>1. CASE SpawnWorker(c)
  <2>1. pc[c] = "spawn" /\ phase' = [phase EXCEPT ![<<c, cur[c]>>] = "woken"]
    BY <1>1 DEF SpawnWorker
  <2>2. cur[c] \in Slots /\ cur[c] \in Nat
    BY <2>1, LoopFacts DEF TypeInv, VarTypes
  <2>3. WorkerInv(c, cur[c])
    BY <2>2 DEF ThreadInv
  <2>4. phase[<<c, cur[c]>>] = "none"
    BY <2>1, <2>2, <2>3 DEF WorkerInv
  <2> QED
    BY <1>1, <2>1, <2>4 DEF TypeInv, VarTypes
<1>2. CASE JoinWorker(c)
  BY <1>2 DEF JoinWorker, TypeInv, VarTypes, Ended
<1> QED
  BY <1>1, <1>2, SyscallThreads
-----------------------------------------------------------------------------
(* The shape of the buffers and of the segments.                           *)

LEMMA ShapeInit == Init => ShapeInv
<1> SUFFICES ASSUME Init PROVE ShapeInv
  OBVIOUS
<1>1. ASSUME NEW c \in Calls PROVE BufferInv(c) /\ LoopInv(c)
  BY DEF Init, BufferInv, LoopInv
<1>2. ASSUME NEW c \in Calls, NEW i \in Slots PROVE SegmentInv(c, i)
  BY DEF Init, SegmentInv, Workers, InLoop
<1> QED
  BY <1>1, <1>2 DEF ShapeInv

(* The loaders fill the buffers; every other step leaves them alone.       *)
LEMMA LoadSteps ==
  ASSUME TypeInv, NEW c \in Calls, Syscall(c)
  PROVE  \/ SizeData(c) \/ FillData(c) \/ SizeKey(c) \/ FillKey(c)
         \/ /\ pc[c] \notin {"fill_data", "fill_key"}
            /\ UNCHANGED <<buf, key, plain>>
            /\ \/ pc[c] = "idle" /\ pc'[c] = "read_data"
               \/ pc'[c] \notin {"idle", "read_data", "fill_data",
                                 "load_key", "fill_key"}
BY ZenonT(60)
DEF Syscall, xor_encrypt_syscall, xor_decrypt, read_data_from_file,
       load_key_from_file, save_data_to_file, load_data, load_key, save_data,
       CopyFromUser, CopyFault, ReadDataFails, LoadKeyFails, AllocFails,
       AllocWorkers, DivideByZero, SpawnWorker, SpawnFails, StopWorker,
       StopFreedTask, JoinWorker, SaveOpen, SaveWrite, SaveFails, Cleanup,
       NextWorker, Goto, Return, ioVars, TypeInv, VarTypes

(* The lengths of the buffers of a call at the label after each of its     *)
(* steps.                                                                  *)
LEMMA OwnBuffers ==
  ASSUME TypeInv, ShapeInv, NEW c \in Calls, Syscall(c)
  PROVE  BufferInv(c)'
<1>0. /\ BufferInv(c)
      /\ pc \in [Calls -> PCs] /\ buf \in [Calls -> Seq(Byte)]
      /\ key \in [Calls -> Seq(Byte)] /\ plain \in [Calls -> Seq(Byte)]
      /\ req' = req
  BY SyscallFrame DEF ShapeInv, TypeInv, VarTypes
<1>1. CASE SizeData(c)
  <2>1. PICK junk \in [1 .. Len(disk[req[c].src_file]) -> Byte] :
          buf' = [buf EXCEPT ![c] = junk]
    BY <1>1 DEF SizeData
  <2>2. /\ pc[c] = "read_data" /\ pc'[c] = "fill_data"
        /\ Loadable(req[c].src_file)
        /\ UNCHANGED <<disk, key, plain>>
    BY <1>0, <1>1 DEF SizeData, Goto
  <2>3. /\ disk[req[c].src_file] \in Seq(Byte)
        /\ Len(disk[req[c].src_file]) \in Nat
        /\ Len(disk[req[c].src_file]) > 0
    BY <2>2, LenProperties DEF Loadable, TypeInv, VarTypes
  <2>4. Len(buf'[c]) = Len(disk[req[c].src_file])
    BY <1>0, <2>1, <2>3, ArraySeq
  <2> QED
    BY <1>0, <2>2, <2>3, <2>4 DEF BufferInv
<1>2. CASE FillData(c)
  <2>1. /\ pc[c] = "fill_data" /\ pc'[c] = "load_key"
        /\ plain'[c] = buf'[c]
        /\ UNCHANGED <<disk, key>>
    BY <1>0, <1>2 DEF FillData, Goto
  <2> QED
    BY <1>0, <2>1 DEF BufferInv
<1>3. CASE SizeKey(c)
  <2>1. PICK junk \in [1 .. Len(disk[req[c].key_filepath]) -> Byte] :
          key' = [key EXCEPT ![c] = junk]
    BY <1>3 DEF SizeKey
  <2>2. /\ pc[c] = "load_key" /\ pc'[c] = "fill_key"
        /\ Loadable(req[c].key_filepath)
        /\ UNCHANGED <<disk, buf, plain>>
    BY <1>0, <1>3 DEF SizeKey, Goto
  <2>3. /\ disk[req[c].key_filepath] \in Seq(Byte)
        /\ Len(disk[req[c].key_filepath]) \in Nat
        /\ Len(disk[req[c].key_filepath]) > 0
    BY <2>2, LenProperties DEF Loadable, TypeInv, VarTypes
  <2>4. Len(key'[c]) = Len(disk[req[c].key_filepath])
    BY <1>0, <2>1, <2>3, ArraySeq
  <2> QED
    BY <1>0, <2>2, <2>3, <2>4 DEF BufferInv
<1>4. CASE FillKey(c)
  BY <1>0, <1>4 DEF FillKey, Goto, BufferInv
<1>5. CASE /\ pc[c] \notin {"fill_data", "fill_key"}
           /\ UNCHANGED <<buf, key, plain>>
           /\ \/ pc[c] = "idle" /\ pc'[c] = "read_data"
              \/ pc'[c] \notin {"idle", "read_data", "fill_data", "load_key",
                                "fill_key"}
  BY <1>0, <1>5 DEF BufferInv
<1> QED
  BY <1>1, <1>2, <1>3, <1>4, <1>5, LoadSteps

LEMMA OtherShape ==
  ASSUME TypeInv, ShapeInv, NEW c \in Calls, Syscall(c), NEW d \in Calls,
         d # c
  PROVE  BufferInv(d)'
<1>1. /\ BufferInv(d)
      /\ pc'[d] = pc[d] /\ req' = req
      /\ buf'[d] = buf[d] /\ key'[d] = key[d] /\ plain'[d] = plain[d]
      /\ Len(buf[d]) \in Nat /\ Len(key[d]) \in Nat
  BY SyscallFrame, OtherBuffers, LenProperties, ZenonT(60)
  DEF ShapeInv, TypeInv, VarTypes
<1>2. ASSUME NEW f \in DOMAIN disk
      PROVE  /\ Len(disk[f]) \in Nat /\ Len(disk'[f]) \in Nat
             /\ Len(disk'[f]) >= Len(disk[f])
  <2>1. f \in DOMAIN disk' /\ Len(disk'[f]) >= Len(disk[f])
    BY FilesGrow DEF Next
  <2>2. TypeInv'
    BY TypeNext DEF Next
  <2>3. disk[f] \in Seq(Byte) /\ disk'[f] \in Seq(Byte)
    BY <2>1, <2>2 DEF TypeInv, VarTypes
  <2> QED
    BY <2>1, <2>3, LenProperties
<1>3. CASE pc[d] = "fill_data"
  <2>1. req[d].src_file \in DOMAIN disk
    BY <1>3 DEF TypeInv, FilesOpen
  <2> QED
    BY <1>1, <1>2, <1>3, <2>1 DEF BufferInv
<1>4. CASE pc[d] = "fill_key"
  <2>1. req[d].key_filepath \in DOMAIN disk
    BY <1>4 DEF TypeInv, FilesOpen
  <2> QED
    BY <1>1, <1>2, <1>4, <2>1 DEF BufferInv
<1>5. CASE pc[d] \notin {"fill_data", "fill_key"}
  BY <1>1, <1>5 DEF BufferInv
<1> QED
  BY <1>3, <1>4, <1>5

(* The numbers in the definition of a segment.                             *)
LEMMA SegmentFacts ==
  ASSUME TypeInv, NEW c \in Calls, num_threads(c) > 0
  PROVE  /\ num_threads(c) \in Nat \ {0}
         /\ Len(buf[c]) \in Nat
         /\ segment_size(c) \in Nat
         /\ \A i \in 0 .. num_threads(c) - 1 :
              /\ i \in Slots
              /\ SegmentStart(c, i) \in Nat
              /\ SegmentEnd(c, i) \in Nat
              /\ SegmentStart(c, i) <= SegmentEnd(c, i)
              /\ SegmentEnd(c, i) <= Len(buf[c])
         /\ \A i, j \in 0 .. num_threads(c) - 1 :
              i < j => SegmentEnd(c, i) <= SegmentStart(c, j)
         /\ \A k \in 0 .. Len(buf[c]) - 1 :
              \E i \in 0 .. num_threads(c) - 1 :
                SegmentStart(c, i) <= k /\ k < SegmentEnd(c, i)
<1>1. num_threads(c) \in Nat \ {0} /\ Len(buf[c]) \in Nat
  BY RequestFields, LenProperties DEF TypeInv, VarTypes
<1>2. segment_size(c) \in Nat
  BY <1>1, Quotient DEF segment_size
<1>3. \A i \in 0 .. num_threads(c) - 1 : i \in Slots
  BY <1>1, RequestFields, MaxThreadsNat DEF Slots, TypeInv
<1>4. \A i \in 0 .. num_threads(c) - 1 : (i + 1) * segment_size(c) \in Nat
  BY <1>1, <1>2
<1> QED
  BY <1>1, <1>2, <1>3, <1>4, SegmentsShare
  DEF SegmentStart, SegmentEnd, segment_size

(* The labels of the loops over the workers.                               *)
LEMMA LoopSteps ==
  ASSUME TypeInv, NEW c \in Calls, Syscall(c)
  PROVE  \/ AllocWorkers(c) \/ SpawnWorker(c)
         \/ /\ pc'[c] # "spawn"
            /\ pc'[c] \in {"stop", "join", "save", "write"} =>
                 pc[c] \in {"stop", "join", "save"}
            /\ pc'[c] \in {"cleanup", "returned"} /\ result'[c] = "0" =>
                 \/ pc[c] = "write"
                 \/ pc[c] = "cleanup" /\ result[c] = "0"
BY ZenonT(60)
DEF Syscall, xor_encrypt_syscall, xor_decrypt, read_data_from_file,
       load_key_from_file, save_data_to_file, load_data, load_key, save_data,
       CopyFromUser, CopyFault, ReadDataFails, SizeData, FillData,
       LoadKeyFails, SizeKey, FillKey, AllocFails, DivideByZero, SpawnFails,
       StopWorker, StopFreedTask, JoinWorker, SaveOpen, SaveWrite, SaveFails,
       Cleanup, NextWorker, Goto, Return, TypeInv, VarTypes

LEMMA OwnLoop ==
  ASSUME TypeInv, ThreadInv, ShapeInv, NEW c \in Calls, Syscall(c)
  PROVE  LoopInv(c)'
<1>0. /\ LoopInv(c) /\ req' = req
      /\ pc \in [Calls -> PCs] /\ cur \in [Calls -> Nat]
      /\ offset \in [Calls -> Nat]
  BY SyscallFrame DEF ShapeInv, TypeInv, VarTypes
<1>1. CASE AllocWorkers(c)
  <2>1. /\ pc'[c] = "spawn" /\ cur'[c] = 0 /\ offset'[c] = 0
        /\ num_threads(c) > 0
        /\ UNCHANGED buf
    BY <1>0, <1>1 DEF AllocWorkers, Goto, ioVars
  <2>2. segment_size(c) \in Nat /\ segment_size(c)' = segment_size(c)
    BY <1>0, <2>1, SegmentFacts DEF segment_size, num_threads
  <2>3. SegmentStart(c, cur[c])' = 0
    BY <2>1, <2>2 DEF SegmentStart
  <2> QED
    BY <2>1, <2>3 DEF LoopInv
<1>2. CASE SpawnWorker(c)
  <2>1. /\ pc[c] = "spawn"
        /\ offset'[c] = offset[c] + segment_size(c)
        /\ phase' = [phase EXCEPT ![<<c, cur[c]>>] = "woken"]
        /\ pc'[c] = IF LastWorker(c) THEN "stop" ELSE "spawn"
        /\ ~LastWorker(c) => cur'[c] = cur[c] + 1
        /\ UNCHANGED buf
    BY <1>0, <1>2 DEF SpawnWorker, FillWorkerArgs, NextWorker, Goto, ioVars
  <2>2. /\ cur[c] \in 0 .. num_threads(c) - 1
        /\ num_threads(c) \in Nat \ {0}
        /\ segment_size(c) \in Nat
        /\ \A i \in 0 .. num_threads(c) - 1 : <<c, i>> \in Workers
    BY <2>1, LoopFacts DEF Workers
  <2>3. segment_size(c)' = segment_size(c) /\ num_threads(c)' = num_threads(c)
    BY <1>0, <2>1 DEF segment_size, num_threads
  <2>4. \A i \in 0 .. cur[c] : phase'[<<c, i>>] # "none"
    <3> TAKE i \in 0 .. cur[c]
    <3>1. <<c, i>> \in Workers
      BY <2>2
    <3>2. CASE i = cur[c]
      BY <2>1, <3>1, <3>2 DEF TypeInv, VarTypes
    <3>3. CASE i # cur[c]
      <4>1. i \in 0 .. cur[c] - 1
        BY <2>2, <3>3
      <4>2. phase[<<c, i>>] # "none"
        BY <1>0, <2>1, <4>1 DEF LoopInv
      <4> QED
        BY <2>1, <3>1, <4>2 DEF TypeInv, VarTypes
    <3> QED
      BY <3>2, <3>3
  <2>5. CASE LastWorker(c)
    <3>1. pc'[c] = "stop" /\ cur[c] = num_threads(c) - 1
      BY <2>1, <2>5 DEF LastWorker
    <3> QED
      BY <2>2, <2>3, <2>4, <3>1 DEF LoopInv
  <2>6. CASE ~LastWorker(c)
    <3>1. pc'[c] = "spawn" /\ cur'[c] = cur[c] + 1
      BY <2>1, <2>6
    <3>2. offset[c] = cur[c] * segment_size(c)
      BY <1>0, <2>1 DEF LoopInv, SegmentStart
    <3>3. (cur[c] + 1) * segment_size(c)
            = cur[c] * segment_size(c) + segment_size(c)
      BY <2>2
    <3>4. offset'[c] = SegmentStart(c, cur[c])'
      BY <2>1, <2>3, <3>1, <3>2, <3>3 DEF SegmentStart
    <3>5. \A i \in 0 .. cur'[c] - 1 : phase'[<<c, i>>] # "none"
      BY <2>2, <2>4, <3>1
    <3> QED
      BY <3>1, <3>4, <3>5 DEF LoopInv
  <2> QED
    BY <2>5, <2>6
<1>3. CASE /\ pc'[c] # "spawn"
           /\ pc'[c] \in {"stop", "join", "save", "write"} =>
                pc[c] \in {"stop", "join", "save"}
           /\ pc'[c] \in {"cleanup", "returned"} /\ result'[c] = "0" =>
                \/ pc[c] = "write"
                \/ pc[c] = "cleanup" /\ result[c] = "0"
  <2>1. \A w \in Workers : phase[w] # "none" => phase'[w] # "none"
    BY SyscallPhases DEF Ended
  <2>2. num_threads(c)' = num_threads(c) /\ num_threads(c) \in Int
    BY <1>0, RequestFields DEF num_threads, TypeInv
  <2>3. \A i \in 0 .. num_threads(c) - 1 : <<c, i>> \in Workers
    BY <2>2, SegmentFacts DEF Workers
  <2> QED
    BY <1>0, <1>3, <2>1, <2>2, <2>3 DEF LoopInv
<1> QED
  BY <1>1, <1>2, <1>3, LoopSteps

LEMMA OtherLoop ==
  ASSUME TypeInv, ThreadInv, ShapeInv, NEW c \in Calls, Syscall(c),
         NEW d \in Calls, d # c
  PROVE  LoopInv(d)'
<1>1. /\ LoopInv(d)
      /\ pc'[d] = pc[d] /\ cur'[d] = cur[d] /\ req' = req
      /\ result'[d] = result[d]
      /\ buf'[d] = buf[d] /\ offset'[d] = offset[d]
  BY SyscallFrame, OtherBuffers DEF ShapeInv
<1>2. \A w \in Workers : phase[w] # "none" => phase'[w] # "none"
  BY SyscallPhases DEF Ended
<1>3. /\ num_threads(d)' = num_threads(d) /\ num_threads(d) \in Int
      /\ segment_size(d)' = segment_size(d)
  BY <1>1, RequestFields DEF num_threads, segment_size, TypeInv
<1>4. \A i \in 0 .. num_threads(d) - 1 : <<d, i>> \in Workers
  BY <1>3, SegmentFacts DEF Workers
<1>5. pc[d] = "spawn" => \A i \in 0 .. cur[d] - 1 : <<d, i>> \in Workers
  BY <1>3, <1>4 DEF TypeInv, LoopInBounds
<1> QED
  BY <1>1, <1>2, <1>3, <1>4, <1>5 DEF LoopInv, SegmentStart

(* A system call does not touch the buffers and the arguments of a worker  *)
(* that has been started.                                                  *)
LEMMA StartedKept ==
  ASSUME TypeInv, ThreadInv, NEW c \in Calls, Syscall(c), NEW d \in Calls,
         NEW i \in Slots, phase[<<d, i>>] # "none"
  PROVE  /\ range'[<<d, i>>] = range[<<d, i>>]
         /\ buf'[d] = buf[d] /\ key'[d] = key[d] /\ plain'[d] = plain[d]
<1>0. WorkerInv(d, i) /\ <<d, i>> \in Workers
  BY DEF ThreadInv, Workers
<1>1. CASE d # c
  BY <1>1, OtherBuffers
<1>2. CASE d = c
  <2>1. CASE SizeData(c) \/ FillData(c) \/ SizeKey(c) \/ FillKey(c)
    BY <1>0, <1>2, <2>1 DEF SizeData, FillData, SizeKey, FillKey, WorkerInv
  <2>2. CASE AllocWorkers(c)
    BY <1>0, <1>2, <2>2 DEF AllocWorkers, workerVars, ioVars
  <2>3. CASE SpawnWorker(c) \/ SpawnFails(c)
    <3>1. /\ pc[c] = "spawn" /\ UNCHANGED <<buf, key, plain>>
          /\ \E e : range' = [range EXCEPT ![<<c, cur[c]>>] = e]
      BY <2>3 DEF SpawnWorker, SpawnFails, FillWorkerArgs, ioVars
    <3>2. cur[c] \in Nat
      BY DEF TypeInv, VarTypes
    <3>3. <<d, i>> # <<c, cur[c]>>
      BY <1>0, <1>2, <3>1, <3>2 DEF WorkerInv
    <3> QED
      BY <1>0, <3>1, <3>3 DEF TypeInv, VarTypes
  <2> QED
    BY <2>1, <2>2, <2>3, BufferSteps
<1> QED
  BY <1>1, <1>2

(* The buffers are not allocated again once there are workers.             *)
LEMMA FreedStays ==
  ASSUME TypeInv, ThreadInv, NEW c \in Calls, Syscall(c), NEW d \in Calls,
         NEW i \in Slots, phase[<<d, i>>] # "none", BuffersLive(d)'
  PROVE  BuffersLive(d)
<1>1. CASE d # c
  BY <1>1, SyscallFrame DEF BuffersLive
<1>2. CASE d = c
  <2>1. pc[c] \notin {"idle", "read_data", "fill_data", "load_key", "fill_key",
                     "alloc"}
    BY <1>2 DEF ThreadInv, WorkerInv
  <2>2. mem' = mem \/ mem' = [mem EXCEPT ![c] = {}]
    BY <2>1, ZenonT(60)
    DEF Syscall, xor_encrypt_syscall, xor_decrypt, read_data_from_file,
        load_key_from_file, save_data_to_file, load_data, load_key, save_data,
        CopyFromUser, CopyFault, ReadDataFails, SizeData, FillData,
        LoadKeyFails, SizeKey, FillKey, AllocFails, AllocWorkers,
        DivideByZero, SpawnWorker, SpawnFails, StopWorker, StopFreedTask,
        JoinWorker, SaveOpen, SaveWrite, SaveFails, Cleanup, Return
  <2>3. mem'[c] = mem[c] \/ mem'[c] = {}
    BY <2>2 DEF TypeInv, VarTypes
  <2> QED
    BY <1>2, <2>3 DEF BuffersLive
<1> QED
  BY <1>1, <1>2

LEMMA SegmentSyscall ==
  ASSUME TypeInv, ThreadInv, ShapeInv, NEW c \in Calls, Syscall(c),
         NEW d \in Calls, NEW i \in Slots
  PROVE  SegmentInv(d, i)'
<1> DEFINE w == <<d, i>>
<1>0. /\ SegmentInv(d, i) /\ WorkerInv(d, i) /\ w \in Workers
      /\ idx' = idx /\ req' = req
      /\ \/ phase'[w] = phase[w]
         \/ phase[w] \in Ended /\ phase'[w] \in Ended
         \/ /\ SpawnWorker(c) /\ w = <<c, cur[c]>>
            /\ phase[w] = "none" /\ phase'[w] = "woken"
  BY SyscallPhases, SyscallWorkers, SyscallFrame, ZenonT(60)
  DEF ShapeInv, ThreadInv, Workers
(* The worker stays where it is, or only its ended phase changes.          *)
<1>1. CASE \/ phase'[w] = phase[w]
           \/ phase[w] \in Ended /\ phase'[w] \in Ended
  <2>1. phase[w] # "none" => range'[w] = range[w] /\ buf'[d] = buf[d]
    BY StartedKept
  <2>2. phase[w] # "none" =>
          /\ SegmentStart(d, i)' = SegmentStart(d, i)
          /\ SegmentEnd(d, i)' = SegmentEnd(d, i)
    BY <1>0, <2>1 DEF SegmentStart, SegmentEnd, segment_size, num_threads
  <2>3. phase[w] # "none" /\ BuffersLive(d)' => BuffersLive(d)
    BY FreedStays
  <2> QED
    BY <1>0, <1>1, <2>1, <2>2, <2>3 DEF SegmentInv, Ended, InLoop
(* It is the worker that is started.                                       *)
<1>2. CASE SpawnWorker(c) /\ w = <<c, cur[c]>> /\ phase[w] = "none"
  <2> DEFINE e == IF LastWorker(c) THEN Len(buf[c])
                  ELSE offset[c] + segment_size(c)
  <2>1. /\ pc[c] = "spawn" /\ buf' = buf
        /\ range' = [range EXCEPT ![<<c, cur[c]>>] = <<offset[c], e>>]
        /\ phase' = [phase EXCEPT ![<<c, cur[c]>>] = "woken"]
    BY <1>2 DEF SpawnWorker, FillWorkerArgs, ioVars
  <2>2. /\ d = c /\ i = cur[c] /\ num_threads(c) > 0
        /\ i \in 0 .. num_threads(c) - 1
    BY <1>2, <2>1, LoopFacts
  <2>3. /\ segment_size(c) \in Nat
        /\ SegmentEnd(c, i) \in Nat
        /\ num_threads(c) \in Nat
    BY <2>2, SegmentFacts
  <2>4. /\ SegmentStart(c, i)' = SegmentStart(c, i)
        /\ SegmentEnd(c, i)' = SegmentEnd(c, i)
    BY <1>0, <2>1 DEF SegmentStart, SegmentEnd, segment_size, num_threads
  <2>5. offset[c] = SegmentStart(c, i)
    BY <2>1, <2>2 DEF ShapeInv, LoopInv
  <2>6. (i + 1) * segment_size(c) = i * segment_size(c) + segment_size(c)
    BY <2>2, <2>3
  <2>7. e = SegmentEnd(c, i)
    BY <2>2, <2>5, <2>6 DEF SegmentStart, SegmentEnd, LastWorker
  <2>8. /\ range'[w] = <<SegmentStart(c, i), SegmentEnd(c, i)>>
        /\ phase'[w] = "woken"
    BY <1>0, <1>2, <2>1, <2>5, <2>7 DEF TypeInv, VarTypes
  <2>9. idx'[w] = 0
    BY <1>0, <1>2 DEF SegmentInv
  <2> QED
    BY <2>2, <2>3, <2>4, <2>8, <2>9 DEF SegmentInv, InLoop
<1> QED
  BY <1>0, <1>1, <1>2
-----------------------------------------------------------------------------
(* The steps of the workers.                                               *)

(* A worker changes its own index and result only, one byte of its own     *)
(* buffer or, through freed memory, of some buffer, and no length.         *)
LEMMA WorkerBuffers ==
  ASSUME TypeInv, NEW c \in Calls, NEW i \in Slots,
         Worker(c, i) \/ FreeTask(c, i)
  PROVE  /\ \A w \in Workers \ {<<c, i>>} :
              idx'[w] = idx[w] /\ ret'[w] = ret[w] /\ phase'[w] = phase[w]
         /\ \A d \in Calls : Len(buf'[d]) = Len(buf[d])
         /\ \/ UNCHANGED <<buf, corrupted>>
            \/ corrupted' = TRUE
            \/ /\ XorByte(c, i) /\ corrupted' = corrupted
               /\ \A d \in Calls \ {c} : buf'[d] = buf[d]
<1>0. /\ idx \in [Workers -> Nat] /\ phase \in [Workers -> Phases]
      /\ ret \in [Workers -> {"none", "0", "-EINTR"}]
      /\ buf \in [Calls -> Seq(Byte)]
  BY DEF TypeInv, VarTypes
<1>1. ASSUME NEW d \in Calls, NEW k, NEW b, k \in 1 .. Len(buf[d]) => b \in Byte,
             buf' = [buf EXCEPT ![d][k] = b]
      PROVE  /\ \A x \in Calls : Len(buf'[x]) = Len(buf[x])
             /\ \A x \in Calls \ {d} : buf'[x] = buf[x]
  <2>1. Len([buf[d] EXCEPT ![k] = b]) = Len(buf[d])
    BY <1>0, <1>1, AssignSeq
  <2> QED
    BY <1>0, <1>1, <2>1
<1>2. CASE XorByte(c, i)
  <2>0. TypeInv'
    BY TypeNext DEF Next
  <2> DEFINE k == idx[<<c, i>>] + 1
             b == Xor(buf[c][k], key[c][(idx[<<c, i>>] % Len(key[c])) + 1])
  <2>1. /\ buf' = [buf EXCEPT ![c][k] = b]
        /\ UNCHANGED <<ret, corrupted>>
        /\ idx' = [idx EXCEPT ![<<c, i>>] = @ + 1]
        /\ phase' = [phase EXCEPT ![<<c, i>>] = "loop"]
    BY <1>0, <1>2 DEF XorByte
  <2>2. k \in 1 .. Len(buf[c]) => b \in Byte
    <3> SUFFICES ASSUME k \in 1 .. Len(buf[c]) PROVE b \in Byte
      OBVIOUS
    <3>1. buf'[c][k] = b
      BY <1>0, <2>1, LenProperties
    <3>2. buf'[c] \in Seq(Byte) /\ DOMAIN buf'[c] = DOMAIN buf[c]
      BY <1>0, <2>0, <2>1 DEF TypeInv, VarTypes
    <3> QED
      BY <1>0, <3>1, <3>2, ElementOfSeq, LenProperties
  <2> QED
    BY <1>0, <1>1, <1>2, <2>1, <2>2
<1>3. CASE UseFreedBuffers(c, i)
  <2>1. corrupted' = TRUE /\ idx' = idx
    BY <1>3 DEF UseFreedBuffers
  <2>2. \A w \in Workers \ {<<c, i>>} :
          ret'[w] = ret[w] /\ phase'[w] = phase[w]
    BY <1>0, <1>3 DEF UseFreedBuffers, Exit
  <2>3. \/ buf' = buf
        \/ \E d \in Calls, b \in Byte : \E k \in 1 .. Len(buf[d]) :
             buf' = [buf EXCEPT ![d][k] = b]
    BY <1>3 DEF UseFreedBuffers
  <2>4. \A d \in Calls : Len(buf'[d]) = Len(buf[d])
    BY <1>1, <2>3
  <2> QED
    BY <2>1, <2>2, <2>4
<1>4. CASE StartWorker(c, i) \/ LockMutex(c, i) \/ WaitForMutex(c, i)
  BY <1>0, <1>4 DEF StartWorker, LockMutex, WaitForMutex, Exit
<1>5. CASE LockInterrupted(c, i) \/ CheckStop(c, i) \/ WorkerStopped(c, i)
  BY <1>0, <1>5 DEF LockInterrupted, CheckStop, WorkerStopped, Exit
<1>6. CASE WorkerDone(c, i) \/ FreeTask(c, i)
  BY <1>0, <1>6 DEF WorkerDone, FreeTask, Exit
<1> QED
  BY <1>2, <1>3, <1>4, <1>5, <1>6
  DEF Worker, xor_encrypt_worker, xor_decrypt_worker

(* The worker's own step inside its segment.                               *)
LEMMA OwnSegment ==
  ASSUME TypeInv, ThreadInv, ShapeInv, NEW c \in Calls, NEW i \in Slots,
         Worker(c, i) \/ FreeTask(c, i)
  PROVE  SegmentInv(c, i)'
<1> DEFINE w == <<c, i>>
<1>0. /\ SegmentInv(c, i) /\ WorkerInv(c, i) /\ w \in Workers
      /\ idx \in [Workers -> Nat] /\ phase \in [Workers -> Phases]
      /\ i \in Nat
  <2>1. SegmentInv(c, i) /\ WorkerInv(c, i) /\ w \in Workers
    BY DEF ShapeInv, ThreadInv, Workers
  <2>2. idx \in [Workers -> Nat] /\ phase \in [Workers -> Phases]
    BY DEF TypeInv, VarTypes
  <2>3. i \in Nat
    BY MaxThreadsNat DEF Slots
  <2> QED
    BY <2>1, <2>2, <2>3
<1>1. /\ UNCHANGED <<range, req>>
      /\ Len(buf'[c]) = Len(buf[c])
  BY WorkerFrame, WorkerBuffers DEF callVars
<1>2. /\ SegmentStart(c, i)' = SegmentStart(c, i)
      /\ SegmentEnd(c, i)' = SegmentEnd(c, i)
  BY <1>1 DEF SegmentStart, SegmentEnd, segment_size, num_threads
<1>3. phase[w] # "none" /\ num_threads(c) \in Int /\ i < num_threads(c)
  <2>1. phase[w] # "none"
    BY WorkerMoves
  <2>2. num_threads(c) \in Int
    BY RequestFields DEF TypeInv
  <2>3. ~(i >= num_threads(c))
    BY <1>0, <2>1 DEF WorkerInv
  <2> QED
    BY <1>0, <2>1, <2>2, <2>3
<1>4. /\ SegmentStart(c, i) \in Nat /\ SegmentEnd(c, i) \in Nat
      /\ SegmentStart(c, i) <= SegmentEnd(c, i)
  BY <1>0, <1>3, SegmentFacts
<1>5. /\ range[w][1] = SegmentStart(c, i) /\ range[w][2] = SegmentEnd(c, i)
      /\ range'[w] = <<SegmentStart(c, i), SegmentEnd(c, i)>>
  <2>1. range[w] = <<SegmentStart(c, i), SegmentEnd(c, i)>>
    BY <1>0, <1>3 DEF SegmentInv
  <2> QED
    BY <1>1, <2>1
<1> USE <1>0, <1>2, <1>3, <1>4, <1>5 DEF SegmentInv, InLoop, Exit
<1>6. CASE StartWorker(c, i) \/ WaitForMutex(c, i) \/ LockInterrupted(c, i)
  BY <1>6 DEF StartWorker, WaitForMutex, LockInterrupted
<1>7. CASE LockMutex(c, i)
  BY <1>7 DEF LockMutex
<1>8. CASE CheckStop(c, i)
  BY <1>8 DEF CheckStop
<1>9. CASE XorByte(c, i)
  <2>1. phase[w] = "xor" /\ phase'[w] = "loop" /\ idx'[w] = idx[w] + 1
    BY <1>9 DEF XorByte
  <2>2. idx[w] \in Nat /\ idx[w] < SegmentEnd(c, i)
    BY <1>9, <2>1 DEF XorByte
  <2> QED
    BY <2>1, <2>2
<1>10. CASE WorkerStopped(c, i) \/ WorkerDone(c, i) \/ FreeTask(c, i)
  BY <1>10 DEF WorkerStopped, WorkerDone, FreeTask
<1>11. CASE UseFreedBuffers(c, i)
  <2>1. ~BuffersLive(c)' /\ idx' = idx /\ phase[w] \in InLoop
    BY <1>11 DEF UseFreedBuffers, BuffersLive, callVars
  <2>2. phase'[w] \in {"loop", "xor", "exited"}
    BY <1>11 DEF UseFreedBuffers
  <2> QED
    BY <2>1, <2>2
<1> QED
  BY <1>6, <1>7, <1>8, <1>9, <1>10, <1>11
  DEF Worker, xor_encrypt_worker, xor_decrypt_worker

LEMMA ShapeWorker ==
  ASSUME TypeInv, ThreadInv, ShapeInv, NEW c \in Calls, NEW i \in Slots,
         Worker(c, i) \/ FreeTask(c, i)
  PROVE  ShapeInv'
<1>1. /\ UNCHANGED <<pc, cur, result, req, disk, key, plain, mem, offset,
                     range>>
      /\ \A d \in Calls : Len(buf'[d]) = Len(buf[d])
  BY WorkerFrame, WorkerBuffers DEF callVars
<1>2. /\ \A w \in Workers \ {<<c, i>>} :
           idx'[w] = idx[w] /\ phase'[w] = phase[w]
      /\ phase'[<<c, i>>] # "none"
  BY WorkerMoves, WorkerBuffers
<1>3. ASSUME NEW d \in Calls
      PROVE  /\ num_threads(d)' = num_threads(d)
             /\ segment_size(d)' = segment_size(d)
             /\ \A j : SegmentStart(d, j)' = SegmentStart(d, j)
             /\ \A j : SegmentEnd(d, j)' = SegmentEnd(d, j)
  BY <1>1 DEF num_threads, segment_size, SegmentStart, SegmentEnd
<1>4. ASSUME NEW d \in Calls PROVE BufferInv(d)'
  BY <1>1 DEF ShapeInv, BufferInv
<1>5. ASSUME NEW d \in Calls PROVE LoopInv(d)'
  <2>1. \A j \in Slots : phase[<<d, j>>] # "none" => phase'[<<d, j>>] # "none"
    BY <1>2 DEF Workers
  <2>2. \A j \in 0 .. num_threads(d) - 1 : j \in Slots
    BY RequestFields, MaxThreadsNat DEF Slots, TypeInv
  <2>3. pc[d] = "spawn" => \A j \in 0 .. cur[d] - 1 : j \in Slots
    <3>1. num_threads(d) \in Int
      BY RequestFields DEF TypeInv
    <3>2. pc[d] = "spawn" => cur[d] \in 0 .. num_threads(d) - 1
      BY DEF TypeInv, LoopInBounds
    <3> QED
      BY <2>2, <3>1, <3>2
  <2>4. LoopInv(d)
    BY DEF ShapeInv
  <2>5. pc'[d] = pc[d] /\ cur'[d] = cur[d] /\ result'[d] = result[d]
    BY <1>1
  <2>6. pc[d] = "spawn" => offset'[d] = SegmentStart(d, cur[d])'
    BY <1>1, <1>3, <2>4 DEF LoopInv, SegmentStart
  <2> QED
    BY <1>3, <2>1, <2>2, <2>3, <2>4, <2>5, <2>6 DEF LoopInv
<1>6. ASSUME NEW d \in Calls, NEW j \in Slots PROVE SegmentInv(d, j)'
  <2>1. CASE <<d, j>> = <<c, i>>
    BY <2>1, OwnSegment
  <2>2. CASE <<d, j>> # <<c, i>>
    <3>1. idx'[<<d, j>>] = idx[<<d, j>>] /\ phase'[<<d, j>>] = phase[<<d, j>>]
      BY <1>2, <2>2 DEF Workers
    <3> QED
      BY <1>1, <1>3, <3>1 DEF ShapeInv, SegmentInv, BuffersLive
  <2> QED
    BY <2>1, <2>2
<1> QED
  BY <1>4, <1>5, <1>6 DEF ShapeInv

LEMMA ShapeNext ==
  TypeInv /\ ThreadInv /\ ShapeInv /\ [Next]_vars => ShapeInv'
<1> SUFFICES ASSUME TypeInv, ThreadInv, ShapeInv, [Next]_vars
             PROVE  ShapeInv'
  OBVIOUS
<1>1. ASSUME NEW c \in Calls, Syscall(c) PROVE ShapeInv'
  <2>1. ASSUME NEW d \in Calls PROVE BufferInv(d)' /\ LoopInv(d)'
    BY <1>1, OwnBuffers, OtherShape, OwnLoop, OtherLoop
  <2>2. ASSUME NEW d \in Calls, NEW i \in Slots PROVE SegmentInv(d, i)'
    BY <1>1, SegmentSyscall
  <2> QED
    BY <2>1, <2>2 DEF ShapeInv
<1>2. ASSUME NEW c \in Calls, NEW i \in Slots,
             Worker(c, i) \/ FreeTask(c, i)
      PROVE  ShapeInv'
  BY <1>2, ShapeWorker
<1>3. ASSUME UNCHANGED vars PROVE ShapeInv'
  BY <1>3
  DEF vars, ShapeInv, BufferInv, LoopInv, SegmentInv, SegmentStart,
      SegmentEnd, segment_size, num_threads, BuffersLive
<1> QED
  BY <1>1, <1>2, <1>3 DEF Next, Terminated
-----------------------------------------------------------------------------
(* The bytes.                                                              *)

(* Worker w has passed byte k.                                             *)
Reached(w, k) ==
  /\ phase[w] \in {"loop", "xor", "exited", "joined", "gone"}
  /\ range[w][1] <= k /\ k < idx[w]

LEMMA ProcessedReached ==
  ASSUME NEW c, NEW k
  PROVE  Processed(c, k) <=> \E i \in Slots : Reached(<<c, i>>, k)
BY DEF Processed, Reached

LEMMA DataInit == Init => DataInv
BY DEF Init, DataInv, BytesInv, EndInv, Ended, Workers

(* What a system call does to a byte that a worker has passed: nothing.    *)
LEMMA ReachedSyscall ==
  ASSUME TypeInv, ThreadInv, NEW c \in Calls, Syscall(c), NEW d \in Calls,
         NEW i \in Slots, NEW k
  PROVE  Reached(<<d, i>>, k)' <=> Reached(<<d, i>>, k)
<1>1. /\ idx' = idx
      /\ <<d, i>> \in Workers
      /\ phase[<<d, i>>] # "none" => range'[<<d, i>>] = range[<<d, i>>]
  BY SyscallWorkers, StartedKept DEF Workers
<1>2. \/ phase'[<<d, i>>] = phase[<<d, i>>]
      \/ phase[<<d, i>>] \in Ended /\ phase'[<<d, i>>] \in Ended
      \/ phase[<<d, i>>] = "none" /\ phase'[<<d, i>>] = "woken"
  BY <1>1, SyscallPhases
<1> QED
  BY <1>1, <1>2 DEF Reached, Ended

LEMMA DataSyscall ==
  ASSUME TypeInv, ThreadInv, ShapeInv, DataInv, NEW c \in Calls, Syscall(c)
  PROVE  DataInv'
<1> SUFFICES ASSUME ~corrupted' PROVE
      /\ \A d \in Calls : BytesInv(d)'
      /\ \A d \in Calls, i \in Slots : EndInv(d, i)'
  BY DEF DataInv
<1>1. /\ \A d \in Calls : BytesInv(d)
      /\ \A d \in Calls, i \in Slots : EndInv(d, i)
      /\ UNCHANGED <<req, idx, ret>>
  BY SyscallFrame, SyscallWorkers DEF DataInv
<1>2. \A d \in Calls, k \in Int : Processed(d, k)' <=> Processed(d, k)
  BY ReachedSyscall DEF Processed, Reached
(* The bytes of a call: nobody has worked on them while they are loaded.   *)
<1>3. ASSUME NEW d \in Calls PROVE BytesInv(d)'
  <2>0. Len(buf'[d]) \in Nat
    <3>1. TypeInv'
      BY TypeNext DEF Next
    <3> QED
      BY <3>1, LenProperties DEF TypeInv, VarTypes
  <2>1. CASE /\ pc[d] # "fill_data"
             /\ buf'[d] = buf[d] /\ key'[d] = key[d] /\ plain'[d] = plain[d]
    <3>1. \A k : CipherByte(d, k)' = CipherByte(d, k)
      BY <2>1 DEF CipherByte
    <3>2. \A k \in 0 .. Len(buf[d]) - 1 :
            /\ Processed(d, k)' <=> Processed(d, k)
            /\ buf[d][k + 1] = IF Processed(d, k) THEN CipherByte(d, k)
                              ELSE plain[d][k + 1]
      BY <1>1, <1>2, <2>0, <2>1, SMTT(30) DEF BytesInv
    <3> QED
      BY <2>1, <3>1, <3>2 DEF BytesInv
  <2>2. CASE d # c /\ pc[d] = "fill_data"
    BY <2>2, SyscallFrame DEF BytesInv
  <2>3. CASE d # c
    <3>1. buf'[d] = buf[d] /\ key'[d] = key[d] /\ plain'[d] = plain[d]
      BY <2>3, OtherBuffers
    <3> QED
      BY <2>1, <2>2, <2>3, <3>1
  <2>4. CASE d = c /\ SizeData(c)
    BY <2>4 DEF SizeData, Goto, BytesInv, TypeInv, VarTypes
  <2>5. CASE d = c /\ (FillData(c) \/ SizeKey(c) \/ FillKey(c))
    <3>1. pc[c] \in {"fill_data", "load_key", "fill_key"}
      BY <2>5 DEF FillData, SizeKey, FillKey
    <3>2. \A i \in Slots : phase[<<c, i>>] = "none"
      BY <3>1 DEF ThreadInv, WorkerInv
    <3>3. \A k \in Int : ~Processed(c, k)
      BY <3>2 DEF Processed
    <3>4. CASE FillData(c)
      <4>1. plain'[c] = buf'[c]
        BY <3>4 DEF FillData, TypeInv, VarTypes
      <4> QED
        BY <1>2, <2>0, <2>5, <3>3, <4>1 DEF BytesInv
    <3>5. CASE SizeKey(c) \/ FillKey(c)
      <4>1. pc[c] # "fill_data" /\ UNCHANGED <<buf, plain>>
        BY <3>5 DEF SizeKey, FillKey
      <4> QED
        BY <1>1, <1>2, <2>0, <2>5, <3>3, <4>1 DEF BytesInv
    <3> QED
      BY <2>5, <3>4, <3>5
  <2>6. CASE /\ d = c /\ pc[c] # "fill_data"
             /\ UNCHANGED <<buf, key, plain>>
    BY <2>1, <2>6
  <2> QED
    BY <2>3, <2>4, <2>5, <2>6, LoadSteps
<1>4. ASSUME NEW d \in Calls, NEW i \in Slots PROVE EndInv(d, i)'
  <2>1. <<d, i>> \in Workers
    BY DEF Workers
  <2>2. \/ phase'[<<d, i>>] = phase[<<d, i>>]
        \/ phase[<<d, i>>] \in Ended
        \/ phase'[<<d, i>>] = "woken"
    BY <2>1, SyscallPhases
  <2>3. phase[<<d, i>>] \in Ended =>
          SegmentEnd(d, i)' = SegmentEnd(d, i)
    <3>1. phase[<<d, i>>] \in Ended => buf'[d] = buf[d]
      BY StartedKept DEF Ended
    <3> QED
      BY <1>1, <3>1 DEF SegmentEnd, segment_size, num_threads
  <2> QED
    BY <1>1, <2>2, <2>3 DEF EndInv, Ended
<1> QED
  BY <1>3, <1>4

(* A worker passes a byte by XORing it, and by no other step.              *)
LEMMA OwnReached ==
  ASSUME TypeInv, ThreadInv, ShapeInv, NEW c \in Calls, NEW i \in Slots,
         Worker(c, i) \/ FreeTask(c, i), NEW k \in Nat
  PROVE  /\ XorByte(c, i) =>
              (Reached(<<c, i>>, k)' <=>
                 Reached(<<c, i>>, k) \/ k = idx[<<c, i>>])
         /\ ~XorByte(c, i) =>
              (Reached(<<c, i>>, k)' <=> Reached(<<c, i>>, k))
<1> DEFINE w == <<c, i>>
           r == range[w][1]
<1>0. /\ SegmentInv(c, i) /\ w \in Workers
      /\ idx \in [Workers -> Nat] /\ phase \in [Workers -> Phases]
  BY DEF ShapeInv, Workers, TypeInv, VarTypes
<1>1. r \in Nat /\ r' = r /\ idx[w] \in Nat
  <2>1. range' = range /\ range[w] \in Nat \X Nat
    BY <1>0, WorkerFrame DEF callVars, TypeInv, VarTypes
  <2> QED
    BY <1>0, <2>1
<1>2. phase[w] \in {"woken", "lock", "wait"} => idx[w] = 0
  BY <1>0 DEF SegmentInv
<1>3. /\ Reached(w, k) <=>
           /\ phase[w] \in {"loop", "xor", "exited", "joined", "gone"}
           /\ r <= k /\ k < idx[w]
      /\ Reached(w, k)' <=>
           /\ phase'[w] \in {"loop", "xor", "exited", "joined", "gone"}
           /\ r <= k /\ k < idx'[w]
  BY <1>1 DEF Reached
<1>4. ASSUME XorByte(c, i)
      PROVE  Reached(w, k)' <=> Reached(w, k) \/ k = idx[w]
  <2>1. /\ phase[w] = "xor" /\ phase'[w] = "loop" /\ idx'[w] = idx[w] + 1
    BY <1>0, <1>4 DEF XorByte
  <2>2. phase[w] # "none"
    BY <2>1
  <2>3. r = SegmentStart(c, i) /\ SegmentStart(c, i) <= idx[w]
    BY <1>0, <2>1 DEF SegmentInv, InLoop
  <2> HIDE DEF r, w
  <2> QED
    BY <1>1, <1>3, <2>1, <2>3
<1>5. ASSUME ~XorByte(c, i) PROVE Reached(w, k)' <=> Reached(w, k)
  <2> USE <1>0, <1>1, <1>2, <1>3 DEF Exit
  <2>1. CASE StartWorker(c, i) \/ WaitForMutex(c, i)
    BY <2>1 DEF StartWorker, WaitForMutex
  <2>2. CASE LockInterrupted(c, i)
    BY <2>2 DEF LockInterrupted
  <2>6. CASE LockMutex(c, i)
    <3>1. phase[w] \in {"lock", "wait"} /\ idx'[w] = r
      BY <2>6 DEF LockMutex
    <3> QED
      BY <3>1
  <2>3. CASE CheckStop(c, i) \/ WorkerStopped(c, i) \/ WorkerDone(c, i)
    BY <2>3 DEF CheckStop, WorkerStopped, WorkerDone
  <2>4. CASE UseFreedBuffers(c, i)
    BY <2>4 DEF UseFreedBuffers, InLoop
  <2>5. CASE FreeTask(c, i)
    BY <2>5 DEF FreeTask
  <2> QED
    BY <1>5, <2>1, <2>2, <2>3, <2>4, <2>5, <2>6
    DEF Worker, xor_encrypt_worker, xor_decrypt_worker
<1> QED
  BY <1>4, <1>5

(* The byte a worker is about to XOR lies in the buffer, and no worker of  *)
(* the call has passed it: the segments are disjoint.                      *)
LEMMA FreshByte ==
  ASSUME TypeInv, ThreadInv, ShapeInv, NEW c \in Calls, NEW i \in Slots,
         phase[<<c, i>>] = "xor", BuffersLive(c)
  PROVE  /\ idx[<<c, i>>] \in 0 .. Len(buf[c]) - 1
         /\ ~Processed(c, idx[<<c, i>>])
         /\ pc[c] # "fill_data"
<1> DEFINE k == idx[<<c, i>>]
           n == num_threads(c)
<1>1. /\ n \in Int
      /\ \A j \in Slots : <<c, j>> \in Workers /\ j \in Nat
      /\ \A j \in Slots : idx[<<c, j>>] \in Nat
  <2>1. n \in Int
    BY RequestFields DEF TypeInv
  <2>2. \A j \in Slots : <<c, j>> \in Workers /\ j \in Nat
    BY MaxThreadsNat DEF Workers, Slots
  <2> QED
    BY <2>1, <2>2 DEF TypeInv, VarTypes
<1>2. \A j \in Slots : phase[<<c, j>>] # "none" => j \in 0 .. n - 1
  <2> TAKE j \in Slots
  <2>1. WorkerInv(c, j)
    BY DEF ThreadInv
  <2>2. phase[<<c, j>>] # "none" => ~(j >= n)
    BY <2>1 DEF WorkerInv
  <2> QED
    BY <1>1, <2>2
<1>3. i \in 0 .. n - 1 /\ n > 0
  BY <1>1, <1>2
<1>4. /\ SegmentStart(c, i) <= k /\ k < SegmentEnd(c, i) /\ k \in Nat
  BY <1>1 DEF ShapeInv, SegmentInv, InLoop
<1>5. /\ Len(buf[c]) \in Nat
      /\ \A j \in 0 .. n - 1 :
           SegmentStart(c, j) \in Nat /\ SegmentEnd(c, j) \in Nat
      /\ SegmentEnd(c, i) <= Len(buf[c])
      /\ \A j, l \in 0 .. n - 1 :
           j < l => SegmentEnd(c, j) <= SegmentStart(c, l)
  BY <1>3, SegmentFacts
<1>6. ASSUME NEW j \in Slots, Reached(<<c, j>>, k) PROVE FALSE
  <2>1. /\ phase[<<c, j>>] # "none"
        /\ range[<<c, j>>][1] <= k /\ k < idx[<<c, j>>]
    BY <1>6 DEF Reached
  <2>2. j \in 0 .. n - 1 /\ j # i
    BY <1>1, <1>2, <2>1
  <2>3. SegmentInv(c, j)
    BY DEF ShapeInv
  <2>4. /\ range[<<c, j>>] = <<SegmentStart(c, j), SegmentEnd(c, j)>>
        /\ idx[<<c, j>>] <= SegmentEnd(c, j)
    BY <2>1, <2>3 DEF SegmentInv
  <2>5. SegmentStart(c, j) <= k /\ k < SegmentEnd(c, j)
    BY <1>1, <1>4, <1>5, <2>1, <2>2, <2>4
  <2>6. CASE i < j
    BY <1>3, <1>4, <1>5, <2>2, <2>5, <2>6
  <2>7. CASE j < i
    BY <1>3, <1>4, <1>5, <2>2, <2>5, <2>7
  <2> QED
    BY <1>3, <2>2, <2>6, <2>7
<1>7. ~Processed(c, k)
  BY <1>6 DEF Processed, Reached
<1>8. pc[c] # "fill_data"
  BY DEF ThreadInv, WorkerInv
<1> QED
  BY <1>3, <1>4, <1>5, <1>7, <1>8

(* How a thread function ends.                                             *)
LEMMA OwnEnd ==
  ASSUME TypeInv, ThreadInv, ShapeInv, DataInv, NEW c \in Calls,
         NEW i \in Slots, Worker(c, i) \/ FreeTask(c, i), ~corrupted'
  PROVE  EndInv(c, i)'
<1> DEFINE w == <<c, i>>
<1>1. /\ UNCHANGED <<req, range, corrupted>>
      /\ Len(buf'[c]) = Len(buf[c])
  BY WorkerFrame, WorkerBuffers DEF callVars, XorByte
<1>2. SegmentEnd(c, i)' = SegmentEnd(c, i)
  BY <1>1 DEF SegmentEnd, segment_size, num_threads
<1>3. /\ SegmentInv(c, i) /\ EndInv(c, i) /\ w \in Workers
      /\ idx \in [Workers -> Nat] /\ phase \in [Workers -> Phases]
      /\ ret \in [Workers -> {"none", "0", "-EINTR"}]
      /\ range[w][2] \in Nat
  BY <1>1 DEF ShapeInv, DataInv, Workers, TypeInv, VarTypes
<1> USE <1>2, <1>3 DEF EndInv, Ended, Exit
<1>4. CASE StartWorker(c, i) \/ LockMutex(c, i) \/ WaitForMutex(c, i)
  BY <1>4 DEF StartWorker, LockMutex, WaitForMutex
<1>5. CASE LockInterrupted(c, i) \/ WorkerStopped(c, i)
  BY <1>5 DEF LockInterrupted, WorkerStopped
<1>6. CASE CheckStop(c, i) \/ XorByte(c, i)
  BY <1>6 DEF CheckStop, XorByte
<1>7. CASE WorkerDone(c, i)
  <2>1. /\ phase[w] = "loop" /\ idx[w] >= range[w][2]
        /\ ret'[w] = "0" /\ idx' = idx
    BY <1>7 DEF WorkerDone
  <2>2. range[w][2] = SegmentEnd(c, i) /\ idx[w] <= SegmentEnd(c, i)
    BY <2>1 DEF SegmentInv
  <2>3. idx[w] = SegmentEnd(c, i)
    BY <2>1, <2>2
  <2> QED
    BY <2>1, <2>3
<1>8. CASE UseFreedBuffers(c, i)
  BY <1>8 DEF UseFreedBuffers
<1>9. CASE FreeTask(c, i)
  BY <1>9 DEF FreeTask
<1> QED
  BY <1>4, <1>5, <1>6, <1>7, <1>8, <1>9
  DEF Worker, xor_encrypt_worker, xor_decrypt_worker

LEMMA DataWorker ==
  ASSUME TypeInv, ThreadInv, ShapeInv, DataInv, NEW c \in Calls,
         NEW i \in Slots, Worker(c, i) \/ FreeTask(c, i)
  PROVE  DataInv'
<1> DEFINE w == <<c, i>>
<1> SUFFICES ASSUME ~corrupted' PROVE
      /\ \A d \in Calls : BytesInv(d)'
      /\ \A d \in Calls, j \in Slots : EndInv(d, j)'
  BY DEF DataInv
<1>1. /\ UNCHANGED <<pc, req, key, plain, range, corrupted>>
      /\ \A v \in Workers \ {w} :
           idx'[v] = idx[v] /\ ret'[v] = ret[v] /\ phase'[v] = phase[v]
      /\ \A d \in Calls : Len(buf'[d]) = Len(buf[d])
      /\ \/ UNCHANGED buf
         \/ XorByte(c, i) /\ \A d \in Calls \ {c} : buf'[d] = buf[d]
  BY WorkerFrame, WorkerBuffers DEF callVars
<1>2. /\ \A d \in Calls : BytesInv(d)
      /\ \A d \in Calls, j \in Slots : EndInv(d, j)
      /\ \A d \in Calls : buf[d] \in Seq(Byte) /\ Len(buf[d]) \in Nat
  BY <1>1, LenProperties DEF DataInv, TypeInv, VarTypes
<1>3. \A d \in Calls, j \in Slots : \A k \in Nat :
        <<d, j>> # w => (Reached(<<d, j>>, k)' <=> Reached(<<d, j>>, k))
  BY <1>1 DEF Reached, Workers
<1>4. \A d, k : CipherByte(d, k)' = CipherByte(d, k)
  BY <1>1 DEF CipherByte
(* A buffer that does not change: its workers pass no byte.                *)
<1>5. ASSUME NEW d \in Calls, buf'[d] = buf[d], ~(d = c /\ XorByte(c, i))
      PROVE  BytesInv(d)'
  <2>1. \A k \in Nat : \A j \in Slots :
          Reached(<<d, j>>, k)' <=> Reached(<<d, j>>, k)
    <3> TAKE k \in Nat
    <3> TAKE j \in Slots
    <3>1. CASE <<d, j>> = w
      BY <1>5, <3>1, OwnReached
    <3> QED
      BY <1>3, <3>1
  <2>2. \A k \in Nat : Processed(d, k)' <=> Processed(d, k)
    BY <2>1 DEF Processed, Reached
  <2>3. pc'[d] = pc[d] /\ plain'[d] = plain[d] /\ BytesInv(d)
    BY <1>1, <1>2
  <2> QED
    BY <1>2, <1>4, <1>5, <2>2, <2>3 DEF BytesInv
(* The byte that is XORed.                                                 *)
<1>6. ASSUME XorByte(c, i) PROVE BytesInv(c)'
  <2> DEFINE n == idx[w]
  <2>1. /\ phase[w] = "xor" /\ BuffersLive(c)
        /\ buf' = [buf EXCEPT ![c] = [buf[c] EXCEPT ![n + 1] =
             Xor(buf[c][n + 1], key[c][(n % Len(key[c])) + 1])]]
    BY <1>6 DEF XorByte, TypeInv, VarTypes
  <2>2. /\ n \in 0 .. Len(buf[c]) - 1
        /\ ~Processed(c, n)
        /\ pc[c] # "fill_data"
    BY <2>1, FreshByte
  <2>3. buf[c][n + 1] = plain[c][n + 1]
    BY <1>2, <2>2 DEF BytesInv
  <2>4. n + 1 \in DOMAIN buf[c] /\ DOMAIN buf[c] = 1 .. Len(buf[c])
    BY <1>2, <2>2, LenProperties
  <2>5. buf'[c][n + 1] = CipherByte(c, n)
    BY <2>1, <2>3, <2>4 DEF CipherByte, TypeInv, VarTypes
  <2>6. \A k \in 0 .. Len(buf[c]) - 1 :
          k # n => buf'[c][k + 1] = buf[c][k + 1]
    <3>1. buf'[c] = [buf[c] EXCEPT ![n + 1] =
            Xor(buf[c][n + 1], key[c][(n % Len(key[c])) + 1])]
      BY <2>1 DEF TypeInv, VarTypes
    <3>2. \A k \in 0 .. Len(buf[c]) - 1 :
            k # n => k + 1 # n + 1 /\ k + 1 \in DOMAIN buf[c]
      BY <1>2, <2>2, <2>4
    <3> QED
      BY <3>1, <3>2
  <2>7. \A k \in Nat : Processed(c, k)' <=> Processed(c, k) \/ k = n
    <3>1. \A k \in Nat : \A j \in Slots :
            Reached(<<c, j>>, k)' <=>
              Reached(<<c, j>>, k) \/ (j = i /\ k = n)
      <4> TAKE k \in Nat
      <4> TAKE j \in Slots
      <4>1. CASE j = i
        BY <1>6, <4>1, OwnReached
      <4>2. CASE j # i
        BY <1>3, <4>2
      <4> QED
        BY <4>1, <4>2
    <3>2. \A k \in Nat :
            /\ Processed(c, k)' <=> \E j \in Slots : Reached(<<c, j>>, k)'
            /\ Processed(c, k) <=> \E j \in Slots : Reached(<<c, j>>, k)
      BY DEF Processed, Reached
    <3> QED
      BY <3>1, <3>2
  <2> QED
    <3> SUFFICES ASSUME NEW k \in 0 .. Len(buf[c]) - 1
                 PROVE  buf'[c][k + 1] =
                          IF Processed(c, k)' THEN CipherByte(c, k)'
                          ELSE plain'[c][k + 1]
      BY <1>1 DEF BytesInv
    <3>1. CASE k = n
      BY <1>4, <2>5, <2>7, <3>1
    <3>2. CASE k # n
      <4>1. buf[c][k + 1] = IF Processed(c, k) THEN CipherByte(c, k)
                            ELSE plain[c][k + 1]
        BY <1>2, <2>2 DEF BytesInv
      <4>2. Processed(c, k)' <=> Processed(c, k)
        BY <1>2, <2>7, <3>2
      <4> QED
        BY <1>1, <1>4, <2>6, <3>2, <4>1, <4>2
    <3> QED
      BY <3>1, <3>2
<1>7. ASSUME NEW d \in Calls PROVE BytesInv(d)'
  BY <1>1, <1>5, <1>6
<1>8. ASSUME NEW d \in Calls, NEW j \in Slots PROVE EndInv(d, j)'
  <2>1. SegmentEnd(d, j)' = SegmentEnd(d, j)
    BY <1>1 DEF SegmentEnd, segment_size, num_threads
  <2>2. CASE <<d, j>> # w
    <3>1. /\ idx'[<<d, j>>] = idx[<<d, j>>]
          /\ ret'[<<d, j>>] = ret[<<d, j>>]
          /\ phase'[<<d, j>>] = phase[<<d, j>>]
      BY <1>1, <2>2 DEF Workers
    <3> QED
      BY <1>2, <2>1, <3>1 DEF EndInv
  <2>3. CASE <<d, j>> = w
    BY <2>1, <2>3, OwnEnd
  <2> QED
    BY <2>2, <2>3
<1> QED
  BY <1>7, <1>8

LEMMA DataNext ==
  /\ TypeInv /\ ThreadInv /\ ShapeInv /\ DataInv
  /\ [Next]_vars
  => DataInv'
<1> SUFFICES ASSUME TypeInv, ThreadInv, ShapeInv, DataInv, [Next]_vars
             PROVE  DataInv'
  OBVIOUS
<1>1. ASSUME NEW c \in Calls, Syscall(c) PROVE DataInv'
  BY <1>1, DataSyscall
<1>2. ASSUME NEW c \in Calls, NEW i \in Slots,
             Worker(c, i) \/ FreeTask(c, i)
      PROVE  DataInv'
  BY <1>2, DataWorker
<1>3. ASSUME UNCHANGED vars PROVE DataInv'
  BY <1>3
  DEF vars, DataInv, BytesInv, EndInv, Processed, CipherByte, SegmentEnd,
      segment_size, num_threads
<1> QED
  BY <1>1, <1>2, <1>3 DEF Next, Terminated

LEMMA DataInvariant ==
  Spec => [](TypeInv /\ MemInv /\ ThreadInv /\ ShapeInv /\ DataInv)
BY ThreadsInvariant, ShapeInit, ShapeNext, DataInit, DataNext, PTL DEF Spec

(* A thread function that returned 0 has passed every byte of its segment. *)
LEMMA EndedProcessed ==
  ASSUME TypeInv, ShapeInv, NEW c \in Calls,
         NEW i \in 0 .. num_threads(c) - 1, EndInv(c, i),
         phase[<<c, i>>] \in Ended, ret[<<c, i>>] = "0", NEW k \in Nat,
         SegmentStart(c, i) <= k, k < SegmentEnd(c, i)
  PROVE  Processed(c, k)
<1>1. i \in Slots /\ num_threads(c) \in Int
  <2>1. num_threads(c) \in Int
    BY RequestFields DEF TypeInv
  <2> QED
    BY <2>1, SegmentFacts
<1>2. SegmentInv(c, i) /\ phase[<<c, i>>] # "none"
  BY <1>1 DEF ShapeInv, Ended
<1>3. /\ range[<<c, i>>][1] = SegmentStart(c, i)
      /\ idx[<<c, i>>] = SegmentEnd(c, i)
  BY <1>2 DEF SegmentInv, EndInv
<1> QED
  BY <1>1, <1>3 DEF Processed, Ended

(* When the buffer is written all the threads of the call have ended.      *)
LEMMA AllEnded ==
  ASSUME TypeInv, ThreadInv, ShapeInv, NEW c \in Calls,
         \/ pc[c] \in {"save", "write"}
         \/ pc[c] \in {"cleanup", "returned"} /\ result[c] = "0",
         NEW i \in 0 .. num_threads(c) - 1
  PROVE  i \in Slots /\ phase[<<c, i>>] \in Ended
<1>1. i \in Slots
  <2>1. num_threads(c) \in Int
    BY RequestFields DEF TypeInv
  <2> QED
    BY <2>1, SegmentFacts
<1>2. phase[<<c, i>>] # "none"
  BY DEF ShapeInv, LoopInv
<1>3. phase[<<c, i>>] \in Quiet
  BY <1>1 DEF ThreadInv, WorkerInv
<1> QED
  BY <1>1, <1>2, <1>3 DEF Quiet, Ended

(* For every number of threads and every length of data and key, each byte *)
(* of the buffer is clear until one worker passes it, and is then XORed    *)
(* once, with the key byte of its position in the file.                    *)
THEOREM BytesXoredOnce == Spec => []XoredOnce
<1>1. DataInv => XoredOnce
  BY DEF DataInv, BytesInv, XoredOnce
<1> QED
  BY <1>1, DataInvariant, PTL

(* The segments cover the buffer: if every kthread_stop returns 0, every   *)
(* byte that is written is encrypted.                                      *)
THEOREM ClearBytesAreInterrupted == Spec => []ClearOnlyIfInterrupted
<1>1. TypeInv /\ ThreadInv /\ ShapeInv /\ DataInv => ClearOnlyIfInterrupted
  <2> SUFFICES ASSUME TypeInv, ThreadInv, ShapeInv, DataInv, ~corrupted,
                      NEW c \in Calls, pc[c] \in {"save", "write"},
                      NEW k \in 0 .. Len(buf[c]) - 1,
                      buf[c][k + 1] # CipherByte(c, k)
               PROVE  \E i \in 0 .. num_threads(c) - 1 :
                        /\ range[<<c, i>>][1] <= k /\ k < range[<<c, i>>][2]
                        /\ ret[<<c, i>>] = "-EINTR"
    BY DEF ClearOnlyIfInterrupted
  <2>1. num_threads(c) > 0
    BY DEF ShapeInv, LoopInv
  <2>2. /\ Len(buf[c]) \in Nat
        /\ \E i \in 0 .. num_threads(c) - 1 :
             SegmentStart(c, i) <= k /\ k < SegmentEnd(c, i)
    BY <2>1, SegmentFacts
  <2>3. PICK i \in 0 .. num_threads(c) - 1 :
          SegmentStart(c, i) <= k /\ k < SegmentEnd(c, i)
    BY <2>2
  <2>4. i \in Slots /\ phase[<<c, i>>] \in Ended
    BY AllEnded
  <2>5. range[<<c, i>>] = <<SegmentStart(c, i), SegmentEnd(c, i)>>
    BY <2>4 DEF ShapeInv, SegmentInv, Ended
  <2>6. ret[<<c, i>>] = "-EINTR"
    <3>1. EndInv(c, i) /\ k \in Nat
      BY <2>2, <2>4 DEF DataInv
    <3>2. ~Processed(c, k)
      BY DEF DataInv, BytesInv
    <3> QED
      BY <2>3, <2>4, <3>1, <3>2, EndedProcessed DEF EndInv
  <2> QED
    BY <2>3, <2>5, <2>6
<1> QED
  BY <1>1, DataInvariant, PTL
-----------------------------------------------------------------------------
(* An encryption followed by a decryption: RoundTrip.                      *)

(* Call d reads what call e wrote, with its key.                           *)
Chained(e, d) ==
  /\ req[d].src_file = req[e].dest_file
  /\ req[d].key_filepath = req[e].key_filepath
  /\ req[e].dest_file # req[e].key_filepath

(* The call has written its buffer and will return 0, or has done so.      *)
Success(c) == pc[c] \in {"cleanup", "returned"} /\ result[c] = "0"

KeyRead(c) ==
  pc[c] \in {"alloc", "spawn", "stop", "join", "save", "write"} \/ Success(c)

DataRead(c) == pc[c] \in {"load_key", "fill_key"} \/ KeyRead(c)

(* The elements of s are the first ones of t.                              *)
Begins(s, t) == Len(s) <= Len(t) /\ \A k \in 1 .. Len(s) : t[k] = s[k]

(* The calls are made in turn, so that no file grows between the moment    *)
(* its size is read and the moment it is read itself.                      *)
TurnInv(e, d) ==
  /\ pc[d] # "idle" => pc[e] \in {"returned", "oops"}
  /\ pc[e] = "fill_key" => Len(key[e]) = Len(disk[req[e].key_filepath])
  /\ pc[d] = "fill_data" => Len(buf[d]) = Len(disk[req[d].src_file])
  /\ pc[d] = "fill_key" => Len(key[d]) = Len(disk[req[d].key_filepath])
  /\ Success(e) => Len(key[e]) > 0

(* The way of the data and of the key from call e over the disk to call d. *)
(* The decryption may write to any file, the key file included.            *)
ChainInv(e, d) ==
  /\ KeyRead(e) /\ ~short[e] /\ ~Success(d) =>
       /\ req[e].key_filepath \in DOMAIN disk
       /\ disk[req[e].key_filepath] = key[e]
  /\ Success(e) /\ ~short[e] /\ ~Success(d) =>
       /\ req[e].dest_file \in DOMAIN disk
       /\ Begins(buf[e], disk[req[e].dest_file])
  /\ Success(e) /\ ~short[e] /\ DataRead(d) /\ ~short[d] =>
       Begins(buf[e], plain[d])
  /\ Success(e) /\ ~short[e] /\ KeyRead(d) /\ ~short[d] => key[d] = key[e]
  /\ Success(d) /\ ~short[d] =>
       /\ req[d].dest_file \in DOMAIN disk
       /\ Begins(buf[d], disk[req[d].dest_file])

RoundTripInv(e, d) ==
  /\ TurnInv(e, d)
  /\ ~corrupted /\ Chained(e, d) => ChainInv(e, d)

(* What is read or written in full.                                        *)
LEMMA OverwriteAll ==
  ASSUME NEW S, NEW old \in Seq(S), NEW new \in Seq(S)
  PROVE  /\ Begins(new, Overwrite(old, new, Len(new)))
         /\ Len(old) = Len(new) => Overwrite(old, new, Len(new)) = new
<1>1. Len(old) \in Nat /\ Len(new) \in Nat
  BY LenProperties
<1>2. /\ Overwrite(old, new, Len(new)) \in Seq(S)
      /\ Len(Overwrite(old, new, Len(new))) >= Len(new)
      /\ Len(old) = Len(new) => Len(Overwrite(old, new, Len(new))) = Len(new)
  BY <1>1, OverwriteSeq
<1>3. \A k \in 1 .. Len(new) : Overwrite(old, new, Len(new))[k] = new[k]
  BY <1>1 DEF Overwrite
<1>4. Begins(new, Overwrite(old, new, Len(new)))
  BY <1>2, <1>3 DEF Begins
<1>5. Len(old) = Len(new) => Overwrite(old, new, Len(new)) = new
  BY <1>2, <1>3, SeqEqual
<1> QED
  BY <1>4, <1>5

(* The steps of a call on its way through the stages.                      *)
LEMMA StageSteps ==
  ASSUME TypeInv, NEW c \in Calls, Syscall(c)
  PROVE  /\ pc[c] \notin {"returned", "oops"} /\ pc'[c] # "idle"
         /\ \/ SizeData(c) \/ FillData(c) \/ SizeKey(c) \/ FillKey(c)
            \/ SaveOpen(c) \/ SaveWrite(c)
            \/ /\ UNCHANGED <<disk, buf, key, plain, short>>
               /\ KeyRead(c)' => KeyRead(c)
               /\ DataRead(c)' => DataRead(c)
               /\ Success(c)' <=> Success(c)
               /\ pc'[c] \notin {"fill_data", "fill_key"}
BY ZenonT(60)
DEF Syscall, xor_encrypt_syscall, xor_decrypt, read_data_from_file,
       load_key_from_file, save_data_to_file, load_data, load_key, save_data,
       CopyFromUser, CopyFault, ReadDataFails, SizeData, FillData,
       LoadKeyFails, SizeKey, FillKey, AllocFails, AllocWorkers,
       DivideByZero, SpawnWorker, SpawnFails, StopWorker, StopFreedTask,
       JoinWorker, SaveOpen, SaveWrite, SaveFails, Cleanup, NextWorker, Goto,
       Return, ioVars, TypeInv, VarTypes, KeyRead, DataRead, Success

(* A read that is not short gives the whole file, if the buffer has the    *)
(* size of the file.                                                       *)
LEMMA KeyReadInFull ==
  ASSUME TypeInv, NEW c \in Calls, FillKey(c), ~short'[c],
         Len(key[c]) = Len(disk[req[c].key_filepath])
  PROVE  ~short[c] /\ key'[c] = disk[req[c].key_filepath]
<1> DEFINE f == req[c].key_filepath
<1>1. /\ disk[f] \in Seq(Byte) /\ key[c] \in Seq(Byte)
      /\ Len(disk[f]) \in Nat
      /\ key \in [Calls -> Seq(Byte)] /\ short \in [Calls -> BOOLEAN]
  BY LenProperties DEF FillKey, TypeInv, VarTypes, FilesOpen
<1>2. PICK n \in ReadCounts(f, Len(key[c])) :
        /\ key' = [key EXCEPT ![c] = Overwrite(@, disk[f], n)]
        /\ short' = [short EXCEPT ![c] = @ \/ n < Len(key[c])]
  BY DEF FillKey
<1>3. n \in Nat /\ n <= Len(disk[f])
  BY <1>1, ReadCountsBound
<1>4. ~short[c] /\ ~(n < Len(key[c]))
  BY <1>1, <1>2
<1>5. n = Len(disk[f])
  BY <1>1, <1>3, <1>4
<1>6. key'[c] = Overwrite(key[c], disk[f], Len(disk[f]))
  BY <1>1, <1>2, <1>5
<1> QED
  BY <1>1, <1>4, <1>6, OverwriteAll

LEMMA DataReadInFull ==
  ASSUME TypeInv, NEW c \in Calls, FillData(c), ~short'[c],
         Len(buf[c]) = Len(disk[req[c].src_file])
  PROVE  ~short[c] /\ plain'[c] = disk[req[c].src_file]
<1> DEFINE f == req[c].src_file
<1>1. /\ disk[f] \in Seq(Byte) /\ buf[c] \in Seq(Byte)
      /\ Len(disk[f]) \in Nat
      /\ buf \in [Calls -> Seq(Byte)] /\ short \in [Calls -> BOOLEAN]
      /\ plain \in [Calls -> Seq(Byte)]
  BY LenProperties DEF FillData, TypeInv, VarTypes, FilesOpen
<1>2. PICK n \in ReadCounts(f, Len(buf[c])) :
        /\ buf' = [buf EXCEPT ![c] = Overwrite(@, disk[f], n)]
        /\ short' = [short EXCEPT ![c] = @ \/ n < Len(buf[c])]
  BY DEF FillData
<1>3. n \in Nat /\ n <= Len(disk[f])
  BY <1>1, ReadCountsBound
<1>4. ~short[c] /\ ~(n < Len(buf[c]))
  BY <1>1, <1>2
<1>5. n = Len(disk[f])
  BY <1>1, <1>3, <1>4
<1>6. plain'[c] = Overwrite(buf[c], disk[f], Len(disk[f]))
  BY <1>1, <1>2, <1>5 DEF FillData
<1> QED
  BY <1>1, <1>4, <1>6, OverwriteAll

(* A write that is not short puts the buffer at the start of the file, and *)
(* every write leaves the other files alone.                               *)
LEMMA WrittenInFull ==
  ASSUME TypeInv, NEW c \in Calls, SaveWrite(c)
  PROVE  /\ DOMAIN disk' = DOMAIN disk
         /\ req[c].dest_file \in DOMAIN disk
         /\ \A g \in DOMAIN disk : g # req[c].dest_file => disk'[g] = disk[g]
         /\ ~short'[c] =>
              ~short[c] /\ Begins(buf[c], disk'[req[c].dest_file])
<1> DEFINE f == req[c].dest_file
<1>1. /\ f \in DOMAIN disk /\ disk[f] \in Seq(Byte) /\ buf[c] \in Seq(Byte)
      /\ Len(buf[c]) \in Nat /\ short \in [Calls -> BOOLEAN]
  BY LenProperties DEF SaveWrite, TypeInv, VarTypes, FilesOpen
<1>2. PICK n \in IF "write" \in Faults THEN 0 .. Len(buf[c])
                 ELSE {Len(buf[c])} :
        /\ disk' = [disk EXCEPT ![f] = Overwrite(@, buf[c], n)]
        /\ short' = [short EXCEPT ![c] = @ \/ n < Len(buf[c])]
  BY DEF SaveWrite
<1>3. ASSUME ~short'[c] PROVE ~short[c] /\ Begins(buf[c], disk'[f])
  <2>0. ~short[c] /\ ~(n < Len(buf[c]))
    BY <1>1, <1>2, <1>3
  <2>1. n = Len(buf[c])
    BY <1>1, <2>0
  <2>2. disk'[f] = Overwrite(disk[f], buf[c], Len(buf[c]))
    BY <1>1, <1>2, <2>1
  <2> QED
    BY <1>1, <2>0, <2>2, OverwriteAll
<1> QED
  BY <1>1, <1>2, <1>3

(* open(O_CREAT) leaves the files that exist alone.                        *)
LEMMA OpenedFiles ==
  ASSUME NEW c \in Calls, SaveOpen(c)
  PROVE  \A g \in DOMAIN disk : g \in DOMAIN disk' /\ disk'[g] = disk[g]
BY DEF SaveOpen

(* The sizes read by the loaders, at the labels where the files are read.  *)
LEMMA SizesRead ==
  ASSUME TypeInv, NEW c \in Calls, Syscall(c)
  PROVE  /\ pc'[c] = "fill_data" =>
              disk' = disk /\ Len(buf'[c]) = Len(disk[req[c].src_file])
         /\ pc'[c] = "fill_key" =>
              disk' = disk /\ Len(key'[c]) = Len(disk[req[c].key_filepath])
<1>0. /\ pc \in [Calls -> PCs] /\ buf \in [Calls -> Seq(Byte)]
      /\ key \in [Calls -> Seq(Byte)]
  BY DEF TypeInv, VarTypes
<1>1. CASE SizeData(c)
  <2>1. PICK junk \in [1 .. Len(disk[req[c].src_file]) -> Byte] :
          buf' = [buf EXCEPT ![c] = junk]
    BY <1>1 DEF SizeData
  <2>2. Len(disk[req[c].src_file]) \in Nat
    BY <1>1, LenProperties DEF SizeData, Loadable, TypeInv, VarTypes
  <2>3. Len(buf'[c]) = Len(disk[req[c].src_file])
    BY <1>0, <2>1, <2>2, ArraySeq
  <2> QED
    BY <1>0, <1>1, <2>3 DEF SizeData, Goto
<1>2. CASE SizeKey(c)
  <2>1. PICK junk \in [1 .. Len(disk[req[c].key_filepath]) -> Byte] :
          key' = [key EXCEPT ![c] = junk]
    BY <1>2 DEF SizeKey
  <2>2. Len(disk[req[c].key_filepath]) \in Nat
    BY <1>2, LenProperties DEF SizeKey, Loadable, TypeInv, VarTypes
  <2>3. Len(key'[c]) = Len(disk[req[c].key_filepath])
    BY <1>0, <2>1, <2>2, ArraySeq
  <2> QED
    BY <1>0, <1>2, <2>3 DEF SizeKey, Goto
<1>3. CASE FillData(c) \/ FillKey(c) \/ SaveOpen(c) \/ SaveWrite(c)
  BY <1>0, <1>3 DEF FillData, FillKey, SaveOpen, SaveWrite, Goto
<1> QED
  BY <1>1, <1>2, <1>3, StageSteps

(* A step of one call leaves what the other has read and is about to alone.*)
LEMMA StageFrame ==
  ASSUME TypeInv, NEW c \in Calls, Syscall(c), NEW x \in Calls, x # c
  PROVE  /\ pc'[x] = pc[x] /\ short'[x] = short[x]
         /\ buf'[x] = buf[x] /\ key'[x] = key[x] /\ plain'[x] = plain[x]
         /\ KeyRead(x)' <=> KeyRead(x)
         /\ DataRead(x)' <=> DataRead(x)
         /\ Success(x)' <=> Success(x)
<1>1. pc'[x] = pc[x] /\ result'[x] = result[x]
  BY SyscallFrame
<1>2. buf'[x] = buf[x] /\ key'[x] = key[x] /\ plain'[x] = plain[x]
  BY OtherBuffers
<1>3. short'[x] = short[x]
  <2>1. CASE FillData(c) \/ FillKey(c) \/ SaveWrite(c)
    BY <2>1 DEF FillData, FillKey, SaveWrite, TypeInv, VarTypes
  <2>2. CASE SizeData(c) \/ SizeKey(c) \/ SaveOpen(c)
    BY <2>2 DEF SizeData, SizeKey, SaveOpen
  <2> QED
    BY <2>1, <2>2, StageSteps
<1> QED
  BY <1>1, <1>2, <1>3 DEF KeyRead, DataRead, Success

(* A step of the encryption: the decryption has not been made.             *)
LEMMA RoundTripEncrypt ==
  ASSUME TypeInv, TypeInv', MemInv', NEW e \in Calls, NEW d \in Calls,
         d # e, RoundTripInv(e, d), Syscall(e)
  PROVE  RoundTripInv(e, d)'
<1>0. /\ req' = req /\ corrupted' = corrupted
      /\ pc'[d] = pc[d]
  BY SyscallFrame
<1>1. pc[d] = "idle"
  BY StageSteps DEF RoundTripInv, TurnInv
<1>2. ~DataRead(d)' /\ ~KeyRead(d)' /\ ~Success(d)' /\ ~Success(d)
  BY <1>0, <1>1 DEF DataRead, KeyRead, Success
<1>3. TurnInv(e, d)'
  <2>1. Success(e)' => Len(key'[e]) > 0
    <3>1. CASE pc'[e] = "cleanup"
      BY <3>1 DEF MemInv, CallMem, TypeInv, KeyLoaded, Allocations
    <3>2. CASE pc'[e] # "cleanup"
      <4>1. Success(e)' => Success(e) /\ key' = key
        <5>1. CASE SizeData(e) \/ FillData(e) \/ SizeKey(e) \/ FillKey(e)
                   \/ SaveOpen(e) \/ SaveWrite(e)
          BY <3>2, <5>1
          DEF Success, SizeData, FillData, SizeKey, FillKey, SaveOpen,
              SaveWrite, Goto, TypeInv, VarTypes
        <5>2. CASE key' = key /\ (Success(e)' <=> Success(e))
          BY <5>2
        <5> QED
          BY <5>1, <5>2, StageSteps
      <4> QED
        BY <4>1 DEF RoundTripInv, TurnInv
    <3> QED
      BY <3>1, <3>2
  <2> QED
    BY <1>0, <1>1, <2>1, SizesRead DEF TurnInv
<1>4. ASSUME ~corrupted', Chained(e, d)' PROVE ChainInv(e, d)'
  <2>1. ChainInv(e, d) /\ Chained(e, d)
    BY <1>0, <1>4 DEF RoundTripInv, Chained
  <2>2. KeyRead(e)' /\ ~short'[e] =>
          /\ req[e].key_filepath \in DOMAIN disk'
          /\ disk'[req[e].key_filepath] = key'[e]
    <3>1. CASE FillKey(e)
      <4>1. /\ disk' = disk
            /\ req[e].key_filepath \in DOMAIN disk
            /\ Len(key[e]) = Len(disk[req[e].key_filepath])
        BY <3>1 DEF FillKey, TypeInv, FilesOpen, RoundTripInv, TurnInv
      <4> QED
        BY <3>1, <4>1, KeyReadInFull
    <3>2. CASE SizeData(e) \/ FillData(e) \/ SizeKey(e)
      BY <3>2, ZenonT(60)
      DEF SizeData, FillData, SizeKey, Goto, KeyRead, Success, TypeInv,
          VarTypes
    <3>3. CASE SaveOpen(e)
      <4>1. KeyRead(e) /\ key' = key /\ short' = short
        BY <3>3 DEF SaveOpen, KeyRead
      <4> QED
        BY <1>2, <2>1, <3>3, <4>1, OpenedFiles DEF ChainInv
    <3>4. CASE SaveWrite(e)
      <4>1. KeyRead(e) /\ key' = key /\ (~short'[e] => ~short[e])
        BY <3>4, WrittenInFull DEF SaveWrite, KeyRead
      <4> QED
        BY <1>2, <2>1, <3>4, <4>1, WrittenInFull DEF ChainInv, Chained
    <3>5. CASE UNCHANGED <<disk, key, short>> /\ (KeyRead(e)' => KeyRead(e))
      BY <1>2, <2>1, <3>5 DEF ChainInv
    <3> QED
      BY <3>1, <3>2, <3>3, <3>4, <3>5, StageSteps
  <2>3. Success(e)' /\ ~short'[e] =>
          /\ req[e].dest_file \in DOMAIN disk'
          /\ Begins(buf'[e], disk'[req[e].dest_file])
    <3>1. CASE SaveWrite(e)
      <4>1. buf' = buf
        BY <3>1 DEF SaveWrite
      <4> QED
        BY <3>1, <4>1, WrittenInFull
    <3>2. CASE SizeData(e) \/ FillData(e) \/ SizeKey(e) \/ FillKey(e)
               \/ SaveOpen(e)
      BY <3>2
      DEF SizeData, FillData, SizeKey, FillKey, SaveOpen, Goto, Success,
          TypeInv, VarTypes
    <3>3. CASE UNCHANGED <<disk, buf, short>> /\ (Success(e)' <=> Success(e))
      BY <1>2, <2>1, <3>3 DEF ChainInv
    <3> QED
      BY <3>1, <3>2, <3>3, StageSteps
  <2> QED
    BY <1>0, <1>2, <2>2, <2>3 DEF ChainInv
<1> QED
  BY <1>3, <1>4 DEF RoundTripInv

(* A step of the decryption: the encryption is over.                       *)
LEMMA RoundTripDecrypt ==
  ASSUME TypeInv, NEW e \in Calls, NEW d \in Calls, d # e,
         pc[e] \in {"returned", "oops"}, RoundTripInv(e, d), Syscall(d)
  PROVE  RoundTripInv(e, d)'
<1>0. /\ req' = req /\ corrupted' = corrupted
      /\ pc'[e] = pc[e] /\ short'[e] = short[e]
      /\ buf'[e] = buf[e] /\ key'[e] = key[e]
      /\ KeyRead(e)' <=> KeyRead(e)
      /\ Success(e)' <=> Success(e)
  BY SyscallFrame, StageFrame
<1>1. TurnInv(e, d)'
  BY <1>0, SizesRead DEF TurnInv, RoundTripInv
<1>2. ASSUME ~corrupted', Chained(e, d)' PROVE ChainInv(e, d)'
  <2>0. ChainInv(e, d) /\ Chained(e, d)
    BY <1>0, <1>2 DEF RoundTripInv, Chained
  <2>1. CASE SizeData(d)
    <3>1. /\ UNCHANGED <<disk, plain, short>>
          /\ ~DataRead(d)' /\ ~KeyRead(d)' /\ ~Success(d)' /\ ~Success(d)
      BY <2>1
      DEF SizeData, Goto, DataRead, KeyRead, Success, TypeInv, VarTypes
    <3> QED
      BY <1>0, <2>0, <3>1 DEF ChainInv
  <2>2. CASE FillData(d)
    <3>1. /\ UNCHANGED <<disk, key>>
          /\ ~KeyRead(d)' /\ ~Success(d)' /\ ~Success(d)
          /\ Len(buf[d]) = Len(disk[req[d].src_file])
      BY <2>2
      DEF FillData, Goto, KeyRead, Success, TypeInv, VarTypes, RoundTripInv,
          TurnInv
    <3>2. ~short'[d] => plain'[d] = disk[req[e].dest_file]
      BY <2>0, <2>2, <3>1, DataReadInFull DEF Chained
    <3> QED
      BY <1>0, <2>0, <3>1, <3>2 DEF ChainInv
  <2>3. CASE SizeKey(d)
    <3>1. /\ UNCHANGED <<disk, plain, short>>
          /\ DataRead(d) /\ ~KeyRead(d)' /\ ~Success(d)' /\ ~Success(d)
      BY <2>3
      DEF SizeKey, Goto, DataRead, KeyRead, Success, TypeInv, VarTypes
    <3> QED
      BY <1>0, <2>0, <3>1 DEF ChainInv
  <2>4. CASE FillKey(d)
    <3>1. /\ UNCHANGED <<disk, plain>>
          /\ DataRead(d) /\ ~Success(d)' /\ ~Success(d)
          /\ Len(key[d]) = Len(disk[req[d].key_filepath])
          /\ Success(e) => KeyRead(e)
      BY <2>4
      DEF FillKey, Goto, DataRead, KeyRead, Success, TypeInv, VarTypes,
          RoundTripInv, TurnInv
    <3>2. ~short'[d] => ~short[d] /\ key'[d] = disk[req[e].key_filepath]
      BY <2>0, <2>4, <3>1, KeyReadInFull DEF Chained
    <3> QED
      BY <1>0, <2>0, <3>1, <3>2 DEF ChainInv
  <2>5. CASE SaveOpen(d)
    <3>1. /\ UNCHANGED <<buf, key, plain, short>>
          /\ DataRead(d) /\ KeyRead(d) /\ ~Success(d)' /\ ~Success(d)
      BY <2>5
      DEF SaveOpen, Goto, DataRead, KeyRead, Success, TypeInv, VarTypes
    <3> QED
      BY <1>0, <2>0, <2>5, <3>1, OpenedFiles DEF ChainInv
  <2>6. CASE SaveWrite(d)
    <3>1. /\ UNCHANGED <<buf, key, plain>>
          /\ DataRead(d) /\ KeyRead(d) /\ Success(d)'
      BY <2>6
      DEF SaveWrite, Goto, DataRead, KeyRead, Success, TypeInv, VarTypes
    <3> QED
      BY <1>0, <2>0, <2>6, <3>1, WrittenInFull DEF ChainInv
  <2>7. CASE /\ UNCHANGED <<disk, buf, key, plain, short>>
             /\ KeyRead(d)' => KeyRead(d)
             /\ DataRead(d)' => DataRead(d)
             /\ Success(d)' <=> Success(d)
    BY <1>0, <2>0, <2>7 DEF ChainInv
  <2> QED
    BY <2>1, <2>2, <2>3, <2>4, <2>5, <2>6, <2>7, StageSteps
<1> QED
  BY <1>1, <1>2 DEF RoundTripInv

(* A step of a worker: the calls that have written have none that runs.    *)
LEMMA RoundTripWorker ==
  ASSUME TypeInv, ThreadInv, NEW e \in Calls, NEW d \in Calls,
         RoundTripInv(e, d), NEW c \in Calls, NEW i \in Slots,
         Worker(c, i) \/ FreeTask(c, i)
  PROVE  RoundTripInv(e, d)'
<1>1. UNCHANGED <<disk, key, plain, short, pc, req, result>>
  BY WorkerFrame DEF callVars
<1>2. \A x \in Calls : Len(buf'[x]) = Len(buf[x])
  BY WorkerBuffers
<1>3. TurnInv(e, d)'
  BY <1>1, <1>2 DEF TurnInv, RoundTripInv, Success
<1>4. ASSUME ~corrupted', NEW x \in Calls, Success(x)
      PROVE  buf'[x] = buf[x]
  <2>1. CASE XorByte(c, i)
    <3>1. phase[<<c, i>>] \notin Quiet
      BY <2>1 DEF XorByte, Quiet
    <3>2. x # c
      BY <1>4, <3>1 DEF Success, ThreadInv, WorkerInv
    <3> QED
      BY <2>1, <3>2 DEF XorByte, TypeInv, VarTypes
  <2>2. CASE buf' = buf
    BY <2>2
  <2> QED
    BY <1>4, <2>1, <2>2, WorkerBuffers
<1>5. ~corrupted' => ~corrupted
  BY WorkerBuffers
<1>6. ASSUME ~corrupted', Chained(e, d)' PROVE ChainInv(e, d)'
  <2>1. ChainInv(e, d)
    BY <1>1, <1>5, <1>6 DEF RoundTripInv, Chained
  <2>2. /\ \A x \in Calls : KeyRead(x)' <=> KeyRead(x)
        /\ \A x \in Calls : DataRead(x)' <=> DataRead(x)
        /\ \A x \in Calls : Success(x)' <=> Success(x)
    BY <1>1 DEF KeyRead, DataRead, Success
  <2> QED
    BY <1>1, <1>4, <1>6, <2>1, <2>2 DEF ChainInv
<1> QED
  BY <1>3, <1>6 DEF RoundTripInv

LEMMA RoundTripSteps == [RoundTripNext]_vars => [Next]_vars
BY DEF RoundTripNext, Next, RoundTripOver

LEMMA RoundTripInductive ==
  ASSUME NEW e, NEW d, EncryptCalls = {e}, DecryptCalls = {d}, TypeInv,
         MemInv, ThreadInv, RoundTripInv(e, d), [RoundTripNext]_vars
  PROVE  RoundTripInv(e, d)'
<1>0. e \in Calls /\ d \in Calls /\ d # e /\ \A c \in Calls : c = e \/ c = d
  BY CallsDisjoint DEF Calls
<1>1. TypeInv' /\ MemInv'
  BY RoundTripSteps, TypeNext, MemNext
<1>2. CASE Syscall(e)
  BY <1>0, <1>1, <1>2, RoundTripEncrypt
<1>3. CASE InTurn(d) /\ Syscall(d)
  <2>1. pc[e] \in {"returned", "oops"}
    BY <1>3 DEF InTurn, RoundTripInv, TurnInv
  <2> QED
    BY <1>0, <1>3, <2>1, RoundTripDecrypt
<1>4. ASSUME NEW c \in Calls, NEW i \in Slots,
             Worker(c, i) \/ FreeTask(c, i)
      PROVE  RoundTripInv(e, d)'
  BY <1>0, <1>4, RoundTripWorker
<1>5. CASE UNCHANGED vars
  BY <1>5
  DEF vars, RoundTripInv, TurnInv, ChainInv, Chained, KeyRead, DataRead,
      Success
<1> QED
  BY <1>0, <1>2, <1>3, <1>4, <1>5 DEF RoundTripNext, RoundTripOver

(* Every byte of a complete call has been XORed.                           *)
LEMMA CompleteBytes ==
  ASSUME TypeInv, ThreadInv, ShapeInv, DataInv, ~corrupted, NEW c \in Calls,
         Complete(c), NEW k \in 0 .. Len(buf[c]) - 1
  PROVE  buf[c][k + 1] = CipherByte(c, k)
<1>1. num_threads(c) > 0
  BY DEF ShapeInv, LoopInv, Complete
<1>2. /\ Len(buf[c]) \in Nat
      /\ \E i \in 0 .. num_threads(c) - 1 :
           SegmentStart(c, i) <= k /\ k < SegmentEnd(c, i)
  BY <1>1, SegmentFacts
<1>3. PICK i \in 0 .. num_threads(c) - 1 :
        SegmentStart(c, i) <= k /\ k < SegmentEnd(c, i)
  BY <1>2
<1>4. i \in Slots /\ phase[<<c, i>>] \in Ended
  BY AllEnded DEF Complete
<1>5. EndInv(c, i) /\ BytesInv(c) /\ k \in Nat
  BY <1>2, <1>4 DEF DataInv
<1>6. Processed(c, k)
  BY <1>3, <1>4, <1>5, EndedProcessed DEF Complete
<1> QED
  BY <1>5, <1>6 DEF BytesInv, Complete

(* The key is used round and round.                                        *)
LEMMA KeyPosition ==
  ASSUME NEW k \in Nat, NEW n \in Nat, n > 0
  PROVE  (k % n) + 1 \in 1 .. n
OBVIOUS

LEMMA ChainRestores ==
  ASSUME TypeInv, ThreadInv, ShapeInv, DataInv, ~corrupted,
         NEW e \in Calls, NEW d \in Calls, Complete(e), Complete(d),
         Len(key[e]) > 0, ChainInv(e, d)
  PROVE  /\ Len(disk[req[d].dest_file]) >= Len(plain[e])
         /\ SubSeq(disk[req[d].dest_file], 1, Len(plain[e])) = plain[e]
<1> DEFINE out == disk[req[d].dest_file]
           K(k) == key[e][(k % Len(key[e])) + 1]
<1>1. Success(e) /\ Success(d) /\ KeyRead(d) /\ DataRead(d)
  BY DEF Complete, Success, KeyRead, DataRead
<1>2. /\ Begins(buf[e], plain[d]) /\ Begins(buf[d], out)
      /\ key[d] = key[e]
      /\ req[d].dest_file \in DOMAIN disk
  BY <1>1 DEF ChainInv, Complete
<1>3. /\ out \in Seq(Byte) /\ plain[e] \in Seq(Byte) /\ key[e] \in Seq(Byte)
      /\ Len(out) \in Nat /\ Len(plain[e]) \in Nat /\ Len(key[e]) \in Nat
      /\ Len(plain[d]) \in Nat
  BY <1>2, LenProperties DEF TypeInv, VarTypes
<1>4. Len(plain[e]) = Len(buf[e]) /\ Len(plain[d]) = Len(buf[d])
  BY DEF ShapeInv, BufferInv, Complete
<1>5. Len(buf[e]) <= Len(buf[d]) /\ Len(buf[d]) <= Len(out)
  BY <1>2, <1>4 DEF Begins
<1>6. ASSUME NEW j \in 1 .. Len(plain[e]) PROVE out[j] = plain[e][j]
  <2> DEFINE k == j - 1
  <2>1. /\ k \in 0 .. Len(buf[e]) - 1 /\ k \in 0 .. Len(buf[d]) - 1
        /\ k + 1 = j /\ k \in Nat
        /\ j \in 1 .. Len(buf[e]) /\ j \in 1 .. Len(buf[d])
    BY <1>3, <1>4, <1>5
  <2> HIDE DEF k
  <2>2. buf[e][j] = Xor(plain[e][j], K(k))
    <3>1. buf[e][k + 1] = CipherByte(e, k)
      BY <2>1, CompleteBytes
    <3> QED
      BY <2>1, <3>1 DEF CipherByte
  <2>3. buf[d][j] = Xor(plain[d][j], K(k))
    <3>1. buf[d][k + 1] = CipherByte(d, k)
      BY <2>1, CompleteBytes
    <3> QED
      BY <1>2, <2>1, <3>1 DEF CipherByte
  <2>4. plain[d][j] = buf[e][j] /\ out[j] = buf[d][j]
    BY <1>2, <2>1 DEF Begins
  <2>5. plain[e][j] \in Byte
    BY <1>3, ElementOfSeq
  <2>6. K(k) \in Byte
    <3>1. (k % Len(key[e])) + 1 \in 1 .. Len(key[e])
      BY <1>3, <2>1, KeyPosition
    <3> QED
      BY <1>3, <3>1, ElementOfSeq
  <2> HIDE DEF K
  <2> QED
    BY <2>2, <2>3, <2>4, <2>5, <2>6, XorInvolution
<1>7. /\ SubSeq(out, 1, Len(plain[e])) \in Seq(Byte)
      /\ Len(SubSeq(out, 1, Len(plain[e]))) = Len(plain[e])
      /\ \A j \in 1 .. Len(plain[e]) :
           SubSeq(out, 1, Len(plain[e]))[j] = out[j]
  <2>1. \A j \in 1 .. Len(plain[e]) : out[j] \in Byte
    BY <1>3, <1>6, ElementOfSeq
  <2> HIDE DEF out
  <2> QED
    BY <1>3, <2>1, SubSeqProperties
<1>8. SubSeq(out, 1, Len(plain[e])) = plain[e]
  BY <1>3, <1>6, <1>7, SeqEqual
<1> QED
  BY <1>4, <1>5, <1>8

(* One encryption and then one decryption of what it wrote with the same   *)
(* key file give back the data, for data, keys and output files of every   *)
(* length and for all numbers of threads, provided that both calls return  *)
(* 0, move all their bytes and have no worker interrupted, and that the    *)
(* encryption does not overwrite the key.                                  *)
THEOREM DecryptionRestores ==
  ASSUME NEW e, NEW d, EncryptCalls = {e}, DecryptCalls = {d}
  PROVE  RoundTripSpec => []RoundTripRestores
<1>1. Init => RoundTripInv(e, d)
  BY DEF Init, RoundTripInv, TurnInv, ChainInv, KeyRead, DataRead, Success,
         Calls
<1>2. TypeInv /\ MemInv /\ ThreadInv /\ RoundTripInv(e, d)
        /\ [RoundTripNext]_vars => RoundTripInv(e, d)'
  BY RoundTripInductive
<1>3. RoundTripSpec => Spec
  BY RoundTripSteps, PTL DEF RoundTripSpec, Spec
<1>4. TypeInv /\ ThreadInv /\ ShapeInv /\ DataInv /\ RoundTripInv(e, d)
        => RoundTripRestores
  <2> SUFFICES ASSUME TypeInv, ThreadInv, ShapeInv, DataInv,
                      RoundTripInv(e, d), ~corrupted, Complete(e),
                      Complete(d), Chained(e, d)
               PROVE  /\ Len(disk[req[d].dest_file]) >= Len(plain[e])
                      /\ SubSeq(disk[req[d].dest_file], 1, Len(plain[e])) =
                           plain[e]
    BY DEF RoundTripRestores, Chained
  <2>1. ChainInv(e, d) /\ Len(key[e]) > 0
    BY DEF RoundTripInv, TurnInv, Success, Complete
  <2>2. e \in Calls /\ d \in Calls
    BY DEF Calls
  <2> QED
    BY <2>1, <2>2, ChainRestores
<1> QED
  BY <1>1, <1>2, <1>3, <1>4, DataInvariant, PTL DEF RoundTripSpec
=============================================================================
