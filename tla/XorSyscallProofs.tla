-------------------------- MODULE XorSyscallProofs --------------------------
(* Theorems about XorSyscall for every set of calls, every number of       *)
(* threads and every data, and their proofs.                               *)
EXTENDS XorSyscall, SequenceTheorems, TLAPS

(* The facts that TypeOK rests on: the buffers that are alive have the     *)
(* lengths the loaders made sure of, and the files that are read and       *)
(* written after they were opened exist.                                   *)
KeyLoaded == \A c \in Calls : "key_data" \in mem[c] => Len(key[c]) > 0

FilesOpen ==
  \A c \in Calls :
    /\ pc[c] = "fill_data" => req[c].src_file \in DOMAIN disk
    /\ pc[c] = "fill_key" => req[c].key_filepath \in DOMAIN disk
    /\ pc[c] = "write" => req[c].dest_file \in DOMAIN disk

TypeInv == VarTypes /\ KeyLoaded /\ FilesOpen /\ LoopInBounds
-----------------------------------------------------------------------------
(* Overwriting the first n elements of a sequence gives a sequence.        *)
LEMMA OverwriteSeq ==
  ASSUME NEW S, NEW old \in Seq(S), NEW new \in Seq(S), NEW n \in Nat,
         n <= Len(new)
  PROVE  /\ Overwrite(old, new, n) \in Seq(S)
         /\ Len(Overwrite(old, new, n)) =
              IF n > Len(old) THEN n ELSE Len(old)
<1> DEFINE m == IF n > Len(old) THEN n ELSE Len(old)
<1>1. m \in Nat
  BY LenProperties
<1>2. \A k \in 1 .. m : (IF k <= n THEN new[k] ELSE old[k]) \in S
  BY ElementOfSeq, LenProperties
<1>3. Overwrite(old, new, n) \in [1 .. m -> S]
  BY <1>2 DEF Overwrite
<1>4. Overwrite(old, new, n) \in Seq(S)
  BY <1>1, <1>3, SeqDef, SMTT(30)
<1>5. DOMAIN Overwrite(old, new, n) = 1 .. m
  BY DEF Overwrite
<1> QED
  BY <1>1, <1>4, <1>5, LenProperties

(* Assigning an element of a sequence gives a sequence of the same length. *)
LEMMA AssignSeq ==
  ASSUME NEW S, NEW s \in Seq(S), NEW k, NEW e,
         k \in 1 .. Len(s) => e \in S
  PROVE  /\ [s EXCEPT ![k] = e] \in Seq(S)
         /\ Len([s EXCEPT ![k] = e]) = Len(s)
<1>1. CASE k \in 1 .. Len(s)
  BY <1>1, ExceptSeq
<1>2. CASE k \notin 1 .. Len(s)
  <2>1. [s EXCEPT ![k] = e] = s
    BY <1>2, LenProperties
  <2> QED
    BY <2>1
<1> QED
  BY <1>1, <1>2

(* An array of n bytes is a sequence of length n.                          *)
LEMMA ArraySeq ==
  ASSUME NEW S, NEW n \in Nat, NEW f \in [1 .. n -> S]
  PROVE  f \in Seq(S) /\ Len(f) = n
<1>1. f \in Seq(S)
  BY SeqDef
<1> QED
  BY <1>1, LenProperties

(* The quotient of a length by a number of threads.                        *)
LEMMA SegmentNat ==
  ASSUME NEW len \in Nat, NEW n \in Int, n > 0
  PROVE  len \div n \in Nat
OBVIOUS
-----------------------------------------------------------------------------
(* Type correctness.                                                       *)

(* What the assumption on the arguments says of those of a call.           *)
LEMMA RequestFields ==
  ASSUME VarTypes, NEW c \in Calls
  PROVE  /\ req[c].src_file \in Files
         /\ req[c].dest_file \in Files
         /\ req[c].key_filepath \in Files
         /\ num_threads(c) \in Int
         /\ num_threads(c) <= MaxThreads
<1>1. req[c] \in Requests
  BY DEF VarTypes
<1> QED
  BY <1>1, RequestsType DEF num_threads

LEMMA TypeInit == Init => TypeInv
<1> SUFFICES ASSUME Init PROVE TypeInv
  OBVIOUS
<1>1. DOMAIN disk \subseteq Files /\ disk \in [DOMAIN disk -> Seq(Byte)]
  BY InitialDisksType DEF Init
<1>2. <<>> \in Seq(Byte)
  BY EmptySeq
<1>3. /\ buf \in [Calls -> Seq(Byte)]
      /\ key \in [Calls -> Seq(Byte)]
      /\ plain \in [Calls -> Seq(Byte)]
  BY <1>2 DEF Init
<1>4. /\ range \in [Workers -> Nat \X Nat]
      /\ task \in [Workers -> Workers]
  BY DEF Init
<1>5. VarTypes
  BY <1>1, <1>3, <1>4 DEF Init, VarTypes, PCs, Results, Phases, Mutexes
<1>6. KeyLoaded /\ FilesOpen /\ LoopInBounds
  BY DEF Init, KeyLoaded, FilesOpen, LoopInBounds
<1> QED
  BY <1>5, <1>6 DEF TypeInv

(* Leaving the system call.                                                *)
LEMMA TypeReturn ==
  ASSUME TypeInv, NEW c \in Calls, NEW v \in Results,
         NEW m \in SUBSET Allocations,
         "key_data" \in m => "key_data" \in mem[c],
         Return(c, v, m),
         UNCHANGED <<ioVars, workerVars, locked, corrupted, req, cur, offset>>
  PROVE  TypeInv'
<1> USE DEF TypeInv
<1>1. /\ pc' = [pc EXCEPT ![c] = "returned"]
      /\ result' = [result EXCEPT ![c] = v]
      /\ mem' = [mem EXCEPT ![c] = m]
  BY DEF Return, Goto
<1>2. VarTypes'
  BY <1>1 DEF VarTypes, PCs, ioVars, workerVars
<1>3. KeyLoaded'
  BY <1>1 DEF KeyLoaded, VarTypes, ioVars
<1>4. FilesOpen' /\ LoopInBounds'
  BY <1>1 DEF FilesOpen, LoopInBounds, VarTypes, num_threads, ioVars
<1> QED
  BY <1>2, <1>3, <1>4

(* Going to a label that asks nothing of the files and of i.               *)
LEMMA TypeGoto ==
  ASSUME TypeInv, NEW c \in Calls, NEW l \in PCs, NEW v \in Results,
         l \notin {"fill_data", "fill_key", "write", "spawn", "stop", "join"},
         Goto(c, l), result' = [result EXCEPT ![c] = v],
         UNCHANGED <<ioVars, workerVars, locked, corrupted, req, mem, cur,
                     offset>>
  PROVE  TypeInv'
<1> USE DEF TypeInv
<1>1. pc' = [pc EXCEPT ![c] = l]
  BY DEF Goto
<1>2. VarTypes'
  BY <1>1 DEF VarTypes, PCs, ioVars, workerVars
<1>3. KeyLoaded'
  BY DEF KeyLoaded, ioVars
<1>4. FilesOpen' /\ LoopInBounds'
  BY <1>1 DEF FilesOpen, LoopInBounds, VarTypes, num_threads, ioVars
<1> QED
  BY <1>2, <1>3, <1>4

LEMMA TypeSizeData ==
  ASSUME TypeInv, NEW c \in Calls, SizeData(c)
  PROVE  TypeInv'
<1> USE DEF TypeInv
<1>1. PICK junk \in [1 .. Len(disk[req[c].src_file]) -> Byte] :
        buf' = [buf EXCEPT ![c] = junk]
  BY DEF SizeData
<1>2. /\ req[c].src_file \in DOMAIN disk
      /\ mem' = [mem EXCEPT ![c] = @ \cup {"file_data"}]
      /\ pc' = [pc EXCEPT ![c] = "fill_data"]
      /\ UNCHANGED <<workerVars, disk, key, plain, short, locked, corrupted,
                     req, cur, offset, result>>
  BY DEF SizeData, Loadable, Goto
<1>3. disk[req[c].src_file] \in Seq(Byte)
  BY <1>2 DEF VarTypes
<1>4. junk \in Seq(Byte)
  BY <1>1, <1>3, ArraySeq, LenProperties
<1>5. buf' \in [Calls -> Seq(Byte)]
  BY <1>1, <1>4 DEF VarTypes
<1>6. VarTypes'
  BY <1>2, <1>5 DEF VarTypes, PCs, Allocations, workerVars
<1>7. KeyLoaded' /\ FilesOpen' /\ LoopInBounds'
  BY <1>2 DEF KeyLoaded, FilesOpen, LoopInBounds, VarTypes, num_threads
<1> QED
  BY <1>6, <1>7

(* The bytes kernel_read moves fit in the file and in the buffer.          *)
LEMMA ReadCountsBound ==
  ASSUME NEW f, NEW m \in Nat, disk[f] \in Seq(Byte),
         NEW n \in ReadCounts(f, m)
  PROVE  n \in Nat /\ n <= Len(disk[f]) /\ n <= m
BY LenProperties DEF ReadCounts

LEMMA TypeFillData ==
  ASSUME TypeInv, NEW c \in Calls, FillData(c)
  PROVE  TypeInv'
<1> USE DEF TypeInv
<1> DEFINE f == req[c].src_file
<1>1. PICK n \in ReadCounts(f, Len(buf[c])) :
        buf' = [buf EXCEPT ![c] = Overwrite(@, disk[f], n)]
  BY DEF FillData
<1>2. /\ plain' = [plain EXCEPT ![c] = buf'[c]]
      /\ \E b \in BOOLEAN : short' = [short EXCEPT ![c] = b]
      /\ pc[c] = "fill_data"
      /\ pc' = [pc EXCEPT ![c] = "load_key"]
      /\ UNCHANGED <<workerVars, disk, key, locked, corrupted, req, mem, cur,
                     offset, result>>
  BY DEF FillData, Goto
<1>3. disk[f] \in Seq(Byte) /\ buf[c] \in Seq(Byte)
  BY <1>2 DEF VarTypes, FilesOpen
<1>4. Overwrite(buf[c], disk[f], n) \in Seq(Byte)
  BY <1>1, <1>3, ReadCountsBound, OverwriteSeq, LenProperties
<1>5. buf' \in [Calls -> Seq(Byte)] /\ plain' \in [Calls -> Seq(Byte)]
  BY <1>1, <1>2, <1>4 DEF VarTypes
<1>6. short' \in [Calls -> BOOLEAN]
  BY <1>2 DEF VarTypes
<1>7. VarTypes'
  BY <1>2, <1>5, <1>6 DEF VarTypes, PCs, workerVars
<1>8. KeyLoaded' /\ FilesOpen' /\ LoopInBounds'
  BY <1>2 DEF KeyLoaded, FilesOpen, LoopInBounds, VarTypes, num_threads
<1> QED
  BY <1>7, <1>8

LEMMA TypeSizeKey ==
  ASSUME TypeInv, NEW c \in Calls, SizeKey(c)
  PROVE  TypeInv'
<1> USE DEF TypeInv
<1>1. PICK junk \in [1 .. Len(disk[req[c].key_filepath]) -> Byte] :
        key' = [key EXCEPT ![c] = junk]
  BY DEF SizeKey
<1>2. /\ req[c].key_filepath \in DOMAIN disk
      /\ Len(disk[req[c].key_filepath]) > 0
      /\ mem' = [mem EXCEPT ![c] = @ \cup {"key_data"}]
      /\ pc' = [pc EXCEPT ![c] = "fill_key"]
      /\ UNCHANGED <<workerVars, disk, buf, plain, short, locked, corrupted,
                     req, cur, offset, result>>
  BY DEF SizeKey, Loadable, Goto
<1>3. disk[req[c].key_filepath] \in Seq(Byte)
  BY <1>2 DEF VarTypes
<1>4. junk \in Seq(Byte) /\ Len(junk) > 0
  BY <1>1, <1>2, <1>3, ArraySeq, LenProperties, SMTT(30)
<1>5. key' \in [Calls -> Seq(Byte)]
  BY <1>1, <1>4 DEF VarTypes
<1>6. VarTypes'
  BY <1>2, <1>5 DEF VarTypes, PCs, Allocations, workerVars
<1>7. KeyLoaded'
  BY <1>1, <1>2, <1>4 DEF KeyLoaded, VarTypes
<1>8. FilesOpen' /\ LoopInBounds'
  BY <1>2 DEF FilesOpen, LoopInBounds, VarTypes, num_threads
<1> QED
  BY <1>6, <1>7, <1>8

LEMMA TypeFillKey ==
  ASSUME TypeInv, NEW c \in Calls, FillKey(c)
  PROVE  TypeInv'
<1> USE DEF TypeInv
<1> DEFINE f == req[c].key_filepath
<1>1. PICK n \in ReadCounts(f, Len(key[c])) :
        key' = [key EXCEPT ![c] = Overwrite(@, disk[f], n)]
  BY DEF FillKey
<1>2. /\ \E b \in BOOLEAN : short' = [short EXCEPT ![c] = b]
      /\ pc[c] = "fill_key"
      /\ pc' = [pc EXCEPT ![c] = "alloc"]
      /\ UNCHANGED <<workerVars, disk, buf, plain, locked, corrupted, req,
                     mem, cur, offset, result>>
  BY DEF FillKey, Goto
<1>3. disk[f] \in Seq(Byte) /\ key[c] \in Seq(Byte)
  BY <1>2 DEF VarTypes, FilesOpen
<1>4. n \in Nat /\ n <= Len(disk[f]) /\ n <= Len(key[c])
  BY <1>1, <1>3, ReadCountsBound, LenProperties
<1>5. /\ Overwrite(key[c], disk[f], n) \in Seq(Byte)
      /\ Len(Overwrite(key[c], disk[f], n)) = Len(key[c])
  BY <1>3, <1>4, OverwriteSeq, LenProperties
<1>6. key' \in [Calls -> Seq(Byte)]
  BY <1>1, <1>5 DEF VarTypes
<1>7. short' \in [Calls -> BOOLEAN]
  BY <1>2 DEF VarTypes
<1>8. VarTypes'
  BY <1>2, <1>6, <1>7 DEF VarTypes, PCs, workerVars
<1>9. KeyLoaded'
  BY <1>1, <1>2, <1>5 DEF KeyLoaded, VarTypes
<1>10. FilesOpen' /\ LoopInBounds'
  BY <1>2 DEF FilesOpen, LoopInBounds, VarTypes, num_threads
<1> QED
  BY <1>8, <1>9, <1>10

LEMMA TypeAllocWorkers ==
  ASSUME TypeInv, NEW c \in Calls, AllocWorkers(c)
  PROVE  TypeInv'
<1> USE DEF TypeInv
<1>1. /\ num_threads(c) > 0
      /\ mem' = [mem EXCEPT ![c] = @ \cup {"workers", "worker_args"}]
      /\ offset' = [offset EXCEPT ![c] = 0]
      /\ cur' = [cur EXCEPT ![c] = 0]
      /\ pc' = [pc EXCEPT ![c] = "spawn"]
      /\ UNCHANGED <<ioVars, workerVars, locked, corrupted, req, result>>
  BY DEF AllocWorkers, Goto
<1>2. 0 \in Slots /\ 0 \in 0 .. num_threads(c) - 1
  BY <1>1, RequestFields, MaxThreadsNat DEF Slots
<1>3. VarTypes'
  BY <1>1, <1>2 DEF VarTypes, PCs, Allocations, ioVars, workerVars
<1>4. KeyLoaded' /\ FilesOpen'
  BY <1>1 DEF KeyLoaded, FilesOpen, VarTypes, ioVars
<1>5. LoopInBounds'
  BY <1>1, <1>2 DEF LoopInBounds, VarTypes, num_threads
<1> QED
  BY <1>3, <1>4, <1>5

(* The loops over the workers.                                             *)
LEMMA LoopFacts ==
  ASSUME TypeInv, NEW c \in Calls, pc[c] \in {"spawn", "stop", "join"}
  PROVE  /\ num_threads(c) \in Nat \ {0}
         /\ cur[c] \in 0 .. num_threads(c) - 1
         /\ \A i \in 0 .. num_threads(c) - 1 : i \in Slots
         /\ <<c, cur[c]>> \in Workers
         /\ Stopped(c) \in Workers
         /\ segment_size(c) \in Nat
<1> USE DEF TypeInv
<1>1. cur[c] \in 0 .. num_threads(c) - 1
  BY DEF LoopInBounds
<1>2. /\ num_threads(c) \in Nat \ {0}
      /\ \A i \in 0 .. num_threads(c) - 1 : i \in Slots
  BY <1>1, RequestFields, MaxThreadsNat DEF Slots
<1>3. <<c, cur[c]>> \in Workers
  BY <1>1, <1>2 DEF Workers
<1>4. Stopped(c) \in Workers
  BY <1>3 DEF VarTypes, Stopped
<1>5. Len(buf[c]) \in Nat
  BY LenProperties DEF VarTypes
<1>6. segment_size(c) \in Nat
  BY <1>2, <1>5, SegmentNat DEF segment_size
<1> QED
  BY <1>1, <1>2, <1>3, <1>4, <1>6

LEMMA TypeFillWorkerArgs ==
  ASSUME TypeInv, NEW c \in Calls, pc[c] = "spawn", FillWorkerArgs(c)
  PROVE  range' \in [Workers -> Nat \X Nat] /\ offset' \in [Calls -> Nat]
<1> DEFINE e == IF LastWorker(c) THEN Len(buf[c])
                ELSE offset[c] + segment_size(c)
<1>1. /\ segment_size(c) \in Nat
      /\ Len(buf[c]) \in Nat
      /\ offset[c] \in Nat
  BY LoopFacts, LenProperties DEF TypeInv, VarTypes
<1>2. <<offset[c], e>> \in Nat \X Nat
  BY <1>1
<1>3. range' \in [Workers -> Nat \X Nat]
  BY <1>2 DEF TypeInv, VarTypes, FillWorkerArgs
<1>4. offset' \in [Calls -> Nat]
  BY <1>1 DEF TypeInv, VarTypes, FillWorkerArgs
<1> QED
  BY <1>3, <1>4

(* The loop either goes on inside its bounds or is left.                   *)
LEMMA TypeNextWorker ==
  ASSUME TypeInv, NEW c \in Calls, pc[c] \in {"spawn", "join"},
         NEW again \in {"spawn", "stop"}, NEW after \in {"stop", "save"},
         NextWorker(c, again, after)
  PROVE  \E l \in {again, after}, i \in 0 .. num_threads(c) - 1 :
           /\ pc' = [pc EXCEPT ![c] = l]
           /\ cur' = [cur EXCEPT ![c] = i]
           /\ i \in Slots
<1> DEFINE l == IF LastWorker(c) THEN after ELSE again
           i == IF LastWorker(c) THEN 0 ELSE cur[c] + 1
<1>1. /\ num_threads(c) \in Nat \ {0}
      /\ cur[c] \in 0 .. num_threads(c) - 1
      /\ \A j \in 0 .. num_threads(c) - 1 : j \in Slots
  BY LoopFacts
<1>2. i \in 0 .. num_threads(c) - 1 /\ i \in Slots
  BY <1>1 DEF LastWorker
<1>3. pc' = [pc EXCEPT ![c] = l] /\ cur' = [cur EXCEPT ![c] = i]
  BY DEF NextWorker, Goto
<1> QED
  BY <1>2, <1>3

LEMMA TypeSpawnWorker ==
  ASSUME TypeInv, NEW c \in Calls, SpawnWorker(c)
  PROVE  TypeInv'
<1> USE DEF TypeInv
<1>1. /\ pc[c] = "spawn"
      /\ FillWorkerArgs(c)
      /\ NewTask(<<c, cur[c]>>)
      /\ phase' = [phase EXCEPT ![<<c, cur[c]>>] = "woken"]
      /\ NextWorker(c, "spawn", "stop")
      /\ UNCHANGED <<ioVars, locked, corrupted, req, mem, result, idx, ret,
                     stop>>
  BY DEF SpawnWorker
<1>2. PICK l \in {"spawn", "stop"}, i \in 0 .. num_threads(c) - 1 :
        /\ pc' = [pc EXCEPT ![c] = l]
        /\ cur' = [cur EXCEPT ![c] = i]
        /\ i \in Slots
  BY <1>1, TypeNextWorker
<1>3. range' \in [Workers -> Nat \X Nat] /\ offset' \in [Calls -> Nat]
  BY <1>1, TypeFillWorkerArgs
<1>4. task' \in [Workers -> Workers]
  <2>1. <<c, cur[c]>> \in Workers
    BY <1>1, LoopFacts
  <2> QED
    BY <1>1, <2>1 DEF NewTask, VarTypes
<1>5. phase' \in [Workers -> Phases]
  BY <1>1 DEF VarTypes, Phases
<1>6. /\ pc' \in [Calls -> PCs]
      /\ cur' \in [Calls -> Nat]
  BY <1>1, <1>2 DEF VarTypes, PCs
<1>7. VarTypes'
  BY <1>1, <1>3, <1>4, <1>5, <1>6 DEF VarTypes, ioVars
<1>8. KeyLoaded' /\ FilesOpen'
  BY <1>1, <1>2 DEF KeyLoaded, FilesOpen, VarTypes, ioVars
<1>9. LoopInBounds'
  BY <1>1, <1>2 DEF LoopInBounds, VarTypes, num_threads
<1> QED
  BY <1>7, <1>8, <1>9

LEMMA TypeSpawnFails ==
  ASSUME TypeInv, NEW c \in Calls, SpawnFails(c)
  PROVE  TypeInv'
<1> USE DEF TypeInv
<1>1. /\ pc[c] = "spawn"
      /\ FillWorkerArgs(c)
      /\ result' = [result EXCEPT ![c] = "spawn error"]
      /\ pc' = [pc EXCEPT ![c] = "cleanup"]
      /\ UNCHANGED <<ioVars, locked, corrupted, req, mem, cur, phase, idx,
                     ret, stop, task>>
  BY DEF SpawnFails, Goto
<1>2. range' \in [Workers -> Nat \X Nat] /\ offset' \in [Calls -> Nat]
  BY <1>1, TypeFillWorkerArgs
<1>3. VarTypes'
  BY <1>1, <1>2 DEF VarTypes, PCs, Results, ioVars
<1>4. KeyLoaded' /\ FilesOpen' /\ LoopInBounds'
  BY <1>1 DEF KeyLoaded, FilesOpen, LoopInBounds, VarTypes, num_threads, ioVars
<1> QED
  BY <1>3, <1>4

LEMMA TypeStopWorker ==
  ASSUME TypeInv, NEW c \in Calls, StopWorker(c)
  PROVE  TypeInv'
<1> USE DEF TypeInv
<1>1. /\ pc[c] = "stop"
      /\ stop' = [stop EXCEPT ![Stopped(c)] = TRUE]
      /\ pc' = [pc EXCEPT ![c] = "join"]
      /\ UNCHANGED <<ioVars, locked, corrupted, req, mem, cur, offset, result,
                     phase, range, idx, ret, task>>
  BY DEF StopWorker, Goto
<1>2. stop' \in [Workers -> BOOLEAN]
  BY <1>1 DEF VarTypes
<1>3. VarTypes'
  BY <1>1, <1>2 DEF VarTypes, PCs, ioVars
<1>4. KeyLoaded' /\ FilesOpen' /\ LoopInBounds'
  BY <1>1 DEF KeyLoaded, FilesOpen, LoopInBounds, VarTypes, num_threads, ioVars
<1> QED
  BY <1>3, <1>4

LEMMA TypeJoinWorker ==
  ASSUME TypeInv, NEW c \in Calls, JoinWorker(c)
  PROVE  TypeInv'
<1> USE DEF TypeInv
<1>1. /\ pc[c] = "join"
      /\ phase' = [phase EXCEPT ![Stopped(c)] = "joined"]
      /\ NextWorker(c, "stop", "save")
      /\ UNCHANGED <<ioVars, locked, corrupted, req, mem, offset, result,
                     range, idx, ret, stop, task>>
  BY DEF JoinWorker
<1>2. PICK l \in {"stop", "save"}, i \in 0 .. num_threads(c) - 1 :
        /\ pc' = [pc EXCEPT ![c] = l]
        /\ cur' = [cur EXCEPT ![c] = i]
        /\ i \in Slots
  BY <1>1, TypeNextWorker
<1>3. phase' \in [Workers -> Phases]
  BY <1>1 DEF VarTypes, Phases
<1>4. /\ pc' \in [Calls -> PCs]
      /\ cur' \in [Calls -> Nat]
  BY <1>1, <1>2 DEF VarTypes, PCs
<1>5. VarTypes'
  BY <1>1, <1>3, <1>4 DEF VarTypes, ioVars
<1>6. KeyLoaded' /\ FilesOpen'
  BY <1>1, <1>2 DEF KeyLoaded, FilesOpen, VarTypes, ioVars
<1>7. LoopInBounds'
  BY <1>1, <1>2 DEF LoopInBounds, VarTypes, num_threads
<1> QED
  BY <1>5, <1>6, <1>7

LEMMA TypeSaveOpen ==
  ASSUME TypeInv, NEW c \in Calls, SaveOpen(c)
  PROVE  TypeInv'
<1> USE DEF TypeInv
<1> DEFINE f == req[c].dest_file
<1>1. /\ pc' = [pc EXCEPT ![c] = "write"]
      /\ UNCHANGED <<workerVars, buf, key, plain, short, locked, corrupted,
                     req, mem, cur, offset, result>>
  BY DEF SaveOpen, Goto
<1>2. disk' = IF f \in DOMAIN disk THEN disk
              ELSE [g \in DOMAIN disk \cup {f} |->
                      IF g = f THEN <<>> ELSE disk[g]]
  BY DEF SaveOpen
<1>3. f \in Files /\ <<>> \in Seq(Byte)
  BY RequestFields, EmptySeq
<1>4. /\ DOMAIN disk \subseteq DOMAIN disk'
      /\ f \in DOMAIN disk'
      /\ DOMAIN disk' \subseteq Files
      /\ disk' \in [DOMAIN disk' -> Seq(Byte)]
  BY <1>2, <1>3 DEF VarTypes
<1>5. VarTypes'
  BY <1>1, <1>4 DEF VarTypes, PCs, workerVars
<1>6. KeyLoaded' /\ LoopInBounds'
  BY <1>1 DEF KeyLoaded, LoopInBounds, VarTypes, num_threads
<1>7. FilesOpen'
  BY <1>1, <1>4 DEF FilesOpen, VarTypes
<1> QED
  BY <1>5, <1>6, <1>7

LEMMA TypeSaveWrite ==
  ASSUME TypeInv, NEW c \in Calls, SaveWrite(c)
  PROVE  TypeInv'
<1> USE DEF TypeInv
<1> DEFINE f == req[c].dest_file
<1>1. /\ pc[c] = "write"
      /\ result' = [result EXCEPT ![c] = "0"]
      /\ pc' = [pc EXCEPT ![c] = "cleanup"]
      /\ \E b \in BOOLEAN : short' = [short EXCEPT ![c] = b]
      /\ UNCHANGED <<workerVars, buf, key, plain, locked, corrupted, req, mem,
                     cur, offset>>
  BY DEF SaveWrite, Goto
<1>2. /\ f \in DOMAIN disk
      /\ disk[f] \in Seq(Byte)
      /\ buf[c] \in Seq(Byte)
      /\ Len(buf[c]) \in Nat
  BY <1>1, LenProperties DEF VarTypes, FilesOpen
<1>3. PICK n \in IF "write" \in Faults THEN 0 .. Len(buf[c])
              ELSE {Len(buf[c])} :
        disk' = [disk EXCEPT ![f] = Overwrite(disk[f], buf[c], n)]
  BY DEF SaveWrite
<1>4. Overwrite(disk[f], buf[c], n) \in Seq(Byte)
  <2>1. n \in Nat /\ n <= Len(buf[c])
    BY <1>2, <1>3
  <2> QED
    BY <1>2, <2>1, OverwriteSeq
<1>5. DOMAIN disk' = DOMAIN disk /\ disk' \in [DOMAIN disk -> Seq(Byte)]
  BY <1>3, <1>4 DEF VarTypes
<1>6. short' \in [Calls -> BOOLEAN]
  BY <1>1 DEF VarTypes
<1>7. VarTypes'
  BY <1>1, <1>5, <1>6 DEF VarTypes, PCs, Results, workerVars
<1>8. KeyLoaded' /\ LoopInBounds'
  BY <1>1 DEF KeyLoaded, LoopInBounds, VarTypes, num_threads
<1>9. FilesOpen'
  BY <1>1, <1>5 DEF FilesOpen, VarTypes
<1> QED
  BY <1>7, <1>8, <1>9

(* Every step of a system call keeps the type invariant.                   *)
LEMMA TypeSyscall ==
  ASSUME TypeInv, NEW c \in Calls, Syscall(c)
  PROVE  TypeInv'
<1>0. result = [result EXCEPT ![c] = result[c]] /\ result[c] \in Results
      /\ mem[c] \in SUBSET Allocations
  BY DEF TypeInv, VarTypes
<1>1. CASE CopyFromUser(c)
  BY <1>0, <1>1, TypeGoto DEF CopyFromUser, PCs
<1>2. CASE CopyFault(c)
  <2>1. Return(c, "-EFAULT", {}) /\ "-EFAULT" \in Results
    BY <1>2 DEF CopyFault, Results
  <2>2. UNCHANGED <<ioVars, workerVars, locked, corrupted, req, cur, offset>>
    BY <1>2 DEF CopyFault
  <2> QED
    BY <2>1, <2>2, TypeReturn
<1>3. CASE ReadDataFails(c)
  <2>1. Return(c, "-EIO", {}) /\ "-EIO" \in Results
    BY <1>3 DEF ReadDataFails, Results
  <2>2. UNCHANGED <<ioVars, workerVars, locked, corrupted, req, cur, offset>>
    BY <1>3 DEF ReadDataFails
  <2> QED
    BY <2>1, <2>2, TypeReturn
<1>4. CASE LoadKeyFails(c)
  <2> DEFINE m == mem[c] \ {"file_data"}
  <2>1. Return(c, "-EIO", m) /\ "-EIO" \in Results
    BY <1>4 DEF LoadKeyFails, Results
  <2>2. UNCHANGED <<ioVars, workerVars, locked, corrupted, req, cur, offset>>
    BY <1>4 DEF LoadKeyFails
  <2>3. m \in SUBSET Allocations /\ ("key_data" \in m => "key_data" \in mem[c])
    BY <1>0
  <2> QED
    BY <2>1, <2>2, <2>3, TypeReturn
<1>5. CASE AllocFails(c)
  <2>1. PICK got \in SUBSET {"workers", "worker_args"} :
          Return(c, "-ENOMEM", (mem[c] \ {"file_data", "key_data"}) \cup got)
    BY <1>5 DEF AllocFails
  <2> DEFINE m == (mem[c] \ {"file_data", "key_data"}) \cup got
  <2>2. m \in SUBSET Allocations /\ "key_data" \notin m
    BY <1>0, <2>1 DEF Allocations
  <2> QED
    BY <1>5, <2>1, <2>2, TypeReturn DEF AllocFails, Results
<1>6. CASE DivideByZero(c)
  BY <1>0, <1>6, TypeGoto DEF DivideByZero, PCs
<1>7. CASE StopFreedTask(c)
  BY <1>0, <1>7, TypeGoto DEF StopFreedTask, PCs
<1>8. CASE SaveFails(c)
  BY <1>8, TypeGoto DEF SaveFails, PCs, Results
<1>9. CASE Cleanup(c)
  BY <1>0, <1>9, TypeReturn DEF Cleanup
<1> QED
  BY <1>1, <1>2, <1>3, <1>4, <1>5, <1>6, <1>7, <1>8, <1>9, TypeSizeData,
     TypeFillData, TypeSizeKey, TypeFillKey, TypeAllocWorkers,
     TypeSpawnWorker, TypeSpawnFails, TypeStopWorker, TypeJoinWorker,
     TypeSaveOpen, TypeSaveWrite
  DEF Syscall, xor_encrypt_syscall, xor_decrypt, read_data_from_file,
      load_key_from_file, save_data_to_file, load_data, load_key, save_data

(* A worker changes nothing of its call but the buffer.                    *)
LEMMA WorkerFrame ==
  ASSUME NEW c, NEW i, Worker(c, i) \/ FreeTask(c, i)
  PROVE  UNCHANGED callVars
BY DEF Worker, xor_encrypt_worker, xor_decrypt_worker, StartWorker, LockMutex,
       WaitForMutex, LockInterrupted, CheckStop, XorByte, WorkerStopped,
       WorkerDone, UseFreedBuffers, FreeTask, callVars

(* What is left to show of a step of a worker.                             *)
LEMMA TypeWorkerFrame ==
  ASSUME TypeInv, UNCHANGED callVars,
         locked' \in [Mutexes -> BOOLEAN],
         corrupted' \in BOOLEAN,
         buf' \in [Calls -> Seq(Byte)],
         phase' \in [Workers -> Phases],
         idx' \in [Workers -> Nat],
         ret' \in [Workers -> {"none", "0", "-EINTR"}]
  PROVE  TypeInv'
<1>1. VarTypes'
  BY DEF TypeInv, VarTypes, callVars
<1>2. KeyLoaded' /\ FilesOpen' /\ LoopInBounds'
  BY DEF TypeInv, KeyLoaded, FilesOpen, LoopInBounds, num_threads, callVars
<1> QED
  BY <1>1, <1>2 DEF TypeInv

LEMMA TypeXorByte ==
  ASSUME TypeInv, NEW c \in Calls, NEW i \in Slots, XorByte(c, i)
  PROVE  buf' \in [Calls -> Seq(Byte)]
<1> DEFINE n == idx[<<c, i>>]
           k == (n % Len(key[c])) + 1
           b == Xor(buf[c][n + 1], key[c][k])
<1>1. /\ "key_data" \in mem[c]
      /\ buf' = [buf EXCEPT ![c] = [buf[c] EXCEPT ![n + 1] = b]]
  BY DEF XorByte, BuffersLive, TypeInv, VarTypes
<1>2. /\ buf[c] \in Seq(Byte)
      /\ key[c] \in Seq(Byte)
      /\ Len(key[c]) > 0
      /\ n \in Nat
  BY <1>1 DEF TypeInv, VarTypes, KeyLoaded, Workers
<1>3. Len(key[c]) \in Nat /\ k \in 1 .. Len(key[c])
  BY <1>2, LenProperties
<1>4. key[c][k] \in Byte
  BY <1>2, <1>3, ElementOfSeq
<1>5. ASSUME n + 1 \in 1 .. Len(buf[c]) PROVE b \in Byte
  <2>1. buf[c][n + 1] \in Byte
    BY <1>2, <1>5, ElementOfSeq
  <2> QED
    BY <1>4, <2>1, XorInvolution
<1>6. [buf[c] EXCEPT ![n + 1] = b] \in Seq(Byte)
  BY <1>2, <1>5, AssignSeq
<1> QED
  BY <1>1, <1>6 DEF TypeInv, VarTypes

(* Every step of a worker keeps the type invariant.                        *)
LEMMA TypeWorker ==
  ASSUME TypeInv, NEW c \in Calls, NEW i \in Slots,
         Worker(c, i) \/ FreeTask(c, i)
  PROVE  TypeInv'
<1>0. UNCHANGED callVars
  BY WorkerFrame
<1> USE DEF Phases, SetLocked, Exit
<1>1. CASE StartWorker(c, i)
  BY <1>0, <1>1, TypeWorkerFrame DEF StartWorker, TypeInv, VarTypes
<1>2. CASE LockMutex(c, i)
  <2>1. range[<<c, i>>][1] \in Nat
    BY DEF TypeInv, VarTypes, Workers
  <2> QED
    BY <1>0, <1>2, <2>1, TypeWorkerFrame DEF LockMutex, TypeInv, VarTypes
<1>3. CASE WaitForMutex(c, i)
  BY <1>0, <1>3, TypeWorkerFrame DEF WaitForMutex, TypeInv, VarTypes
<1>4. CASE LockInterrupted(c, i)
  BY <1>0, <1>4, TypeWorkerFrame DEF LockInterrupted, TypeInv, VarTypes
<1>5. CASE CheckStop(c, i)
  BY <1>0, <1>5, TypeWorkerFrame DEF CheckStop, TypeInv, VarTypes
<1>6. CASE XorByte(c, i)
  <2>1. buf' \in [Calls -> Seq(Byte)]
    BY <1>6, TypeXorByte
  <2>2. idx' \in [Workers -> Nat]
    BY <1>6 DEF XorByte, TypeInv, VarTypes, Workers
  <2> QED
    BY <1>0, <1>6, <2>1, <2>2, TypeWorkerFrame DEF XorByte, TypeInv, VarTypes
<1>7. CASE WorkerStopped(c, i)
  BY <1>0, <1>7, TypeWorkerFrame DEF WorkerStopped, TypeInv, VarTypes
<1>8. CASE WorkerDone(c, i)
  BY <1>0, <1>8, TypeWorkerFrame DEF WorkerDone, TypeInv, VarTypes
<1>9. CASE UseFreedBuffers(c, i)
  <2>1. buf' \in [Calls -> Seq(Byte)]
    <3>1. CASE UNCHANGED buf
      BY <3>1 DEF TypeInv, VarTypes
    <3>2. ASSUME NEW d \in Calls, NEW b \in Byte, NEW k \in 1 .. Len(buf[d]),
                 buf' = [buf EXCEPT ![d][k] = b]
          PROVE  buf' \in [Calls -> Seq(Byte)]
      <4>1. buf' = [buf EXCEPT ![d] = [buf[d] EXCEPT ![k] = b]]
        BY <3>2
      <4>2. [buf[d] EXCEPT ![k] = b] \in Seq(Byte)
        BY AssignSeq DEF TypeInv, VarTypes
      <4> QED
        BY <4>1, <4>2 DEF TypeInv, VarTypes
    <3> QED
      BY <1>9, <3>1, <3>2 DEF UseFreedBuffers
  <2>2. corrupted' = TRUE /\ idx' = idx
    BY <1>9 DEF UseFreedBuffers
  <2>3. \/ locked' = locked
        \/ locked' = [locked EXCEPT ![MutexOf(c)] = FALSE]
    BY <1>9 DEF UseFreedBuffers
  <2>4. locked' \in [Mutexes -> BOOLEAN]
    BY <2>3 DEF TypeInv, VarTypes
  <2>5. \/ /\ \/ phase' = [phase EXCEPT ![<<c, i>>] = "loop"]
              \/ phase' = [phase EXCEPT ![<<c, i>>] = "xor"]
           /\ UNCHANGED ret
        \/ \E v \in {"0", "-EINTR"} : Exit(c, i, v)
    BY <1>9 DEF UseFreedBuffers
  <2>6. /\ phase' \in [Workers -> Phases]
        /\ ret' \in [Workers -> {"none", "0", "-EINTR"}]
    <3>1. CASE /\ \/ phase' = [phase EXCEPT ![<<c, i>>] = "loop"]
                  \/ phase' = [phase EXCEPT ![<<c, i>>] = "xor"]
               /\ UNCHANGED ret
      BY <3>1 DEF TypeInv, VarTypes, Phases
    <3>2. ASSUME NEW v \in {"0", "-EINTR"}, Exit(c, i, v)
          PROVE  /\ phase' \in [Workers -> Phases]
                 /\ ret' \in [Workers -> {"none", "0", "-EINTR"}]
      BY <3>2 DEF TypeInv, VarTypes
    <3> QED
      BY <2>5, <3>1, <3>2
  <2>7. idx' \in [Workers -> Nat] /\ corrupted' \in BOOLEAN
    BY <2>2 DEF TypeInv, VarTypes
  <2> QED
    BY <1>0, <2>1, <2>4, <2>6, <2>7, TypeWorkerFrame
<1>10. CASE FreeTask(c, i)
  BY <1>0, <1>10, TypeWorkerFrame DEF FreeTask, TypeInv, VarTypes
<1> QED
  BY <1>1, <1>2, <1>3, <1>4, <1>5, <1>6, <1>7, <1>8, <1>9, <1>10
  DEF Worker, xor_encrypt_worker, xor_decrypt_worker

LEMMA TypeNext == TypeInv /\ [Next]_vars => TypeInv'
<1> SUFFICES ASSUME TypeInv, [Next]_vars PROVE TypeInv'
  OBVIOUS
<1>1. ASSUME NEW c \in Calls, Syscall(c) PROVE TypeInv'
  BY <1>1, TypeSyscall
<1>2. ASSUME NEW c \in Calls, NEW i \in Slots,
             Worker(c, i) \/ FreeTask(c, i)
      PROVE  TypeInv'
  BY <1>2, TypeWorker
<1>3. ASSUME UNCHANGED vars PROVE TypeInv'
  BY <1>3 DEF vars, TypeInv, VarTypes, KeyLoaded, FilesOpen, LoopInBounds,
              num_threads
<1> QED
  BY <1>1, <1>2, <1>3 DEF Next, Terminated

(* Every variable keeps its type, whatever the arguments, the files and    *)
(* the failures are: in particular the loops over num_threads never leave  *)
(* the arrays workers and worker_args.                                     *)
THEOREM TypeCorrect == Spec => []TypeOK
<1>1. Spec => []TypeInv
  BY TypeInit, TypeNext, PTL DEF Spec
<1>2. TypeInv => TypeOK
  BY DEF TypeInv, TypeOK
<1> QED
  BY <1>1, <1>2, PTL
-----------------------------------------------------------------------------
(* The invariant of the locks: a worker in the loop holds its mutex.       *)
LockInv ==
  /\ MutualExclusion
  /\ \A c \in Calls, i \in Slots :
       phase[<<c, i>>] \in InLoop => locked[MutexOf(c)]

(* The invariant of the memory: what a call has allocated at each label.   *)
CallMem(c) ==
  /\ pc[c] \in {"idle", "read_data"} => mem[c] = {}
  /\ pc[c] \in {"fill_data", "load_key"} => mem[c] = {"file_data"}
  /\ pc[c] \in {"fill_key", "alloc"} => mem[c] = {"file_data", "key_data"}
  /\ pc[c] \in {"spawn", "stop", "join", "save", "write", "cleanup"} =>
       mem[c] = Allocations
  /\ pc[c] = "returned" /\ mem[c] # {} =>
       /\ result[c] = "-ENOMEM"
       /\ mem[c] = {"workers"} \/ mem[c] = {"worker_args"}

MemInv == \A c \in Calls : CallMem(c)

(* The invariant of the threads.  Quiet is where a worker touches nothing: *)
(* it has not been started or threadfn is over.                            *)
Quiet == {"none", "exited", "joined", "gone"}

(* workers[i] points to its own thread until that is freed.                *)
TaskInv == \A w \in Workers : phase[w] # "gone" => task[w] = w

WorkerInv(c, i) ==
  LET p == phase[<<c, i>>]
  IN  /\ pc[c] \in {"idle", "read_data", "fill_data", "load_key", "fill_key",
                    "alloc"} => p = "none"
      /\ i >= num_threads(c) => p = "none"
      /\ pc[c] = "spawn" /\ i >= cur[c] => p = "none"
      /\ pc[c] \in {"stop", "join"} /\ i < cur[c] => p \in Quiet
      /\ pc[c] \in {"save", "write"} => p \in Quiet
      /\ pc[c] \in {"cleanup", "returned"} =>
           p \in Quiet \/ result[c] = "spawn error"
      /\ pc[c] = "oops" => p \in Quiet \/ BuffersLive(c)

ThreadInv ==
  /\ TaskInv
  /\ \A c \in Calls : result[c] = "spawn error" =>
                       pc[c] \in {"cleanup", "returned"}
  /\ \A c \in Calls, i \in Slots : WorkerInv(c, i)

(* A step of a system call leaves the other calls and the mutexes alone.   *)
LEMMA SyscallFrame ==
  ASSUME TypeInv, NEW c \in Calls, Syscall(c)
  PROVE  /\ UNCHANGED <<req, locked, corrupted>>
         /\ \A d \in Calls \ {c} :
              /\ pc'[d] = pc[d]
              /\ mem'[d] = mem[d]
              /\ cur'[d] = cur[d]
              /\ result'[d] = result[d]
BY ZenonT(60) DEF TypeInv, VarTypes, Syscall, xor_encrypt_syscall, xor_decrypt,
       read_data_from_file, load_key_from_file, save_data_to_file, load_data,
       load_key, save_data, CopyFromUser, CopyFault, ReadDataFails, SizeData,
       FillData, LoadKeyFails, SizeKey, FillKey, AllocFails, AllocWorkers,
       DivideByZero, SpawnWorker, SpawnFails, StopWorker, StopFreedTask,
       JoinWorker, SaveOpen, SaveWrite, SaveFails, Cleanup, NextWorker, Goto,
       Return

(* It starts one worker, joins one, or leaves the workers where they are.  *)
LEMMA SyscallThreads ==
  ASSUME NEW c \in Calls, Syscall(c)
  PROVE  SpawnWorker(c) \/ JoinWorker(c) \/ UNCHANGED <<phase, task>>
BY DEF Syscall, xor_encrypt_syscall, xor_decrypt, read_data_from_file,
       load_key_from_file, save_data_to_file, load_data, load_key, save_data,
       CopyFromUser, CopyFault, ReadDataFails, SizeData, FillData,
       LoadKeyFails, SizeKey, FillKey, AllocFails, AllocWorkers, DivideByZero,
       SpawnFails, StopWorker, StopFreedTask, SaveOpen, SaveWrite, SaveFails,
       Cleanup, workerVars
-----------------------------------------------------------------------------
(* Mutual exclusion.                                                       *)

LEMMA MutexOfType == \A c : MutexOf(c) \in Mutexes
BY DEF MutexOf, Mutexes

(* No step of a system call brings a worker into the loop.                 *)
LEMMA SyscallLoop ==
  ASSUME TypeInv, NEW c \in Calls, Syscall(c)
  PROVE  \A w \in Workers : phase'[w] \in InLoop => phase[w] \in InLoop
<1>1. CASE SpawnWorker(c)
  BY <1>1 DEF SpawnWorker, TypeInv, VarTypes, InLoop
<1>2. CASE JoinWorker(c)
  BY <1>2 DEF JoinWorker, TypeInv, VarTypes, InLoop
<1> QED
  BY <1>1, <1>2, SyscallThreads

LEMMA LockSyscall ==
  ASSUME TypeInv, LockInv, NEW c \in Calls, Syscall(c)
  PROVE  LockInv'
<1>1. \A d \in Calls, i \in Slots :
        phase'[<<d, i>>] \in InLoop => phase[<<d, i>>] \in InLoop
  BY SyscallLoop DEF Workers
<1>2. locked' = locked
  BY SyscallFrame
<1> QED
  BY <1>1, <1>2 DEF LockInv, MutualExclusion

(* What a step of a worker does to the other workers, to its place in the  *)
(* loop and to its mutex.                                                  *)
LEMMA WorkerLoop ==
  ASSUME TypeInv, NEW c \in Calls, NEW i \in Slots,
         Worker(c, i) \/ FreeTask(c, i)
  PROVE  /\ \A w \in Workers : w # <<c, i>> => phase'[w] = phase[w]
         /\ \/ /\ locked' = locked
               /\ phase'[<<c, i>>] \in InLoop => phase[<<c, i>>] \in InLoop
            \/ /\ ~locked[MutexOf(c)]
               /\ locked' = [locked EXCEPT ![MutexOf(c)] = TRUE]
            \/ /\ phase[<<c, i>>] \in InLoop
               /\ phase'[<<c, i>>] \notin InLoop
               /\ locked' = [locked EXCEPT ![MutexOf(c)] = FALSE]
<1>0. <<c, i>> \in Workers
  BY DEF Workers
<1> USE <1>0 DEF TypeInv, VarTypes, InLoop, SetLocked, Exit
<1>1. CASE StartWorker(c, i)
  BY <1>1 DEF StartWorker
<1>2. CASE LockMutex(c, i)
  BY <1>2 DEF LockMutex
<1>3. CASE WaitForMutex(c, i)
  BY <1>3 DEF WaitForMutex
<1>4. CASE LockInterrupted(c, i)
  BY <1>4 DEF LockInterrupted
<1>5. CASE CheckStop(c, i)
  BY <1>5 DEF CheckStop
<1>6. CASE XorByte(c, i)
  BY <1>6 DEF XorByte
<1>7. CASE WorkerStopped(c, i)
  BY <1>7 DEF WorkerStopped
<1>8. CASE WorkerDone(c, i)
  BY <1>8 DEF WorkerDone
<1>9. CASE UseFreedBuffers(c, i)
  BY <1>9 DEF UseFreedBuffers
<1>10. CASE FreeTask(c, i)
  BY <1>10 DEF FreeTask
<1> QED
  BY <1>1, <1>2, <1>3, <1>4, <1>5, <1>6, <1>7, <1>8, <1>9, <1>10
  DEF Worker, xor_encrypt_worker, xor_decrypt_worker

LEMMA LockWorker ==
  ASSUME TypeInv, LockInv, NEW c \in Calls, NEW i \in Slots,
         Worker(c, i) \/ FreeTask(c, i)
  PROVE  LockInv'
<1>0. /\ <<c, i>> \in Workers
      /\ \A d \in Calls, j \in Slots : <<d, j>> \in Workers
      /\ locked \in [Mutexes -> BOOLEAN]
  BY DEF Workers, TypeInv, VarTypes
<1>1. \A d \in Calls, j \in Slots :
        <<d, j>> # <<c, i>> => phase'[<<d, j>>] = phase[<<d, j>>]
  BY <1>0, WorkerLoop
<1>2. CASE /\ locked' = locked
           /\ phase'[<<c, i>>] \in InLoop => phase[<<c, i>>] \in InLoop
  <2>1. \A d \in Calls, j \in Slots :
          phase'[<<d, j>>] \in InLoop => phase[<<d, j>>] \in InLoop
    BY <1>1, <1>2
  <2> QED
    BY <1>2, <2>1 DEF LockInv, MutualExclusion
(* Taking the mutex: nobody was in the loop of this mutex.                 *)
<1>3. CASE /\ ~locked[MutexOf(c)]
           /\ locked' = [locked EXCEPT ![MutexOf(c)] = TRUE]
  <2>1. \A d \in Calls, j \in Slots :
          phase'[<<d, j>>] \in InLoop =>
            <<d, j>> = <<c, i>> \/ MutexOf(d) # MutexOf(c)
    BY <1>1, <1>3 DEF LockInv
  <2>2. \A m \in Mutexes : locked'[m] = (locked[m] \/ m = MutexOf(c))
    BY <1>0, <1>3
  <2>3. MutualExclusion'
    BY <1>1, <2>1 DEF LockInv, MutualExclusion
  <2>4. \A d \in Calls, j \in Slots :
          phase'[<<d, j>>] \in InLoop => locked'[MutexOf(d)]
    BY <1>1, <2>1, <2>2, MutexOfType DEF LockInv
  <2> QED
    BY <2>3, <2>4 DEF LockInv
(* Giving it back: nobody else was in the loop of this mutex.              *)
<1>4. CASE /\ phase[<<c, i>>] \in InLoop
           /\ phase'[<<c, i>>] \notin InLoop
           /\ locked' = [locked EXCEPT ![MutexOf(c)] = FALSE]
  <2>1. \A d \in Calls, j \in Slots :
          phase'[<<d, j>>] \in InLoop =>
            phase[<<d, j>>] \in InLoop /\ MutexOf(d) # MutexOf(c)
    BY <1>1, <1>4 DEF LockInv, MutualExclusion
  <2>2. MutualExclusion'
    BY <2>1 DEF LockInv, MutualExclusion
  <2>3. \A d \in Calls, j \in Slots :
          phase'[<<d, j>>] \in InLoop => locked'[MutexOf(d)]
    BY <1>0, <1>4, <2>1, MutexOfType DEF LockInv
  <2> QED
    BY <2>2, <2>3 DEF LockInv
<1> QED
  BY <1>2, <1>3, <1>4, WorkerLoop

(* sync_lock and decrypt_mutex exclude, for any number of calls and of     *)
(* threads, also when a worker dies in the loop with its mutex held.       *)
THEOREM WorkersExclude == Spec => []MutualExclusion
<1>1. Init => LockInv
  BY DEF Init, LockInv, MutualExclusion, InLoop, Workers
<1>2. TypeInv /\ LockInv /\ [Next]_vars => LockInv'
  <2> SUFFICES ASSUME TypeInv, LockInv, [Next]_vars PROVE LockInv'
    OBVIOUS
  <2>1. ASSUME NEW c \in Calls, Syscall(c) PROVE LockInv'
    BY <2>1, LockSyscall
  <2>2. ASSUME NEW c \in Calls, NEW i \in Slots,
               Worker(c, i) \/ FreeTask(c, i)
        PROVE  LockInv'
    BY <2>2, LockWorker
  <2>3. ASSUME UNCHANGED vars PROVE LockInv'
    BY <2>3 DEF vars, LockInv, MutualExclusion
  <2> QED
    BY <2>1, <2>2, <2>3 DEF Next, Terminated
<1>3. LockInv => MutualExclusion
  BY DEF LockInv
<1> QED
  BY <1>1, <1>2, <1>3, TypeInit, TypeNext, PTL DEF Spec
-----------------------------------------------------------------------------
(* What is freed.                                                          *)

(* The memory of a call at the label that follows each of its steps.       *)
LEMMA MemStep ==
  ASSUME TypeInv, NEW c \in Calls, CallMem(c), Syscall(c)
  PROVE  CallMem(c)'
<1>0. /\ pc \in [Calls -> PCs]
      /\ mem \in [Calls -> SUBSET Allocations]
      /\ result \in [Calls -> Results]
  BY DEF TypeInv, VarTypes
<1> USE <1>0 DEF CallMem, Goto, Return
<1>1. CASE CopyFromUser(c)
  BY <1>1 DEF CopyFromUser
<1>2. CASE CopyFault(c) \/ ReadDataFails(c)
  BY <1>2 DEF CopyFault, ReadDataFails
<1>3. CASE SizeData(c)
  BY <1>3 DEF SizeData
<1>4. CASE FillData(c)
  BY <1>4 DEF FillData
<1>5. CASE LoadKeyFails(c)
  BY <1>5 DEF LoadKeyFails
<1>6. CASE SizeKey(c)
  BY <1>6 DEF SizeKey
<1>7. CASE FillKey(c)
  BY <1>7 DEF FillKey
<1>8. CASE AllocFails(c)
  <2>1. PICK got \in SUBSET {"workers", "worker_args"} :
          /\ got # {"workers", "worker_args"}
          /\ Return(c, "-ENOMEM",
                    (mem[c] \ {"file_data", "key_data"}) \cup got)
    BY <1>8 DEF AllocFails
  <2>2. mem[c] = {"file_data", "key_data"}
    BY <1>8 DEF AllocFails
  <2>3. pc'[c] = "returned" /\ result'[c] = "-ENOMEM" /\ mem'[c] = got
    BY <2>1, <2>2
  <2>4. got = {} \/ got = {"workers"} \/ got = {"worker_args"}
    BY <2>1
  <2> QED
    BY <2>3, <2>4
<1>9. CASE AllocWorkers(c)
  BY <1>9 DEF AllocWorkers, Allocations
<1>10. CASE DivideByZero(c) \/ StopFreedTask(c)
  BY <1>10 DEF DivideByZero, StopFreedTask
<1>11. CASE SpawnWorker(c) \/ JoinWorker(c)
  BY <1>11 DEF SpawnWorker, JoinWorker, NextWorker
<1>12. CASE SpawnFails(c) \/ StopWorker(c)
  BY <1>12 DEF SpawnFails, StopWorker
<1>13. CASE SaveOpen(c) \/ SaveWrite(c) \/ SaveFails(c)
  BY <1>13 DEF SaveOpen, SaveWrite, SaveFails
<1>14. CASE Cleanup(c)
  BY <1>14 DEF Cleanup
<1> QED
  BY <1>1, <1>2, <1>3, <1>4, <1>5, <1>6, <1>7, <1>8, <1>9, <1>10, <1>11,
     <1>12, <1>13, <1>14
  DEF Syscall, xor_encrypt_syscall, xor_decrypt, read_data_from_file,
      load_key_from_file, save_data_to_file, load_data, load_key, save_data

LEMMA MemNext == TypeInv /\ MemInv /\ [Next]_vars => MemInv'
<1> SUFFICES ASSUME TypeInv, MemInv, [Next]_vars PROVE MemInv'
  OBVIOUS
<1>1. ASSUME NEW c \in Calls, Syscall(c) PROVE MemInv'
  <2>1. CallMem(c)'
    BY <1>1, MemStep DEF MemInv
  <2>2. ASSUME NEW d \in Calls \ {c} PROVE CallMem(d)'
    BY <1>1, SyscallFrame DEF MemInv, CallMem
  <2> QED
    BY <2>1, <2>2 DEF MemInv
<1>2. ASSUME NEW c \in Calls, NEW i \in Slots,
             Worker(c, i) \/ FreeTask(c, i)
      PROVE  MemInv'
  BY <1>2, WorkerFrame DEF callVars, MemInv, CallMem
<1>3. ASSUME UNCHANGED vars PROVE MemInv'
  BY <1>3 DEF vars, MemInv, CallMem
<1> QED
  BY <1>1, <1>2, <1>3 DEF Next, Terminated

LEMMA MemInit == Init => MemInv
BY DEF Init, MemInv, CallMem

(* A call that returns has freed its memory, on every path but the one on  *)
(* which one of the two arrays could not be allocated.                     *)
THEOREM LeaksBounded == Spec => []LeakOnlyOnPartialAlloc
<1>1. MemInv => LeakOnlyOnPartialAlloc
  BY DEF MemInv, CallMem, LeakOnlyOnPartialAlloc
<1> QED
  BY <1>1, TypeInit, TypeNext, MemInit, MemNext, PTL DEF Spec
-----------------------------------------------------------------------------
(* The threads and the call that started them.                             *)

(* A worker that has been started moves on, never back, and a quiet one    *)
(* stays quiet.                                                            *)
LEMMA WorkerMoves ==
  ASSUME TypeInv, NEW c \in Calls, NEW i \in Slots,
         Worker(c, i) \/ FreeTask(c, i)
  PROVE  /\ phase[<<c, i>>] # "none" /\ phase'[<<c, i>>] # "none"
         /\ phase[<<c, i>>] \in Quiet => phase'[<<c, i>>] \in Quiet
         /\ phase'[<<c, i>>] # "gone" => phase[<<c, i>>] # "gone"
<1>0. <<c, i>> \in Workers
  BY DEF Workers
<1> USE <1>0 DEF TypeInv, VarTypes, Quiet, InLoop, Exit
<1>1. CASE StartWorker(c, i)
  BY <1>1 DEF StartWorker
<1>2. CASE LockMutex(c, i) \/ WaitForMutex(c, i) \/ LockInterrupted(c, i)
  BY <1>2 DEF LockMutex, WaitForMutex, LockInterrupted
<1>3. CASE CheckStop(c, i) \/ XorByte(c, i)
  BY <1>3 DEF CheckStop, XorByte
<1>4. CASE WorkerStopped(c, i) \/ WorkerDone(c, i)
  BY <1>4 DEF WorkerStopped, WorkerDone
<1>5. CASE UseFreedBuffers(c, i)
  BY <1>5 DEF UseFreedBuffers
<1>6. CASE FreeTask(c, i)
  BY <1>6 DEF FreeTask
<1> QED
  BY <1>1, <1>2, <1>3, <1>4, <1>5, <1>6
  DEF Worker, xor_encrypt_worker, xor_decrypt_worker

LEMMA ThreadWorker ==
  ASSUME TypeInv, ThreadInv, NEW c \in Calls, NEW i \in Slots,
         Worker(c, i) \/ FreeTask(c, i)
  PROVE  ThreadInv'
<1>1. UNCHANGED <<pc, cur, mem, result, req, task>>
  BY WorkerFrame DEF callVars
<1>2. /\ phase[<<c, i>>] # "none"
      /\ phase[<<c, i>>] \in Quiet => phase'[<<c, i>>] \in Quiet
      /\ phase'[<<c, i>>] # "gone" => phase[<<c, i>>] # "gone"
  BY WorkerMoves
<1>3. \A w \in Workers : w # <<c, i>> => phase'[w] = phase[w]
  BY WorkerLoop
<1>4. TaskInv'
  BY <1>1, <1>2, <1>3 DEF ThreadInv, TaskInv
<1>5. ASSUME NEW d \in Calls, NEW j \in Slots PROVE WorkerInv(d, j)'
  <2>1. /\ WorkerInv(d, j)
        /\ <<d, j>> \in Workers
    BY DEF ThreadInv, Workers
  <2>2. CASE <<d, j>> # <<c, i>>
    BY <1>1, <1>3, <2>1, <2>2 DEF WorkerInv, num_threads, BuffersLive
  <2>3. CASE d = c /\ j = i
    BY <1>1, <1>2, <2>1, <2>3 DEF WorkerInv, num_threads, BuffersLive
  <2> QED
    BY <2>2, <2>3
<1> QED
  BY <1>1, <1>4, <1>5 DEF ThreadInv

(* Reusing a freed task_struct redirects stale pointers only.              *)
LEMMA TaskSyscall ==
  ASSUME TypeInv, ThreadInv, NEW c \in Calls, Syscall(c)
  PROVE  TaskInv'
<1>1. CASE SpawnWorker(c)
  <2> DEFINE n == <<c, cur[c]>>
  <2>1. /\ n \in Workers
        /\ cur[c] \in Slots
        /\ pc[c] = "spawn"
        /\ phase' = [phase EXCEPT ![n] = "woken"]
        /\ NewTask(n)
    BY <1>1, LoopFacts DEF SpawnWorker
  <2>2. phase[n] = "none" /\ task[n] = n
    <3>1. cur[c] \in Int
      BY DEF TypeInv, VarTypes
    <3>2. WorkerInv(c, cur[c])
      BY <2>1 DEF ThreadInv
    <3>3. phase[n] = "none"
      BY <2>1, <3>1, <3>2 DEF WorkerInv
    <3> QED
      BY <2>1, <3>3 DEF ThreadInv, TaskInv
  <2>3. ASSUME NEW w \in Workers, phase'[w] # "gone" PROVE task'[w] = w
    <3>1. phase[w] # "gone"
      BY <2>1, <2>2, <2>3 DEF TypeInv, VarTypes
    <3>2. task[w] = w
      BY <3>1 DEF ThreadInv, TaskInv
    <3>3. task'[w] = task[w]
      BY <2>1, <3>1, <3>2 DEF NewTask
    <3> QED
      BY <3>2, <3>3
  <2> QED
    BY <2>3 DEF TaskInv
<1>2. CASE JoinWorker(c)
  BY <1>2 DEF JoinWorker, ThreadInv, TaskInv, TypeInv, VarTypes
<1>3. CASE UNCHANGED <<phase, task>>
  BY <1>3 DEF ThreadInv, TaskInv
<1> QED
  BY <1>1, <1>2, <1>3, SyscallThreads

(* The workers of the other calls: at most, one that has exited is joined. *)
LEMMA OtherWorkers ==
  ASSUME TypeInv, ThreadInv, NEW c \in Calls, Syscall(c),
         NEW d \in Calls \ {c}, NEW j \in Slots
  PROVE  WorkerInv(d, j)'
<1>0. <<d, j>> \in Workers /\ WorkerInv(d, j)
  BY DEF Workers, ThreadInv
<1>1. \/ phase'[<<d, j>>] = phase[<<d, j>>]
      \/ phase[<<d, j>>] = "exited" /\ phase'[<<d, j>>] = "joined"
  <2>1. CASE SpawnWorker(c)
    BY <1>0, <2>1 DEF SpawnWorker, TypeInv, VarTypes
  <2>2. CASE JoinWorker(c)
    BY <1>0, <2>2 DEF JoinWorker, TypeInv, VarTypes
  <2> QED
    BY <2>1, <2>2, SyscallThreads
<1>2. /\ pc'[d] = pc[d]
      /\ mem'[d] = mem[d]
      /\ cur'[d] = cur[d]
      /\ result'[d] = result[d]
      /\ req' = req
  BY SyscallFrame
<1> QED
  BY <1>0, <1>1, <1>2 DEF WorkerInv, Quiet, num_threads, BuffersLive

(* A started worker: the next one is started, or all are stopped.          *)
LEMMA OwnSpawnWorker ==
  ASSUME TypeInv, ThreadInv, NEW c \in Calls, SpawnWorker(c), NEW j \in Slots
  PROVE  WorkerInv(c, j)'
<1>1. /\ pc[c] = "spawn"
      /\ phase' = [phase EXCEPT ![<<c, cur[c]>>] = "woken"]
      /\ req' = req
      /\ NextWorker(c, "spawn", "stop")
  BY DEF SpawnWorker
<1>2. /\ num_threads(c) \in Int
      /\ cur[c] \in Int
      /\ cur[c] < num_threads(c)
      /\ j \in Int /\ j >= 0
  BY <1>1, LoopFacts, MaxThreadsNat DEF Slots
<1>3. /\ j # cur[c] => phase'[<<c, j>>] = phase[<<c, j>>]
      /\ <<c, j>> \in Workers
  BY <1>1 DEF Workers, TypeInv, VarTypes
<1>4. \/ pc'[c] = "spawn" /\ cur'[c] = cur[c] + 1
      \/ pc'[c] = "stop" /\ cur'[c] = 0
  BY <1>1 DEF NextWorker, Goto, TypeInv, VarTypes
<1>5. WorkerInv(c, j)
  BY DEF ThreadInv
<1>6. j # cur[c] /\ j >= cur[c] => phase'[<<c, j>>] = "none"
  BY <1>1, <1>3, <1>5 DEF WorkerInv
<1>7. j >= num_threads(c) => phase'[<<c, j>>] = "none"
  BY <1>2, <1>6
<1>8. pc'[c] = "spawn" /\ j >= cur'[c] => phase'[<<c, j>>] = "none"
  BY <1>2, <1>4, <1>6
<1>9. ~(pc'[c] = "stop" /\ j < cur'[c])
  BY <1>2, <1>4
<1> QED
  BY <1>1, <1>4, <1>7, <1>8, <1>9 DEF WorkerInv, num_threads

(* kthread_stop returns only when the worker that was started is quiet:    *)
(* either its own exit was awaited or it had been freed before.            *)
LEMMA OwnJoinWorker ==
  ASSUME TypeInv, ThreadInv, NEW c \in Calls, JoinWorker(c), NEW j \in Slots
  PROVE  WorkerInv(c, j)'
<1>1. /\ pc[c] = "join"
      /\ phase[Stopped(c)] = "exited"
      /\ phase' = [phase EXCEPT ![Stopped(c)] = "joined"]
      /\ req' = req
      /\ NextWorker(c, "stop", "save")
  BY DEF JoinWorker
<1>2. /\ num_threads(c) \in Int
      /\ cur[c] \in Int
      /\ cur[c] < num_threads(c)
      /\ <<c, cur[c]>> \in Workers
  BY <1>1, LoopFacts
<1>3. \/ /\ pc'[c] = "stop"
         /\ cur'[c] = cur[c] + 1
      \/ /\ pc'[c] = "save"
         /\ cur[c] = num_threads(c) - 1
  BY <1>1 DEF NextWorker, LastWorker, Goto, TypeInv, VarTypes
<1>4. /\ WorkerInv(c, j)
      /\ <<c, j>> \in Workers
      /\ j \in Int
  <2>1. j \in Int
    BY MaxThreadsNat DEF Slots
  <2> QED
    BY <2>1 DEF ThreadInv, Workers
<1>5. \/ phase'[<<c, j>>] = phase[<<c, j>>]
      \/ phase[<<c, j>>] = "exited" /\ phase'[<<c, j>>] = "joined"
  BY <1>1, <1>4 DEF TypeInv, VarTypes
<1>6. ASSUME j = cur[c] PROVE phase'[<<c, j>>] \in Quiet
  <2>1. CASE phase[<<c, j>>] = "gone"
    BY <1>5, <2>1 DEF Quiet
  <2>2. CASE phase[<<c, j>>] # "gone"
    <3>1. Stopped(c) = <<c, j>>
      BY <1>2, <1>6, <2>2 DEF ThreadInv, TaskInv, Stopped
    <3> QED
      BY <1>1, <1>5, <3>1 DEF Quiet
  <2> QED
    BY <2>1, <2>2
<1>7. j < cur[c] => phase'[<<c, j>>] \in Quiet
  BY <1>1, <1>4, <1>5 DEF WorkerInv, Quiet
<1>8. j >= num_threads(c) => phase'[<<c, j>>] = "none"
  BY <1>4, <1>5 DEF WorkerInv
<1>9. CASE pc'[c] = "stop"
  <2>1. j < cur'[c] => phase'[<<c, j>>] \in Quiet
    BY <1>2, <1>3, <1>4, <1>6, <1>7, <1>9
  <2> QED
    BY <1>1, <1>8, <1>9, <2>1 DEF WorkerInv, num_threads
<1>10. CASE pc'[c] = "save"
  <2>1. phase'[<<c, j>>] \in Quiet
    BY <1>2, <1>3, <1>4, <1>6, <1>7, <1>8, <1>10 DEF Quiet
  <2> QED
    BY <1>1, <1>8, <1>10, <2>1 DEF WorkerInv, num_threads
<1> QED
  BY <1>3, <1>9, <1>10

(* The workers of the call that takes a step.                              *)
LEMMA OwnWorkers ==
  ASSUME TypeInv, ThreadInv, MemInv, NEW c \in Calls, Syscall(c)
  PROVE  /\ result'[c] = "spawn error" => pc'[c] \in {"cleanup", "returned"}
         /\ \A j \in Slots : WorkerInv(c, j)'
<1>0. /\ pc \in [Calls -> PCs]
      /\ result \in [Calls -> Results]
      /\ result[c] = "spawn error" => pc[c] \in {"cleanup", "returned"}
      /\ \A j \in Slots : WorkerInv(c, j)
      /\ req' = req
  BY SyscallFrame DEF TypeInv, VarTypes, ThreadInv
<1> USE <1>0 DEF Goto, Return, workerVars, num_threads
<1>1. CASE CopyFromUser(c)
  BY <1>1 DEF CopyFromUser, WorkerInv
<1>2. CASE CopyFault(c) \/ ReadDataFails(c) \/ LoadKeyFails(c)
  BY <1>2 DEF CopyFault, ReadDataFails, LoadKeyFails, WorkerInv, Quiet
<1>3. CASE SizeData(c) \/ FillData(c)
  BY <1>3 DEF SizeData, FillData, WorkerInv
<1>4. CASE SizeKey(c) \/ FillKey(c)
  BY <1>4 DEF SizeKey, FillKey, WorkerInv
<1>5. CASE AllocFails(c)
  <2>1. /\ pc[c] = "alloc"
        /\ pc'[c] = "returned"
        /\ result'[c] = "-ENOMEM"
        /\ phase' = phase
    BY <1>5 DEF AllocFails
  <2> QED
    BY <2>1 DEF WorkerInv, Quiet
<1>6. CASE AllocWorkers(c)
  BY <1>6 DEF AllocWorkers, WorkerInv
<1>7. CASE DivideByZero(c)
  BY <1>7 DEF DivideByZero, WorkerInv, Quiet
<1>8. CASE SpawnWorker(c)
  <2>1. result'[c] # "spawn error"
    BY <1>8 DEF SpawnWorker
  <2> QED
    BY <1>8, <2>1, OwnSpawnWorker
<1>9. CASE SpawnFails(c)
  BY <1>9 DEF SpawnFails, WorkerInv
<1>10. CASE StopWorker(c)
  BY <1>10 DEF StopWorker, WorkerInv
<1>11. CASE StopFreedTask(c)
  <2>1. /\ BuffersLive(c)
        /\ mem' = mem
    BY <1>11 DEF StopFreedTask, MemInv, CallMem, BuffersLive, Allocations
  <2> QED
    BY <1>11, <2>1 DEF StopFreedTask, WorkerInv, BuffersLive
<1>12. CASE JoinWorker(c)
  <2>1. result'[c] # "spawn error"
    BY <1>12 DEF JoinWorker
  <2> QED
    BY <1>12, <2>1, OwnJoinWorker
<1>13. CASE SaveOpen(c)
  BY <1>13 DEF SaveOpen, WorkerInv
<1>14. CASE SaveWrite(c) \/ SaveFails(c)
  BY <1>14 DEF SaveWrite, SaveFails, WorkerInv
<1>15. CASE Cleanup(c)
  BY <1>15 DEF Cleanup, WorkerInv
<1> QED
  BY <1>1, <1>2, <1>3, <1>4, <1>5, <1>6, <1>7, <1>8, <1>9, <1>10, <1>11,
     <1>12, <1>13, <1>14, <1>15
  DEF Syscall, xor_encrypt_syscall, xor_decrypt, read_data_from_file,
      load_key_from_file, save_data_to_file, load_data, load_key, save_data

LEMMA ThreadInit == Init => ThreadInv
<1> SUFFICES ASSUME Init PROVE ThreadInv
  OBVIOUS
<1>1. TaskInv
  BY DEF Init, TaskInv
<1>2. ASSUME NEW c \in Calls, NEW i \in Slots PROVE WorkerInv(c, i)
  BY DEF Init, WorkerInv, Workers
<1> QED
  BY <1>1, <1>2 DEF Init, ThreadInv

LEMMA ThreadNext == TypeInv /\ MemInv /\ ThreadInv /\ [Next]_vars => ThreadInv'
<1> SUFFICES ASSUME TypeInv, MemInv, ThreadInv, [Next]_vars PROVE ThreadInv'
  OBVIOUS
<1>1. ASSUME NEW c \in Calls, Syscall(c) PROVE ThreadInv'
  <2>1. TaskInv'
    BY <1>1, TaskSyscall
  <2>2. ASSUME NEW d \in Calls, NEW j \in Slots PROVE WorkerInv(d, j)'
    BY <1>1, OwnWorkers, OtherWorkers
  <2>3. ASSUME NEW d \in Calls, result'[d] = "spawn error"
        PROVE  pc'[d] \in {"cleanup", "returned"}
    <3>1. CASE d = c
      BY <1>1, <2>3, <3>1, OwnWorkers
    <3>2. CASE d # c
      BY <1>1, <2>3, <3>2, SyscallFrame DEF ThreadInv
    <3> QED
      BY <3>1, <3>2
  <2> QED
    BY <2>1, <2>2, <2>3 DEF ThreadInv
<1>2. ASSUME NEW c \in Calls, NEW i \in Slots,
             Worker(c, i) \/ FreeTask(c, i)
      PROVE  ThreadInv'
  BY <1>2, ThreadWorker
<1>3. ASSUME UNCHANGED vars PROVE ThreadInv'
  BY <1>3, ZenonT(60)
  DEF vars, ThreadInv, TaskInv, WorkerInv, BuffersLive, num_threads
<1> QED
  BY <1>1, <1>2, <1>3 DEF Next, Terminated

(* The inductive invariant of the threads, the memory and the types.       *)
LEMMA ThreadsInvariant == Spec => [](TypeInv /\ MemInv /\ ThreadInv)
BY TypeInit, TypeNext, MemInit, MemNext, ThreadInit, ThreadNext, PTL DEF Spec

(* The buffers of a call outlive its workers, unless the call failed to    *)
(* start one of them.                                                      *)
LEMMA BuffersOutliveWorkers ==
  ASSUME TypeInv, MemInv, ThreadInv, NEW c \in Calls, NEW i \in Slots,
         phase[<<c, i>>] \notin Quiet
  PROVE  BuffersLive(c) \/ result[c] = "spawn error"
<1>1. CallMem(c) /\ WorkerInv(c, i) /\ pc[c] \in PCs
  BY DEF MemInv, ThreadInv, TypeInv, VarTypes
<1> QED
  BY <1>1 DEF CallMem, WorkerInv, PCs, Quiet, BuffersLive, Allocations

LEMMA CorruptionNext ==
  /\ TypeInv /\ MemInv /\ ThreadInv
  /\ CorruptedOnlyBySpawnError
  /\ [Next]_vars
  => CorruptedOnlyBySpawnError'
<1> SUFFICES ASSUME TypeInv, MemInv, ThreadInv, CorruptedOnlyBySpawnError,
                    [Next]_vars
             PROVE  CorruptedOnlyBySpawnError'
  OBVIOUS
(* A call keeps the result spawn error until the end.                      *)
<1>1. ASSUME NEW c \in Calls, Syscall(c) PROVE CorruptedOnlyBySpawnError'
  <2>1. ASSUME NEW d \in Calls, result[d] = "spawn error"
        PROVE  result'[d] = "spawn error"
    <3>1. CASE d # c
      BY <1>1, <2>1, <3>1, SyscallFrame
    <3>2. CASE d = c
      <4>1. pc[c] \in {"cleanup", "returned"}
        BY <2>1, <3>2 DEF ThreadInv
      <4>2. Cleanup(c)
        BY <1>1, <4>1
        DEF Syscall, xor_encrypt_syscall, xor_decrypt, read_data_from_file,
            load_key_from_file, save_data_to_file, load_data, load_key,
            save_data, CopyFromUser, CopyFault, ReadDataFails, SizeData,
            FillData, LoadKeyFails, SizeKey, FillKey, AllocFails,
            AllocWorkers, DivideByZero, SpawnWorker, SpawnFails, StopWorker,
            StopFreedTask, JoinWorker, SaveOpen, SaveWrite, SaveFails
      <4> QED
        BY <2>1, <3>2, <4>2 DEF Cleanup, Return, TypeInv, VarTypes
    <3> QED
      BY <3>1, <3>2
  <2>2. corrupted' = corrupted
    BY <1>1, SyscallFrame
  <2> QED
    BY <2>1, <2>2 DEF CorruptedOnlyBySpawnError
(* A worker in its loop has its buffers, or its call has that result.      *)
<1>2. ASSUME NEW c \in Calls, NEW i \in Slots,
             Worker(c, i) \/ FreeTask(c, i)
      PROVE  CorruptedOnlyBySpawnError'
  <2>1. result' = result
    BY <1>2, WorkerFrame DEF callVars
  <2>2. CASE UseFreedBuffers(c, i)
    <3>1. ~BuffersLive(c) /\ phase[<<c, i>>] \notin Quiet
      BY <2>2 DEF UseFreedBuffers, InLoop, Quiet
    <3>2. result[c] = "spawn error"
      BY <3>1, BuffersOutliveWorkers
    <3> QED
      BY <2>1, <3>2 DEF CorruptedOnlyBySpawnError
  <2>3. CASE ~UseFreedBuffers(c, i)
    <3>1. corrupted' = corrupted
      BY <1>2, <2>3
      DEF Worker, xor_encrypt_worker, xor_decrypt_worker, StartWorker,
          LockMutex, WaitForMutex, LockInterrupted, CheckStop, XorByte,
          WorkerStopped, WorkerDone, FreeTask
    <3> QED
      BY <2>1, <3>1 DEF CorruptedOnlyBySpawnError
  <2> QED
    BY <2>2, <2>3
<1>3. ASSUME UNCHANGED vars PROVE CorruptedOnlyBySpawnError'
  BY <1>3 DEF vars, CorruptedOnlyBySpawnError
<1> QED
  BY <1>1, <1>2, <1>3 DEF Next, Terminated

(* No worker uses freed memory, for any number of calls and threads, as    *)
(* long as every kthread_run succeeds.                                     *)
THEOREM BuffersSafe == Spec => []CorruptedOnlyBySpawnError
<1>1. Init => CorruptedOnlyBySpawnError
  BY DEF Init, CorruptedOnlyBySpawnError
<1> QED
  BY <1>1, ThreadsInvariant, CorruptionNext, PTL DEF Spec

(* The buffer does not change between the last kthread_stop and the end of *)
(* the write: what is written is what the workers left.                    *)
THEOREM WriteIsStable == Spec => OutputStable
<1> DEFINE Stable == \A c \in Calls :
             pc[c] \in {"save", "write"} /\ ~corrupted' => buf'[c] = buf[c]
<1>1. TypeInv /\ MemInv /\ ThreadInv /\ [Next]_vars => [Stable]_vars
  <2> SUFFICES ASSUME TypeInv, MemInv, ThreadInv, [Next]_vars,
                      NEW c \in Calls, pc[c] \in {"save", "write"},
                      ~corrupted'
               PROVE  buf'[c] = buf[c]
    OBVIOUS
  <2>1. ASSUME NEW d \in Calls, Syscall(d) PROVE buf'[c] = buf[c]
    <3>1. \/ UNCHANGED buf
          \/ /\ pc[d] \in {"read_data", "fill_data"}
             /\ \E b : buf' = [buf EXCEPT ![d] = b]
      BY <2>1
      DEF Syscall, xor_encrypt_syscall, xor_decrypt, read_data_from_file,
          load_key_from_file, save_data_to_file, load_data, load_key,
          save_data, CopyFromUser, CopyFault, ReadDataFails, SizeData,
          FillData, LoadKeyFails, SizeKey, FillKey, AllocFails, AllocWorkers,
          DivideByZero, SpawnWorker, SpawnFails, StopWorker, StopFreedTask,
          JoinWorker, SaveOpen, SaveWrite, SaveFails, Cleanup, ioVars
    <3> QED
      BY <3>1 DEF TypeInv, VarTypes
  <2>2. ASSUME NEW d \in Calls, NEW i \in Slots,
               Worker(d, i) \/ FreeTask(d, i)
        PROVE  buf'[c] = buf[c]
    <3>1. CASE XorByte(d, i)
      <4>1. phase[<<d, i>>] \notin Quiet
        BY <3>1 DEF XorByte, Quiet
      <4>2. d # c
        BY <4>1 DEF ThreadInv, WorkerInv
      <4> QED
        BY <3>1, <4>2 DEF XorByte, TypeInv, VarTypes
    <3>2. CASE ~XorByte(d, i)
      BY <2>2, <3>2
      DEF Worker, xor_encrypt_worker, xor_decrypt_worker, StartWorker,
          LockMutex, WaitForMutex, LockInterrupted, CheckStop, WorkerStopped,
          WorkerDone, UseFreedBuffers, FreeTask
    <3> QED
      BY <3>1, <3>2
  <2>3. ASSUME UNCHANGED vars PROVE buf'[c] = buf[c]
    BY <2>3 DEF vars
  <2> QED
    BY <2>1, <2>2, <2>3 DEF Next, Terminated
<1>2. Spec => [][Stable]_vars
  BY <1>1, ThreadsInvariant, PTL DEF Spec
<1> QED
  BY <1>2 DEF OutputStable
=============================================================================
