------------------------- MODULE XorRefinementProofs -------------------------
(***************************************************************************)
(* XorSyscall implements XorService, for any number of calls and threads   *)
(* and any data: every step of a call, of one of its threads or of the     *)
(* kernel is a step of the service or changes nothing that it shows.       *)
(***************************************************************************)
EXTENDS XorRefinement, XorDataProofs

(* The state of the service.                                               *)
Args == [c \in Calls |-> IF pc[c] = "idle" THEN NoRequest ELSE req[c]]
Status == [c \in Calls |-> StatusOf(c)]
KeysRead == [c \in Calls |-> KeyOf(c)]

(* The invariants the simulation rests on.                                 *)
ServiceInv ==
  /\ TypeInv /\ ThreadInv /\ MemInv /\ ShapeInv /\ DataInv
  /\ CorruptedOnlyBySpawnError
-----------------------------------------------------------------------------
(* StatusOf, row by row.                                                   *)
LEMMA StatusRows ==
  ASSUME NEW c
  PROVE  /\ pc[c] = "idle" => StatusOf(c) = "idle"
         /\ pc[c] \in {"read_data", "fill_data"} => StatusOf(c) = "entered"
         /\ pc[c] \in {"load_key", "fill_key"} => StatusOf(c) = "data"
         /\ pc[c] \in {"alloc", "spawn", "stop", "join", "save"} =>
              StatusOf(c) = "keyed"
         /\ pc[c] = "write" => StatusOf(c) = "created"
         /\ pc[c] \in {"cleanup", "returned"} /\ result[c] = "0" =>
              StatusOf(c) = "success"
         /\ pc[c] \in {"cleanup", "returned"} /\ result[c] # "0" =>
              StatusOf(c) = "failed"
         /\ pc[c] = "oops" => StatusOf(c) = "killed"
BY Zenon DEF StatusOf

LEMMA StatusRowsNext ==
  ASSUME NEW c
  PROVE  /\ pc'[c] = "idle" => StatusOf(c)' = "idle"
         /\ pc'[c] \in {"read_data", "fill_data"} => StatusOf(c)' = "entered"
         /\ pc'[c] \in {"load_key", "fill_key"} => StatusOf(c)' = "data"
         /\ pc'[c] \in {"alloc", "spawn", "stop", "join", "save"} =>
              StatusOf(c)' = "keyed"
         /\ pc'[c] = "write" => StatusOf(c)' = "created"
         /\ pc'[c] \in {"cleanup", "returned"} /\ result'[c] = "0" =>
              StatusOf(c)' = "success"
         /\ pc'[c] \in {"cleanup", "returned"} /\ result'[c] # "0" =>
              StatusOf(c)' = "failed"
         /\ pc'[c] = "oops" => StatusOf(c)' = "killed"
BY Zenon DEF StatusOf

(* A step of a system call is seen at that call only.                      *)
LEMMA ViewSyscall ==
  ASSUME TypeInv, NEW c \in Calls, Syscall(c)
  PROVE  /\ Status' = [Status EXCEPT ![c] = StatusOf(c)']
         /\ Args' = [Args EXCEPT ![c] =
                       IF pc'[c] = "idle" THEN NoRequest ELSE req[c]]
         /\ KeysRead' = [KeysRead EXCEPT ![c] = KeyOf(c)']
         /\ corrupted' = corrupted
<1>1. /\ req' = req /\ corrupted' = corrupted
      /\ \A d \in Calls \ {c} :
           pc'[d] = pc[d] /\ result'[d] = result[d] /\ key'[d] = key[d]
  BY SyscallFrame, OtherBuffers
<1>2. \A d \in Calls \ {c} : StatusOf(d)' = StatusOf(d)
  BY <1>1, Zenon DEF StatusOf
<1>3. \A d \in Calls \ {c} : KeyOf(d)' = KeyOf(d)
  BY <1>1 DEF KeyOf
<1>4. Status' = [Status EXCEPT ![c] = StatusOf(c)']
  BY <1>2, Zenon DEF Status
<1>5. KeysRead' = [KeysRead EXCEPT ![c] = KeyOf(c)']
  BY <1>3, Zenon DEF KeysRead
<1>6. Args' = [Args EXCEPT ![c] =
                 IF pc'[c] = "idle" THEN NoRequest ELSE req[c]]
  BY <1>1 DEF Args
<1> QED
  BY <1>1, <1>4, <1>5, <1>6

(* Nothing of the service changes.                                         *)
LEMMA Unseen ==
  ASSUME UNCHANGED <<disk, plain, corrupted>>,
         Status' = Status, Args' = Args, KeysRead' = KeysRead
  PROVE  UNCHANGED Service!vars
BY DEF Service!vars, Status, Args, KeysRead

LEMMA ServiceInit == Init => Service!Init
<1> SUFFICES ASSUME Init PROVE Service!Init
  OBVIOUS
<1>1. Status = [c \in Calls |-> "idle"]
  BY StatusRows DEF Init, Status
<1>2. KeysRead = [c \in Calls |-> <<>>]
  BY DEF Init, KeysRead, KeyOf
<1>3. Args = [c \in Calls |-> NoRequest]
  BY DEF Init, Args
<1> QED
  BY <1>1, <1>2, <1>3 DEF Init, Service!Init, Status, KeysRead, Args
-----------------------------------------------------------------------------
(* The steps that the service shows, one by one.                           *)

(* A step of a call that has been made and that moves its status only.     *)
LEMMA Moves ==
  ASSUME TypeInv, NEW c \in Calls, Syscall(c), NEW s, StatusOf(c)' = s,
         pc[c] # "idle", pc'[c] # "idle", KeyOf(c)' = KeyOf(c)
  PROVE  /\ Status' = [Status EXCEPT ![c] = s]
         /\ UNCHANGED <<Args, KeysRead, corrupted>>
<1>1. Args' = Args
  BY ViewSyscall DEF Args
<1>2. KeysRead' = KeysRead
  BY ViewSyscall DEF KeysRead
<1> QED
  BY <1>1, <1>2, ViewSyscall

LEMMA Stutters ==
  ASSUME TypeInv, NEW c \in Calls, Syscall(c), StatusOf(c)' = StatusOf(c),
         pc[c] # "idle", pc'[c] # "idle", KeyOf(c)' = KeyOf(c),
         UNCHANGED <<disk, plain>>
  PROVE  UNCHANGED Service!vars
<1>1. Status' = [Status EXCEPT ![c] = StatusOf(c)]
  BY Moves
<1>2. Status' = Status
  BY <1>1 DEF Status
<1> QED
  BY <1>2, Moves, Unseen

LEMMA SimulateEnter ==
  ASSUME TypeInv, NEW c \in Calls, Syscall(c),
         CopyFromUser(c) \/ CopyFault(c)
  PROVE  \E r \in Requests : Service!Enter(c, r) \/ Service!Refuse(c, r)
<1>0. PICK r \in Requests : r = req[c]
  BY DEF TypeInv, VarTypes
<1>1. /\ pc[c] = "idle" /\ UNCHANGED <<disk, plain, key>>
      /\ \/ pc'[c] = "read_data"
         \/ pc'[c] = "returned" /\ result'[c] = "-EFAULT"
  BY DEF CopyFromUser, CopyFault, Goto, Return, ioVars, TypeInv, VarTypes
<1>2. /\ StatusOf(c) = "idle" /\ KeyOf(c)' = KeyOf(c)
      /\ StatusOf(c)' \in {"entered", "failed"}
  BY <1>1, StatusRows, StatusRowsNext DEF KeyOf
<1>3. KeysRead' = KeysRead
  BY <1>2, ViewSyscall DEF KeysRead
<1>4. Args' = [Args EXCEPT ![c] = r]
  BY <1>0, <1>1, ViewSyscall
<1>5. Status[c] = "idle"
  BY <1>2 DEF Status
<1>6. CASE StatusOf(c)' = "entered"
  <2>1. Status' = [Status EXCEPT ![c] = "entered"]
    BY <1>6, ViewSyscall
  <2>2. corrupted' = corrupted
    BY ViewSyscall
  <2>3. Service!Enter(c, r)
    BY <1>1, <1>3, <1>4, <1>5, <2>1, <2>2
    DEF Service!Enter, Service!Become, Status, Args, KeysRead
  <2> QED
    BY <2>3
<1>7. CASE StatusOf(c)' = "failed"
  <2>1. Status' = [Status EXCEPT ![c] = "failed"]
    BY <1>7, ViewSyscall
  <2>2. corrupted' = corrupted
    BY ViewSyscall
  <2>3. Service!Refuse(c, r)
    BY <1>1, <1>3, <1>4, <1>5, <2>1, <2>2
    DEF Service!Refuse, Service!Become, Status, Args, KeysRead
  <2> QED
    BY <2>3
<1> QED
  BY <1>2, <1>6, <1>7

(* What a loader leaves in its buffer is a snapshot of the file.           *)
LEMMA LoadedSnapshot ==
  ASSUME TypeInv, NEW f \in DOMAIN disk, NEW old \in Seq(Byte),
         0 < Len(old), Len(old) <= Len(disk[f]),
         NEW n \in ReadCounts(f, Len(old))
  PROVE  Overwrite(old, disk[f], n) \in Service!Snapshots(f)
<1> DEFINE s == Overwrite(old, disk[f], n)
<1>1. /\ disk[f] \in Seq(Byte) /\ Len(disk[f]) \in Nat
      /\ Len(old) \in Nat
  BY LenProperties DEF TypeInv, VarTypes
<1>2. /\ n \in Nat /\ n <= Len(old)
      /\ "read" \notin Faults => n = Len(old)
  BY <1>1 DEF ReadCounts
<1>3. s \in Seq(Byte) /\ Len(s) = Len(old)
  BY <1>1, <1>2, OverwriteSeq
<1>4. s \in [1 .. Len(old) -> Byte] /\ Len(old) \in 1 .. Len(disk[f])
  BY <1>1, <1>3, LenProperties
<1>5. \A k \in 1 .. n : s[k] = disk[f][k]
  BY <1>1, <1>2 DEF Overwrite
<1>6. n \in Service!Counts("read" \in Faults, Len(s))
  BY <1>1, <1>2, <1>3 DEF Service!Counts
<1> HIDE DEF s
<1>7. s \in UNION {[1 .. m -> Byte] : m \in 1 .. Len(disk[f])}
  BY <1>4
<1> QED
  BY <1>5, <1>6, <1>7 DEF Service!Snapshots, s

LEMMA SimulateReadData ==
  ASSUME TypeInv, ShapeInv, NEW c \in Calls, Syscall(c), FillData(c)
  PROVE  Service!ReadData(c)
<1> DEFINE f == req[c].src_file
<1>1. PICK n \in ReadCounts(f, Len(buf[c])) :
        buf' = [buf EXCEPT ![c] = Overwrite(@, disk[f], n)]
  BY DEF FillData
<1>2. /\ pc[c] = "fill_data" /\ pc'[c] = "load_key"
      /\ plain' = [plain EXCEPT ![c] = buf'[c]]
      /\ UNCHANGED <<disk, key>>
  BY DEF FillData, Goto, TypeInv, VarTypes
<1>3. /\ f \in DOMAIN disk /\ buf[c] \in Seq(Byte)
      /\ 0 < Len(buf[c]) /\ Len(buf[c]) <= Len(disk[f])
      /\ key[c] = <<>>
  BY <1>2 DEF TypeInv, VarTypes, FilesOpen, ShapeInv, BufferInv
<1>4. buf'[c] \in Service!Snapshots(f)
  BY <1>1, <1>3, LoadedSnapshot DEF TypeInv, VarTypes
<1>5. /\ StatusOf(c) = "entered" /\ StatusOf(c)' = "data"
      /\ KeyOf(c)' = KeyOf(c)
  BY <1>2, <1>3, StatusRows, StatusRowsNext DEF KeyOf
<1>6. Status' = [Status EXCEPT ![c] = "data"]
      /\ UNCHANGED <<Args, KeysRead, corrupted>>
  BY <1>2, <1>5, Moves
<1>7. Status[c] = "entered" /\ Args[c].src_file = f
  BY <1>2, <1>5 DEF Status, Args
<1> QED
  BY <1>2, <1>3, <1>4, <1>6, <1>7
  DEF Service!ReadData, Service!Become, Status, Args, KeysRead

LEMMA SimulateReadKey ==
  ASSUME TypeInv, ShapeInv, NEW c \in Calls, Syscall(c), FillKey(c)
  PROVE  Service!ReadKey(c)
<1> DEFINE f == req[c].key_filepath
<1>1. PICK n \in ReadCounts(f, Len(key[c])) :
        key' = [key EXCEPT ![c] = Overwrite(@, disk[f], n)]
  BY DEF FillKey
<1>2. /\ pc[c] = "fill_key" /\ pc'[c] = "alloc"
      /\ UNCHANGED <<disk, plain>>
  BY DEF FillKey, Goto, TypeInv, VarTypes
<1>3. /\ f \in DOMAIN disk /\ key[c] \in Seq(Byte)
      /\ 0 < Len(key[c]) /\ Len(key[c]) <= Len(disk[f])
  BY <1>2 DEF TypeInv, VarTypes, FilesOpen, ShapeInv, BufferInv
<1>4. key'[c] \in Service!Snapshots(f)
  BY <1>1, <1>3, LoadedSnapshot DEF TypeInv, VarTypes
<1>5. /\ StatusOf(c) = "data" /\ StatusOf(c)' = "keyed"
      /\ KeyOf(c)' = key'[c]
  BY <1>2, StatusRows, StatusRowsNext DEF KeyOf
<1>6. /\ Status' = [Status EXCEPT ![c] = "keyed"]
      /\ KeysRead' = [KeysRead EXCEPT ![c] = key'[c]]
      /\ corrupted' = corrupted
  BY <1>5, ViewSyscall
<1>7. Args' = Args
  BY <1>2, ViewSyscall DEF Args
<1>8. Status[c] = "data" /\ Args[c].key_filepath = f
  BY <1>2, <1>5 DEF Status, Args
<1> QED
  BY <1>2, <1>3, <1>4, <1>6, <1>7, <1>8
  DEF Service!ReadKey, Service!Become, Status, Args, KeysRead

LEMMA SimulateCreate ==
  ASSUME TypeInv, NEW c \in Calls, Syscall(c), SaveOpen(c)
  PROVE  Service!CreateOutput(c)
<1> DEFINE f == req[c].dest_file
<1>1. /\ pc[c] = "save" /\ pc'[c] = "write"
      /\ UNCHANGED <<plain, key>>
      /\ disk' = IF f \in DOMAIN disk THEN disk
                 ELSE [g \in DOMAIN disk \cup {f} |->
                         IF g = f THEN <<>> ELSE disk[g]]
  BY DEF SaveOpen, Goto, TypeInv, VarTypes
<1>2. disk' = [g \in DOMAIN disk \cup {f} |->
                 IF g \in DOMAIN disk THEN disk[g] ELSE <<>>]
  <2>1. disk = [g \in DOMAIN disk |-> disk[g]]
    BY DEF TypeInv, VarTypes
  <2>2. CASE f \in DOMAIN disk
    <3>1. DOMAIN disk \cup {f} = DOMAIN disk
      BY <2>2
    <3> QED
      BY <1>1, <2>1, <2>2, <3>1
  <2>3. CASE f \notin DOMAIN disk
    BY <1>1, <2>3
  <2> QED
    BY <2>2, <2>3
<1>3. /\ StatusOf(c) = "keyed" /\ StatusOf(c)' = "created"
      /\ KeyOf(c)' = KeyOf(c)
  BY <1>1, StatusRows, StatusRowsNext DEF KeyOf
<1>4. /\ Status' = [Status EXCEPT ![c] = "created"]
      /\ UNCHANGED <<Args, KeysRead, corrupted>>
  BY <1>1, <1>3, Moves
<1>5. Status[c] = "keyed" /\ Args[c].dest_file = f
  BY <1>1, <1>3 DEF Status, Args
<1> QED
  BY <1>1, <1>2, <1>4, <1>5
  DEF Service!CreateOutput, Service!Become, Status, Args, KeysRead

(* The buffer that is written is a blend of the snapshot and the           *)
(* encrypted snapshot.                                                     *)
LEMMA WrittenBlend ==
  ASSUME ServiceInv, NEW c \in Calls, pc[c] = "write"
  PROVE  buf[c] \in Service!Blends(c)
<1> USE DEF ServiceInv
<1>1. /\ buf[c] \in Seq(Byte) /\ Len(buf[c]) \in Nat
      /\ Len(plain[c]) = Len(buf[c])
      /\ KeysRead[c] = key[c]
  BY LenProperties DEF TypeInv, VarTypes, ShapeInv, BufferInv, KeysRead, KeyOf
<1>2. buf[c] \in [1 .. Len(plain[c]) -> Byte]
  BY <1>1, LenProperties
<1>3. ASSUME ~corrupted, NEW k \in 1 .. Len(plain[c])
      PROVE  buf[c][k] \in {plain[c][k],
               Xor(plain[c][k], KeysRead[c][((k - 1) % Len(KeysRead[c])) + 1])}
  <2>1. k - 1 \in 0 .. Len(buf[c]) - 1 /\ (k - 1) + 1 = k
    BY <1>1, <1>3
  <2>2. buf[c][(k - 1) + 1] = IF Processed(c, k - 1) THEN CipherByte(c, k - 1)
                              ELSE plain[c][(k - 1) + 1]
    BY <1>3, <2>1 DEF DataInv, BytesInv
  <2>3. CipherByte(c, k - 1) =
          Xor(plain[c][k], KeysRead[c][((k - 1) % Len(KeysRead[c])) + 1])
    BY <1>1, <2>1 DEF CipherByte
  <2> QED
    BY <2>1, <2>2, <2>3
<1>4. ASSUME ~corrupted, NEW k \in 1 .. Len(plain[c])
      PROVE  buf[c][k] \in {plain[c][k], Service!CipherByte(c, k)}
  BY <1>3, <1>4 DEF Service!CipherByte, KeysRead
<1> QED
  BY <1>2, <1>4 DEF Service!Blends

LEMMA SimulateWrite ==
  ASSUME ServiceInv, NEW c \in Calls, Syscall(c), SaveWrite(c)
  PROVE  Service!WriteOutput(c)
<1> USE DEF ServiceInv
<1> DEFINE f == req[c].dest_file
<1>1. PICK n \in IF "write" \in Faults THEN 0 .. Len(buf[c])
                 ELSE {Len(buf[c])} :
        disk' = [disk EXCEPT ![f] = Overwrite(@, buf[c], n)]
  BY DEF SaveWrite
<1>2. /\ pc[c] = "write" /\ pc'[c] = "cleanup" /\ result'[c] = "0"
      /\ UNCHANGED <<plain, key>>
  BY DEF SaveWrite, Goto, TypeInv, VarTypes
<1>3. /\ StatusOf(c) = "created" /\ StatusOf(c)' = "success"
      /\ KeyOf(c)' = KeyOf(c)
  BY <1>2, StatusRows, StatusRowsNext DEF KeyOf
<1>4. /\ Status' = [Status EXCEPT ![c] = "success"]
      /\ UNCHANGED <<Args, KeysRead, corrupted>>
  BY <1>2, <1>3, Moves
<1>5. Status[c] = "created" /\ Args[c].dest_file = f
  BY <1>2, <1>3 DEF Status, Args
<1>6. PICK out : out = buf[c] /\ out \in Service!Blends(c)
  BY <1>2, WrittenBlend
<1>7. disk' = [disk EXCEPT ![f] = Service!Overwrite(@, out, n)]
  BY <1>1, <1>6 DEF Overwrite, Service!Overwrite
<1>8. n \in Service!Counts("write" \in Faults, Len(plain[c]))
  <2>1. Len(plain[c]) = Len(buf[c])
    BY <1>2 DEF ShapeInv, BufferInv
  <2> QED
    BY <1>1, <2>1 DEF Service!Counts
<1>9. Service!Write(c, n)
  BY <1>2, <1>4, <1>5, <1>6, <1>7
  DEF Service!Write, Service!Become, Status, Args, KeysRead
<1> QED
  BY <1>8, <1>9 DEF Service!WriteOutput

(* The paths that return an error, and the two that kill the process.      *)
LEMMA SimulateFail ==
  ASSUME TypeInv, ShapeInv, NEW c \in Calls, Syscall(c),
         \/ ReadDataFails(c) \/ LoadKeyFails(c) \/ AllocFails(c)
         \/ SpawnFails(c) \/ SaveFails(c)
  PROVE  Service!Fail(c)
<1>1. /\ pc[c] \in {"read_data", "load_key", "alloc", "spawn", "save",
                    "write"}
      /\ pc'[c] \in {"cleanup", "returned"} /\ result'[c] # "0"
      /\ UNCHANGED <<disk, plain, key>>
  BY DEF ReadDataFails, LoadKeyFails, AllocFails, SpawnFails, SaveFails, Goto,
         Return, ioVars, TypeInv, VarTypes
<1>2. KeyOf(c)' = KeyOf(c)
  BY <1>1 DEF KeyOf, ShapeInv, BufferInv
<1>3. /\ StatusOf(c) \in {"entered", "data", "keyed", "created"}
      /\ StatusOf(c)' = "failed"
  BY <1>1, StatusRows, StatusRowsNext
<1>4. /\ Status' = [Status EXCEPT ![c] = "failed"]
      /\ UNCHANGED <<Args, KeysRead, corrupted>>
  BY <1>1, <1>2, <1>3, Moves
<1>5. Status[c] \in {"entered", "data", "keyed", "created"}
  BY <1>3 DEF Status
<1> QED
  BY <1>1, <1>4, <1>5
  DEF Service!Fail, Service!Running, Service!Become, Status, Args, KeysRead

LEMMA SimulateDie ==
  ASSUME TypeInv, NEW c \in Calls, Syscall(c),
         DivideByZero(c) \/ StopFreedTask(c)
  PROVE  Service!Die(c)
<1>1. /\ pc[c] \in {"alloc", "stop"} /\ pc'[c] = "oops"
      /\ UNCHANGED <<disk, plain, key>>
  BY DEF DivideByZero, StopFreedTask, Goto, ioVars, TypeInv, VarTypes
<1>2. /\ StatusOf(c) = "keyed" /\ StatusOf(c)' = "killed"
      /\ KeyOf(c)' = KeyOf(c)
  BY <1>1, StatusRows, StatusRowsNext DEF KeyOf
<1>3. /\ Status' = [Status EXCEPT ![c] = "killed"]
      /\ UNCHANGED <<Args, KeysRead, corrupted>>
  BY <1>1, <1>2, Moves
<1>4. Status[c] = "keyed"
  BY <1>2 DEF Status
<1> QED
  BY <1>1, <1>3, <1>4
  DEF Service!Die, Service!Become, Status, Args, KeysRead

(* The steps of a call that the service does not show.                     *)
LEMMA HiddenSyscall ==
  ASSUME TypeInv, ShapeInv, NEW c \in Calls, Syscall(c),
         \/ SizeData(c) \/ SizeKey(c) \/ AllocWorkers(c) \/ SpawnWorker(c)
         \/ StopWorker(c) \/ JoinWorker(c) \/ Cleanup(c)
  PROVE  UNCHANGED Service!vars
<1> USE DEF Goto, Return, TypeInv, VarTypes
<1>1. CASE SizeData(c)
  <2>1. /\ pc[c] = "read_data" /\ pc'[c] = "fill_data"
        /\ UNCHANGED <<disk, plain, key>>
    BY <1>1 DEF SizeData
  <2> QED
    BY <2>1, Stutters, StatusRows, StatusRowsNext DEF KeyOf
<1>2. CASE SizeKey(c)
  <2>1. /\ pc[c] = "load_key" /\ pc'[c] = "fill_key"
        /\ UNCHANGED <<disk, plain>>
    BY <1>2 DEF SizeKey
  <2> QED
    BY <2>1, Stutters, StatusRows, StatusRowsNext DEF KeyOf
<1>3. CASE \/ AllocWorkers(c) \/ SpawnWorker(c) \/ StopWorker(c)
           \/ JoinWorker(c)
  <2>1. /\ pc[c] \in {"alloc", "spawn", "stop", "join"}
        /\ pc'[c] \in {"spawn", "stop", "join", "save"}
        /\ UNCHANGED <<disk, plain, key>>
    BY <1>3
    DEF AllocWorkers, SpawnWorker, StopWorker, JoinWorker, NextWorker, ioVars
  <2> QED
    BY <2>1, Stutters, StatusRows, StatusRowsNext DEF KeyOf
<1>4. CASE Cleanup(c)
  <2>1. /\ pc[c] = "cleanup" /\ pc'[c] = "returned"
        /\ result'[c] = result[c]
        /\ UNCHANGED <<disk, plain, key>>
    BY <1>4 DEF Cleanup, ioVars
  <2>2. StatusOf(c)' = StatusOf(c)
    BY <2>1, StatusRows, StatusRowsNext
  <2> QED
    BY <2>1, <2>2, Stutters DEF KeyOf
<1> QED
  BY <1>1, <1>2, <1>3, <1>4

(* The service does not show the threads, but for the use of freed memory. *)
LEMMA SimulateWorker ==
  ASSUME ServiceInv, NEW c \in Calls, NEW i \in Slots,
         Worker(c, i) \/ FreeTask(c, i)
  PROVE  Service!Damage \/ UNCHANGED Service!vars
<1> USE DEF ServiceInv
<1>1. UNCHANGED <<disk, plain, key, pc, req, result>>
  BY WorkerFrame DEF callVars
<1>2. Status' = Status
  BY <1>1, Zenon DEF Status, StatusOf
<1>3. Args' = Args /\ KeysRead' = KeysRead
  BY <1>1 DEF Args, KeysRead, KeyOf
<1>4. CASE corrupted' = corrupted
  BY <1>1, <1>2, <1>3, <1>4, Unseen
<1>5. CASE corrupted' = TRUE
  <2>1. CorruptedOnlyBySpawnError'
    BY CorruptionNext DEF Next
  <2>2. PICK d \in Calls : result[d] = "spawn error"
    BY <1>1, <1>5, <2>1 DEF CorruptedOnlyBySpawnError
  <2>3. pc[d] \in {"cleanup", "returned"}
    BY <2>2 DEF ThreadInv
  <2>4. Status[d] = "failed"
    BY <2>2, <2>3, StatusRows DEF Status
  <2> QED
    BY <1>1, <1>2, <1>3, <1>5, <2>4
    DEF Service!Damage, Status, Args, KeysRead
<1> QED
  BY <1>4, <1>5, WorkerBuffers

LEMMA StepSimulation ==
  ServiceInv /\ [Next]_vars => [Service!Next]_(Service!vars)
<1> SUFFICES ASSUME ServiceInv, [Next]_vars
             PROVE  Service!Next \/ UNCHANGED Service!vars
  OBVIOUS
<1> USE DEF ServiceInv
<1>1. ASSUME NEW c \in Calls, Syscall(c)
      PROVE  Service!Next \/ UNCHANGED Service!vars
  <2>1. CASE CopyFromUser(c) \/ CopyFault(c)
    BY <1>1, <2>1, SimulateEnter DEF Service!Next
  <2>2. CASE FillData(c) \/ FillKey(c) \/ SaveOpen(c) \/ SaveWrite(c)
    BY <1>1, <2>2, SimulateReadData, SimulateReadKey, SimulateCreate,
       SimulateWrite
    DEF Service!Next, Service!Step
  <2>3. CASE \/ ReadDataFails(c) \/ LoadKeyFails(c) \/ AllocFails(c)
             \/ SpawnFails(c) \/ SaveFails(c)
             \/ DivideByZero(c) \/ StopFreedTask(c)
    BY <1>1, <2>3, SimulateFail, SimulateDie DEF Service!Next, Service!Step
  <2>4. CASE \/ SizeData(c) \/ SizeKey(c) \/ AllocWorkers(c)
             \/ SpawnWorker(c) \/ StopWorker(c) \/ JoinWorker(c)
             \/ Cleanup(c)
    BY <1>1, <2>4, HiddenSyscall
  <2> QED
    BY <1>1, <2>1, <2>2, <2>3, <2>4
    DEF Syscall, xor_encrypt_syscall, xor_decrypt, read_data_from_file,
        load_key_from_file, save_data_to_file, load_data, load_key, save_data
<1>2. ASSUME NEW c \in Calls, NEW i \in Slots,
             Worker(c, i) \/ FreeTask(c, i)
      PROVE  Service!Next \/ UNCHANGED Service!vars
  BY <1>2, SimulateWorker DEF Service!Next
<1>3. CASE UNCHANGED vars
  <2>1. UNCHANGED <<disk, plain, key, pc, req, result, corrupted>>
    BY <1>3 DEF vars
  <2>2. Status' = Status
    BY <2>1, Zenon DEF Status, StatusOf
  <2>3. Args' = Args /\ KeysRead' = KeysRead
    BY <2>1 DEF Args, KeysRead, KeyOf
  <2> QED
    BY <2>1, <2>2, <2>3, Unseen
<1> QED
  BY <1>1, <1>2, <1>3 DEF Next, Terminated

LEMMA ServiceInvariant == Spec => []ServiceInv
<1>1. Init => CorruptedOnlyBySpawnError
  BY DEF Init, CorruptedOnlyBySpawnError
<1>2. Spec => []CorruptedOnlyBySpawnError
  BY <1>1, ThreadsInvariant, CorruptionNext, PTL DEF Spec
<1> QED
  BY <1>2, DataInvariant, PTL DEF ServiceInv

(* The system calls implement the service: with any number of concurrent   *)
(* calls, threads and stale pointers, the only file a call changes is its  *)
(* output file, at once, and each byte it writes is clear or encrypted     *)
(* once, unless a kthread_run has failed before.                           *)
THEOREM CallsImplementService == Spec => ImplementsService
<1>1. Init => Service!Init
  BY ServiceInit
<1>2. ServiceInv /\ [Next]_vars => [Service!Next]_(Service!vars)
  BY StepSimulation
<1> QED
  BY <1>1, <1>2, ServiceInvariant, PTL
  DEF Spec, ImplementsService, Service!Spec
=============================================================================
