----------------------------- MODULE XorService -----------------------------
(***************************************************************************)
(* What a process may expect of the system calls my_encrypt and my_decrypt *)
(* when it knows nothing of their threads, locks and buffers: the files    *)
(* and, for each call, how far it is and what it has read.                 *)
(*                                                                         *)
(* A call takes one snapshot of the data file and one of the key file,     *)
(* creates the output file if there is none, and overwrites its beginning  *)
(* at once.  Each byte it writes is the byte of the snapshot, clear or     *)
(* XORed once with the key byte of its position: the calls do not promise  *)
(* more, since a worker may be stopped at any byte.                        *)
(***************************************************************************)
EXTENDS Integers, Sequences

CONSTANTS
  Calls,         \* the invocations
  Files, Byte,   \* path names, values of an unsigned char
  Xor(_, _),     \* the ^ operator on Byte
  Requests,      \* the argument tuples a process may pass
  NoRequest,     \* the arguments of a call that has not been made
  InitialDisks,  \* the file systems a behaviour may start from
  ShortReads,    \* may kernel_read move fewer bytes than asked?
  ShortWrites    \* may kernel_write?

VARIABLES
  disk,    \* the files that exist and their contents
  arg,     \* the arguments of each call
  status,  \* how far it is
  data,    \* its snapshot of src_file
  key,     \* its snapshot of key_filepath
  damaged  \* a thread has used memory after it was freed

vars == <<disk, arg, status, data, key, damaged>>

Running == {"entered", "data", "keyed", "created"}
Statuses == Running \cup {"idle", "success", "failed", "killed"}

Init ==
  /\ disk \in InitialDisks
  /\ arg = [c \in Calls |-> NoRequest]
  /\ status = [c \in Calls |-> "idle"]
  /\ data = [c \in Calls |-> <<>>]
  /\ key = [c \in Calls |-> <<>>]
  /\ damaged = FALSE

Become(c, s) == status' = [status EXCEPT ![c] = s]

Counts(mayBeShort, n) == IF mayBeShort THEN 0 .. n ELSE {n}

(* A file is not shorter when its bytes are read than when its size was    *)
(* read; the bytes that are not moved are arbitrary.                       *)
Snapshots(f) ==
  {s \in UNION {[1 .. m -> Byte] : m \in 1 .. Len(disk[f])} :
     \E n \in Counts(ShortReads, Len(s)) : \A k \in 1 .. n : s[k] = disk[f][k]}

(* The first n bytes of old replaced by those of new.                      *)
Overwrite(old, new, n) ==
  [k \in 1 .. (IF n > Len(old) THEN n ELSE Len(old)) |->
     IF k <= n THEN new[k] ELSE old[k]]

CipherByte(c, k) == Xor(data[c][k], key[c][((k - 1) % Len(key[c])) + 1])

(* What the workers may have made of the snapshot.                         *)
Blends(c) ==
  {out \in [1 .. Len(data[c]) -> Byte] :
     damaged \/ \A k \in 1 .. Len(data[c]) :
                  out[k] \in {data[c][k], CipherByte(c, k)}}
-----------------------------------------------------------------------------
Enter(c, r) ==
  /\ status[c] = "idle"
  /\ arg' = [arg EXCEPT ![c] = r]
  /\ Become(c, "entered")
  /\ UNCHANGED <<disk, data, key, damaged>>

(* The path names cannot be copied from the process.                       *)
Refuse(c, r) ==
  /\ status[c] = "idle"
  /\ arg' = [arg EXCEPT ![c] = r]
  /\ Become(c, "failed")
  /\ UNCHANGED <<disk, data, key, damaged>>

ReadData(c) ==
  /\ status[c] = "entered"
  /\ arg[c].src_file \in DOMAIN disk
  /\ \E s \in Snapshots(arg[c].src_file) : data' = [data EXCEPT ![c] = s]
  /\ Become(c, "data")
  /\ UNCHANGED <<disk, arg, key, damaged>>

ReadKey(c) ==
  /\ status[c] = "data"
  /\ arg[c].key_filepath \in DOMAIN disk
  /\ \E s \in Snapshots(arg[c].key_filepath) : key' = [key EXCEPT ![c] = s]
  /\ Become(c, "keyed")
  /\ UNCHANGED <<disk, arg, data, damaged>>

CreateOutput(c) ==
  /\ status[c] = "keyed"
  /\ disk' = [f \in DOMAIN disk \cup {arg[c].dest_file} |->
                IF f \in DOMAIN disk THEN disk[f] ELSE <<>>]
  /\ Become(c, "created")
  /\ UNCHANGED <<arg, data, key, damaged>>

(* n bytes reach the output file; the call succeeds however few they are.  *)
Write(c, n) ==
  /\ status[c] = "created"
  /\ \E out \in Blends(c) :
       disk' = [disk EXCEPT ![arg[c].dest_file] = Overwrite(@, out, n)]
  /\ Become(c, "success")
  /\ UNCHANGED <<arg, data, key, damaged>>

WriteOutput(c) == \E n \in Counts(ShortWrites, Len(data[c])) : Write(c, n)

(* An error is returned, before or after the output file is created but    *)
(* never after it was written.                                             *)
Fail(c) ==
  /\ status[c] \in Running
  /\ Become(c, "failed")
  /\ UNCHANGED <<disk, arg, data, key, damaged>>

(* The process dies in the call: zero threads, or a thread that was freed. *)
Die(c) ==
  /\ status[c] = "keyed"
  /\ Become(c, "killed")
  /\ UNCHANGED <<disk, arg, data, key, damaged>>

(* Workers that outlive a failed call use its freed memory.                *)
Damage ==
  /\ \E c \in Calls : status[c] = "failed"
  /\ damaged' = TRUE
  /\ UNCHANGED <<disk, arg, status, data, key>>

(* A step of a call that has been made.                                    *)
Step(c) ==
  \/ ReadData(c)
  \/ ReadKey(c)
  \/ CreateOutput(c)
  \/ WriteOutput(c)
  \/ Fail(c)
  \/ Die(c)

Next ==
  \/ \E c \in Calls :
       \/ \E r \in Requests : Enter(c, r) \/ Refuse(c, r)
       \/ Step(c)
  \/ Damage

Spec == Init /\ [][Next]_vars
=============================================================================
