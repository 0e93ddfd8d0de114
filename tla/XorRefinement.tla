---------------------------- MODULE XorRefinement ----------------------------
(***************************************************************************)
(* The system calls as they are written, XorSyscall, implement XorService: *)
(* the threads, the mutexes, the buffers and the memory are hidden.        *)
(***************************************************************************)
EXTENDS XorSyscall

CONSTANT NoRequest  \* the arguments of a call that has not been made

(* How far a call is for a process that sees only files and outcomes.  The *)
(* outcome is settled when the call reaches its label cleanup.             *)
StatusOf(c) ==
  CASE pc[c] = "idle" -> "idle"
    [] pc[c] \in {"read_data", "fill_data"} -> "entered"
    [] pc[c] \in {"load_key", "fill_key"} -> "data"
    [] pc[c] \in {"alloc", "spawn", "stop", "join", "save"} -> "keyed"
    [] pc[c] = "write" -> "created"
    [] pc[c] \in {"cleanup", "returned"} ->
         IF result[c] = "0" THEN "success" ELSE "failed"
    [] OTHER -> "killed"

(* The key counts as read when all of it has been.                         *)
KeyOf(c) == IF pc[c] \in {"load_key", "fill_key"} THEN <<>> ELSE key[c]

Service == INSTANCE XorService WITH
  arg <- [c \in Calls |-> IF pc[c] = "idle" THEN NoRequest ELSE req[c]],
  status <- [c \in Calls |-> StatusOf(c)],
  data <- plain,
  key <- [c \in Calls |-> KeyOf(c)],
  damaged <- corrupted,
  ShortReads <- "read" \in Faults,
  ShortWrites <- "write" \in Faults

(* Whatever the threads of all the calls do, a call changes one file, its  *)
(* output file, once, and by bytes that come from one snapshot of the data *)
(* and one of the key, each clear or encrypted once, unless a call failed  *)
(* to start a worker before.                                               *)
ImplementsService == Service!Spec
=============================================================================
