------------------------------ MODULE Practica2 ------------------------------
(***************************************************************************)
(* The programs of Apps on top of the system calls, which are taken as     *)
(* what XorService says of them, with short reads and short writes.  The   *)
(* n-th system call of process a is the call <<a, n>>.                     *)
(***************************************************************************)
EXTENDS Apps

CONSTANTS
  Byte, Xor(_, _), InitialDisks,  \* as in XorService
  MaxCalls                        \* bound on the calls of a process

ASSUME MaxCallsNat == MaxCalls \in Nat

ASSUME InitialDisksType ==
  \A d \in InitialDisks :
    DOMAIN d \subseteq Fields /\ d \in [DOMAIN d -> Seq(Byte)]

VARIABLES
  disk, arg, status, data, key, damaged,  \* as in XorService
  made,     \* how many calls a process has made
  written   \* history: how many bytes kernel_write moved for each call

Calls == Apps \X (1 .. MaxCalls)

Kernel == INSTANCE XorService WITH
  Files <- Fields,
  Requests <- [src_file : Fields, dest_file : Fields, key_filepath : Fields,
               num_threads : Int],
  NoRequest <- NULL, ShortReads <- TRUE, ShortWrites <- TRUE

kernelVars == <<disk, arg, status, data, key, damaged>>
vars == <<appVars, kernelVars, made, written>>

Init ==
  /\ AppsInit
  /\ Kernel!Init
  /\ made = [a \in Apps |-> 0]
  /\ written = [c \in Calls |-> 0]

ArgumentsSwapped(a) ==  \* mutant: the two paths in the wrong order
  [src_file |-> archivo_salida[a], dest_file |-> archivo_entrada[a],
   key_filepath |-> archivo_clave[a], num_threads |-> num_hilos[a]]

(* The four arguments of syscall() in main().                              *)
Arguments(a) ==
  [src_file |-> archivo_entrada[a], dest_file |-> archivo_salida[a],
   key_filepath |-> archivo_clave[a], num_threads |-> num_hilos[a]]

LastCall(a) == <<a, made[a]>>

Call(a) ==
  /\ made[a] < MaxCalls
  /\ Accepted(a)
  /\ made' = [made EXCEPT ![a] = @ + 1]
  /\ Kernel!Enter(<<a, made'[a]>>, Arguments(a))
  /\ UNCHANGED written

ReturnAnyway(a) ==  \* mutant: an error of the system call is not reported
  /\ at[a] = "syscall"
  /\ \/ /\ status[LastCall(a)] \in {"success", "failed"}
        /\ SyscallReturns(a, TRUE)
     \/ /\ status[LastCall(a)] = "killed"
        /\ SyscallKills(a)
  /\ UNCHANGED <<kernelVars, made, written>>

(* The process gets the value its call returns, or dies in it.             *)
Return(a) ==
  /\ at[a] = "syscall"
  /\ \/ /\ status[LastCall(a)] \in {"success", "failed"}
        /\ SyscallReturns(a, status[LastCall(a)] = "success")
     \/ /\ status[LastCall(a)] = "killed"
        /\ SyscallKills(a)
  /\ UNCHANGED <<kernelVars, made, written>>

(* A step of the kernel for call c: Kernel!Step, with the history.         *)
Serve(c) ==
  \/ /\ \/ Kernel!ReadData(c)
        \/ Kernel!ReadKey(c)
        \/ Kernel!CreateOutput(c)
        \/ Kernel!Fail(c)
        \/ Kernel!Die(c)
     /\ UNCHANGED written
  \/ \E n \in Kernel!Counts(TRUE, Len(data[c])) :
       Kernel!Write(c, n) /\ written' = [written EXCEPT ![c] = n]

Over ==
  /\ \A a \in Apps : at[a] \in {"ended", "killed"}
  /\ UNCHANGED vars

Next ==
  \/ \E a \in Apps : Command(a) /\ UNCHANGED <<kernelVars, made, written>>
  \/ \E a \in Apps : Call(a) \/ Return(a)
  \/ \E c \in Calls : Serve(c) /\ UNCHANGED <<appVars, made>>
  \/ Kernel!Damage /\ UNCHANGED <<appVars, made, written>>
  \/ Over

Spec == Init /\ [][Next]_vars
-----------------------------------------------------------------------------
(* A file changes only while a process executes a command that names it    *)
(* after -o: no command that was refused, no data file and no key file,    *)
(* and nothing typed in another command changes one.                       *)
OnlyNamedFileChanges ==
  [][\A f \in Fields :
       (f \in DOMAIN disk' /\ (f \in DOMAIN disk => disk'[f] # disk[f])) =>
         \E a \in Apps : at[a] = "syscall" /\ Follows(a, "-o", f)]_vars

(* When a program reports success, data were read, and the output file of  *)
(* the command exists and holds at least what kernel_write moved into it,  *)
(* whatever the other processes do to that file in between.  That may be   *)
(* less than what was read, or nothing: save_data_to_file returns 0 for a  *)
(* short write, and the program reports a success all the same.            *)
SuccessLeavesOutput ==
  \A a \in Apps :
    told[a] = "success" =>
      /\ Len(data[LastCall(a)]) > 0
      /\ archivo_salida[a] \in DOMAIN disk
      /\ Len(disk[archivo_salida[a]]) >= written[LastCall(a)]
=============================================================================
