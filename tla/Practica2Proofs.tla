-------------------------- MODULE Practica2Proofs --------------------------
(***************************************************************************)
(* The programs together with the system calls, for any number of          *)
(* processes, commands and calls: which files change, and what a reported  *)
(* success means.                                                          *)
(***************************************************************************)
EXTENDS Practica2, AppsProofs

KernelType ==
  /\ \A f \in DOMAIN disk : disk[f] \in Seq(Byte)
  /\ DOMAIN arg = Calls
  /\ status \in [Calls -> Kernel!Statuses]
  /\ data \in [Calls -> Seq(Byte)]
  /\ made \in [Apps -> 0 .. MaxCalls]
  /\ written \in [Calls -> Nat]

(* Only the last call of a process may be running, while the process waits *)
(* for it; what a success was reported of is that call, too.               *)
CallInv(a) ==
  /\ \A n \in 1 .. MaxCalls :
       status[<<a, n>>] \in Kernel!Running =>
         at[a] = "syscall" /\ n = made[a]
  /\ at[a] = "syscall" => made[a] # 0 /\ arg[LastCall(a)] = Arguments(a)
  /\ at[a] \in {"parse", "syscall"} => told[a] # "success"
  /\ told[a] = "success" =>
       /\ made[a] # 0 /\ status[LastCall(a)] = "success"
       /\ arg[LastCall(a)].dest_file = archivo_salida[a]

(* The snapshot of a call is not empty, and once the call has succeeded    *)
(* its output file is not shorter than what the call wrote.                *)
OutputInv(c) ==
  /\ status[c] \in {"data", "keyed", "created", "success"} =>
       Len(data[c]) > 0
  /\ status[c] \in {"created", "success"} => arg[c].dest_file \in DOMAIN disk
  /\ status[c] = "success" => Len(disk[arg[c].dest_file]) >= written[c]

SessionInv ==
  /\ KernelType
  /\ \A a \in Apps : CallInv(a)
  /\ \A c \in Calls : OutputInv(c)
-----------------------------------------------------------------------------
(* The steps of the programs are those of Apps, so that what is proved of  *)
(* Apps holds here.                                                        *)
LEMMA SessionApps == [Next]_vars => [AppsNext]_appVars
<1> SUFFICES ASSUME [Next]_vars PROVE [AppsNext]_appVars
  OBVIOUS
<1>1. ASSUME NEW a \in Apps, Command(a) \/ Call(a) PROVE AppsNext
  BY <1>1 DEF Call, AppsNext, Main
<1>2. ASSUME NEW a \in Apps, Return(a) PROVE AppsNext
  <2>1. (\E ok \in BOOLEAN : SyscallReturns(a, ok)) \/ SyscallKills(a)
    BY <1>2 DEF Return
  <2> QED
    BY <2>1 DEF AppsNext
<1>3. UNCHANGED vars => UNCHANGED appVars
  BY DEF vars
<1> QED
  BY <1>1, <1>2, <1>3 DEF Next, Over

LEMMA SessionCommands == Spec => [](AppsTypeOK /\ CommandInv)
<1>1. Init => AppsInit
  BY DEF Init
<1>2. Spec => AppsSpec
  BY <1>1, SessionApps, PTL DEF Spec, AppsSpec
<1> QED
  BY <1>2, CommandInvariant, PTL
-----------------------------------------------------------------------------
(* The kernel.                                                             *)

(* An array of bytes is a sequence.                                        *)
LEMMA BytesSeq ==
  ASSUME NEW n \in Nat, NEW f \in [1 .. n -> Byte]
  PROVE  f \in Seq(Byte) /\ Len(f) = n
<1>1. f \in Seq(Byte)
  BY SeqDef
<1> QED
  BY <1>1, LenProperties

LEMMA OutputKept ==
  ASSUME NEW c, OutputInv(c),
         \A f \in DOMAIN disk :
           /\ f \in DOMAIN disk' /\ Len(disk'[f]) >= Len(disk[f])
           /\ Len(disk[f]) \in Nat /\ Len(disk'[f]) \in Nat,
         written[c] \in Nat, status'[c] = status[c], data'[c] = data[c],
         arg'[c] = arg[c], written'[c] = written[c]
  PROVE  OutputInv(c)'
BY DEF OutputInv

(* What a step of call c of the kernel does.                               *)
LEMMA KernelStep ==
  ASSUME KernelType, NEW c \in Calls, OutputInv(c), Serve(c)
  PROVE  /\ status[c] \in Kernel!Running
         /\ \E n \in Nat : written' = [written EXCEPT ![c] = n]
         /\ \E s \in Kernel!Statuses : status' = [status EXCEPT ![c] = s]
         /\ \E s \in Seq(Byte) : data' = [data EXCEPT ![c] = s]
         /\ arg' = arg
         /\ \A f \in DOMAIN disk :
              f \in DOMAIN disk' /\ Len(disk'[f]) >= Len(disk[f])
         /\ \A f \in DOMAIN disk' :
              /\ disk'[f] \in Seq(Byte)
              /\ f \in DOMAIN disk /\ f # arg[c].dest_file =>
                   disk'[f] = disk[f]
              /\ f \notin DOMAIN disk => f = arg[c].dest_file
         /\ OutputInv(c)'
<1> USE DEF KernelType, Kernel!Running, Kernel!Statuses, Kernel!Become
<1>0. /\ \A f \in DOMAIN disk : disk[f] \in Seq(Byte) /\ Len(disk[f]) \in Nat
      /\ data[c] \in Seq(Byte) /\ Len(data[c]) \in Nat
      /\ data = [data EXCEPT ![c] = data[c]]
      /\ written[c] \in Nat /\ written = [written EXCEPT ![c] = written[c]]
  BY LenProperties
<1>1. CASE Kernel!ReadData(c) /\ UNCHANGED written
  <2> DEFINE f == arg[c].src_file
  <2>1. PICK s \in Kernel!Snapshots(f) : data' = [data EXCEPT ![c] = s]
    BY <1>1 DEF Kernel!ReadData
  <2>2. PICK m \in 1 .. Len(disk[f]) : s \in [1 .. m -> Byte]
    BY DEF Kernel!Snapshots
  <2>3. m \in Nat /\ m > 0
    BY <1>0, <1>1 DEF Kernel!ReadData
  <2>4. s \in Seq(Byte) /\ Len(s) > 0
    BY <2>2, <2>3, BytesSeq
  <2>5. /\ status[c] = "entered"
        /\ status' = [status EXCEPT ![c] = "data"]
        /\ UNCHANGED <<disk, arg>>
    BY <1>1 DEF Kernel!ReadData
  <2>6. OutputInv(c)'
    BY <2>1, <2>4, <2>5 DEF OutputInv
  <2>7. /\ status[c] \in Kernel!Running
        /\ \E x \in Kernel!Statuses : status' = [status EXCEPT ![c] = x]
    BY <2>5
  <2>8. \A x \in DOMAIN disk :
          /\ x \in DOMAIN disk' /\ disk'[x] = disk[x]
          /\ Len(disk'[x]) >= Len(disk[x])
    BY <1>0, <2>5
  <2>9. \A x \in DOMAIN disk' : x \in DOMAIN disk
    BY <2>5
  <2> QED
    BY <1>0, <1>1, <2>1, <2>4, <2>5, <2>6, <2>7, <2>8, <2>9
<1>2. CASE /\ Kernel!ReadKey(c) \/ Kernel!Fail(c) \/ Kernel!Die(c)
           /\ UNCHANGED written
  <2>1. /\ status[c] \in Kernel!Running
        /\ UNCHANGED <<disk, arg, data>>
        /\ \/ status[c] = "data" /\ status' = [status EXCEPT ![c] = "keyed"]
           \/ status' = [status EXCEPT ![c] = "failed"]
           \/ status' = [status EXCEPT ![c] = "killed"]
    BY <1>2 DEF Kernel!ReadKey, Kernel!Fail, Kernel!Die
  <2>2. OutputInv(c)'
    BY <2>1 DEF OutputInv
  <2> QED
    BY <1>0, <1>2, <2>1, <2>2
<1>3. CASE Kernel!CreateOutput(c) /\ UNCHANGED written
  <2> DEFINE g == arg[c].dest_file
  <2>1. /\ status[c] = "keyed"
        /\ status' = [status EXCEPT ![c] = "created"]
        /\ disk' = [f \in DOMAIN disk \cup {g} |->
                      IF f \in DOMAIN disk THEN disk[f] ELSE <<>>]
        /\ UNCHANGED <<arg, data>>
    BY <1>3 DEF Kernel!CreateOutput
  <2>2. <<>> \in Seq(Byte)
    OBVIOUS
  <2>3. OutputInv(c)'
    BY <2>1 DEF OutputInv
  <2>4. \A f \in DOMAIN disk : f \in DOMAIN disk' /\ disk'[f] = disk[f]
    BY <2>1
  <2>5. \A f \in DOMAIN disk' : f \notin DOMAIN disk =>
          f = g /\ disk'[f] = <<>>
    BY <2>1
  <2> QED
    BY <1>0, <1>3, <2>1, <2>2, <2>3, <2>4, <2>5
<1>4. CASE \E n \in Kernel!Counts(TRUE, Len(data[c])) :
             Kernel!Write(c, n) /\ written' = [written EXCEPT ![c] = n]
  <2> DEFINE g == arg[c].dest_file
  <2>0. PICK n \in Kernel!Counts(TRUE, Len(data[c])) :
          Kernel!Write(c, n) /\ written' = [written EXCEPT ![c] = n]
    BY <1>4
  <2>1. /\ status[c] = "created"
        /\ status' = [status EXCEPT ![c] = "success"]
        /\ UNCHANGED <<arg, data>>
        /\ n \in 0 .. Len(data[c]) /\ n \in Nat
    BY <1>0, <2>0 DEF Kernel!Write, Kernel!Counts
  <2>2. PICK out \in Kernel!Blends(c) :
          disk' = [disk EXCEPT ![g] = Kernel!Overwrite(@, out, n)]
    BY <2>0 DEF Kernel!Write
  <2>3. out \in Seq(Byte) /\ Len(out) = Len(data[c])
    <3>1. out \in [1 .. Len(data[c]) -> Byte]
      BY DEF Kernel!Blends
    <3> QED
      BY <1>0, <3>1, BytesSeq
  <2>4. g \in DOMAIN disk /\ Len(data[c]) > 0
    BY <2>1 DEF OutputInv
  <2> DEFINE new == Kernel!Overwrite(disk[g], out, n)
             m == IF n > Len(disk[g]) THEN n ELSE Len(disk[g])
  <2>5. new \in Seq(Byte) /\ Len(new) = m
    <3>1. m \in Nat
      BY <1>0, <2>1, <2>4
    <3>2. \A k \in 1 .. m :
            (IF k <= n THEN out[k] ELSE disk[g][k]) \in Byte
      BY <1>0, <2>1, <2>3, <2>4, ElementOfSeq
    <3>3. new \in [1 .. m -> Byte]
      BY <3>2 DEF Kernel!Overwrite
    <3> HIDE DEF new, m
    <3> QED
      BY <3>1, <3>3, BytesSeq
  <2>6. disk' = [disk EXCEPT ![g] = new]
    BY <2>2
  <2> HIDE DEF new
  <2>7. Len(new) >= Len(disk[g]) /\ Len(new) >= n
    BY <1>0, <2>1, <2>4, <2>5
  <2>8. /\ DOMAIN disk' = DOMAIN disk
        /\ disk'[g] = new
        /\ \A f \in DOMAIN disk : f # g => disk'[f] = disk[f]
    BY <2>4, <2>6
  <2>9. OutputInv(c)'
    BY <2>0, <2>1, <2>4, <2>7, <2>8 DEF OutputInv
  <2>10. /\ status[c] \in Kernel!Running
         /\ \E x \in Kernel!Statuses : status' = [status EXCEPT ![c] = x]
         /\ \E x \in Seq(Byte) : data' = [data EXCEPT ![c] = x]
    BY <1>0, <2>1
  <2>11. \A f \in DOMAIN disk :
           f \in DOMAIN disk' /\ Len(disk'[f]) >= Len(disk[f])
    BY <1>0, <2>7, <2>8
  <2>12. \A f \in DOMAIN disk' : f \in DOMAIN disk /\ disk'[f] \in Seq(Byte)
    BY <1>0, <2>5, <2>8
  <2> QED
    BY <2>0, <2>1, <2>8, <2>9, <2>10, <2>11, <2>12
<1> QED
  BY <1>1, <1>2, <1>3, <1>4 DEF Serve

LEMMA CallFacts ==
  ASSUME KernelType, NEW a \in Apps
  PROVE  /\ \A n \in 1 .. MaxCalls : <<a, n>> \in Calls
         /\ made[a] \in Nat /\ made[a] <= MaxCalls
         /\ made[a] # 0 => LastCall(a) \in Calls
<1>1. made[a] \in 0 .. MaxCalls
  BY DEF KernelType
<1>2. made[a] \in Nat /\ made[a] <= MaxCalls
  BY <1>1, MaxCallsNat
<1>3. made[a] # 0 => made[a] \in 1 .. MaxCalls
  BY <1>2, MaxCallsNat
<1> QED
  BY <1>2, <1>3 DEF Calls, LastCall

(* The invariant of a process of which a step changes nothing.             *)
LEMMA CallKept ==
  ASSUME KernelType, NEW a \in Apps, CallInv(a), made'[a] = made[a],
         at'[a] = at[a], told'[a] = told[a],
         archivo_entrada'[a] = archivo_entrada[a],
         archivo_salida'[a] = archivo_salida[a],
         archivo_clave'[a] = archivo_clave[a], num_hilos'[a] = num_hilos[a],
         \A n \in 1 .. MaxCalls :
           /\ arg'[<<a, n>>] = arg[<<a, n>>]
           /\ \/ status'[<<a, n>>] = status[<<a, n>>]
              \/ status[<<a, n>>] \in Kernel!Running
  PROVE  CallInv(a)'
<1>1. Arguments(a)' = Arguments(a) /\ LastCall(a)' = LastCall(a)
  BY DEF Arguments, LastCall
<1>2. ASSUME made[a] # 0
      PROVE  /\ arg'[LastCall(a)] = arg[LastCall(a)]
             /\ \/ status'[LastCall(a)] = status[LastCall(a)]
                \/ status[LastCall(a)] \in Kernel!Running
  <2>1. made[a] \in 1 .. MaxCalls
    BY <1>2, CallFacts, MaxCallsNat
  <2> QED
    BY <2>1 DEF LastCall
<1>3. "success" \notin Kernel!Running
  BY DEF Kernel!Running
<1>4. \A n \in 1 .. MaxCalls :
        status'[<<a, n>>] \in Kernel!Running =>
          at'[a] = "syscall" /\ n = made'[a]
  BY DEF CallInv
<1>5. at'[a] = "syscall" =>
        made'[a] # 0 /\ arg'[LastCall(a)] = Arguments(a)'
  BY <1>1, <1>2 DEF CallInv
<1>6. at'[a] \in {"parse", "syscall"} => told'[a] # "success"
  BY DEF CallInv
<1>7. told'[a] = "success" =>
        /\ made'[a] # 0 /\ status'[LastCall(a)] = "success"
        /\ arg'[LastCall(a)].dest_file = archivo_salida'[a]
  BY <1>2, <1>3 DEF CallInv
<1> QED
  BY <1>1, <1>4, <1>5, <1>6, <1>7 DEF CallInv, Kernel!Running

LEMMA SessionKernel ==
  ASSUME SessionInv, NEW c \in Calls, Serve(c),
         UNCHANGED <<appVars, made>>
  PROVE  SessionInv'
<1>1. KernelType /\ OutputInv(c)
  BY DEF SessionInv
<1>2. /\ status[c] \in Kernel!Running
      /\ \E n \in Nat : written' = [written EXCEPT ![c] = n]
      /\ \E s \in Kernel!Statuses : status' = [status EXCEPT ![c] = s]
      /\ \E s \in Seq(Byte) : data' = [data EXCEPT ![c] = s]
      /\ arg' = arg
      /\ \A f \in DOMAIN disk :
           f \in DOMAIN disk' /\ Len(disk'[f]) >= Len(disk[f])
      /\ \A f \in DOMAIN disk' : disk'[f] \in Seq(Byte)
      /\ OutputInv(c)'
  BY <1>1, KernelStep
<1>3. KernelType'
  BY <1>1, <1>2 DEF KernelType, Kernel!Statuses, Kernel!Running
<1>4. \A d \in Calls : d # c =>
        /\ status'[d] = status[d] /\ data'[d] = data[d]
        /\ written'[d] = written[d]
  BY <1>1, <1>2 DEF KernelType
<1>5. ASSUME NEW a \in Apps PROVE CallInv(a)'
  <2>1. CallInv(a)
    BY DEF SessionInv
  <2>2. \A n \in 1 .. MaxCalls :
          \/ status'[<<a, n>>] = status[<<a, n>>]
          \/ status[<<a, n>>] \in Kernel!Running
    BY <1>1, <1>2, <1>4, CallFacts
  <2> QED
    BY <1>1, <1>2, <2>1, <2>2, CallKept DEF appVars, parsed
<1>6. ASSUME NEW d \in Calls PROVE OutputInv(d)'
  <2>1. CASE d = c
    BY <1>2, <2>1
  <2>2. CASE d # c
    <3>1. /\ OutputInv(d) /\ written[d] \in Nat
          /\ \A f \in DOMAIN disk : disk[f] \in Seq(Byte)
      BY <1>1, LenProperties DEF SessionInv, KernelType
    <3>2. \A f \in DOMAIN disk :
            Len(disk[f]) \in Nat /\ Len(disk'[f]) \in Nat
      BY <1>2, <3>1, LenProperties
    <3> QED
      BY <1>2, <1>4, <2>2, <3>1, <3>2, OutputKept
  <2> QED
    BY <2>1, <2>2
<1> QED
  BY <1>3, <1>5, <1>6 DEF SessionInv
-----------------------------------------------------------------------------
(* The programs.                                                           *)

(* A step of process a between two calls.                                  *)
LEMMA CommandTells ==
  ASSUME AppsTypeOK, NEW a \in Apps, CallInv(a), Command(a)
  PROVE  /\ at[a] # "syscall" /\ at'[a] # "syscall"
         /\ told'[a] = "success" =>
              /\ told[a] = "success" /\ at'[a] # "parse"
              /\ archivo_salida'[a] = archivo_salida[a]
<1> USE DEF AppsTypeOK, Goto, Tell, parsed
<1>1. CASE Salir(a)
  BY <1>1 DEF Salir, Fgets
<1>2. CASE ReadCommand(a)
  BY <1>2 DEF ReadCommand, Fgets
<1>3. CASE ParseOption(a)
  <2>1. /\ at[a] = "parse" /\ UNCHANGED <<at, told>>
    BY <1>3 DEF ParseOption
  <2> QED
    BY <2>1 DEF CallInv
<1>4. CASE ParseUnknown(a)
  BY <1>4 DEF ParseUnknown
<1>5. CASE Rejected(a)
  BY <1>5 DEF Rejected
<1> QED
  BY <1>1, <1>2, <1>3, <1>4, <1>5 DEF Command

(* A step of process a leaves the others alone.                            *)
LEMMA OthersKept ==
  ASSUME AppsTypeOK, SessionInv, NEW a \in Apps, Step(a), NEW x \in Apps,
         x # a, made'[x] = made[x],
         \A n \in 1 .. MaxCalls :
           /\ arg'[<<x, n>>] = arg[<<x, n>>]
           /\ status'[<<x, n>>] = status[<<x, n>>]
  PROVE  CallInv(x)'
<1>1. KernelType /\ CallInv(x)
  BY DEF SessionInv
<1> QED
  BY <1>1, OtherApps, CallKept

LEMMA SessionCommand ==
  ASSUME AppsTypeOK, SessionInv, NEW a \in Apps, Command(a),
         UNCHANGED <<kernelVars, made, written>>
  PROVE  SessionInv'
<1>1. UNCHANGED <<disk, arg, status, data, made, written>>
  BY DEF kernelVars
<1>2. KernelType' /\ \A c \in Calls : OutputInv(c)'
  BY <1>1 DEF SessionInv, KernelType, OutputInv
<1>3. CallInv(a)'
  <2>1. CallInv(a)
    BY DEF SessionInv
  <2>2. LastCall(a)' = LastCall(a)
    BY <1>1 DEF LastCall
  <2> QED
    BY <1>1, <2>1, <2>2, CommandTells DEF CallInv
<1>4. ASSUME NEW x \in Apps, x # a PROVE CallInv(x)'
  BY <1>1, <1>4, OthersKept DEF Step, Main
<1> QED
  BY <1>2, <1>3, <1>4 DEF SessionInv

LEMMA SessionReturn ==
  ASSUME AppsTypeOK, SessionInv, NEW a \in Apps, Return(a)
  PROVE  SessionInv'
<1>1. /\ UNCHANGED <<disk, arg, status, data, made, written>>
      /\ at[a] = "syscall"
      /\ status[LastCall(a)] \in {"success", "failed", "killed"}
      /\ \/ SyscallReturns(a, status[LastCall(a)] = "success")
         \/ SyscallKills(a)
  BY DEF Return, kernelVars
<1>2. KernelType' /\ \A c \in Calls : OutputInv(c)'
  BY <1>1 DEF SessionInv, KernelType, OutputInv
<1>3. CallInv(a)'
  <2>1. /\ CallInv(a) /\ LastCall(a)' = LastCall(a)
        /\ made[a] # 0 /\ arg[LastCall(a)] = Arguments(a)
        /\ told[a] # "success"
    BY <1>1 DEF SessionInv, CallInv, LastCall
  <2>2. /\ at'[a] \in {"prompt", "killed"}
        /\ archivo_salida' = archivo_salida
        /\ told'[a] = "success" => status[LastCall(a)] = "success"
    BY <1>1, <2>1
    DEF SyscallReturns, SyscallKills, Goto, Tell, parsed, AppsTypeOK
  <2>3. status[LastCall(a)] \notin Kernel!Running
    BY <1>1 DEF Kernel!Running
  <2>4. \A n \in 1 .. MaxCalls : status[<<a, n>>] \notin Kernel!Running
    BY <2>1, <2>3 DEF CallInv, LastCall
  <2>5. arg[LastCall(a)].dest_file = archivo_salida[a]
    BY <2>1 DEF Arguments
  <2> QED
    BY <1>1, <2>1, <2>2, <2>4, <2>5 DEF CallInv, Kernel!Running
<1>4. Step(a)
  <2>1. (\E ok \in BOOLEAN : SyscallReturns(a, ok)) \/ SyscallKills(a)
    BY <1>1
  <2> QED
    BY <2>1 DEF Step
<1>5. ASSUME NEW x \in Apps, x # a PROVE CallInv(x)'
  BY <1>1, <1>4, <1>5, OthersKept
<1> QED
  BY <1>2, <1>3, <1>5 DEF SessionInv

LEMMA SessionCall ==
  ASSUME AppsTypeOK, SessionInv, NEW a \in Apps, Call(a)
  PROVE  SessionInv'
<1>0. KernelType /\ CallInv(a) /\ made[a] \in Nat
  BY CallFacts DEF SessionInv
<1>1. /\ made[a] < MaxCalls /\ Accepted(a)
      /\ made' = [made EXCEPT ![a] = @ + 1]
  BY DEF Call
<1>2. made'[a] = made[a] + 1 /\ made[a] + 1 \in 1 .. MaxCalls
  BY <1>0, <1>1, MaxCallsNat DEF KernelType
<1>3. PICK c : c = <<a, made[a] + 1>>
  OBVIOUS
<1>4. c \in Calls
  BY <1>2, <1>3 DEF Calls
<1>5. /\ arg' = [arg EXCEPT ![c] = Arguments(a)]
      /\ status' = [status EXCEPT ![c] = "entered"]
      /\ UNCHANGED <<disk, data, written>>
  BY <1>2, <1>3 DEF Call, Kernel!Enter, Kernel!Become
<1>6. /\ at[a] = "parse" /\ at'[a] = "syscall"
      /\ UNCHANGED <<archivo_entrada, archivo_salida, archivo_clave,
                     num_hilos, told>>
  BY <1>1 DEF Accepted, Goto, parsed, AppsTypeOK
<1>7. KernelType'
  <2>1. made' \in [Apps -> 0 .. MaxCalls]
    BY <1>0, <1>1, <1>2, MaxCallsNat DEF KernelType
  <2> QED
    BY <1>0, <1>4, <1>5, <2>1
    DEF KernelType, Kernel!Statuses, Kernel!Running
<1>8. \A d \in Calls : d # c => status'[d] = status[d] /\ arg'[d] = arg[d]
  BY <1>0, <1>4, <1>5 DEF KernelType
<1>9. status'[c] = "entered" /\ arg'[c] = Arguments(a)
  BY <1>0, <1>4, <1>5 DEF KernelType
<1>10. CallInv(a)'
  <2>1. LastCall(a)' = c /\ Arguments(a)' = Arguments(a)
    BY <1>2, <1>3, <1>6 DEF LastCall, Arguments
  <2>2. told[a] # "success"
    BY <1>0, <1>6 DEF CallInv
  <2>3. ASSUME NEW n \in 1 .. MaxCalls, n # made'[a]
        PROVE  status'[<<a, n>>] \notin Kernel!Running
    <3>1. <<a, n>> # c /\ <<a, n>> \in Calls
      BY <1>0, <1>2, <1>3, <2>3, CallFacts
    <3>2. status[<<a, n>>] \notin Kernel!Running
      BY <1>0, <1>6 DEF CallInv
    <3> QED
      BY <1>8, <3>1, <3>2
  <2>4. made'[a] # 0
    BY <1>0, <1>2
  <2> QED
    BY <1>6, <1>9, <2>1, <2>2, <2>3, <2>4 DEF CallInv, Kernel!Running
<1>11. ASSUME NEW x \in Apps, x # a PROVE CallInv(x)'
  <2>1. made'[x] = made[x] /\ Step(a)
    BY <1>0, <1>1, <1>11 DEF KernelType, Step, Main
  <2>2. \A n \in 1 .. MaxCalls : <<x, n>> # c /\ <<x, n>> \in Calls
    BY <1>0, <1>3, <1>11, CallFacts
  <2> QED
    BY <1>8, <1>11, <2>1, <2>2, OthersKept
<1>12. ASSUME NEW d \in Calls PROVE OutputInv(d)'
  <2>1. OutputInv(d)
    BY DEF SessionInv
  <2>2. CASE d = c
    BY <1>9, <2>2 DEF OutputInv
  <2>3. CASE d # c
    BY <1>5, <1>8, <2>1, <2>3 DEF OutputInv
  <2> QED
    BY <2>2, <2>3
<1> QED
  BY <1>7, <1>10, <1>11, <1>12 DEF SessionInv

LEMMA SessionNext ==
  AppsTypeOK /\ SessionInv /\ [Next]_vars => SessionInv'
<1> SUFFICES ASSUME AppsTypeOK, SessionInv, [Next]_vars PROVE SessionInv'
  OBVIOUS
<1>1. ASSUME NEW a \in Apps,
             Command(a) /\ UNCHANGED <<kernelVars, made, written>>
      PROVE  SessionInv'
  BY <1>1, SessionCommand
<1>2. ASSUME NEW a \in Apps, Call(a) \/ Return(a) PROVE SessionInv'
  BY <1>2, SessionCall, SessionReturn
<1>3. ASSUME NEW c \in Calls, Serve(c) /\ UNCHANGED <<appVars, made>>
      PROVE  SessionInv'
  BY <1>3, SessionKernel
<1>4. ASSUME UNCHANGED <<appVars, disk, arg, status, data, made, written>>
      PROVE  SessionInv'
  BY <1>4
  DEF SessionInv, KernelType, CallInv, OutputInv, LastCall, Arguments,
      appVars, parsed
<1>5. Kernel!Damage /\ UNCHANGED <<appVars, made, written>> =>
        UNCHANGED <<appVars, disk, arg, status, data, made, written>>
  BY DEF Kernel!Damage
<1>6. UNCHANGED vars =>
        UNCHANGED <<appVars, disk, arg, status, data, made, written>>
  BY DEF vars, kernelVars
<1> QED
  BY <1>1, <1>2, <1>3, <1>4, <1>5, <1>6 DEF Next, Over

LEMMA SessionInvariant == Spec => [](AppsTypeOK /\ CommandInv /\ SessionInv)
<1>1. Init => SessionInv
  <2> SUFFICES ASSUME Init PROVE SessionInv
    OBVIOUS
  <2>1. /\ disk \in InitialDisks
        /\ arg = [c \in Calls |-> NULL]
        /\ status = [c \in Calls |-> "idle"]
        /\ data = [c \in Calls |-> <<>>]
        /\ made = [a \in Apps |-> 0]
        /\ written = [c \in Calls |-> 0]
        /\ at = [a \in Apps |-> "prompt"]
        /\ told = [a \in Apps |-> "nothing"]
    BY DEF Init, AppsInit, Kernel!Init
  <2>2. KernelType
    BY <2>1, InitialDisksType, MaxCallsNat
    DEF KernelType, Kernel!Statuses, Kernel!Running
  <2>3. ASSUME NEW a \in Apps PROVE CallInv(a)
    <3>1. \A n \in 1 .. MaxCalls : status[<<a, n>>] = "idle"
      BY <2>1, <2>2, CallFacts
    <3> QED
      BY <2>1, <3>1 DEF CallInv, Kernel!Running
  <2>4. ASSUME NEW c \in Calls PROVE OutputInv(c)
    BY <2>1 DEF OutputInv
  <2> QED
    BY <2>2, <2>3, <2>4 DEF SessionInv
<1> QED
  BY <1>1, SessionCommands, SessionNext, PTL DEF Spec
-----------------------------------------------------------------------------
(* A reported success means that data were read and that the output file   *)
(* named in the command exists and is at least as long as what was         *)
(* written, which a short kernel_write may have cut down to nothing; it    *)
(* stays so while other processes write to it.                             *)
THEOREM SuccessMeansOutput == Spec => []SuccessLeavesOutput
<1>1. SessionInv => SuccessLeavesOutput
  <2> SUFFICES ASSUME SessionInv, NEW a \in Apps, told[a] = "success"
               PROVE  /\ Len(data[LastCall(a)]) > 0
                      /\ archivo_salida[a] \in DOMAIN disk
                      /\ Len(disk[archivo_salida[a]]) >= written[LastCall(a)]
    BY DEF SuccessLeavesOutput
  <2>1. /\ made[a] # 0 /\ status[LastCall(a)] = "success"
        /\ arg[LastCall(a)].dest_file = archivo_salida[a]
    BY DEF SessionInv, CallInv
  <2>2. OutputInv(LastCall(a))
    BY <2>1, CallFacts DEF SessionInv
  <2> QED
    BY <2>1, <2>2 DEF OutputInv
<1> QED
  BY <1>1, SessionInvariant, PTL

(* The steps of the kernel change the output file of a running call only,  *)
(* and the command that makes a call is the one whose parameters it has.   *)
THEOREM FilesChangeByCommand == Spec => OnlyNamedFileChanges
<1> DEFINE Named == \A f \in Fields :
             (f \in DOMAIN disk' /\ (f \in DOMAIN disk => disk'[f] # disk[f]))
               => \E a \in Apps : at[a] = "syscall" /\ Follows(a, "-o", f)
<1>1. AppsTypeOK /\ CommandInv /\ SessionInv /\ [Next]_vars => [Named]_vars
  <2> SUFFICES ASSUME AppsTypeOK, CommandInv, SessionInv, [Next]_vars,
                      NEW f \in Fields, f \in DOMAIN disk',
                      f \in DOMAIN disk => disk'[f] # disk[f]
               PROVE  \E a \in Apps : at[a] = "syscall" /\ Follows(a, "-o", f)
    OBVIOUS
  <2>1. PICK c \in Calls : Serve(c)
    <3>1. disk' # disk
      OBVIOUS
    <3>2. \A a \in Apps : Call(a) \/ Return(a) => disk' = disk
      BY DEF Call, Return, Kernel!Enter, kernelVars
    <3>3. Kernel!Damage => disk' = disk
      BY DEF Kernel!Damage
    <3>4. UNCHANGED kernelVars \/ UNCHANGED vars => disk' = disk
      BY DEF vars, kernelVars
    <3> QED
      BY <3>1, <3>2, <3>3, <3>4 DEF Next, Over
  <2>2. status[c] \in Kernel!Running /\ f = arg[c].dest_file
    <3>1. KernelType /\ OutputInv(c)
      BY DEF SessionInv
    <3> QED
      BY <2>1, <3>1, KernelStep
  <2>3. PICK a \in Apps, n \in 1 .. MaxCalls : c = <<a, n>>
    BY DEF Calls
  <2>4. CallInv(a) /\ ParsedInv(a)
    BY DEF SessionInv, CommandInv
  <2>5. at[a] = "syscall" /\ n = made[a]
    BY <2>2, <2>3, <2>4 DEF CallInv
  <2>6. arg[c] = Arguments(a)
    BY <2>3, <2>4, <2>5 DEF CallInv, LastCall
  <2>7. f = archivo_salida[a]
    BY <2>2, <2>6 DEF Arguments
  <2>8. archivo_salida[a] # NULL
    BY <2>4, <2>5 DEF ParsedInv, Missing
  <2>9. Follows(a, "-o", f)
    BY <2>4, <2>7, <2>8 DEF ParsedInv
  <2> QED
    BY <2>5, <2>9
<1>2. Spec => [][Named]_vars
  BY <1>1, SessionInvariant, PTL DEF Spec
<1> QED
  BY <1>2 DEF OnlyNamedFileChanges
=============================================================================
