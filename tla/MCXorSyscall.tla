---------------------------- MODULE MCXorSyscall ----------------------------
(* Instances of XorSyscall for TLC.                                        *)
EXTENDS XorSyscall

(* Bytes of one bit.                                                       *)
Bits == {0, 1}
XorBits(a, b) == (a + b) % 2

Request(s, d, k, n) ==
  [src_file |-> s, dest_file |-> d, key_filepath |-> k, num_threads |-> n]

FileNames == {"in", "out", "key"}
NoFaults == {}
AllFaults == {"copy", "open", "read", "alloc", "spawn", "write"}

(* One call with every number of threads, including the ones the guards of *)
(* the code have to catch, data shorter and longer than the number of      *)
(* threads, and a key shorter than the data; the output file may be the    *)
(* input file.                                                             *)
EncryptRequests ==
  {Request("in", d, "key", n) : d \in {"in", "out"}, n \in -1 .. 3}
EncryptDisks ==
  {[f \in {"in", "key"} |-> IF f = "in" THEN s ELSE <<1, 0>>] :
     s \in {<<>>, <<1>>, <<0, 1, 1>>}}
  \cup {[f \in {"in", "key"} |-> IF f = "in" THEN <<0, 1>> ELSE <<1>>],
        [f \in {"key"} |-> <<1>>], [f \in {"in", "key"} |-> <<>>]}

(* One call into an output file that exists.                               *)
ClaimRequests == {Request("in", "out", "key", n) : n \in {1, 2}}
ClaimDisks ==
  {[f \in FileNames |-> IF f = "out" THEN <<0, 1, 0>> ELSE <<1, 1>>]}
=============================================================================
