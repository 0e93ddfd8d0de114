--------------------------- MODULE MCXorRefinement ---------------------------
(* Instances of XorRefinement for TLC.                                     *)
EXTENDS XorRefinement, MCXorSyscall

CONSTANTS d1, d2

(* Two decryptions at once, whose workers compete for one mutex.  The output     *)
(* file of the first is the data file and the output file of the second,   *)
(* and is shorter than what the first writes into it.                      *)
ChainRequests ==
  {Request("in", "out", "key", n) : n \in 1 .. 2}
  \cup {Request("out", "out", "key", 1)}
ChainFaults == {"copy", "spawn", "write"}
ChainDisks ==
  {[f \in FileNames |->
      CASE f = "in" -> <<0, 1>> [] f = "key" -> <<1, 0>> [] f = "out" -> <<1>>]}
ChainInit == Init /\ req[d1].src_file = "in" /\ req[d2].src_file = "out"
ChainSpec == ChainInit /\ [][Next]_vars /\ Fairness
=============================================================================
