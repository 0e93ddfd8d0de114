----------------------------- MODULE MCRoundTrip -----------------------------
(* Instances of RoundTrip for TLC.                                         *)
EXTENDS RoundTrip, MCXorSyscall

(* in is encrypted into out, which may exist and be longer, and out is     *)
(* decrypted in place or into in.  One encryption writes over its key.     *)
RoundTripRequests ==
  {Request("in", "out", "key", n) : n \in 1 .. 2}
  \cup {Request("out", d, "key", n) : d \in {"in", "out"}, n \in 1 .. 2}
  \cup {Request("out", "in", "key", n) : n \in {-1, 0}}
  \cup {Request("in", "key", "key", 1), Request("key", "in", "key", 1)}
RoundTripDisks ==
  {[f \in {"in", "key"} |-> IF f = "in" THEN <<0, 1>> ELSE <<1, 0>>],
   [f \in FileNames |-> IF f = "in" THEN <<1>> ELSE <<1, 0>>]}
RoundTripFaults == AllFaults \ {"read"}
=============================================================================
