----------------------------- MODULE MCPractica2 -----------------------------
(* Instances of Practica2 for TLC.                                         *)
EXTENDS Practica2, MCApps

Bits == {0, 1}
XorBits(a, b) == (a + b) % 2

(* A session of encrypt_app and one of decrypt_app at the same time: good  *)
(* commands, commands that are refused, files that do not exist.           *)
Back == <<"-p", "out", "-o", "in", "-t", "2", "-k", "key">>
NoOutput == <<"-p", "in", "-t", "2", "-k", "key">>
SessionLines ==
  {Complete, Back, NoOutput,
   <<"-p", "0", "-o", "out", "-t", "2", "-k", "key">>,
   <<"-p", "in", "-o", "key", "-t", "0", "-k", "key">>}
SessionInputs ==
  {<<k, <<"salir">>>> : k \in SessionLines}
  \cup {<<Complete, k, <<"salir">>>> : k \in {Back, NoOutput}}
SessionGarbage == {<<"">>}
SessionDisks ==
  {[f \in {"in", "key"} |-> IF f = "in" THEN s ELSE <<1>>] :
     s \in {<<0>>, <<0, 1>>}}

(* One of the programs, either, gets one command before salir, and both do *)
(* when the data have two bytes.                                           *)
SessionInit ==
  /\ Init
  /\ \E a \in Apps : Len(input[a]) = 2
  /\ Len(disk["in"]) = 2 => \A a \in Apps : Len(input[a]) = 2
SessionSpec == SessionInit /\ [][Next]_vars
=============================================================================
