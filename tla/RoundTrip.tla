------------------------------ MODULE RoundTrip ------------------------------
(***************************************************************************)
(* Encrypting a file and then decrypting the result, as the manual of      *)
(* Practica2 has its reader do: encrypt_app and decrypt_app run one after  *)
(* the other, each in a process of its own.  The calls of XorSyscall, with *)
(* a decryption entered only when every encryption is over.                *)
(***************************************************************************)
EXTENDS XorSyscall

InTurn(c) ==
  c \in DecryptCalls /\ pc[c] = "idle" =>
    \A e \in EncryptCalls : pc[e] \in {"returned", "oops"}

(* Nothing is left to do; a decryption whose turn never comes is not made. *)
RoundTripOver ==
  /\ \A c \in Calls :
       pc[c] \in {"returned", "oops"} \/ Hangs(c) \/ ~InTurn(c)
  /\ UNCHANGED vars

RoundTripNext ==
  \/ \E c \in Calls : InTurn(c) /\ Syscall(c)
  \/ \E c \in Calls, i \in Slots : Worker(c, i) \/ FreeTask(c, i)
  \/ RoundTripOver

RoundTripSpec == Init /\ [][RoundTripNext]_vars
-----------------------------------------------------------------------------
(* The call returned 0, moved all the bytes, and ran all its workers to    *)
(* the end.  Only the last of these is not visible in the return value:    *)
(* an interrupted worker is logged as one that ended correctly.            *)
Complete(c) ==
  /\ pc[c] = "returned"
  /\ result[c] = "0"
  /\ ~short[c]
  /\ \A i \in 0 .. num_threads(c) - 1 : ret[<<c, i>>] = "0"

(* Decrypting what was encrypted, with the same key file, gives back the   *)
(* data, whatever the numbers of threads of the two calls are and whatever *)
(* the output files held before: they may only be longer.  The encryption  *)
(* must not have been written over its own key.                            *)
RoundTripRestores ==
  ~corrupted =>
    \A e \in EncryptCalls, d \in DecryptCalls :
      /\ Complete(e) /\ Complete(d)
      /\ req[d].src_file = req[e].dest_file
      /\ req[d].key_filepath = req[e].key_filepath
      /\ req[e].dest_file # req[e].key_filepath
      => /\ Len(disk[req[d].dest_file]) >= Len(plain[e])
         /\ SubSeq(disk[req[d].dest_file], 1, Len(plain[e])) = plain[e]
=============================================================================
