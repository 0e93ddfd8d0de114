--------------------------- MODULE DashboardProofs ---------------------------
(***************************************************************************)
(* Proofs about the page of the dashboard and its server, for any number   *)
(* of mounts and any number of loads.                                      *)
(***************************************************************************)
EXTENDS Dashboard, TLAPS

Statuses == {"none", "sent", "answered", "done", "failed"}

(* What the server has sent, and only that, is on its way to the page or   *)
(* in its state; an answer is there when the request is answered.          *)
Sent == {get_fake_memory_data(n) : n \in Nat}

PageInv ==
  /\ served \in Nat /\ loads \in Nat
  /\ request \in [Mounts -> Statuses]
  /\ answer \in [Mounts -> Sent \cup {NULL}]
  /\ memoryData \in Sent \cup {NULL}
  /\ \A m \in Mounts : request[m] = "answered" => answer[m] \in Sent
-----------------------------------------------------------------------------
(* The fields the five components select are among the fields the server   *)
(* sends: their destructuring never meets undefined.                       *)
LEMMA SelectedInSchema == Selected \subseteq Schema
  BY DEF Selected, Schema, MemoryPieChart, MemoryLineChart, PageFaultChart,
     ActiveInactivePagesPie, TopProcessesTable

LEMMA PageInit == Init => PageInv
  BY DEF Init, PageInv, Statuses

(* No step of the page, the network or the server brings anything to the   *)
(* page but what get_fake_memory_data returns.                             *)
LEMMA PageNext == PageInv /\ [Next]_vars => PageInv'
<1> SUFFICES ASSUME PageInv, [Next]_vars PROVE PageInv'
  OBVIOUS
<1> USE DEF PageInv, Statuses
<1>1. CASE UNCHANGED vars
  BY <1>1 DEF vars
<1>2. ASSUME NEW m \in Mounts, UseEffect(m) PROVE PageInv'
  BY <1>2 DEF UseEffect
<1>3. ASSUME NEW m \in Mounts, SetMemoryData(m) PROVE PageInv'
  BY <1>3 DEF SetMemoryData
<1>4. ASSUME NEW m \in Mounts, Catch(m) PROVE PageInv'
  BY <1>4 DEF Catch
<1>5. ASSUME NEW m \in Mounts, memory_data(m) PROVE PageInv'
  <2>1. served' \in Nat /\ get_fake_memory_data(served') \in Sent
    BY <1>5 DEF memory_data, Sent
  <2>2. answer' \in [Mounts -> Sent \cup {NULL}]
    BY <1>5, <2>1 DEF memory_data
  <2>3. \A n \in Mounts : request'[n] = "answered" => answer'[n] \in Sent
    BY <1>5, <2>1 DEF memory_data
  <2> QED
    BY <1>5, <2>1, <2>2, <2>3 DEF memory_data
<1>6. CASE Reload
  BY <1>6 DEF Reload
<1>7. CASE Restart
  BY <1>7 DEF Restart
<1> QED
  BY <1>1, <1>2, <1>3, <1>4, <1>5, <1>6, <1>7 DEF Next, Effect

LEMMA PageInvariant == Spec => []PageInv
  BY PageInit, PageNext, PTL DEF Spec
-----------------------------------------------------------------------------
(* An answer of the server has every field, and null is not an answer.     *)
LEMMA SentFields ==
  ASSUME NEW d \in Sent
  PROVE  Selected \subseteq d.fields /\ d # NULL
  BY SelectedInSchema, NullIsNoAnswer DEF Sent, get_fake_memory_data

(* The page is never unmounted by a field that is not there, whatever is   *)
(* lost on the way, in whichever order the answers to the two mounts       *)
(* arrive and however often the server restarts.                           *)
THEOREM ChartsAreComplete == Spec => []ChartsComplete
<1>1. PageInv => ChartsComplete
  BY SentFields DEF PageInv, ChartsComplete, App
<1> QED
  BY <1>1, PageInvariant, PTL

(* A page that shows its data shows data until it is loaded again: only    *)
(* then does memoryData become null, never by the failure or by the late   *)
(* answer of its other request.                                            *)
THEOREM DataStayShown == Spec => StaysShown
<1> DEFINE Keeps == memoryData # NULL /\ loads' = loads => memoryData' # NULL
<1>1. PageInv /\ [Next]_vars => [Keeps]_vars
  <2> SUFFICES ASSUME PageInv, Next, memoryData # NULL, loads' = loads
               PROVE  memoryData' # NULL
    OBVIOUS
  <2>1. ASSUME NEW m \in Mounts, SetMemoryData(m) PROVE memoryData' # NULL
    BY <2>1, SentFields DEF SetMemoryData, PageInv
  <2>2. ASSUME NEW m \in Mounts, UseEffect(m) \/ Catch(m) \/ memory_data(m)
        PROVE  memoryData' # NULL
    BY <2>2 DEF UseEffect, Catch, memory_data
  <2>3. CASE Reload
    BY <2>3 DEF Reload
  <2>4. CASE Restart
    BY <2>4 DEF Restart
  <2> QED
    BY <2>1, <2>2, <2>3, <2>4 DEF Next, Effect
<1> QED
  BY <1>1, PageInvariant, PTL DEF Spec, StaysShown
=============================================================================
