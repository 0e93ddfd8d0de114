------------------------------ MODULE Dashboard ------------------------------
(***************************************************************************)
(* Proyecto: the page of dashboard/src and the server of backend/app.py,   *)
(* with the network between them.  A page asks for the data when it is     *)
(* mounted, and React.StrictMode mounts it twice in a development build;   *)
(* the answers may be lost and may come in any order.                      *)
(***************************************************************************)
EXTENDS Integers

CONSTANTS
  Mounts,    \* the times the effect of App runs in one load of the page
  NULL,      \* null of JavaScript
  MaxLoads   \* bound: how often the user loads the page

VARIABLES
  up,          \* does the server run?
  served,      \* how many answers it has given: stamps the next one
  loads,       \* how often the page was loaded
  request,     \* of each mount
  answer,      \* the answer on its way to the page, if any
  memoryData   \* the state of App

vars == <<up, served, loads, request, answer, memoryData>>

(* get_fake_memory_data: what can be selected from an answer.              *)
Schema ==
  ({"memoryBreakdown"} \X {"used", "free", "cached"})
  \cup ({"memoryUsageOverTime"} \X {"time", "physicalMemory", "swapMemory"})
  \cup ({"pageFaults"} \X {"time", "minorFaults", "majorFaults"})
  \cup ({"activeInactivePages"} \X {"active", "inactive"})
  \cup ({"topProcesses"} \X {"name", "pid", "memoryUsage"})

OldSchema ==  \* mutant: the form that is commented out in the function
  {"mem_used", "mem_free", "mem_cached", "swap_used", "swap_free",
   "minor_faults", "major_faults", "active_pages", "inactive_pages"} \X {""}
  \cup ({"top_processes"} \X {"pid", "name", "mem_usage"})

OldMemoryData(n) == [stamp |-> n, fields |-> OldSchema]

get_fake_memory_data(n) == [stamp |-> n, fields |-> Schema]

ASSUME NullIsNoAnswer == NULL \notin [stamp : Nat, fields : {Schema}]

(* What the components select from it.                                     *)
MemoryPieChart == {"memoryBreakdown"} \X {"used", "free", "cached"}
MemoryLineChart ==
  {"memoryUsageOverTime"} \X {"time", "physicalMemory", "swapMemory"}
PageFaultChart == {"pageFaults"} \X {"time", "minorFaults", "majorFaults"}
ActiveInactivePagesPie == {"activeInactivePages"} \X {"active", "inactive"}
TopProcessesTable == {"topProcesses"} \X {"pid", "name", "memoryUsage"}

Selected ==
  MemoryPieChart \cup MemoryLineChart \cup PageFaultChart
  \cup ActiveInactivePagesPie \cup TopProcessesTable

Init ==
  /\ up \in BOOLEAN
  /\ served = 0
  /\ loads = 1
  /\ request = [m \in Mounts |-> "none"]
  /\ answer = [m \in Mounts |-> NULL]
  /\ memoryData = NULL

(* The effect runs: axios.get.                                             *)
UseEffect(m) ==
  /\ request[m] = "none"
  /\ request' = [request EXCEPT ![m] = "sent"]
  /\ UNCHANGED <<up, served, loads, answer, memoryData>>

(* memory_data of the server.                                              *)
memory_data(m) ==
  /\ up
  /\ request[m] = "sent"
  /\ served' = served + 1
  /\ answer' = [answer EXCEPT ![m] = get_fake_memory_data(served')]
  /\ request' = [request EXCEPT ![m] = "answered"]
  /\ UNCHANGED <<up, loads, memoryData>>

SetMemoryDataOnce(m) ==  \* mutant: only the last mount counts
  /\ request[m] = "answered"
  /\ request' = [request EXCEPT ![m] = "done"]
  /\ memoryData' = IF \E n \in Mounts : n > m THEN memoryData ELSE answer[m]
  /\ UNCHANGED <<up, served, loads, answer>>

(* The answer arrives.                                                     *)
SetMemoryData(m) ==
  /\ request[m] = "answered"
  /\ request' = [request EXCEPT ![m] = "done"]
  /\ memoryData' = answer[m]
  /\ UNCHANGED <<up, served, loads, answer>>

CatchResets(m) ==  \* mutant: after an error there are no data
  /\ request[m] \in {"sent", "answered"}
  /\ request' = [request EXCEPT ![m] = "failed"]
  /\ memoryData' = NULL
  /\ UNCHANGED <<up, served, loads, answer>>

(* The server is down, or the request or the answer is lost.               *)
Catch(m) ==
  /\ request[m] \in {"sent", "answered"}
  /\ request' = [request EXCEPT ![m] = "failed"]
  /\ UNCHANGED <<up, served, loads, answer, memoryData>>

(* The user loads the page again: all of its state is lost, and what is on *)
(* its way does not reach the new one.                                     *)
Reload ==
  /\ loads < MaxLoads
  /\ loads' = loads + 1
  /\ request' = [m \in Mounts |-> "none"]
  /\ answer' = [m \in Mounts |-> NULL]
  /\ memoryData' = NULL
  /\ UNCHANGED <<up, served>>

(* app.run(debug=True) restarts the server whenever app.py changes.        *)
Restart ==
  /\ up' = ~up
  /\ UNCHANGED <<served, loads, request, answer, memoryData>>

Effect(m) == UseEffect(m) \/ SetMemoryData(m) \/ Catch(m)

Next ==
  \/ \E m \in Mounts : Effect(m) \/ memory_data(m)
  \/ Reload
  \/ Restart

Spec == Init /\ [][Next]_vars

(* The page runs its effects, and axios settles every request: with an     *)
(* answer or with an error.  Nothing is assumed of the server.             *)
FairSpec == Spec /\ \A m \in Mounts : WF_vars(Effect(m))

(* What App returns.  A component that selects from undefined throws, and  *)
(* React unmounts the page.                                                *)
App ==
  CASE memoryData = NULL -> "Cargando datos..."
    [] memoryData # NULL /\ Selected \subseteq memoryData.fields -> "charts"
    [] OTHER -> "unmounted"
-----------------------------------------------------------------------------
(* Every field the charts and the table select is one the server sends:    *)
(* the page is never unmounted and no chart is empty.                      *)
ChartsComplete == App # "unmounted"

(* Once a page shows data it shows data until it is loaded again, even     *)
(* when the other of its two requests fails afterwards.                    *)
StaysShown ==
  [][memoryData # NULL /\ loads' = loads => memoryData' # NULL]_vars

(* A page that is not loaded again comes to show the data, unless every    *)
(* one of its requests has failed: then it says Cargando datos... for ever *)
PageSettles ==
  \A n \in 1 .. MaxLoads :
    loads = n ~> \/ loads # n
                 \/ App = "charts"
                 \/ \A m \in Mounts : request[m] = "failed"
=============================================================================
