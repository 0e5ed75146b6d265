------------------------------ MODULE Platform ------------------------------
(***************************************************************************)
(* The parts of the library an application uses on their own: the actor     *)
(* bus, coroutines, worker processes, clients before and after their        *)
(* requests, requests while they are built, and a batch of requests.  They  *)
(* share no state, so a behaviour uses one of them; their properties are    *)
(* checked in one run.                                                      *)
(***************************************************************************)
EXTENDS ActorBus, Coroutine, Process, Clients, Requests, MultiSend

CONSTANT Parts   \* the parts that are checked

VARIABLE part    \* the one the application uses

platformVars ==
  <<part, vars, coVars, procVars, clientVars, requestVars, multiVars>>

NotBus == <<part, coVars, procVars, clientVars, requestVars, multiVars>>
NotCoroutines == <<part, vars, procVars, clientVars, requestVars, multiVars>>
NotProcesses == <<part, vars, coVars, clientVars, requestVars, multiVars>>
NotClients == <<part, vars, coVars, procVars, requestVars, multiVars>>
NotRequests == <<part, vars, coVars, procVars, clientVars, multiVars>>
NotBatch == <<part, vars, coVars, procVars, clientVars, requestVars>>

(* The parts that are not used have one initial state each.                 *)
PlatformInit ==
  /\ part \in Parts
  /\ Init /\ CoInit /\ ProcInit /\ ClientInit /\ RequestInit /\ MultiInit
  /\ part # "coroutines" => build = CHOOSE b \in Builds : TRUE
  /\ part # "processes" => os = "posix" /\ size = 1
  /\ part # "clients" => Backend = CHOOSE b \in ClientBackends : TRUE
  /\ part # "batch" => kind = CHOOSE k \in Kinds : ~k.async /\ k.backend = "none"

Bus(step) == part = "bus" /\ step /\ UNCHANGED NotBus
InCoroutines(step) == part = "coroutines" /\ step /\ UNCHANGED NotCoroutines
InProcesses(step) == part = "processes" /\ step /\ UNCHANGED NotProcesses
InClients(step) == part = "clients" /\ step /\ UNCHANGED NotClients
InRequests(step) == part = "requests" /\ step /\ UNCHANGED NotRequests
InBatch(step) == part = "batch" /\ step /\ UNCHANGED NotBatch

PlatformNext ==
  \/ Bus(Next)
  \/ InCoroutines(CoNext)
  \/ InProcesses(ProcNext)
  \/ InClients(ClientNext)
  \/ InRequests(RequestNext)
  \/ InBatch(MultiNext)

(* The fairness of each part, as its module justifies it.                   *)
PlatformFairness ==
  /\ WF_platformVars(Bus(abstract_http_message_bus_process))
  /\ WF_platformVars(Bus(process_begin /\ Depth = 0))
  /\ \A e \in Entities : WF_platformVars(InCoroutines(CoSteps(e)))
  /\ WF_platformVars(InProcesses(ParentSteps))
  /\ \A c \in Workers : WF_platformVars(InProcesses(WorkerSteps(c)))
  /\ WF_platformVars(InBatch(MultiSteps))
  /\ WF_platformVars(InBatch(curl_steps /\ UNCHANGED <<work, thread>>))
  /\ WF_platformVars(InBatch(worker_steps /\ UNCHANGED curl))

PlatformSpec == PlatformInit /\ [][PlatformNext]_platformVars /\ PlatformFairness

=============================================================================
