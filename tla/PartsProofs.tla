----------------------------- MODULE PartsProofs -----------------------------
(***************************************************************************)
(* Parts of the platform that use no other: worker processes, clients and   *)
(* the requests that are built for them.                                    *)
(*                                                                         *)
(* For any number of workers and messages and any sizes of pipes and        *)
(* messages: no end of a pipe leaks, and a message that is read is one      *)
(* message, whole.  For any number of clients and any configurations:       *)
(* nothing leaks or is freed twice, the last configuration that was applied  *)
(* is the one in force, and the library is up while somebody needs it.  For  *)
(* any number of headers, parts of any length and cookies, with failing     *)
(* allocations: every block can be freed, and a body fits in the block that *)
(* was estimated for it.                                                   *)
(***************************************************************************)
EXTENDS Clients, Requests, Process, SequenceTheorems, FiniteSetTheorems, WellFoundedInduction, TLAPS

-----------------------------------------------------------------------------
(* The ends of pipes, who holds them and who closes them.                   *)

ProcTypes ==
  /\ holds \in [Procs -> SUBSET Ends]
  /\ handle \subseteq Ends /\ inherit \subseteq Ends
  /\ worker \in [Workers -> {"none", "forked", "running", "exited"}]
  /\ stage \in [Workers -> {"new", "piped", "spawned", "failed", "broken", "closed", "ended"}]
  /\ DOMAIN op = Procs

(* The parent waits only for a worker whose pipes it has freed.             *)
WaitsForClosed ==
  op[Parent].kind = "wait" =>
    op[Parent].pipe[1] \in Workers /\ stage[op[Parent].pipe[1]] = "closed"

EndsInv == ProcTypes /\ WaitsForClosed /\ EndsOwned

LEMMA WorkerFacts ==
  /\ Parent \in Procs /\ Parent \notin Workers /\ Workers \subseteq Procs
  /\ \A c \in Workers : EndsOf(c) \subseteq Ends
  /\ \A c, d \in Workers : c # d => EndsOf(c) \cap EndsOf(d) = {}
  /\ \A c \in Workers, way \in {"down", "up"}, e \in {"r", "w"} :
       End(c, way, e) \in EndsOf(c)
<1>1. Parent \in Procs /\ Parent \notin Workers /\ Workers \subseteq Procs
  BY ProcessBounds DEF Parent, Procs, Workers
<1>2. \A c \in Workers : EndsOf(c) \subseteq Ends
  BY DEF EndsOf, Ends, Pipes
<1>3. \A c, d \in Workers : c # d => EndsOf(c) \cap EndsOf(d) = {}
  BY DEF EndsOf
<1>4. \A c \in Workers, way \in {"down", "up"}, e \in {"r", "w"} : End(c, way, e) \in EndsOf(c)
  BY DEF EndsOf, End
<1> QED BY <1>1, <1>2, <1>3, <1>4

LEMMA CallKinds ==
  /\ Idle.kind = "idle" /\ (ParentFree => op[Parent].kind = "idle")
  /\ \A q : Writing(q).kind = "write" /\ Reading(q).kind = "read"
<1>1. Idle.kind = "idle"
  BY DEF Idle
<1>2. \A q : Writing(q).kind = "write" /\ Reading(q).kind = "read"
  BY DEF Writing, Reading
<1> QED BY <1>1, <1>2 DEF ParentFree

LEMMA EndsInit == ProcInit => EndsInv
<1> SUFFICES ASSUME ProcInit PROVE EndsInv
  OBVIOUS
<1>1. ProcTypes
  BY DEF ProcInit, ProcTypes
<1>2. WaitsForClosed
  BY WorkerFacts DEF ProcInit, WaitsForClosed, Idle
<1>3. EndsOwned
  BY WorkerFacts DEF ProcInit, EndsOwned
<1> QED BY <1>1, <1>2, <1>3 DEF EndsInv

(* A call that ends with an error: the parent gives the worker up, a worker *)
(* ends and what it held is closed.                                        *)
LEMMA ErrorKeepsEnds ==
  ASSUME EndsInv, NEW p \in Procs, op[p].kind \in {"read", "write"},
         AfterError(p, op[p].pipe), UNCHANGED <<os, size, handle, inherit, asked>>
  PROVE  EndsInv'
<1> USE WorkerFacts
<1>1. CASE p = Parent
  <2>1. /\ op' = [op EXCEPT ![Parent] = Idle]
        /\ stage' = [stage EXCEPT ![op[p].pipe[1]] = "broken"]
        /\ UNCHANGED <<worker, holds>>
    BY <1>1 DEF AfterError
  <2>2. ProcTypes'
    BY <2>1 DEF EndsInv, ProcTypes
  <2>3. op'[Parent].kind = "idle"
    BY <2>1 DEF EndsInv, ProcTypes, Idle
  <2>4. \A c \in Workers : stage'[c] \in {"closed", "ended"} => stage[c] \in {"closed", "ended"}
    BY <2>1 DEF EndsInv, ProcTypes
  <2> QED BY <2>1, <2>2, <2>3, <2>4 DEF EndsInv, WaitsForClosed, EndsOwned
<1>2. CASE p # Parent
  <2>1. p \in Workers
    BY <1>2 DEF Procs
  <2>2. /\ op' = [op EXCEPT ![p] = Idle] /\ UNCHANGED stage
        /\ worker' = [worker EXCEPT ![p] = "exited"] /\ holds' = [holds EXCEPT ![p] = {}]
    BY <1>2 DEF AfterError, Exited
  <2>3. ProcTypes'
    BY <2>1, <2>2 DEF EndsInv, ProcTypes
  <2>4. op'[Parent] = op[Parent] /\ holds'[Parent] = holds[Parent]
    BY <1>2, <2>1, <2>2 DEF EndsInv, ProcTypes
  <2>5. EndsOwned'
    BY <2>1, <2>2, <2>4 DEF EndsInv, ProcTypes, EndsOwned
  <2> QED BY <2>2, <2>3, <2>4, <2>5 DEF EndsInv, WaitsForClosed
<1> QED BY <1>1, <1>2

(* Calls that go on, or return what they read: ends and stages stay.        *)
LEMMA CallKeepsEnds ==
  ASSUME EndsInv, UNCHANGED <<stage, handle, inherit, holds, worker>>,
         NEW p \in Procs, NEW new, op' = [op EXCEPT ![p] = new],
         p = Parent => new.kind # "wait"
  PROVE  EndsInv'
<1>1. op'[Parent].kind = "wait" => op'[Parent] = op[Parent]
  BY WorkerFacts DEF EndsInv, ProcTypes
<1>2. ProcTypes' /\ WaitsForClosed'
  BY <1>1 DEF EndsInv, ProcTypes, WaitsForClosed
<1> QED BY <1>2 DEF EndsInv, EndsOwned

(* Only making, spawning, freeing and waiting move ends and stages.         *)
LEMMA EndsStep == ASSUME EndsInv, [ProcNext]_procVars PROVE EndsInv'
<1> USE WorkerFacts, CallKinds
<1>1. ASSUME NEW c \in Workers, pipe_init(c) PROVE EndsInv'
  <2>1. /\ stage' = [stage EXCEPT ![c] = "piped"] /\ handle' = handle \cup EndsOf(c)
        /\ holds' = [holds EXCEPT ![Parent] = @ \cup EndsOf(c)]
        /\ inherit' = inherit \cup EndsOf(c) /\ UNCHANGED <<op, worker>>
        /\ op[Parent].kind = "idle"
    BY <1>1 DEF pipe_init
  <2>2. holds'[Parent] = holds[Parent] \cup EndsOf(c) /\ \A d \in Workers : holds'[d] = holds[d]
    BY <2>1 DEF EndsInv, ProcTypes
  <2>3. ProcTypes'
    BY <2>1 DEF EndsInv, ProcTypes
  <2>4. \A d \in Workers : stage'[d] \in {"closed", "ended"} =>
          d # c /\ stage[d] \in {"closed", "ended"}
    BY <2>1 DEF EndsInv, ProcTypes
  <2>5. EndsOwned'
    BY <2>1, <2>2, <2>4 DEF EndsInv, EndsOwned
  <2> QED BY <2>1, <2>3, <2>5 DEF EndsInv, WaitsForClosed
<1>2. ASSUME NEW c \in Workers, posix_spawn(c) PROVE EndsInv'
  <2> DEFINE theirs == {End(c, "down", "r"), End(c, "up", "w")}
  <2>1. op' = op /\ inherit' = inherit /\ op[Parent].kind = "idle"
    BY <1>2 DEF posix_spawn
  <2>2. CASE /\ stage' = [stage EXCEPT ![c] = "spawned"]
             /\ worker' = [worker EXCEPT ![c] = "forked"]
             /\ holds' = [holds EXCEPT ![c] = holds[Parent], ![Parent] = @ \ theirs]
             /\ handle' = handle \ theirs
    <3> HIDE DEF theirs
    <3>1. /\ holds'[Parent] = holds[Parent] \ theirs
          /\ \A d \in Workers \ {c} : holds'[d] = holds[d] /\ worker'[d] = worker[d]
                                     /\ stage'[d] = stage[d]
          /\ worker'[c] = "forked" /\ stage'[c] = "spawned"
      BY <2>2 DEF EndsInv, ProcTypes
    <3>2. ProcTypes'
      <4>1. holds' \in [Procs -> SUBSET Ends] /\ handle' \subseteq Ends
        BY <2>2 DEF EndsInv, ProcTypes
      <4> QED BY <2>1, <2>2, <4>1 DEF EndsInv, ProcTypes
    <3>3. EndsOwned'
      BY <2>2, <3>1 DEF EndsInv, EndsOwned
    <3> QED BY <2>1, <3>2, <3>3 DEF EndsInv, WaitsForClosed
  <2>3. CASE /\ stage' = [stage EXCEPT ![c] = "failed"]
             /\ UNCHANGED <<worker, holds, handle>>
    <3>1. ProcTypes'
      BY <2>1, <2>3 DEF EndsInv, ProcTypes
    <3>2. EndsOwned'
      BY <2>3 DEF EndsInv, ProcTypes, EndsOwned
    <3> QED BY <2>1, <3>1, <3>2 DEF EndsInv, WaitsForClosed
  <2> QED BY <1>2, <2>2, <2>3 DEF posix_spawn
<1>3. ASSUME NEW c \in Workers, posix_exec(c) PROVE EndsInv'
  <2>1. UNCHANGED <<stage, handle, inherit, op>>
    BY <1>3 DEF posix_exec
  <2>2. PICK state \in {"running", "exited"}, kept \in SUBSET Ends :
          /\ worker' = [worker EXCEPT ![c] = state]
          /\ holds' = [holds EXCEPT ![c] = kept]
          /\ End(c, "down", "w") \notin kept /\ (state = "exited" => kept = {})
    <3>1. holds[c] \in SUBSET Ends
      BY DEF EndsInv, ProcTypes
    <3>2. CASE /\ worker' = [worker EXCEPT ![c] = "running"]
               /\ holds' = [holds EXCEPT ![c] = @ \ {End(c, "down", "w"), End(c, "up", "r")}]
      <4>1. holds[c] \ {End(c, "down", "w"), End(c, "up", "r")} \in SUBSET Ends
        BY <3>1
      <4> QED BY <3>2, <4>1
    <3>3. CASE worker' = [worker EXCEPT ![c] = "exited"] /\ holds' = [holds EXCEPT ![c] = {}]
      <4> WITNESS "exited" \in {"running", "exited"}
      <4> WITNESS {} \in SUBSET Ends
      <4> QED BY <3>3
    <3> QED BY <1>3, <3>2, <3>3 DEF posix_exec
  <2>3. ProcTypes' /\ holds'[Parent] = holds[Parent]
    BY <2>1, <2>2 DEF EndsInv, ProcTypes
  <2>4. EndsOwned'
    BY <2>1, <2>2, <2>3 DEF EndsInv, ProcTypes, EndsOwned
  <2> QED BY <2>1, <2>3, <2>4 DEF EndsInv, WaitsForClosed
<1>4. ASSUME NEW c \in Workers, win32_spawn(c) PROVE EndsInv'
  <2> DEFINE left == inherit \ {End(c, "down", "w"), End(c, "up", "r")}
  <2>1. /\ op' = op /\ handle' = handle /\ inherit' = left /\ op[Parent].kind = "idle"
        /\ left \in SUBSET Ends
    BY <1>4 DEF win32_spawn, EndsInv, ProcTypes
  <2>2. CASE /\ stage' = [stage EXCEPT ![c] = "spawned"]
             /\ worker' = [worker EXCEPT ![c] = "running"]
             /\ holds' = [holds EXCEPT ![c] = left]
    <3>1. End(c, "down", "w") \notin left
      OBVIOUS
    <3> HIDE DEF left
    <3>2. ProcTypes' /\ holds'[Parent] = holds[Parent]
      BY <2>1, <2>2 DEF EndsInv, ProcTypes
    <3>3. EndsOwned'
      BY <2>1, <2>2, <3>1, <3>2 DEF EndsInv, ProcTypes, EndsOwned
    <3> QED BY <2>1, <3>2, <3>3 DEF EndsInv, WaitsForClosed
  <2>3. CASE stage' = [stage EXCEPT ![c] = "failed"] /\ UNCHANGED <<worker, holds>>
    <3>1. ProcTypes'
      BY <2>1, <2>3 DEF EndsInv, ProcTypes
    <3>2. EndsOwned'
      BY <2>1, <2>3 DEF EndsInv, ProcTypes, EndsOwned
    <3> QED BY <2>1, <3>1, <3>2 DEF EndsInv, WaitsForClosed
  <2> QED BY <1>4, <2>2, <2>3 DEF win32_spawn
<1>5. ASSUME NEW c \in Workers, pipe_free(c) PROVE EndsInv'
  <2>1. /\ UNCHANGED <<op, worker>> /\ op[Parent].kind = "idle"
        /\ stage' = [stage EXCEPT ![c] = IF @ = "failed" THEN "ended" ELSE "closed"]
        /\ handle' = handle \ EndsOf(c) /\ inherit' = inherit \ EndsOf(c)
        /\ holds' = [holds EXCEPT ![Parent] = @ \ (EndsOf(c) \cap handle)]
    BY <1>5 DEF pipe_free
  <2>2. holds'[Parent] = holds[Parent] \ EndsOf(c) /\ \A d \in Workers : holds'[d] = holds[d]
    BY <2>1 DEF EndsInv, ProcTypes, EndsOwned
  <2>3. ProcTypes'
    BY <2>1 DEF EndsInv, ProcTypes
  <2>4. \A d \in Workers : d # c => stage'[d] = stage[d]
    BY <2>1 DEF EndsInv, ProcTypes
  <2>5. EndsOwned'
    BY <2>1, <2>2, <2>4 DEF EndsInv, EndsOwned
  <2> QED BY <2>1, <2>3, <2>5 DEF EndsInv, WaitsForClosed
<1>6. ASSUME NEW p \in Procs, ipc_steps(p) PROVE EndsInv'
  <2> DEFINE q == op[p].pipe
  <2>1. CASE ipc_write(p)
    <3>1. UNCHANGED <<stage, handle, inherit, holds, worker>> /\ op[p].kind = "write"
      BY <2>1 DEF ipc_write
    <3>2. CASE AfterWrite(p, q)
      <4> DEFINE new == Reading(IF p = Parent THEN <<q[1], "up">> ELSE <<q[1], "down">>)
      <4>1. op' = [op EXCEPT ![p] = new] /\ new.kind # "wait"
        BY <3>2, Zenon DEF AfterWrite
      <4> HIDE DEF new
      <4> QED BY <3>1, <4>1, CallKeepsEnds
    <3>3. ASSUME NEW left, op' = [op EXCEPT ![p].left = left] PROVE EndsInv'
      <4> DEFINE new == [op[p] EXCEPT !.left = left]
      <4>1. op' = [op EXCEPT ![p] = new] /\ new.kind = op[p].kind
        BY <3>1, <3>3 DEF EndsInv, ProcTypes
      <4> HIDE DEF new
      <4> QED BY <3>1, <4>1, CallKeepsEnds
    <3> QED BY <2>1, <3>2, <3>3 DEF ipc_write
  <2>2. CASE ipc_write_broken(p)
    BY <2>2, ErrorKeepsEnds DEF ipc_write_broken
  <2>3. CASE ipc_read(p)
    <3>1. CASE AfterError(p, q)
      BY <2>3, <3>1, ErrorKeepsEnds DEF ipc_read
    <3>2. CASE AfterRead(p, q) /\ UNCHANGED <<stage, worker, holds>>
      <4> DEFINE new == IF p = Parent THEN Idle ELSE Writing(<<q[1], "up">>)
      <4>1. op' = [op EXCEPT ![p] = new] /\ new.kind # "wait"
        BY <3>2, Zenon DEF AfterRead
      <4>2. UNCHANGED <<stage, handle, inherit, holds, worker>>
        BY <2>3, <3>2 DEF ipc_read
      <4> HIDE DEF new
      <4> QED BY <4>1, <4>2, CallKeepsEnds
    <3> QED BY <2>3, <3>1, <3>2 DEF ipc_read
  <2>4. CASE ipc_read_end(p)
    BY <2>4, ErrorKeepsEnds DEF ipc_read_end
  <2> QED BY <1>6, <2>1, <2>2, <2>3, <2>4 DEF ipc_steps
<1>7. ASSUME NEW c \in Workers, parent_asks(c) PROVE EndsInv'
  <2>1. /\ UNCHANGED <<stage, handle, inherit, holds, worker>>
        /\ op' = [op EXCEPT ![Parent] = Writing(<<c, "down">>)]
        /\ Writing(<<c, "down">>).kind # "wait"
    BY <1>7 DEF parent_asks, Writing
  <2> QED BY <2>1, CallKeepsEnds
<1>8. ASSUME NEW c \in Workers, worker_listens(c) PROVE EndsInv'
  <2>1. /\ UNCHANGED <<stage, handle, inherit, holds, worker>>
        /\ op' = [op EXCEPT ![c] = Reading(<<c, "down">>)] /\ c # Parent
    BY <1>8 DEF worker_listens
  <2> QED BY <2>1, CallKeepsEnds
<1>9. ASSUME NEW c \in Workers, worker_dies(c) PROVE EndsInv'
  <2>1. /\ UNCHANGED <<stage, handle, inherit>> /\ op' = [op EXCEPT ![c] = Idle]
        /\ worker' = [worker EXCEPT ![c] = "exited"] /\ holds' = [holds EXCEPT ![c] = {}]
    BY <1>9 DEF worker_dies, Exited
  <2>2. ProcTypes' /\ holds'[Parent] = holds[Parent] /\ op'[Parent] = op[Parent]
    BY <2>1 DEF EndsInv, ProcTypes
  <2>3. EndsOwned'
    BY <2>1, <2>2 DEF EndsInv, ProcTypes, EndsOwned
  <2> QED BY <2>1, <2>2, <2>3 DEF EndsInv, WaitsForClosed
<1>10. ASSUME NEW c \in Workers, wait_begins(c) PROVE EndsInv'
  <2>1. /\ UNCHANGED <<stage, handle, inherit, holds, worker>> /\ stage[c] = "closed"
        /\ op' = [op EXCEPT ![Parent] = [kind |-> "wait", pipe |-> <<c, "">>, left |-> 0]]
    BY <1>10 DEF wait_begins
  <2>2. ProcTypes' /\ op'[Parent].pipe[1] = c
    BY <2>1 DEF EndsInv, ProcTypes
  <2> QED BY <2>1, <2>2 DEF EndsInv, WaitsForClosed, EndsOwned
<1>11. CASE wait_and_free
  <2> DEFINE c == op[Parent].pipe[1]
  <2>1. /\ c \in Workers /\ stage[c] = "closed" /\ stage' = [stage EXCEPT ![c] = "ended"]
        /\ UNCHANGED <<handle, inherit>>
    BY <1>11 DEF wait_and_free, EndsInv, WaitsForClosed
  <2>2. \A d \in Workers : stage'[d] \in {"closed", "ended"} => stage[d] \in {"closed", "ended"}
    BY <2>1 DEF EndsInv, ProcTypes
  <2>3. CASE op' = [op EXCEPT ![Parent] = Idle] /\ UNCHANGED <<worker, holds>>
    <3>1. ProcTypes' /\ op'[Parent].kind = "idle"
      BY <2>1, <2>3 DEF EndsInv, ProcTypes, Idle
    <3>2. EndsOwned'
      BY <2>1, <2>2, <2>3 DEF EndsInv, EndsOwned
    <3> QED BY <3>1, <3>2 DEF EndsInv, WaitsForClosed
  <2>4. CASE Exited(c) /\ op' = [op EXCEPT ![Parent] = Idle, ![c] = Idle]
    <3> HIDE DEF c
    <3>1. worker' = [worker EXCEPT ![c] = "exited"] /\ holds' = [holds EXCEPT ![c] = {}]
      BY <2>4 DEF Exited
    <3>2. ProcTypes' /\ op'[Parent].kind = "idle" /\ holds'[Parent] = holds[Parent]
      BY <2>1, <2>4, <3>1 DEF EndsInv, ProcTypes, Idle
    <3>3. EndsOwned'
      BY <2>1, <2>2, <3>1, <3>2 DEF EndsInv, ProcTypes, EndsOwned
    <3> QED BY <3>2, <3>3 DEF EndsInv, WaitsForClosed
  <2> QED BY <1>11, <2>3, <2>4 DEF wait_and_free
<1>12. CASE UNCHANGED procVars
  BY <1>12 DEF procVars, EndsInv, ProcTypes, WaitsForClosed, EndsOwned
<1> QED
  BY <1>1, <1>2, <1>3, <1>4, <1>5, <1>6, <1>7, <1>8, <1>9, <1>10, <1>11, <1>12
     DEF ProcNext, ParentSteps, WorkerSteps

LEMMA EndsMeansOwned == EndsInv => EndsOwned
BY DEF EndsInv

(* No end of a pipe leaks or is closed twice, whatever workers do and       *)
(* whichever calls fail.                                                   *)
THEOREM EndsAlwaysOwned == ProcSpec => []EndsOwned
<1> QED BY EndsMeansOwned, EndsInit, EndsStep, PTL DEF ProcSpec

-----------------------------------------------------------------------------
(* Messages through the pipes.                                              *)

(* The message under way in a pipe, and who writes and reads it.            *)
Way(c, way) == <<c, way>>
Message(q) == IF q[2] = "down" THEN asked[q[1]] ELSE Len(taken[Way(q[1], "down")])
Writer(q) == IF q[2] = "down" THEN Parent ELSE q[1]
Reader(q) == IF q[2] = "down" THEN q[1] ELSE Parent

NoPipe == (Workers \X {""}) \cup {<<0, "">>}
Calls == [kind : {"idle", "read", "write", "wait"}, pipe : Pipes \cup NoPipe, left : Nat]
Stages == {"new", "piped", "spawned", "failed", "broken", "closed", "ended"}

MessageTypes ==
  /\ size \in Nat \ {0}
  /\ asked \in [Workers -> Nat]
  /\ buf \in [Pipes -> Seq(Nat)]
  /\ taken \in [Pipes -> Seq(Seq(Nat))]
  /\ op \in [Procs -> Calls]
  /\ stage \in [Workers -> Stages]

CallsMatch ==
  /\ \A p \in Procs : op[p].kind = "write" =>
       op[p].pipe \in Pipes /\ p = Writer(op[p].pipe) /\ op[p].left > 0
  /\ \A p \in Procs : op[p].kind = "read" => op[p].pipe \in Pipes /\ p = Reader(op[p].pipe)
  /\ op[Parent].kind = "wait" => op[Parent].pipe[1] \in Workers

(* What a pipe holds is of one message, the one after those taken from it,  *)
(* and no more than was written of it.                                     *)
Writes(q) == op[Writer(q)].kind = "write" /\ op[Writer(q)].pipe = q
OneMessage(q) ==
  /\ \A i \in DOMAIN buf[q] : buf[q][i] = Message(q)
  /\ buf[q] # <<>> => Len(taken[q]) + 1 = Message(q)
  /\ Len(buf[q]) <= size
  /\ Writes(q) => Len(taken[q]) + 1 = Message(q) /\ Len(buf[q]) + op[Writer(q)].left <= size

(* Parent and worker take turns: a worker that can be asked again has       *)
(* answered all that it was asked.                                         *)
Engaged(c) == op[Parent].kind \in {"read", "write"} /\ op[Parent].pipe[1] = c
MayBeAsked(c) == stage[c] \in {"new", "piped", "spawned"} /\ ~Engaged(c)
Turns(c) ==
  LET heard == Len(taken[Way(c, "down")])
      answered == Len(taken[Way(c, "up")])
  IN /\ answered <= heard /\ heard <= asked[c] /\ asked[c] <= answered + 1
     /\ MayBeAsked(c) => answered = asked[c]

MessageInv ==
  /\ MessageTypes /\ CallsMatch /\ MessagesWhole
  /\ \A q \in Pipes : OneMessage(q)
  /\ \A c \in Workers : Turns(c)

LEMMA PipeFacts ==
  /\ Parent \in Procs /\ Parent \notin Workers /\ Workers \subseteq Procs
  /\ \A c \in Workers : /\ Way(c, "down") \in Pipes /\ Way(c, "up") \in Pipes
                        /\ Way(c, "down")[1] = c /\ Way(c, "up")[1] = c
                        /\ Way(c, "down")[2] = "down" /\ Way(c, "up")[2] = "up"
  /\ \A q \in Pipes : /\ q[1] \in Workers /\ q[2] \in {"down", "up"}
                      /\ Writer(q) \in Procs /\ Reader(q) \in Procs
                      /\ Writer(q) # Reader(q)
<1>1. Parent \in Procs /\ Parent \notin Workers /\ Workers \subseteq Procs
  BY ProcessBounds DEF Parent, Procs, Workers
<1>2. \A c \in Workers : /\ Way(c, "down") \in Pipes /\ Way(c, "up") \in Pipes
                         /\ Way(c, "down")[1] = c /\ Way(c, "up")[1] = c
                         /\ Way(c, "down")[2] = "down" /\ Way(c, "up")[2] = "up"
  BY DEF Pipes, Way
<1>3. \A q \in Pipes : q[1] \in Workers /\ q[2] \in {"down", "up"}
  BY DEF Pipes
<1>4. \A q \in Pipes : /\ Writer(q) \in Procs /\ Reader(q) \in Procs /\ Writer(q) # Reader(q)
  <2> TAKE q \in Pipes
  <2>1. q[1] \in Workers /\ q[2] \in {"down", "up"}
    BY <1>3
  <2> QED BY <1>1, <2>1, SMT DEF Writer, Reader
<1> QED BY <1>1, <1>2, <1>3, <1>4

LEMMA PipeIsWay == \A q \in Pipes : q = Way(q[1], q[2])
BY DEF Pipes, Way

LEMMA MessageInit == ProcInit => MessageInv
<1> SUFFICES ASSUME ProcInit PROVE MessageInv
  OBVIOUS
<1> USE DEF ProcInit
<1>1. size \in Nat \ {0}
  BY ProcessBounds
<1>2. Idle \in Calls /\ Idle.kind = "idle"
  BY DEF Idle, Calls, NoPipe
<1>3. MessageTypes
  <2>1. buf \in [Pipes -> Seq(Nat)] /\ taken \in [Pipes -> Seq(Seq(Nat))]
    OBVIOUS
  <2> QED BY <1>1, <1>2, <2>1 DEF MessageTypes, Stages
<1>4. CallsMatch
  BY <1>2, PipeFacts DEF CallsMatch
<1>5. \A q \in Pipes : OneMessage(q)
  BY <1>1, <1>2, PipeFacts DEF OneMessage, Writes
<1>6. \A c \in Workers : Turns(c)
  BY PipeFacts DEF Turns
<1> QED BY <1>3, <1>4, <1>5, <1>6 DEF MessageInv, MessagesWhole

(* A step that puts nothing into a pipe and reports nothing from one.       *)
LEMMA QuietKeepsMessages ==
  ASSUME MessageInv, MessageTypes', CallsMatch', UNCHANGED <<size, asked, taken>>,
         \A q \in Pipes : buf'[q] \in {buf[q], <<>>},
         \A p \in Procs : op'[p] = op[p] \/ op'[p].kind # "write",
         \A c \in Workers : MayBeAsked(c)' => MayBeAsked(c)
  PROVE  MessageInv'
<1>1. MessagesWhole'
  BY DEF MessageInv, MessagesWhole
<1>2. ASSUME NEW q \in Pipes PROVE OneMessage(q)'
  <2>1. OneMessage(q) /\ buf'[q] \in {buf[q], <<>>} /\ Message(q)' = Message(q)
    BY DEF MessageInv, Message
  <2>2. Writes(q)' => Writes(q) /\ op'[Writer(q)] = op[Writer(q)]
    BY PipeFacts DEF Writes, Writer
  <2>3. /\ buf[q] \in Seq(Nat) /\ buf'[q] \in Seq(Nat) /\ size \in Nat
        /\ Len(<<>>) = 0 /\ DOMAIN <<>> = {} /\ Len(buf[q]) >= 0
        /\ op[Writer(q)].left \in Nat
    BY PipeFacts DEF MessageInv, MessageTypes, Calls
  <2>4. (\A i \in DOMAIN buf[q] : buf[q][i] = Message(q))'
    BY <2>1, <2>3 DEF OneMessage
  <2>5. (buf[q] # <<>> => Len(taken[q]) + 1 = Message(q))' /\ (Len(buf[q]) <= size)'
    BY <2>1, <2>3 DEF OneMessage
  <2>6. Writer(q)' = Writer(q)
    BY DEF Writer
  <2>7. (Writes(q) => Len(taken[q]) + 1 = Message(q) /\ Len(buf[q]) + op[Writer(q)].left <= size)'
    BY <2>1, <2>2, <2>3, <2>6 DEF OneMessage
  <2> QED BY <2>4, <2>5, <2>7 DEF OneMessage
<1>3. \A c \in Workers : Turns(c)'
  BY DEF MessageInv, Turns
<1> QED BY <1>1, <1>2, <1>3 DEF MessageInv

LEMMA ErrorKeepsMessages ==
  ASSUME MessageInv, NEW p \in Procs, op[p].kind \in {"read", "write"},
         AfterError(p, op[p].pipe), UNCHANGED <<size, asked, taken>>,
         buf' \in [Pipes -> Seq(Nat)], \A q \in Pipes : buf'[q] \in {buf[q], <<>>}
  PROVE  MessageInv'
<1> DEFINE q == op[p].pipe
<1>1. q \in Pipes /\ q[1] \in Workers /\ p = IF op[p].kind = "write" THEN Writer(q) ELSE Reader(q)
  BY PipeFacts DEF MessageInv, CallsMatch
<1>2. Idle \in Calls /\ Idle.kind = "idle"
  BY DEF Idle, Calls, NoPipe
<1>3. op' = [op EXCEPT ![p] = Idle]
      /\ stage' = IF p = Parent THEN [stage EXCEPT ![q[1]] = "broken"] ELSE stage
  BY DEF AfterError
<1>4. MessageTypes'
  BY <1>1, <1>2, <1>3 DEF MessageInv, MessageTypes, Stages
<1>5. CallsMatch'
  BY <1>2, <1>3, PipeFacts DEF MessageInv, MessageTypes, CallsMatch, Writer, Reader
<1>6. \A r \in Procs : op'[r] = op[r] \/ op'[r].kind # "write"
  BY <1>2, <1>3 DEF MessageInv, MessageTypes
<1>7. ASSUME NEW c \in Workers, MayBeAsked(c)' PROVE MayBeAsked(c)
  <2>1. CASE p = Parent
    BY <1>1, <1>2, <1>3, <1>7, <2>1 DEF MessageInv, MessageTypes, MayBeAsked, Engaged
  <2>2. CASE p # Parent
    BY <1>1, <1>2, <1>3, <1>7, <2>2, PipeFacts DEF MessageInv, MessageTypes, MayBeAsked, Engaged
  <2> QED BY <2>1, <2>2
<1> QED BY <1>4, <1>5, <1>6, <1>7, QuietKeepsMessages

LEMMA WriteKeepsMessages ==
  ASSUME MessageInv, NEW p \in Procs, ipc_write(p)
  PROVE  MessageInv'
<1>. PICK q, left : q = op[p].pipe /\ left = op[p].left
  OBVIOUS
<1>. PICK number : number = IF p = Parent THEN asked[q[1]] ELSE Len(taken[<<q[1], "down">>])
  OBVIOUS
<1>. PICK piece : piece = Small(left, Capacity - Len(buf[q]))
  OBVIOUS
<1> DEFINE more == [i \in 1..piece |-> number]
<1>1. q \in Pipes /\ p = Writer(q) /\ op[p].kind = "write" /\ left \in Nat \ {0} /\ Writes(q)
  BY DEF ipc_write, MessageInv, MessageTypes, CallsMatch, Calls, Writes
<1>2. /\ buf' = [buf EXCEPT ![q] = @ \o more]
      /\ op' = IF piece = left THEN [op EXCEPT ![p] = Reading(IF p = Parent THEN <<q[1], "up">>
                                                              ELSE <<q[1], "down">>)]
               ELSE [op EXCEPT ![p].left = @ - piece]
      /\ IF size <= Capacity THEN Capacity - Len(buf[q]) >= size ELSE Capacity - Len(buf[q]) > 0
      /\ UNCHANGED <<size, stage, asked, taken>>
  BY DEF ipc_write, AfterWrite
<1>3. number = Message(q) /\ number \in Nat
  <2>1. q[1] \in Workers /\ Way(q[1], "down") \in Pipes /\ (p = Parent <=> q[2] = "down")
    <3>1. q[1] \in Workers /\ Way(q[1], "down") \in Pipes /\ q[1] # Parent
      BY <1>1, PipeFacts
    <3>2. p = IF q[2] = "down" THEN Parent ELSE q[1]
      BY <1>1 DEF Writer
    <3> QED BY <3>1, <3>2
  <2>2. asked[q[1]] \in Nat /\ taken[Way(q[1], "down")] \in Seq(Seq(Nat))
    BY <2>1 DEF MessageInv, MessageTypes
  <2>3. Len(taken[Way(q[1], "down")]) \in Nat
    BY <2>2, LenProperties
  <2> QED BY <2>1, <2>2, <2>3 DEF Message, Way
<1>4. /\ buf[q] \in Seq(Nat) /\ Len(buf[q]) \in Nat /\ size \in Nat \ {0}
      /\ Len(buf[q]) + left <= size /\ Len(taken[q]) + 1 = number
      /\ \A i \in DOMAIN buf[q] : buf[q][i] = number
  <2>1. OneMessage(q) /\ Writes(q) /\ op[Writer(q)].left = left
    BY <1>1 DEF MessageInv
  <2>2. buf[q] \in Seq(Nat) /\ Len(buf[q]) \in Nat /\ size \in Nat \ {0}
    BY <1>1, LenProperties DEF MessageInv, MessageTypes
  <2> QED BY <1>3, <2>1, <2>2 DEF OneMessage
<1>5. piece \in Nat /\ piece > 0 /\ piece <= left
  <2>1. Capacity - Len(buf[q]) > 0
    BY <1>2, <1>4, ProcessBounds
  <2>2. Capacity - Len(buf[q]) \in Int
    BY <1>4, ProcessBounds
  <2> QED BY <1>1, <2>1, <2>2 DEF Small
<1>13. left \in Int /\ piece \in Int /\ Len(buf[q]) \in Int /\ size \in Int
       /\ Len(buf[q]) + left <= size /\ piece <= left
  <2>1. left \in Int
    BY <1>1
  <2>2. piece \in Int /\ piece <= left
    BY <1>5
  <2>3. Len(buf[q]) \in Int /\ size \in Int /\ Len(buf[q]) + left <= size
    BY <1>4
  <2> QED BY <2>1, <2>2, <2>3
<1>14. Len(buf[q]) + piece <= size /\ Len(buf[q]) + piece + (left - piece) <= size
  BY <1>13
<1>15. buf[q] \in Seq(Nat) /\ Len(buf[q]) \in Nat /\ DOMAIN buf[q] = 1 .. Len(buf[q])
  BY <1>4
<1>16. \A i \in DOMAIN buf[q] : buf[q][i] = number
  BY <1>4
<1>6. more \in Seq(Nat) /\ Len(more) = piece /\ DOMAIN more = 1..piece
  BY <1>3, <1>5, IsASeq
<1> HIDE DEF more
<1>7. /\ buf'[q] \in Seq(Nat) /\ Len(buf'[q]) = Len(buf[q]) + piece
      /\ \A i \in DOMAIN buf'[q] : buf'[q][i] = number
  <2>1. buf'[q] = buf[q] \o more
    BY <1>1, <1>2 DEF MessageInv, MessageTypes
  <2>2. \A i \in 1..Len(buf[q]) + piece : (buf[q] \o more)[i] = number
    <3> TAKE i \in 1..Len(buf[q]) + piece
    <3>1. (buf[q] \o more)[i] = IF i <= Len(buf[q]) THEN buf[q][i] ELSE more[i - Len(buf[q])]
      BY <1>4, <1>6, ConcatProperties
    <3>2. CASE i <= Len(buf[q])
      <4>1. i \in DOMAIN buf[q]
        BY <1>15, <3>2
      <4>2. buf[q][i] = number
        BY <1>16, <4>1
      <4> QED BY <3>1, <3>2, <4>2
    <3>3. CASE i > Len(buf[q])
      <4>1. i - Len(buf[q]) \in 1..piece
        BY <1>4, <1>5, <3>3
      <4>2. more[i - Len(buf[q])] = number
        BY <4>1 DEF more
      <4>3. ~(i <= Len(buf[q]))
        BY <1>4, <1>5, <3>3
      <4> QED BY <3>1, <4>2, <4>3
    <3>4. i \in Nat /\ Len(buf[q]) \in Nat
      BY <1>4, <1>5
    <3>5. i <= Len(buf[q]) \/ i > Len(buf[q])
      BY <3>4
    <3> QED BY <3>2, <3>3, <3>5
  <2>3. buf[q] \o more \in Seq(Nat) /\ Len(buf[q] \o more) = Len(buf[q]) + piece
    <3>1. Len(more) = piece
      BY <1>6
    <3>2. buf[q] \o more \in Seq(Nat) /\ Len(buf[q] \o more) = Len(buf[q]) + Len(more)
      BY <1>4, <1>6, ConcatProperties
    <3> QED BY <3>1, <3>2
  <2> QED BY <2>1, <2>2, <2>3, LenProperties
<1>8. /\ op \in [Procs -> Calls] /\ op' \in [Procs -> Calls]
      /\ \A r \in Procs : r # p => op'[r] = op[r]
      /\ piece = left => op'[p].kind = "read" /\ op'[p].pipe \in Pipes /\ p = Reader(op'[p].pipe)
      /\ piece # left => op'[p].kind = "write" /\ op'[p].pipe = q /\ op'[p].left = left - piece
      /\ op'[p].pipe[1] = q[1]
  <2> DEFINE back == IF p = Parent THEN <<q[1], "up">> ELSE <<q[1], "down">>
  <2>1. op \in [Procs -> Calls]
    BY DEF MessageInv, MessageTypes
  <2>2. back \in Pipes /\ p = Reader(back) /\ back[1] = q[1]
    BY <1>1, PipeFacts DEF Reader, Writer, Way
  <2>3. Reading(back) \in Calls /\ Reading(back).kind = "read" /\ Reading(back).pipe = back
    BY <1>4, <2>2 DEF Reading, Calls
  <2> HIDE DEF back
  <2>4. CASE piece = left
    BY <1>2, <2>1, <2>2, <2>3, <2>4 DEF back
  <2>5. CASE piece # left
    <3>1. op' = [op EXCEPT ![p].left = @ - piece] /\ left - piece \in Nat
      <4>1. op' = [op EXCEPT ![p].left = @ - piece]
        BY <1>2, <2>5
      <4>2. left - piece \in Nat
        BY <1>1, <1>5
      <4> QED BY <4>1, <4>2
    <3> QED BY <1>1, <2>1, <2>5, <3>1 DEF Calls
  <2> QED BY <2>1, <2>4, <2>5
<1>9. MessageTypes'
  BY <1>2, <1>7, <1>8 DEF MessageInv, MessageTypes
<1>10. CallsMatch'
  <2>1. ASSUME NEW r \in Procs, op'[r].kind = "write"
        PROVE  op'[r].pipe \in Pipes /\ r = Writer(op'[r].pipe) /\ op'[r].left > 0
    <3>1. CASE r # p
      BY <1>8, <2>1, <3>1 DEF MessageInv, CallsMatch
    <3>2. CASE r = p
      <4>1. op'[p].pipe = q /\ op'[p].left = left - piece /\ piece # left
        BY <1>8, <2>1, <3>2
      <4>2. left - piece > 0
        BY <1>1, <1>5, <4>1
      <4> QED BY <1>1, <3>2, <4>1, <4>2
    <3> QED BY <3>1, <3>2
  <2>2. ASSUME NEW r \in Procs, op'[r].kind = "read"
        PROVE  op'[r].pipe \in Pipes /\ r = Reader(op'[r].pipe)
    <3>1. CASE r # p
      BY <1>8, <2>2, <3>1 DEF MessageInv, CallsMatch
    <3>2. CASE r = p
      BY <1>8, <2>2, <3>2
    <3> QED BY <3>1, <3>2
  <2>3. op'[Parent].kind = "wait" => op'[Parent].pipe[1] \in Workers
    BY <1>8, PipeFacts DEF MessageInv, CallsMatch
  <2> QED BY <2>1, <2>2, <2>3 DEF CallsMatch, Writer, Reader
<1>11. ASSUME NEW r \in Pipes PROVE OneMessage(r)'
  <2>1. OneMessage(r) /\ Message(r)' = Message(r) /\ Writer(r)' = Writer(r) /\ taken' = taken
    BY <1>2 DEF MessageInv, Message, Writer
  <2>2. CASE r # q
    <3>1. buf'[r] = buf[r] /\ size' = size
      BY <1>2, <2>2 DEF MessageInv, MessageTypes
    <3>2. Writes(r)' => Writes(r) /\ op'[Writer(r)] = op[Writer(r)]
      BY <1>1, <1>8, <2>1, <2>2, PipeFacts DEF Writes
    <3>3. (Writes(r) => Len(taken[r]) + 1 = Message(r) /\ Len(buf[r]) + op[Writer(r)].left <= size)'
      BY <2>1, <3>1, <3>2 DEF OneMessage
    <3> QED BY <2>1, <3>1, <3>3 DEF OneMessage
  <2>3. CASE r = q
    <3>1. (\A i \in DOMAIN buf[q] : buf[q][i] = Message(q))'
      BY <1>3, <1>7, <2>1, <2>3
    <3>2. (buf[q] # <<>> => Len(taken[q]) + 1 = Message(q))' /\ (Len(buf[q]) <= size)'
      <4>1. Len(taken'[q]) + 1 = Message(q)' /\ size' = size
        BY <1>2, <1>3, <1>4, <2>1, <2>3
      <4>2. Len(buf'[q]) <= size
        <5>1. Len(buf'[q]) = Len(buf[q]) + piece
          BY <1>7
        <5> QED BY <1>14, <5>1
      <4> QED BY <4>1, <4>2
    <3>3. Writes(q)' => op'[p].left = left - piece
      BY <1>1, <1>8, <2>1, <2>3 DEF Writes
    <3>4. (Writes(q) => Len(taken[q]) + 1 = Message(q) /\ Len(buf[q]) + op[Writer(q)].left <= size)'
      <4>1. Len(taken'[q]) + 1 = Message(q)' /\ size' = size /\ Writer(q)' = p
        BY <1>1, <1>2, <1>3, <1>4, <2>1, <2>3
      <4>2. Len(buf'[q]) + (left - piece) <= size
        <5>1. Len(buf'[q]) = Len(buf[q]) + piece
          BY <1>7
        <5> QED BY <1>14, <5>1
      <4> QED BY <3>3, <4>1, <4>2
    <3> QED BY <2>3, <3>1, <3>2, <3>4 DEF OneMessage
  <2> QED BY <2>2, <2>3
<1>12. ASSUME NEW c \in Workers PROVE Turns(c)'
  <2>1. Engaged(c)' <=> Engaged(c)
    BY <1>1, <1>8, PipeFacts DEF Engaged
  <2> QED BY <1>2, <2>1 DEF MessageInv, Turns, MayBeAsked
<1> QED BY <1>2, <1>9, <1>10, <1>11, <1>12 DEF MessageInv, MessagesWhole

LEMMA ReadKeepsMessages ==
  ASSUME MessageInv, NEW p \in Procs, ipc_read(p)
  PROVE  MessageInv'
<1>. PICK q : q = op[p].pipe
  OBVIOUS
<1>. PICK n : n = Small(size, Len(buf[q]))
  OBVIOUS
<1> DEFINE got == SubSeq(buf[q], 1, n)
<1>1. q \in Pipes /\ p = Reader(q) /\ op[p].kind = "read"
  BY DEF ipc_read, MessageInv, CallsMatch
<1>2. /\ n > 0 /\ buf' = [buf EXCEPT ![q] = SubSeq(buf[q], n + 1, Len(buf[q]))]
      /\ IF n = size
         THEN /\ taken' = [taken EXCEPT ![q] = Append(taken[q], got)] /\ AfterRead(p, q)
              /\ UNCHANGED <<stage, worker, holds>>
         ELSE AfterError(p, q) /\ UNCHANGED taken
      /\ UNCHANGED <<size, asked>>
  BY DEF ipc_read
<1>3. OneMessage(q) /\ buf[q] \in Seq(Nat) /\ Len(buf[q]) \in Nat /\ size \in Nat \ {0}
  BY <1>1, LenProperties DEF MessageInv, MessageTypes
<1>4. Len(buf[q]) <= size
  BY <1>3 DEF OneMessage
<1>5. n = Len(buf[q])
  BY <1>3, <1>4 DEF Small
<1>6. buf' = [buf EXCEPT ![q] = <<>>]
  <2>1. SubSeq(buf[q], n + 1, Len(buf[q])) = <<>>
    BY <1>3, <1>5, SubSeqEmpty
  <2> QED BY <1>2, <2>1
<1>7. buf' \in [Pipes -> Seq(Nat)] /\ \A r \in Pipes : buf'[r] \in {buf[r], <<>>}
  <2>1. buf \in [Pipes -> Seq(Nat)] /\ <<>> \in Seq(Nat)
    BY DEF MessageInv, MessageTypes
  <2> QED BY <1>6, <2>1
<1>8. CASE n # size
  BY <1>1, <1>2, <1>7, <1>8, ErrorKeepsMessages
<1>9. CASE n = size
  <2>1. got = [i \in 1..size |-> Message(q)] /\ Message(q) = Len(taken[q]) + 1
    <3>1. /\ \A i \in DOMAIN buf[q] : buf[q][i] = Message(q)
          /\ buf[q] # <<>> => Len(taken[q]) + 1 = Message(q)
      BY <1>3 DEF OneMessage
    <3>2. got = [i \in 1..size |-> buf[q][i]]
      BY <1>3, <1>5, <1>9, SubSeqProperties
    <3>3. DOMAIN buf[q] = 1..size /\ buf[q] # <<>>
      BY <1>3, <1>5, <1>9, LenProperties
    <3> QED BY <3>1, <3>2, <3>3
  <2>2. got \in Seq(Nat) /\ taken \in [Pipes -> Seq(Seq(Nat))] /\ taken[q] \in Seq(Seq(Nat))
    <3>1. buf[q] = SubSeq(buf[q], 1, n)
      BY <1>3, <1>5, SubSeqFull
    <3> QED BY <1>1, <1>3, <3>1 DEF MessageInv, MessageTypes
  <2>3. taken' = [taken EXCEPT ![q] = Append(taken[q], got)] /\ stage' = stage
    BY <1>2, <1>9
  <2>4. /\ taken'[q] = Append(taken[q], got) /\ taken'[q] \in Seq(Seq(Nat))
        /\ Len(taken'[q]) = Len(taken[q]) + 1
        /\ \A r \in Pipes : r # q => taken'[r] = taken[r]
    <3>1. taken'[q] = Append(taken[q], got)
      BY <1>1, <2>2, <2>3
    <3> HIDE DEF got
    <3>2. Append(taken[q], got) \in Seq(Seq(Nat)) /\ Len(Append(taken[q], got)) = Len(taken[q]) + 1
      BY <2>2, AppendProperties
    <3> QED BY <2>2, <2>3, <3>1, <3>2
  <2>5. taken' \in [Pipes -> Seq(Seq(Nat))]
    BY <2>2, <2>3, <2>4
  <2>6. MessagesWhole'
    <3> SUFFICES ASSUME NEW r \in Pipes, NEW k \in DOMAIN taken'[r]
                 PROVE  taken'[r][k] = [i \in 1..size |-> k]
      <4>1. size' = size
        BY <1>2
      <4> QED BY <4>1 DEF MessagesWhole
    <3>1. \A j \in DOMAIN taken[r] : taken[r][j] = [i \in 1..size |-> j]
      BY DEF MessageInv, MessagesWhole
    <3>2. CASE r # q
      BY <2>4, <3>1, <3>2
    <3>3. CASE r = q
      <4> HIDE DEF got
      <4>1. k \in 1..Len(taken[q]) + 1 /\ Len(taken[q]) \in Nat /\ DOMAIN taken[q] = 1..Len(taken[q])
        BY <2>2, <2>4, <3>3, LenProperties
      <4>2. taken'[q][k] = IF k = Len(taken[q]) + 1 THEN got ELSE taken[q][k]
        BY <2>2, <2>4, <4>1, AppendProperties
      <4>3. CASE k = Len(taken[q]) + 1
        BY <2>1, <3>3, <4>2, <4>3
      <4>4. CASE k # Len(taken[q]) + 1
        <5>1. k \in DOMAIN taken[q]
          BY <4>1, <4>4
        <5> QED BY <3>1, <3>3, <4>2, <4>4, <5>1
      <4> QED BY <4>3, <4>4
    <3> QED BY <3>2, <3>3
  <2>7. PICK next_op \in Calls : /\ op' = [op EXCEPT ![p] = next_op]
                                 /\ next_op.kind = IF p = Parent THEN "idle" ELSE "write"
                                 /\ p # Parent => next_op.pipe = Way(q[1], "up") /\ next_op.left = size
    <3>1. Idle \in Calls /\ Idle.kind = "idle"
      BY DEF Idle, Calls, NoPipe
    <3>2. Way(q[1], "up") \in Pipes /\ Way(q[1], "up") = <<q[1], "up">>
      BY <1>1, PipeFacts DEF Way
    <3>3. /\ Writing(<<q[1], "up">>) \in Calls /\ Writing(<<q[1], "up">>).kind = "write"
          /\ Writing(<<q[1], "up">>).pipe = <<q[1], "up">> /\ Writing(<<q[1], "up">>).left = size
      BY <1>3, <3>2 DEF Writing, Calls
    <3>4. CASE p = Parent
      BY <1>2, <1>9, <3>1, <3>4 DEF AfterRead
    <3>5. CASE p # Parent
      <4>1. op' = [op EXCEPT ![p] = Writing(<<q[1], "up">>)]
        BY <1>2, <1>9, <3>5 DEF AfterRead
      <4> QED BY <3>2, <3>3, <3>5, <4>1
    <3> QED BY <3>4, <3>5
  <2>8. op \in [Procs -> Calls] /\ op'[p] = next_op /\ \A r \in Procs : r # p => op'[r] = op[r]
    BY <2>7 DEF MessageInv, MessageTypes
  <2>9. MessageTypes'
    <3>1. op' \in [Procs -> Calls]
      BY <2>7, <2>8
    <3>2. size' = size /\ asked' = asked
      BY <1>2
    <3> QED BY <1>7, <2>3, <2>5, <3>1, <3>2 DEF MessageInv, MessageTypes
  <2>10. \A r \in Procs : r # p => op'[r] = op[r]
    BY <2>8
  <2>11. Way(q[1], "up")[1] = q[1] /\ Way(q[1], "up")[2] = "up" /\ q[1] \in Workers
    BY <1>1, PipeFacts
  <2>12. p # Parent => /\ q[2] = "down" /\ p = q[1] /\ p \in Workers
                       /\ Way(q[1], "up") \in Pipes /\ Writer(Way(q[1], "up")) = p
    BY <1>1, <2>11, PipeFacts DEF Reader, Writer
  <2>13. p = Parent => q[2] # "down"
    <3>1. q[1] # Parent
      BY <2>11, PipeFacts
    <3> QED BY <1>1, <3>1 DEF Reader
  <2>14. CallsMatch'
    <3>1. ASSUME NEW r \in Procs, op'[r].kind = "write"
          PROVE  op'[r].pipe \in Pipes /\ r = Writer(op'[r].pipe) /\ op'[r].left > 0
      <4>1. CASE r # p
        BY <2>10, <3>1, <4>1 DEF MessageInv, CallsMatch
      <4>2. CASE r = p
        <5>1. p # Parent
          BY <2>7, <2>8, <3>1, <4>2
        <5>2. op'[r].pipe = Way(q[1], "up") /\ op'[r].left = size
          BY <2>7, <2>8, <4>2, <5>1
        <5>3. size > 0
          BY <1>3
        <5> QED BY <2>12, <4>2, <5>1, <5>2, <5>3
      <4> QED BY <4>1, <4>2
    <3>2. ASSUME NEW r \in Procs, op'[r].kind = "read"
          PROVE  op'[r].pipe \in Pipes /\ r = Reader(op'[r].pipe)
      <4>1. r # p
        <5>1. op'[p].kind \in {"idle", "write"}
          BY <2>7, <2>8
        <5> QED BY <3>2, <5>1
      <4> QED BY <2>10, <3>2, <4>1 DEF MessageInv, CallsMatch
    <3>3. op'[Parent].kind = "wait" => op'[Parent].pipe[1] \in Workers
      BY <2>7, <2>8, PipeFacts DEF MessageInv, CallsMatch
    <3> QED BY <3>1, <3>2, <3>3 DEF CallsMatch, Writer, Reader
  <2>15. ~Writes(q)
    <3> SUFFICES ASSUME Writes(q) PROVE FALSE
      OBVIOUS
    <3>1. Len(buf[q]) + op[Writer(q)].left <= size
      BY <1>3 DEF OneMessage
    <3>2. op[Writer(q)].left > 0 /\ op[Writer(q)].left \in Nat
      BY <1>1, PipeFacts DEF Writes, MessageInv, MessageTypes, CallsMatch, Calls
    <3> QED BY <1>3, <1>5, <1>9, <3>1, <3>2
  <2>16. Writes(q)' => FALSE
    <3>1. Writer(q) # p /\ Writer(q) \in Procs /\ Writer(q)' = Writer(q)
      BY <1>1, PipeFacts DEF Writer
    <3> QED BY <2>10, <2>15, <3>1 DEF Writes
  <2> DEFINE down == Way(q[1], "down")
             up == Way(q[1], "up")
             heard == Len(taken[down])
             answered == Len(taken[up])
  <2>17. /\ answered \in Nat /\ heard \in Nat /\ asked[q[1]] \in Nat
         /\ answered <= heard /\ heard <= asked[q[1]] /\ asked[q[1]] <= answered + 1
         /\ MayBeAsked(q[1]) => answered = asked[q[1]]
    <3>1. Turns(q[1]) /\ down \in Pipes /\ up \in Pipes
      BY <2>11, PipeFacts DEF MessageInv
    <3>2. answered \in Nat /\ heard \in Nat /\ asked[q[1]] \in Nat
      BY <2>2, <2>11, <3>1, LenProperties DEF MessageInv, MessageTypes
    <3> QED BY <3>1, <3>2 DEF Turns
  <2>18. Message(q)' = Message(q)
    <3>1. q[2] # "down" => down # q
      BY <2>11, PipeFacts
    <3>2. down \in Pipes
      BY <2>11, PipeFacts
    <3>3. q[2] # "down" => taken'[down] = taken[down]
      BY <2>4, <3>1, <3>2
    <3>4. asked' = asked
      BY <1>2
    <3> HIDE DEF down
    <3> QED BY <3>3, <3>4 DEF Message, down
  <2>19. OneMessage(q)'
    <3>1. buf'[q] = <<>> /\ size' = size
      BY <1>1, <1>2, <1>6 DEF MessageInv, MessageTypes
    <3>2. 0 <= size
      BY <1>3
    <3>3. Len(<<>>) = 0 /\ DOMAIN <<>> = {}
      OBVIOUS
    <3> QED BY <2>16, <3>1, <3>2, <3>3 DEF OneMessage
  <2>20. CASE p # Parent
    <3>1. q = down /\ down # up /\ heard + 1 = asked[q[1]] /\ answered = heard
      <4>1. q = down /\ down # up
        BY <1>1, <2>11, <2>12, <2>20, PipeIsWay, PipeFacts
      <4>2. heard + 1 = asked[q[1]]
        BY <2>1, <2>12, <2>20, <4>1 DEF Message
      <4> QED BY <2>17, <4>1, <4>2
    <3>2. Message(up)' = heard + 1 /\ Message(up) = heard
      BY <2>4, <2>11, <3>1 DEF Message
    <3>3. OneMessage(up)'
      <4>1. OneMessage(up) /\ up \in Pipes /\ up # q
        BY <2>12, <2>20, <3>1 DEF MessageInv
      <4>2. buf[up] = <<>>
        BY <2>17, <3>1, <3>2, <4>1 DEF OneMessage
      <4>3. buf'[up] = <<>> /\ taken'[up] = taken[up] /\ size' = size
        BY <1>2, <1>7, <2>4, <4>1, <4>2
      <4>4. Len(taken'[up]) + 1 = Message(up)'
        BY <3>1, <3>2, <4>3
      <4>5. Writes(up)' => op'[Writer(up)].left = size
        BY <2>7, <2>8, <2>12, <2>20 DEF Writes
      <4>6. Writer(up)' = Writer(up)
        BY DEF Writer
      <4>7. Len(<<>>) = 0 /\ DOMAIN <<>> = {} /\ 0 <= size /\ 0 + size <= size
        BY <1>3
      <4> QED BY <4>3, <4>4, <4>5, <4>6, <4>7 DEF OneMessage
    <3>4. \A r \in Pipes : r # q /\ r # up => OneMessage(r)'
      <4> SUFFICES ASSUME NEW r \in Pipes, r # q, r # up PROVE OneMessage(r)'
        OBVIOUS
      <4>1. r[1] # q[1]
        BY <2>20, <3>1, PipeFacts, PipeIsWay
      <4>2. Way(r[1], "down") \in Pipes /\ Way(r[1], "down") # q
        BY <2>11, <4>1, PipeFacts
      <4>3. Message(r)' = Message(r)
        BY <1>2, <2>4, <4>2 DEF Message
      <4>4. Writer(r)' = Writer(r) /\ Writer(r) # p /\ Writer(r) \in Procs
        BY <2>12, <2>20, <4>1, PipeFacts DEF Writer
      <4>5. OneMessage(r) /\ buf'[r] = buf[r] /\ taken'[r] = taken[r] /\ size' = size
        BY <1>2, <1>6, <2>4 DEF MessageInv, MessageTypes
      <4>6. op'[Writer(r)] = op[Writer(r)]
        BY <2>10, <4>4
      <4>7. Writes(r)' <=> Writes(r)
        BY <4>4, <4>6 DEF Writes
      <4> QED BY <4>3, <4>4, <4>5, <4>6, <4>7 DEF OneMessage
    <3>5. \A c \in Workers : Turns(c)'
      <4> SUFFICES ASSUME NEW c \in Workers PROVE Turns(c)'
        OBVIOUS
      <4>1. op'[Parent] = op[Parent] /\ stage' = stage /\ asked' = asked
        BY <1>2, <2>3, <2>10, <2>20, PipeFacts
      <4>2. MayBeAsked(c)' <=> MayBeAsked(c)
        BY <4>1 DEF MayBeAsked, Engaged
      <4>3. CASE c # q[1]
        <5>1. Way(c, "down") \in Pipes /\ Way(c, "up") \in Pipes
              /\ Way(c, "down") # q /\ Way(c, "up") # q
          BY <4>3, PipeFacts
        <5>2. taken'[Way(c, "down")] = taken[Way(c, "down")] /\ taken'[Way(c, "up")] = taken[Way(c, "up")]
          BY <2>4, <5>1
        <5>3. Turns(c)
          BY DEF MessageInv
        <5> QED BY <4>1, <4>2, <5>2, <5>3 DEF Turns
      <4>4. CASE c = q[1]
        <5>1. Len(taken'[down]) = heard + 1 /\ taken'[up] = taken[up] /\ up \in Pipes
          BY <2>4, <2>12, <2>20, <3>1
        <5> QED BY <2>17, <3>1, <4>1, <4>2, <4>4, <5>1 DEF Turns
      <4> QED BY <4>3, <4>4
    <3> QED BY <1>2, <2>6, <2>9, <2>14, <2>19, <3>3, <3>4, <3>5 DEF MessageInv
  <2>21. CASE p = Parent
    <3>1. q = up /\ down # up /\ q # down /\ down \in Pipes
      BY <1>1, <2>11, <2>13, <2>21, PipeIsWay, PipeFacts
    <3>2. answered + 1 = heard
      BY <2>1, <2>13, <2>21, <3>1 DEF Message
    <3>3. op'[Parent].kind = "idle" /\ stage' = stage /\ asked' = asked
      BY <1>2, <2>3, <2>7, <2>8, <2>21
    <3>4. \A r \in Pipes : r # q => OneMessage(r)'
      <4> SUFFICES ASSUME NEW r \in Pipes, r # q PROVE OneMessage(r)'
        OBVIOUS
      <4>1. Way(r[1], "down") \in Pipes /\ Way(r[1], "down") # q
        BY <2>13, <2>21, PipeFacts
      <4>2. Message(r)' = Message(r)
        BY <1>2, <2>4, <4>1 DEF Message
      <4>3. OneMessage(r) /\ buf'[r] = buf[r] /\ taken'[r] = taken[r] /\ size' = size
        BY <1>2, <1>6, <2>4 DEF MessageInv, MessageTypes
      <4>4. Writer(r)' = Writer(r) /\ Writer(r) \in Procs
        BY PipeFacts DEF Writer
      <4>5. Writes(r)' => op'[Writer(r)] = op[Writer(r)] /\ Writes(r)
        BY <2>10, <2>21, <3>3, <4>4 DEF Writes
      <4>6. (\A i \in DOMAIN buf[r] : buf[r][i] = Message(r))' /\ (Len(buf[r]) <= size)'
            /\ (buf[r] # <<>> => Len(taken[r]) + 1 = Message(r))'
        BY <4>2, <4>3 DEF OneMessage
      <4>7. (Writes(r) => Len(taken[r]) + 1 = Message(r) /\ Len(buf[r]) + op[Writer(r)].left <= size)'
        BY <4>2, <4>3, <4>4, <4>5 DEF OneMessage
      <4> QED BY <4>6, <4>7 DEF OneMessage
    <3>5. \A c \in Workers : Turns(c)'
      <4> SUFFICES ASSUME NEW c \in Workers PROVE Turns(c)'
        OBVIOUS
      <4>1. CASE c # q[1]
        <5>1. Way(c, "down") \in Pipes /\ Way(c, "up") \in Pipes
              /\ Way(c, "down") # q /\ Way(c, "up") # q
          BY <4>1, PipeFacts
        <5>2. taken'[Way(c, "down")] = taken[Way(c, "down")] /\ taken'[Way(c, "up")] = taken[Way(c, "up")]
          BY <2>4, <5>1
        <5>3. Turns(c)
          BY DEF MessageInv
        <5>4. MayBeAsked(c)' => MayBeAsked(c)
          BY <1>1, <2>21, <3>3, <4>1 DEF MayBeAsked, Engaged
        <5> QED BY <3>3, <5>2, <5>3, <5>4 DEF Turns
      <4>2. CASE c = q[1]
        <5>1. Len(taken'[up]) = answered + 1 /\ taken'[down] = taken[down]
          BY <2>4, <3>1
        <5> QED BY <2>17, <3>2, <3>3, <4>2, <5>1 DEF Turns
      <4> QED BY <4>1, <4>2
    <3> QED BY <1>2, <2>6, <2>9, <2>14, <2>19, <3>4, <3>5 DEF MessageInv
  <2> QED BY <2>20, <2>21
<1> QED BY <1>8, <1>9

LEMMA AskKeepsMessages ==
  ASSUME MessageInv, NEW c \in Workers, parent_asks(c)
  PROVE  MessageInv'
<1> DEFINE q == Way(c, "down")
<1>1. /\ q \in Pipes /\ q[1] = c /\ q[2] = "down" /\ q = <<c, "down">> /\ Parent \in Procs
      /\ Way(c, "up") \in Pipes /\ c # Parent /\ Writer(q) = Parent
  BY PipeFacts DEF Way, Writer
<1> HIDE DEF q
<1>2. /\ ParentFree /\ stage[c] = "spawned"
      /\ asked' = [asked EXCEPT ![c] = @ + 1]
      /\ op' = [op EXCEPT ![Parent] = Writing(q)]
      /\ UNCHANGED <<size, stage, buf, taken>>
  BY <1>1 DEF parent_asks
<1>3. /\ Writing(q) \in Calls /\ Writing(q).kind = "write" /\ Writing(q).pipe = q
      /\ Writing(q).left = size /\ size \in Nat \ {0} /\ asked[c] \in Nat
  BY <1>1 DEF Writing, Calls, MessageInv, MessageTypes
<1>4. op[Parent].kind = "idle" /\ ~Engaged(c)
  <2>1. Idle.kind = "idle"
    BY DEF Idle
  <2> QED BY <1>2, <2>1 DEF ParentFree, Engaged
<1>5. Len(taken[q]) = asked[c] /\ buf[q] = <<>>
  <2>1. Turns(c) /\ MayBeAsked(c) /\ OneMessage(q) /\ Message(q) = asked[c]
    BY <1>1, <1>2, <1>4 DEF MessageInv, MayBeAsked, Message
  <2>2. Len(taken[q]) \in Nat /\ Len(taken[Way(c, "up")]) \in Nat
    BY <1>1, LenProperties DEF MessageInv, MessageTypes
  <2>3. Len(taken[q]) = asked[c]
    BY <1>3, <2>1, <2>2 DEF Turns, q
  <2> QED BY <1>3, <2>1, <2>3 DEF OneMessage
<1>6. op \in [Procs -> Calls] /\ op'[Parent] = Writing(q) /\ \A r \in Procs : r # Parent => op'[r] = op[r]
  BY <1>1, <1>2 DEF MessageInv, MessageTypes
<1>7. asked' \in [Workers -> Nat] /\ asked'[c] = asked[c] + 1 /\ \A d \in Workers : d # c => asked'[d] = asked[d]
  BY <1>2, <1>3 DEF MessageInv, MessageTypes
<1>8. MessageTypes'
  BY <1>1, <1>2, <1>3, <1>6, <1>7 DEF MessageInv, MessageTypes
<1>9. CallsMatch'
  BY <1>1, <1>3, <1>6 DEF MessageInv, CallsMatch, Writer, Reader
<1>10. OneMessage(q)'
  <2>1. Message(q)' = Len(taken[q]) + 1
    BY <1>1, <1>5, <1>7 DEF Message
  <2>2. buf'[q] = <<>> /\ taken'[q] = taken[q] /\ size' = size /\ Writer(q)' = Parent
    BY <1>1, <1>2, <1>5 DEF Writer
  <2>3. Len(<<>>) = 0 /\ DOMAIN <<>> = {} /\ 0 <= size /\ 0 + size <= size
    BY <1>3
  <2>4. op'[Writer(q)'].left = size
    BY <1>3, <1>6, <2>2
  <2> QED BY <2>1, <2>2, <2>3, <2>4 DEF OneMessage
<1>11. ASSUME NEW r \in Pipes, r # q PROVE OneMessage(r)'
  <2>1. r[2] = "down" => r[1] # c /\ r[1] \in Workers
    BY <1>1, <1>11, PipeFacts, PipeIsWay
  <2>2. Message(r)' = Message(r)
    BY <1>2, <1>7, <2>1 DEF Message
  <2>3. OneMessage(r) /\ buf'[r] = buf[r] /\ taken'[r] = taken[r] /\ size' = size
    BY <1>2 DEF MessageInv
  <2>4. Writes(r)' => op'[Writer(r)] = op[Writer(r)] /\ Writes(r) /\ Writer(r)' = Writer(r)
    BY <1>3, <1>6, <1>11, PipeFacts DEF Writes, Writer
  <2>5. (\A i \in DOMAIN buf[r] : buf[r][i] = Message(r))' /\ (Len(buf[r]) <= size)'
        /\ (buf[r] # <<>> => Len(taken[r]) + 1 = Message(r))'
    BY <2>2, <2>3 DEF OneMessage
  <2>6. (Writes(r) => Len(taken[r]) + 1 = Message(r) /\ Len(buf[r]) + op[Writer(r)].left <= size)'
    BY <2>2, <2>3, <2>4 DEF OneMessage
  <2> QED BY <2>5, <2>6 DEF OneMessage
<1>12. ASSUME NEW d \in Workers PROVE Turns(d)'
  <2>1. Turns(d) /\ taken' = taken /\ stage' = stage
    BY <1>2 DEF MessageInv
  <2>2. CASE d # c
    <3>1. MayBeAsked(d)' => MayBeAsked(d)
      BY <1>2, <1>4 DEF MayBeAsked, Engaged
    <3> QED BY <1>7, <2>1, <2>2, <3>1 DEF Turns
  <2>3. CASE d = c
    <3>1. ~MayBeAsked(c)'
      BY <1>1, <1>3, <1>6 DEF MayBeAsked, Engaged
    <3>2. MayBeAsked(c)
      BY <1>2, <1>4 DEF MayBeAsked
    <3>3. Len(taken[q]) \in Nat /\ Len(taken[Way(c, "up")]) \in Nat
      BY <1>1, LenProperties DEF MessageInv, MessageTypes
    <3> QED BY <1>3, <1>5, <1>7, <2>1, <2>3, <3>1, <3>2, <3>3 DEF Turns, q
  <2> QED BY <2>2, <2>3
<1>13. MessagesWhole'
  BY <1>2 DEF MessageInv, MessagesWhole
<1> QED BY <1>8, <1>9, <1>10, <1>11, <1>12, <1>13 DEF MessageInv

(* A call of the parent or of a worker begins, ends or is given up.         *)
LEMMA CallChangeKeepsMessages ==
  ASSUME MessageInv, NEW p \in Procs, NEW next_op \in Calls,
         op' = [op EXCEPT ![p] = next_op], stage' \in [Workers -> Stages],
         UNCHANGED <<size, asked, buf, taken>>,
         next_op.kind \notin {"write"},
         next_op.kind = "read" => next_op.pipe \in Pipes /\ p = Reader(next_op.pipe) /\ p # Parent,
         next_op.kind = "wait" => next_op.pipe[1] \in Workers,
         \A c \in Workers : stage'[c] \in {"new", "piped", "spawned"} =>
                               stage[c] \in {"new", "piped", "spawned"},
         p = Parent => op[Parent].kind \notin {"read", "write"}
  PROVE  MessageInv'
<1>1. op \in [Procs -> Calls] /\ op'[p] = next_op /\ \A r \in Procs : r # p => op'[r] = op[r]
  BY DEF MessageInv, MessageTypes
<1>2. MessageTypes'
  BY <1>1 DEF MessageInv, MessageTypes
<1>3. CallsMatch'
  BY <1>1, PipeFacts DEF MessageInv, CallsMatch, Writer, Reader
<1>4. \A q \in Pipes : buf'[q] \in {buf[q], <<>>}
  OBVIOUS
<1>5. \A r \in Procs : op'[r] = op[r] \/ op'[r].kind # "write"
  BY <1>1
<1>6. \A c \in Workers : MayBeAsked(c)' => MayBeAsked(c)
  BY <1>1, PipeFacts DEF MayBeAsked, Engaged
<1> QED BY <1>2, <1>3, <1>4, <1>5, <1>6, QuietKeepsMessages

LEMMA MessageStep == ASSUME MessageInv, [ProcNext]_procVars PROVE MessageInv'
<1> USE PipeFacts
<1>1. Idle \in Calls /\ Idle.kind = "idle"
  BY DEF Idle, Calls, NoPipe
<1>2. /\ op \in [Procs -> Calls] /\ stage \in [Workers -> Stages]
      /\ buf \in [Pipes -> Seq(Nat)] /\ <<>> \in Seq(Nat)
  BY DEF MessageInv, MessageTypes
<1>3. ASSUME NEW c \in Workers,
             pipe_init(c) \/ posix_spawn(c) \/ win32_spawn(c) \/ pipe_free(c) \/ posix_exec(c)
      PROVE  MessageInv'
  <2>1. UNCHANGED <<size, asked, buf, taken, op>>
    BY <1>3 DEF pipe_init, posix_spawn, win32_spawn, pipe_free, posix_exec
  <2>2. PICK s \in Stages : /\ stage' = [stage EXCEPT ![c] = s]
                            /\ s \in {"new", "piped", "spawned"} => stage[c] \in {"new", "piped", "spawned"}
    BY <1>2, <1>3 DEF pipe_init, posix_spawn, win32_spawn, pipe_free, posix_exec, Stages
  <2>3. MessageTypes' /\ CallsMatch'
    BY <1>2, <2>1, <2>2 DEF MessageInv, MessageTypes, CallsMatch, Writer, Reader
  <2>4. \A d \in Workers : MayBeAsked(d)' => MayBeAsked(d)
    BY <1>2, <2>1, <2>2 DEF MayBeAsked, Engaged
  <2> QED BY <2>1, <2>3, <2>4, QuietKeepsMessages
<1>4. ASSUME NEW c \in Workers, parent_asks(c) PROVE MessageInv'
  BY <1>4, AskKeepsMessages
<1>5. ASSUME NEW c \in Workers, wait_begins(c) PROVE MessageInv'
  <2> DEFINE next_op == [kind |-> "wait", pipe |-> <<c, "">>, left |-> 0]
  <2>1. next_op \in Calls /\ next_op.kind = "wait" /\ next_op.pipe[1] = c
    BY DEF Calls, NoPipe
  <2>2. /\ op' = [op EXCEPT ![Parent] = next_op] /\ UNCHANGED <<size, asked, buf, taken, stage>>
        /\ op[Parent].kind = "idle"
    BY <1>1, <1>5 DEF wait_begins, ParentFree
  <2> HIDE DEF next_op
  <2> QED BY <1>2, <2>1, <2>2, CallChangeKeepsMessages
<1>6. ASSUME NEW c \in Workers, worker_listens(c) PROVE MessageInv'
  <2> DEFINE next_op == Reading(Way(c, "down"))
  <2>1. next_op \in Calls /\ next_op.kind = "read" /\ next_op.pipe = Way(c, "down")
    BY DEF Reading, Calls, MessageInv, MessageTypes
  <2>2. op' = [op EXCEPT ![c] = next_op] /\ UNCHANGED <<size, asked, buf, taken, stage>>
    BY <1>6 DEF worker_listens, Way
  <2>3. Reader(Way(c, "down")) = c /\ c # Parent
    BY DEF Reader
  <2> HIDE DEF next_op
  <2> QED BY <1>2, <2>1, <2>2, <2>3, CallChangeKeepsMessages
<1>7. ASSUME NEW c \in Workers, worker_dies(c) PROVE MessageInv'
  <2>1. op' = [op EXCEPT ![c] = Idle] /\ UNCHANGED <<size, asked, buf, taken, stage>>
    BY <1>7 DEF worker_dies
  <2> QED BY <1>1, <1>2, <2>1, CallChangeKeepsMessages
<1>8. ASSUME wait_and_free PROVE MessageInv'
  <2>1. PICK c : c = op[Parent].pipe[1]
    OBVIOUS
  <2>2. c \in Workers /\ op[Parent].kind = "wait"
    BY <1>8, <2>1 DEF wait_and_free, MessageInv, CallsMatch
  <2>3. /\ stage' = [stage EXCEPT ![c] = "ended"] /\ UNCHANGED <<size, asked, buf, taken>>
        /\ op' = [op EXCEPT ![Parent] = Idle] \/ op' = [op EXCEPT ![Parent] = Idle, ![c] = Idle]
    BY <1>8, <2>1 DEF wait_and_free
  <2>4. MessageTypes'
    <3>1. op' \in [Procs -> Calls]
      <4>1. CASE op' = [op EXCEPT ![Parent] = Idle]
        BY <1>1, <1>2, <4>1
      <4>2. CASE op' = [op EXCEPT ![Parent] = Idle, ![c] = Idle]
        BY <1>1, <1>2, <4>2
      <4> QED BY <2>3, <4>1, <4>2
    <3>2. "ended" \in Stages
      BY DEF Stages
    <3>3. stage' \in [Workers -> Stages]
      BY <1>2, <2>3, <3>2
    <3> QED BY <2>3, <3>1, <3>3 DEF MessageInv, MessageTypes
  <2>5. \A p \in Procs : op'[p] = op[p] \/ op'[p] = Idle
    BY <1>2, <2>2, <2>3
  <2>6. CallsMatch'
    BY <1>1, <2>5 DEF MessageInv, CallsMatch, Writer, Reader
  <2>7. \A d \in Workers : MayBeAsked(d)' => MayBeAsked(d)
    BY <1>2, <2>2, <2>3 DEF MayBeAsked, Engaged
  <2> QED BY <1>1, <2>3, <2>4, <2>5, <2>6, <2>7, QuietKeepsMessages
<1>9. ASSUME NEW p \in Procs, ipc_steps(p) PROVE MessageInv'
  <2>1. CASE ipc_write_broken(p) \/ ipc_read_end(p)
    <3>1. op[p].kind \in {"read", "write"} /\ AfterError(p, op[p].pipe) /\ UNCHANGED <<size, asked, buf, taken>>
      BY <2>1 DEF ipc_write_broken, ipc_read_end
    <3> QED BY <1>2, <3>1, ErrorKeepsMessages
  <2> QED BY <1>9, <2>1, WriteKeepsMessages, ReadKeepsMessages DEF ipc_steps
<1>10. CASE UNCHANGED procVars
  <2>1. UNCHANGED <<size, asked, buf, taken, op, stage>>
    BY <1>10 DEF procVars
  <2>2. MessageTypes' /\ CallsMatch' /\ \A d \in Workers : MayBeAsked(d)' => MayBeAsked(d)
    BY <2>1 DEF MessageInv, MessageTypes, CallsMatch, Writer, Reader, MayBeAsked, Engaged
  <2> QED BY <2>1, <2>2, QuietKeepsMessages
<1> QED
  BY <1>3, <1>4, <1>5, <1>6, <1>7, <1>8, <1>9, <1>10 DEF ProcNext, ParentSteps, WorkerSteps

(* A message that is read is the next one, whole, for any number of workers *)
(* and messages, any size of the messages and of the pipes, and whatever    *)
(* call fails or worker dies on the way.                                   *)
THEOREM MessagesAlwaysWhole == ProcSpec => []MessagesWhole
<1>1. MessageInv => MessagesWhole
  BY DEF MessageInv
<1> QED BY <1>1, MessageInit, MessageStep, PTL DEF ProcSpec

-----------------------------------------------------------------------------
(* What is done once per element of a list is proved by induction over its  *)
(* length.                                                                 *)

(* A set of numbers has a least element.                                    *)
LEMMA LeastNumber ==
  ASSUME NEW T \in SUBSET Nat, T # {}
  PROVE  \E x \in T : \A y \in T : x <= y
<1>1. PICK x \in T : \A y \in T : ~ (<<y, x>> \in OpToRel(<, Nat))
  BY NatLessThanWellFounded, WFMin, Zenon
<1>2. \A y \in T : ~ (y < x)
  BY <1>1 DEF OpToRel
<1> QED BY <1>2

(* Induction over 0..N, with a set in place of a predicate.                 *)
LEMMA UpTo ==
  ASSUME NEW N \in Nat, NEW T, 0 \in T, \A n \in 1..N : n - 1 \in T => n \in T
  PROVE  \A n \in 0..N : n \in T
<1> DEFINE bad == {n \in 0..N : n \notin T}
<1> SUFFICES ASSUME bad # {} PROVE FALSE
  OBVIOUS
<1>1. PICK n \in bad : \A m \in bad : n <= m
  BY LeastNumber, bad \subseteq Nat
<1>2. n \in 1..N
  BY <1>1
<1>3. n - 1 \in 0..N /\ ~(n <= n - 1)
  BY <1>2
<1>4. n - 1 \in T
  BY <1>1, <1>3
<1> QED BY <1>1, <1>2, <1>4

(* A function that is defined step by step exists.                          *)
StepsFrom(first, step, N, S, f) ==
  /\ f \in [0..N -> S] /\ f[0] = first
  /\ \A n \in 1..N : f[n] = step[n][f[n - 1]]

LEMMA StepByStep ==
  ASSUME NEW N \in Nat, NEW S, NEW first \in S, NEW step \in [1..N -> [S -> S]]
  PROVE  \E f : StepsFrom(first, step, N, S, f)
<1> DEFINE Good(n, f) == f = [m \in 0..n |-> IF m = 0 THEN first ELSE step[m][f[m - 1]]]
           T == {n \in 0..N : \E f \in [0..n -> S] : Good(n, f)}
<1>1. 0 \in T
  <2> DEFINE g == [m \in 0..0 |-> first]
  <2>1. g \in [0..0 -> S] /\ Good(0, g)
    OBVIOUS
  <2> HIDE DEF g
  <2>2. 0 \in 0..N
    OBVIOUS
  <2> QED BY <2>1, <2>2
<1>2. ASSUME NEW n \in 1..N, n - 1 \in T PROVE n \in T
  <2>1. PICK f \in [0..(n - 1) -> S] : Good(n - 1, f)
    BY <1>2
  <2>2. /\ n - 1 \in 0..(n - 1) /\ n \in 0..N /\ n # 0
        /\ \A m \in 0..n : m # n => m \in 0..(n - 1)
        /\ \A m \in 0..n : m # n /\ m # 0 => m - 1 \in 0..(n - 1) /\ m - 1 # n /\ m - 1 \in 0..n
        /\ \A m \in 0..n : m \in 0..N
    OBVIOUS
  <2> DEFINE g == [m \in 0..n |-> IF m = n THEN step[n][f[n - 1]] ELSE f[m]]
  <2>3. step[n][f[n - 1]] \in S
    BY <2>2
  <2>4. g \in [0..n -> S]
    BY <2>2, <2>3
  <2>5. ASSUME NEW m \in 0..n PROVE g[m] = IF m = 0 THEN first ELSE step[m][g[m - 1]]
    <3>1. CASE m = n
      BY <2>2, <3>1
    <3>2. CASE m # n
      BY <2>1, <2>2, <3>2
    <3> QED BY <3>1, <3>2
  <2>6. Good(n, g)
    BY <2>5
  <2> QED BY <2>2, <2>4, <2>6
<1>3. N \in T
  <2> HIDE DEF T
  <2>1. \A n \in 0..N : n \in T
    BY <1>1, <1>2, UpTo
  <2> QED BY <2>1
<1>4. PICK f \in [0..N -> S] : Good(N, f)
  BY <1>3
<1>5. 0 \in 0..N /\ \A n \in 1..N : n \in 0..N /\ n # 0
  OBVIOUS
<1>6. StepsFrom(first, step, N, S, f)
  BY <1>4, <1>5 DEF StepsFrom
<1> QED BY <1>6

-----------------------------------------------------------------------------
(* Sums, and lists of which some items are kept.                            *)

Totals(s, t) ==
  /\ t \in [0..Len(s) -> Int] /\ t[0] = 0
  /\ \A n \in 1..Len(s) : t[n] = t[n - 1] + s[n]

LEMMA SumIs ==
  ASSUME NEW s \in Seq(Int)
  PROVE  \E t : Totals(s, t) /\ Sum(s) = t[Len(s)] /\ Sum(s) \in Int
<1>. PICK N \in Nat : N = Len(s)
  BY LenProperties
<1>1. \A n \in 1..N : s[n] \in Int
  BY ElementOfSeq
<1>. PICK step : step = [n \in 1..N |-> [k \in Int |-> k + s[n]]]
  OBVIOUS
<1>2. step \in [1..N -> [Int -> Int]]
  <2>1. \A n \in 1..N : \A k \in Int : k + s[n] \in Int
    BY <1>1
  <2> QED BY <2>1
<1> DEFINE Solves(f) == f = [n \in 0..N |-> IF n = 0 THEN 0 ELSE f[n - 1] + s[n]]
           solution == CHOOSE f : Solves(f)
<1>3. \E f : Solves(f)
  <2>. PICK f : StepsFrom(0, step, N, Int, f)
    <3>1. 0 \in Int
      OBVIOUS
    <3> QED BY <1>2, <3>1, StepByStep
  <2>1. f \in [0..N -> Int] /\ f[0] = 0 /\ \A n \in 1..N : f[n] = step[n][f[n - 1]]
    BY DEF StepsFrom
  <2>2. ASSUME NEW n \in 0..N, n # 0 PROVE f[n] = f[n - 1] + s[n]
    <3>1. n \in 1..N /\ n - 1 \in 0..N
      BY <2>2
    <3>2. f[n - 1] \in Int
      BY <2>1, <3>1
    <3> QED BY <2>1, <3>1, <3>2
  <2>3. f = [n \in 0..N |-> IF n = 0 THEN 0 ELSE f[n - 1] + s[n]]
    BY <2>1, <2>2
  <2> QED BY <2>3
<1>4. Solves(solution)
  <2> HIDE DEF Solves
  <2> QED BY <1>3
<1>5. Sum(s) = solution[N]
  BY DEF Sum
<1> HIDE DEF solution
<1>. PICK t : t = solution
  OBVIOUS
<1>6. t = [n \in 0..N |-> IF n = 0 THEN 0 ELSE t[n - 1] + s[n]]
  BY <1>4
<1>7. t[0] = 0 /\ \A n \in 1..N : t[n] = t[n - 1] + s[n]
  <2>1. 0 \in 0..N /\ \A n \in 1..N : n \in 0..N /\ n # 0
    OBVIOUS
  <2> QED BY <1>6, <2>1
<1>8. \A n \in 0..N : t[n] \in Int
  <2> DEFINE T == {n \in 0..N : t[n] \in Int}
  <2>1. 0 \in T
    BY <1>7
  <2>2. ASSUME NEW n \in 1..N, n - 1 \in T PROVE n \in T
    <3>1. t[n - 1] \in Int /\ s[n] \in Int /\ t[n] = t[n - 1] + s[n] /\ n \in 0..N
      BY <1>1, <1>7, <2>2
    <3>2. t[n] \in Int
      <4>1. \A a, b \in Int : a + b \in Int
        OBVIOUS
      <4> QED BY <3>1, <4>1, Zenon
    <3> QED BY <3>1, <3>2
  <2>3. \A n \in 0..N : n \in T
    <3> HIDE DEF T
    <3> QED BY <2>1, <2>2, UpTo
  <2> QED BY <2>3
<1>9. Totals(s, t)
  BY <1>6, <1>7, <1>8 DEF Totals
<1> QED BY <1>5, <1>8, <1>9

LEMMA SumOfNone == Sum(<<>>) = 0
<1>1. PICK t : Totals(<<>>, t) /\ Sum(<<>>) = t[Len(<<>>)]
  BY SumIs, <<>> \in Seq(Int)
<1> QED BY <1>1 DEF Totals

LEMMA SumAppend ==
  ASSUME NEW s \in Seq(Int), NEW k \in Int
  PROVE  Sum(Append(s, k)) = Sum(s) + k
<1>. PICK N \in Nat : N = Len(s)
  BY LenProperties
<1>. PICK r : r = Append(s, k)
  OBVIOUS
<1>1. /\ r \in Seq(Int) /\ Len(r) = N + 1 /\ r[N + 1] = k
      /\ \A n \in 1..N : r[n] = s[n] /\ s[n] \in Int
  BY AppendProperties, ElementOfSeq
<1>2. PICK t : Totals(s, t) /\ Sum(s) = t[N]
  BY SumIs
<1>3. PICK u : Totals(r, u) /\ Sum(r) = u[N + 1]
  BY <1>1, SumIs
<1>4. /\ t[0] = 0 /\ u[0] = 0 /\ \A n \in 1..N : t[n] = t[n - 1] + s[n]
      /\ \A n \in 1..(N + 1) : u[n] = u[n - 1] + r[n]
  BY <1>1, <1>2, <1>3 DEF Totals
<1>5. u[N] = t[N]
  <2> DEFINE T == {n \in 0..N : u[n] = t[n]}
  <2>1. 0 \in T
    BY <1>4
  <2>2. ASSUME NEW n \in 1..N, n - 1 \in T PROVE n \in T
    <3>1. n \in 1..(N + 1) /\ n \in 0..N
      OBVIOUS
    <3>2. u[n] = u[n - 1] + r[n] /\ t[n] = t[n - 1] + s[n]
      BY <1>4, <3>1
    <3> QED BY <1>1, <2>2, <3>1, <3>2
  <2>3. \A n \in 0..N : n \in T
    <3> HIDE DEF T
    <3> QED BY <2>1, <2>2, UpTo
  <2> QED BY <2>3
<1>6. u[N + 1] = u[N] + k
  <2>1. N + 1 \in 1..(N + 1) /\ (N + 1) - 1 = N
    OBVIOUS
  <2> QED BY <1>1, <1>4, <2>1
<1> QED BY <1>2, <1>3, <1>5, <1>6

(* One number is changed.                                                   *)
LEMMA SumReplace ==
  ASSUME NEW s \in Seq(Int), NEW r \in Seq(Int), Len(r) = Len(s), NEW i \in 1..Len(s),
         \A n \in 1..Len(s) : n # i => r[n] = s[n]
  PROVE  Sum(r) = Sum(s) + (r[i] - s[i])
<1>. PICK N \in Nat : N = Len(s)
  BY LenProperties
<1>1. \A n \in 1..N : r[n] \in Int /\ s[n] \in Int
  BY ElementOfSeq
<1>2. PICK t : Totals(s, t) /\ Sum(s) = t[N]
  BY SumIs
<1>3. PICK u : Totals(r, u) /\ Sum(r) = u[N]
  BY SumIs
<1>4. /\ t[0] = 0 /\ u[0] = 0 /\ \A n \in 1..N : t[n] = t[n - 1] + s[n]
      /\ \A n \in 1..N : u[n] = u[n - 1] + r[n]
      /\ \A n \in 0..N : t[n] \in Int /\ u[n] \in Int
  BY <1>2, <1>3 DEF Totals
<1>5. \A n \in 0..N : u[n] = t[n] + IF n >= i THEN r[i] - s[i] ELSE 0
  <2> DEFINE T == {n \in 0..N : u[n] = t[n] + IF n >= i THEN r[i] - s[i] ELSE 0}
  <2>1. 0 \in T
    BY <1>4
  <2>2. ASSUME NEW n \in 1..N, n - 1 \in T PROVE n \in T
    <3>1. /\ u[n] = u[n - 1] + r[n] /\ t[n] = t[n - 1] + s[n] /\ n \in 0..N
          /\ t[n - 1] \in Int /\ r[n] \in Int /\ s[n] \in Int /\ r[i] \in Int /\ s[i] \in Int
          /\ u[n - 1] = t[n - 1] + IF n - 1 >= i THEN r[i] - s[i] ELSE 0
      BY <1>1, <1>4, <2>2
    <3>2. CASE n = i
      BY <3>1, <3>2
    <3>3. CASE n # i
      <4>1. r[n] = s[n] /\ (n - 1 >= i <=> n >= i)
        BY <3>3
      <4>2. CASE n >= i
        BY <3>1, <4>1, <4>2
      <4>3. CASE ~(n >= i)
        BY <3>1, <4>1, <4>3
      <4> QED BY <4>2, <4>3
    <3> QED BY <3>2, <3>3
  <2>3. \A n \in 0..N : n \in T
    <3> HIDE DEF T
    <3> QED BY <2>1, <2>2, UpTo
  <2> QED BY <2>3
<1>6. u[N] = t[N] + (r[i] - s[i])
  <2>1. N \in 0..N /\ N >= i
    OBVIOUS
  <2> QED BY <1>5, <2>1
<1> QED BY <1>2, <1>3, <1>6

(* A list whose numbers are at most those of another.                       *)
LEMMA SumAtMost ==
  ASSUME NEW s \in Seq(Int), NEW r \in Seq(Int), Len(r) = Len(s),
         \A n \in 1..Len(s) : s[n] <= r[n]
  PROVE  Sum(s) <= Sum(r)
<1>. PICK N \in Nat : N = Len(s)
  BY LenProperties
<1>1. \A n \in 1..N : r[n] \in Int /\ s[n] \in Int
  BY ElementOfSeq
<1>2. PICK t : Totals(s, t) /\ Sum(s) = t[N]
  BY SumIs
<1>3. PICK u : Totals(r, u) /\ Sum(r) = u[N]
  BY SumIs
<1>4. /\ t[0] = 0 /\ u[0] = 0 /\ \A n \in 1..N : t[n] = t[n - 1] + s[n]
      /\ \A n \in 1..N : u[n] = u[n - 1] + r[n]
      /\ \A n \in 0..N : t[n] \in Int /\ u[n] \in Int
  BY <1>2, <1>3 DEF Totals
<1>5. \A n \in 0..N : t[n] <= u[n]
  <2> DEFINE T == {n \in 0..N : t[n] <= u[n]}
  <2>1. 0 \in T
    BY <1>4
  <2>2. ASSUME NEW n \in 1..N, n - 1 \in T PROVE n \in T
    <3>1. /\ u[n] = u[n - 1] + r[n] /\ t[n] = t[n - 1] + s[n] /\ n \in 0..N /\ n - 1 \in 0..N
          /\ t[n - 1] <= u[n - 1] /\ s[n] <= r[n]
      BY <1>4, <2>2
    <3>2. t[n - 1] \in Int /\ u[n - 1] \in Int
      BY <1>4, <3>1
    <3> QED BY <1>1, <3>1, <3>2
  <2>3. \A n \in 0..N : n \in T
    <3> HIDE DEF T
    <3> QED BY <2>1, <2>2, UpTo
  <2> QED BY <2>3
<1> QED BY <1>2, <1>3, <1>5

(* What is kept follows the list, in number at most the items.              *)
KeptFrom(k, list, items) ==
  \A i \in 1..Len(k) : i > Len(list) => \E j \in 1..Len(items) : k[i] = items[j]

LEMMA KeptIs ==
  ASSUME NEW S, NEW list \in Seq(S), NEW items \in Seq(S), NEW wanted,
         NEW k, k = Kept(list, items, wanted)
  PROVE  /\ k \in Seq(S) /\ Len(k) \in Len(list)..(Len(list) + Len(items))
         /\ \A i \in 1..Len(list) : k[i] = list[i]
         /\ KeptFrom(k, list, items)
<1>. PICK N \in Nat : N = Len(items)
  BY LenProperties
<1>. PICK M \in Nat : M = Len(list)
  BY LenProperties
<1>1. \A n \in 1..N : items[n] \in S
  BY ElementOfSeq
<1> DEFINE Good == {s \in Seq(S) :
                      /\ Len(s) >= M
                      /\ \A i \in 1..M : s[i] = list[i]
                      /\ \A i \in 1..Len(s) : i > M => \E j \in 1..N : s[i] = items[j]}
           Next1(s, n) == IF items[n] \in wanted THEN Append(s, items[n]) ELSE s
<1>2. ASSUME NEW s \in Good, NEW n \in 1..N
      PROVE  Next1(s, n) \in Good /\ Len(Next1(s, n)) \in Len(s)..(Len(s) + 1)
  <2>1. Len(s) \in Nat
    BY LenProperties
  <2>2. CASE items[n] \in wanted
    <3>1. /\ Append(s, items[n]) \in Seq(S) /\ Len(Append(s, items[n])) = Len(s) + 1
          /\ \A i \in 1..Len(s) : Append(s, items[n])[i] = s[i]
          /\ Append(s, items[n])[Len(s) + 1] = items[n]
      BY <1>1, AppendProperties
    <3>. PICK r : r = Append(s, items[n])
      OBVIOUS
    <3>2. ASSUME NEW i \in 1..Len(r), i > M PROVE \E j \in 1..N : r[i] = items[j]
      <4>1. CASE i = Len(s) + 1
        BY <3>1, <4>1
      <4>2. CASE i # Len(s) + 1
        <5>1. i \in 1..Len(s)
          BY <2>1, <3>1, <4>2
        <5> QED BY <3>1, <3>2, <5>1
      <4> QED BY <4>1, <4>2
    <3>3. \A i \in 1..M : r[i] = list[i]
      BY <2>1, <3>1
    <3>4. r \in Seq(S) /\ Len(r) >= M
      BY <2>1, <3>1
    <3>5. r \in Good
      BY <3>2, <3>3, <3>4, Zenon
    <3> QED BY <2>1, <2>2, <3>1, <3>5
  <2>3. CASE items[n] \notin wanted
    <3>1. Next1(s, n) = s
      BY <2>3
    <3> HIDE DEF Next1, Good
    <3> QED BY <2>1, <3>1
  <2> QED BY <2>2, <2>3
<1>3. list \in Good
  BY LenProperties
<1> HIDE DEF Good
<1>. PICK step : step = [n \in 1..N |-> [s \in Good |-> Next1(s, n)]]
  OBVIOUS
<1>4. step \in [1..N -> [Good -> Good]]
  <2>1. \A n \in 1..N : \A s \in Good : Next1(s, n) \in Good
    BY <1>2
  <2> HIDE DEF Next1
  <2> QED BY <2>1
<1> DEFINE Solves(f) == f = [n \in 0..N |-> IF n = 0 THEN list
                                            ELSE IF items[n] \in wanted
                                                 THEN Append(f[n - 1], items[n]) ELSE f[n - 1]]
           solution == CHOOSE f : Solves(f)
<1>5. \E f : Solves(f)
  <2>. PICK f : StepsFrom(list, step, N, Good, f)
    BY <1>3, <1>4, StepByStep
  <2>1. f \in [0..N -> Good] /\ f[0] = list /\ \A n \in 1..N : f[n] = step[n][f[n - 1]]
    BY DEF StepsFrom
  <2>2. ASSUME NEW n \in 0..N, n # 0 PROVE f[n] = Next1(f[n - 1], n)
    <3>1. n \in 1..N /\ n - 1 \in 0..N
      BY <2>2
    <3>2. f[n - 1] \in Good
      BY <2>1, <3>1
    <3> HIDE DEF Next1
    <3> QED BY <2>1, <3>1, <3>2
  <2>3. f = [n \in 0..N |-> IF n = 0 THEN list ELSE Next1(f[n - 1], n)]
    <3> HIDE DEF Next1
    <3> QED BY <2>1, <2>2
  <2> QED BY <2>3
<1>6. Solves(solution)
  <2> HIDE DEF Solves
  <2> QED BY <1>5
<1>7. k = solution[N]
  BY DEF Kept
<1> HIDE DEF solution
<1>. PICK t : t = solution
  OBVIOUS
<1>8. t = [n \in 0..N |-> IF n = 0 THEN list ELSE Next1(t[n - 1], n)]
  BY <1>6
<1>9. t[0] = list /\ \A n \in 1..N : t[n] = Next1(t[n - 1], n)
  <2>1. 0 \in 0..N /\ \A n \in 1..N : n \in 0..N /\ n # 0
    OBVIOUS
  <2> HIDE DEF Next1
  <2> QED BY <1>8, <2>1
<1>10. \A n \in 0..N : t[n] \in Good /\ Len(t[n]) \in M..(M + n)
  <2> DEFINE T == {n \in 0..N : t[n] \in Good /\ Len(t[n]) \in M..(M + n)}
  <2>1. 0 \in T
    BY <1>3, <1>9
  <2>2. ASSUME NEW n \in 1..N, n - 1 \in T PROVE n \in T
    <3> HIDE DEF Next1
    <3>1. t[n - 1] \in Good /\ Len(t[n - 1]) \in M..(M + (n - 1)) /\ n \in 0..N
      BY <2>2
    <3>2. t[n] \in Good /\ Len(t[n]) \in Len(t[n - 1])..(Len(t[n - 1]) + 1)
      BY <1>2, <1>9, <3>1
    <3> QED BY <3>1, <3>2
  <2>3. \A n \in 0..N : n \in T
    <3> HIDE DEF T
    <3> QED BY <2>1, <2>2, UpTo
  <2> QED BY <2>3
<1>11. k \in Good /\ Len(k) \in M..(M + N)
  <2>1. N \in 0..N
    OBVIOUS
  <2> QED BY <1>7, <1>10, <2>1
<1> QED BY <1>11 DEF Good, KeptFrom

-----------------------------------------------------------------------------
(* One client.                                                              *)

Resources == Settings \cup {"context", "handle"}
Values == {NONE, "default"} \cup UNION {{config[f] : f \in Settings} : config \in Configs}
StepKinds == {"set", "try", "given", "withproxy", "copy", "reopen"}
ClientStates ==
  [stage : {"new", "ready", "live", "closed", "ended"}, own : SUBSET Resources,
   heap : [Resources -> Int], force : [Settings -> Values],
   last : {<<>>} \cup {<<config>> : config \in Configs}]

(* A client has one block for each resource it owns, and none for others.   *)
Owns(x) == \A r \in Resources : x.heap[r] = IF r \in x.own THEN 1 ELSE 0
Sound == {x \in ClientStates : Owns(x)}

Steps == [kind : StepKinds, field : Settings]

(* A step that always sets its field, unless the field may linger.          *)
SureSteps ==
  {step \in Steps :
     step.kind \in {"given", "withproxy"} => step.field \in Lingers}

LEMMA ConfigFacts ==
  ASSUME NEW config \in Configs
  PROVE  DOMAIN config = Settings /\ \A f \in Settings : config[f] \in Values
<1>1. DOMAIN config = Settings
  BY ClientBounds
<1>2. ASSUME NEW f \in Settings PROVE config[f] \in Values
  <2>1. config[f] \in {config[g] : g \in Settings}
    OBVIOUS
  <2> QED BY <2>1 DEF Values
<1> QED BY <1>1, <1>2

LEMMA ReleasedIsSound ==
  ASSUME NEW x \in Sound, NEW step \in Steps
  PROVE  /\ Released(x, step) \in Sound
         /\ step.kind \in {"copy", "reopen"} => step.field \notin Released(x, step).own
         /\ \A f \in Settings : f # step.field => Released(x, step).force[f] = x.force[f]
         /\ Released(x, step).stage = x.stage /\ Released(x, step).last = x.last
<1>1. x \in ClientStates /\ Owns(x) /\ NONE \in Values /\ step.field \in Resources
  BY DEF Sound, Values, Resources, Steps
<1>2. CASE step.kind \in {"copy", "reopen"} /\ step.field \in x.own
  <2> DEFINE y == [x EXCEPT !.heap = Freed(@, {step.field}), !.own = @ \ {step.field},
                            !.force[step.field] = NONE]
  <2>1. Released(x, step) = y
    BY <1>2 DEF Released
  <2>2. Freed(x.heap, {step.field}) =
          [r \in Resources |-> IF r = step.field THEN x.heap[r] - 1 ELSE x.heap[r]]
    BY <1>1 DEF Freed, ClientStates
  <2>3. Freed(x.heap, {step.field}) \in [Resources -> Int]
    <3>1. x.heap \in [Resources -> Int]
      BY <1>1 DEF ClientStates
    <3>2. \A r \in Resources : x.heap[r] \in Int /\ x.heap[r] - 1 \in Int
      BY <3>1
    <3> QED BY <2>2, <3>2
  <2>4. /\ y \in ClientStates /\ y.own = x.own \ {step.field}
        /\ y.heap = Freed(x.heap, {step.field})
        /\ y.force = [x.force EXCEPT ![step.field] = NONE] /\ y.stage = x.stage /\ y.last = x.last
    BY <1>1, <2>3 DEF ClientStates
  <2>5. Owns(y)
    BY <1>1, <1>2, <2>2, <2>4 DEF Owns
  <2> HIDE DEF y
  <2> QED BY <1>1, <2>1, <2>4, <2>5 DEF Sound, ClientStates
<1>3. CASE step.kind \in {"copy", "reopen"} /\ step.field \notin x.own
  <2> DEFINE y == [x EXCEPT !.force[step.field] = NONE]
  <2>1. Released(x, step) = y
    BY <1>3 DEF Released
  <2>2. /\ y \in ClientStates /\ y.own = x.own /\ y.heap = x.heap
        /\ y.force = [x.force EXCEPT ![step.field] = NONE] /\ y.stage = x.stage /\ y.last = x.last
    BY <1>1 DEF ClientStates
  <2>3. Owns(y)
    BY <1>1, <2>2 DEF Owns
  <2> HIDE DEF y
  <2> QED BY <1>1, <1>3, <2>1, <2>2, <2>3 DEF Sound, ClientStates
<1>4. CASE step.kind \notin {"copy", "reopen"}
  BY <1>4 DEF Released
<1> QED BY <1>2, <1>3, <1>4

LEMMA SucceedsIsSound ==
  ASSUME NEW x \in Sound, NEW step \in Steps,
         NEW config \in Configs
  PROVE  /\ Succeeds(x, step, config) \in Sound
         /\ Given(step, config) => Succeeds(x, step, config).force[step.field] = config[step.field]
         /\ \A f \in Settings : f # step.field => Succeeds(x, step, config).force[f] = x.force[f]
         /\ ~Given(step, config) => Succeeds(x, step, config) = x
         /\ Succeeds(x, step, config).stage = x.stage /\ Succeeds(x, step, config).last = x.last
<1>. PICK y : y = Released(x, step)
  OBVIOUS
<1>. PICK copied \in BOOLEAN :
       copied = (step.kind = "reopen" \/ (step.kind = "copy" /\ config[step.field] # NONE))
  OBVIOUS
<1>1. /\ y \in ClientStates /\ Owns(y) /\ step.field \in Resources /\ step.field \in Settings
      /\ step.kind \in {"copy", "reopen"} => step.field \notin y.own
      /\ \A f \in Settings : f # step.field => y.force[f] = x.force[f]
      /\ y.stage = x.stage /\ y.last = x.last
  BY ReleasedIsSound DEF Sound, Resources, Steps
<1>2. config[step.field] \in Values
  BY <1>1, ConfigFacts
<1>3. CASE ~Given(step, config)
  BY <1>3 DEF Succeeds
<1>4. CASE Given(step, config)
  <2> DEFINE z == [y EXCEPT !.force[step.field] = config[step.field],
                            !.own = IF copied THEN @ \cup {step.field} ELSE @,
                            !.heap = IF copied THEN Held(@, {step.field}) ELSE @]
  <2>1. Succeeds(x, step, config) = z
    BY <1>4 DEF Succeeds
  <2>2. Held(y.heap, {step.field}) =
          [r \in Resources |-> IF r = step.field THEN y.heap[r] + 1 ELSE y.heap[r]]
    BY <1>1 DEF Held, ClientStates
  <2>3. Held(y.heap, {step.field}) \in [Resources -> Int]
    <3>1. y.heap \in [Resources -> Int]
      BY <1>1 DEF ClientStates
    <3>2. \A r \in Resources : y.heap[r] \in Int /\ y.heap[r] + 1 \in Int
      BY <3>1
    <3> QED BY <2>2, <3>2
  <2>4. /\ z \in ClientStates /\ z.stage = y.stage /\ z.last = y.last
        /\ z.own = IF copied THEN y.own \cup {step.field} ELSE y.own
        /\ z.heap = IF copied THEN Held(y.heap, {step.field}) ELSE y.heap
        /\ z.force = [y.force EXCEPT ![step.field] = config[step.field]]
    BY <1>1, <1>2, <2>3 DEF ClientStates
  <2> HIDE DEF z
  <2>5. Owns(z)
    <3>1. CASE copied
      <4>1. step.field \notin y.own
        BY <1>1, <3>1
      <4> QED BY <1>1, <2>2, <2>4, <3>1, <4>1 DEF Owns
    <3>2. CASE ~copied
      BY <1>1, <2>4, <3>2 DEF Owns
    <3> QED BY <3>1, <3>2
  <2>6. z.force[step.field] = config[step.field]
        /\ \A f \in Settings : f # step.field => z.force[f] = y.force[f]
    BY <1>1, <2>4 DEF ClientStates
  <2> QED BY <1>1, <1>4, <2>1, <2>4, <2>5, <2>6 DEF Sound
<1> QED BY <1>3, <1>4

-----------------------------------------------------------------------------
(* A configuration, step by step.                                          *)

LEMMA StepwiseIs ==
  ASSUME NEW x \in Sound, NEW steps \in Seq(Steps),
         NEW config \in Configs, NEW after, after = Stepwise(x, steps, config)
  PROVE  /\ after[0] = x
         /\ \A n \in 1..Len(steps) : after[n] = Succeeds(after[n - 1], steps[n], config)
         /\ \A n \in 0..Len(steps) : after[n] \in Sound /\ after[n].stage = x.stage
<1>. PICK N \in Nat : N = Len(steps)
  BY LenProperties
<1>1. \A n \in 1..N : steps[n] \in Steps
  BY ElementOfSeq
<1>. PICK step : step = [n \in 1..N |-> [y \in Sound |-> Succeeds(y, steps[n], config)]]
  OBVIOUS
<1>2. step \in [1..N -> [Sound -> Sound]]
  <2>1. \A n \in 1..N : \A y \in Sound : Succeeds(y, steps[n], config) \in Sound
    BY <1>1, SucceedsIsSound
  <2> QED BY <2>1
<1> DEFINE Solves(f) == f = [n \in 0..N |-> IF n = 0 THEN x
                                            ELSE Succeeds(f[n - 1], steps[n], config)]
           solution == CHOOSE f : Solves(f)
<1>3. \E f : Solves(f)
  <2>. PICK f : StepsFrom(x, step, N, Sound, f)
    BY <1>2, StepByStep
  <2>1. f \in [0..N -> Sound] /\ f[0] = x /\ \A n \in 1..N : f[n] = step[n][f[n - 1]]
    BY DEF StepsFrom
  <2>2. ASSUME NEW n \in 0..N, n # 0 PROVE f[n] = Succeeds(f[n - 1], steps[n], config)
    <3>1. n \in 1..N /\ n - 1 \in 0..N
      BY <1>1, <2>2
    <3>2. f[n - 1] \in Sound
      BY <2>1, <3>1
    <3> QED BY <2>1, <3>1, <3>2
  <2>3. f = [n \in 0..N |-> IF n = 0 THEN x ELSE Succeeds(f[n - 1], steps[n], config)]
    BY <2>1, <2>2
  <2> QED BY <2>3
<1>4. Solves(solution)
  <2> HIDE DEF Solves
  <2> QED BY <1>3
<1>5. after = solution
  BY DEF Stepwise
<1> HIDE DEF solution
<1>6. after[0] = x /\ \A n \in 1..N : after[n] = Succeeds(after[n - 1], steps[n], config)
  <2>1. \A n \in 1..N : n \in 0..N /\ n # 0
    BY <1>1
  <2>2. 0 \in 0..N
    BY <1>1
  <2> QED BY <1>4, <1>5, <2>1, <2>2
<1>7. \A n \in 0..N : after[n] \in Sound /\ after[n].stage = x.stage
  <2> DEFINE T == {n \in 0..N : after[n] \in Sound /\ after[n].stage = x.stage}
  <2>1. 0 \in T
    BY <1>1, <1>6
  <2>2. ASSUME NEW n \in 1..N, n - 1 \in T PROVE n \in T
    <3>1. after[n - 1] \in Sound /\ after[n - 1].stage = x.stage
      BY <2>2
    <3>2. after[n] = Succeeds(after[n - 1], steps[n], config)
      BY <1>6
    <3>3. after[n] \in Sound /\ after[n].stage = after[n - 1].stage
      BY <1>1, <3>1, <3>2, SucceedsIsSound
    <3>4. n \in 0..N
      BY <1>1
    <3> QED BY <3>1, <3>3, <3>4
  <2>3. \A n \in 0..N : n \in T
    <3> HIDE DEF T
    <3> QED BY <1>1, <2>1, <2>2, UpTo
  <2> QED BY <2>3
<1> QED BY <1>5, <1>6, <1>7

(* What a step has set remains.                                             *)
LEMMA LastStepRules ==
  ASSUME NEW x \in Sound, NEW steps \in Seq(SureSteps), NEW config \in Configs,
         NEW i \in 1..Len(steps), steps[i].field \notin Lingers
  PROVE  Stepwise(x, steps, config)[Len(steps)].force[steps[i].field] = config[steps[i].field]
<1>. PICK f : f = steps[i].field
  OBVIOUS
<1>. PICK after : after = Stepwise(x, steps, config)
  OBVIOUS
<1>. PICK N \in Nat : N = Len(steps)
  BY LenProperties
<1>1. SureSteps \subseteq Steps
  BY DEF SureSteps
<1>2. \A n \in 1..N : steps[n] \in SureSteps
  BY ElementOfSeq
<1>3. steps \in Seq(Steps)
  <2>1. steps \in [1..N -> SureSteps] /\ steps \in Seq(SureSteps)
    BY LenProperties
  <2> QED BY <1>1, <2>1, SeqMonotonic
<1>4. /\ \A n \in 1..N : after[n] = Succeeds(after[n - 1], steps[n], config)
      /\ \A n \in 0..N : after[n] \in Sound
  BY <1>3, StepwiseIs
<1>5. f \in Settings /\ f \notin Lingers
  BY <1>1, <1>2 DEF Steps
<1>6. ASSUME NEW n \in 1..N, n = i \/ after[n - 1].force[f] = config[f]
      PROVE  after[n].force[f] = config[f]
  <2>1. steps[n] \in SureSteps /\ steps[n] \in Steps
    BY <1>1, <1>2
  <2>2. n - 1 \in 0..N
    OBVIOUS
  <2>3. after[n - 1] \in Sound /\ after[n] = Succeeds(after[n - 1], steps[n], config)
    BY <1>4, <2>2
  <2>4. CASE steps[n].field = f
    <3>1. Given(steps[n], config)
      BY <1>5, <2>1, <2>4 DEF SureSteps, Given
    <3> QED BY <2>1, <2>3, <2>4, <3>1, SucceedsIsSound
  <2>5. CASE steps[n].field # f
    <3>1. after[n].force[f] = after[n - 1].force[f]
      BY <1>5, <2>1, <2>3, <2>5, SucceedsIsSound
    <3> QED BY <1>6, <2>5, <3>1
  <2> QED BY <2>4, <2>5
<1>7. \A n \in 0..N : n >= i => after[n].force[f] = config[f]
  <2> DEFINE T == {n \in 0..N : n >= i => after[n].force[f] = config[f]}
  <2>1. 0 \in T
    OBVIOUS
  <2>2. ASSUME NEW n \in 1..N, n - 1 \in T PROVE n \in T
    <3>1. n \in 0..N /\ (n >= i => n = i \/ n - 1 >= i)
      OBVIOUS
    <3> QED BY <1>6, <2>2, <3>1
  <2>3. \A n \in 0..N : n \in T
    <3> HIDE DEF T
    <3> QED BY <2>1, <2>2, UpTo
  <2> QED BY <2>3
<1> QED BY <1>7

-----------------------------------------------------------------------------
(* The lists of the thirteen builds.                                       *)
LEMMA AllSure ==
  ASSUME NEW kind \in StepKinds, NEW fields \in Seq(Settings),
         kind \in {"given", "withproxy"} => \A i \in 1..Len(fields) : fields[i] \in Lingers
  PROVE  All(kind, fields) \in Seq(SureSteps)
<1>. PICK N \in Nat : N = Len(fields)
  BY LenProperties
<1>1. \A i \in 1..N : fields[i] \in Settings
  BY ElementOfSeq
<1>2. \A i \in 1..N : [kind |-> kind, field |-> fields[i]] \in SureSteps
  BY <1>1 DEF SureSteps, Steps
<1>3. All(kind, fields) \in [1..N -> SureSteps]
  BY <1>2 DEF All
<1> QED BY <1>3, SeqDef

LEMMA LingeringSure ==
  ASSUME NEW kind \in StepKinds, NEW f \in Lingers, f \in Settings
  PROVE  All(kind, <<f>>) \in Seq(SureSteps)
<1>1. <<f>> \in Seq(Settings) /\ \A i \in 1..Len(<<f>>) : <<f>>[i] \in Lingers
  OBVIOUS
<1> QED BY <1>1, AllSure

LEMMA SureConcat ==
  ASSUME NEW S, NEW s \in Seq(S), NEW t \in Seq(S)
  PROVE  s \o t \in Seq(S)
BY ConcatProperties

LEMMA SureLists ==
  ASSUME Backend \in ClientBackends
  PROVE  ConfigSteps \in Seq(SureSteps)
<1>1. /\ <<"verify", "redirects">> \in Seq(Settings) /\ <<"timeout">> \in Seq(Settings)
      /\ <<"jar">> \in Seq(Settings) /\ <<"tls">> \in Seq(Settings)
      /\ <<"agent">> \in Seq(Settings) /\ <<"proxy">> \in Seq(Settings)
      /\ <<"auth">> \in Seq(Settings) /\ <<"verify">> \in Seq(Settings)
      /\ <<"redirects">> \in Seq(Settings) /\ <<"timeout", "verify", "redirects">> \in Seq(Settings)
      /\ <<"agent", "proxy", "auth">> \in Seq(Settings) /\ <<"agent", "proxy">> \in Seq(Settings)
      /\ <<"verify", "jar">> \in Seq(Settings)
  BY DEF Settings
<1>2. /\ "set" \in StepKinds /\ "try" \in StepKinds /\ "given" \in StepKinds
      /\ "withproxy" \in StepKinds /\ "copy" \in StepKinds /\ "reopen" \in StepKinds
  BY DEF StepKinds
<1>3. /\ Flags \in Seq(SureSteps) /\ Timeout("set") \in Seq(SureSteps) /\ Jar \in Seq(SureSteps)
      /\ Copies(<<"agent", "proxy", "auth">>) \in Seq(SureSteps)
      /\ Copies(<<"agent", "proxy">>) \in Seq(SureSteps) /\ Copies(<<"auth">>) \in Seq(SureSteps)
      /\ All("set", <<"redirects">>) \in Seq(SureSteps)
      /\ All("set", <<"verify", "jar">>) \in Seq(SureSteps)
      /\ All("reopen", <<"verify">>) \in Seq(SureSteps)
      /\ All("try", <<"timeout", "verify", "redirects">>) \in Seq(SureSteps)
      /\ All("try", <<"proxy">>) \in Seq(SureSteps)
  BY <1>1, <1>2, AllSure DEF Flags, Timeout, Jar, Copies
<1>4. ASSUME "timeout" \in Lingers PROVE Timeout("given") \in Seq(SureSteps)
  BY <1>2, <1>4, LingeringSure DEF Timeout, Settings
<1>5. ASSUME "auth" \in Lingers PROVE All("withproxy", <<"auth">>) \in Seq(SureSteps)
  BY <1>2, <1>5, LingeringSure DEF Settings
<1>6. CASE Backend = "curl"
  <2>1. "tls" \in Lingers /\ "agent" \in Lingers /\ "auth" \in Lingers
    BY <1>6 DEF Lingers
  <2>2. All("given", <<"tls">>) \in Seq(SureSteps) /\ All("given", <<"agent">>) \in Seq(SureSteps)
    BY <1>2, <2>1, LingeringSure DEF Settings
  <2>3. http_curl_config_apply \in Seq(SureSteps)
    BY <1>3, <1>5, <2>1, <2>2, SureConcat DEF http_curl_config_apply
  <2> QED BY <1>6, <2>3 DEF ConfigSteps
<1>7. CASE Backend \in {"libuv", "libevent"}
  <2>1. http_libuv_config_apply \in Seq(SureSteps) /\ http_libevent_config_apply \in Seq(SureSteps)
    BY <1>3, SureConcat DEF http_libuv_config_apply, http_libevent_config_apply
  <2> QED BY <1>7, <2>1 DEF ConfigSteps
<1>8. CASE Backend \in {"raw", "wininet", "libsoup3"}
  <2>1. "timeout" \in Lingers
    BY <1>8 DEF Lingers
  <2>2. http_raw_config_apply \in Seq(SureSteps)
    BY <1>4, <2>1 DEF http_raw_config_apply
  <2>3. http_wininet_config_apply \in Seq(SureSteps)
    BY <1>3, <1>4, <2>1, SureConcat DEF http_wininet_config_apply
  <2>4. http_libsoup3_config_apply \in Seq(SureSteps)
    BY <1>3, <1>4, <2>1, SureConcat DEF http_libsoup3_config_apply
  <2> QED BY <1>8, <2>2, <2>3, <2>4 DEF ConfigSteps
<1>9. CASE Backend = "winhttp"
  <2>1. "timeout" \in Lingers /\ "auth" \in Lingers
    BY <1>9 DEF Lingers
  <2>2. http_winhttp_config_apply \in Seq(SureSteps)
    BY <1>3, <1>4, <1>5, <2>1, SureConcat DEF http_winhttp_config_apply
  <2> QED BY <1>9, <2>2 DEF ConfigSteps
<1>10. CASE Backend \in {"fetch", "wasm", "msh3", "apple", "picoquic", "xquic"}
  <2>1. /\ http_fetch_config_apply \in Seq(SureSteps) /\ http_wasm_config_apply \in Seq(SureSteps)
        /\ http_msh3_config_apply \in Seq(SureSteps) /\ http_apple_config_apply \in Seq(SureSteps)
        /\ http_picoquic_config_apply \in Seq(SureSteps)
        /\ http_xquic_config_apply \in Seq(SureSteps)
    BY <1>3, SureConcat
       DEF http_fetch_config_apply, http_wasm_config_apply, http_msh3_config_apply,
           http_apple_config_apply, http_picoquic_config_apply, http_xquic_config_apply
  <2> QED BY <1>10, <2>1 DEF ConfigSteps
<1> QED BY <1>6, <1>7, <1>8, <1>9, <1>10, ClientBounds

(* The lists and what lingers are the build's.                              *)
LEMMA BuildStays ==
  ASSUME library'.backend = library.backend
  PROVE  Supported' = Supported /\ Lingers' = Lingers /\ Backend' = Backend
<1>1. Backend' = Backend
  BY DEF Backend
<1>2. ConfigSteps' = ConfigSteps /\ Lingers' = Lingers
  BY <1>1 DEF ConfigSteps, Lingers
<1> QED BY <1>1, <1>2 DEF Supported

-----------------------------------------------------------------------------
(* The inductive invariant: every client is as its stage says, and the      *)
(* library counts those that need it.                                      *)
ClientFits(x) ==
  /\ x \in Sound
  /\ x.stage # "live" => x.own = {}
  /\ x.stage \in {"new", "ready"} => x.last = <<>>
  /\ (x.stage = "live" /\ x.last # <<>>) =>
       \A f \in Supported \ Lingers : x.force[f] = x.last[1][f]

Users == {c \in Clients : client[c].stage \in {"ready", "live", "closed"}}

ClientsInv == client \in [Clients -> Sound] /\ \A c \in Clients : ClientFits(client[c])

LibraryInv ==
  /\ library \in [backend : ClientBackends, count : Nat, up : Nat, applies : Nat]
  /\ library.count = Cardinality(Users)
  /\ library.up = IF Backend \in Counted THEN IF library.count > 0 THEN 1 ELSE 0
                  ELSE library.count

ClientInv == ClientsInv /\ LibraryInv

LEMMA UsersFinite == IsFiniteSet(Users) /\ Cardinality(Users) \in Nat
<1>1. IsFiniteSet(Clients)
  BY ClientBounds, FS_Interval DEF Clients
<1>2. IsFiniteSet(Users)
  BY <1>1, FS_Subset, Users \subseteq Clients DEF Users
<1> QED BY <1>2, FS_CardinalityType

LEMMA NewFits ==
  ASSUME Backend \in ClientBackends
  PROVE  ClientFits(NewClient)
<1>1. NONE \in Values
  BY DEF Values
<1>2. Settings \cup {"context", "handle"} = Resources
  BY DEF Resources
<1>3. NewClient \in ClientStates
  BY <1>1, <1>2 DEF NewClient, ClientStates
<1>4. Owns(NewClient)
  BY <1>2 DEF Owns, NewClient
<1> QED BY <1>3, <1>4 DEF ClientFits, Sound, NewClient

LEMMA ClientInvInit == ClientInit => ClientInv
<1> SUFFICES ASSUME ClientInit PROVE ClientInv
  OBVIOUS
<1>1. /\ library \in [backend : ClientBackends, count : {0}, up : {0}, applies : {0}]
      /\ client = [c \in Clients |-> NewClient] /\ Backend \in ClientBackends
  BY DEF ClientInit, Backend
<1>2. ClientFits(NewClient)
  BY <1>1, NewFits
<1>3. ClientsInv
  BY <1>1, <1>2 DEF ClientsInv, ClientFits
<1>4. Users = {}
  BY <1>1 DEF Users, NewClient
<1>5. LibraryInv
  BY <1>1, <1>4, FS_EmptySet DEF LibraryInv
<1> QED BY <1>3, <1>5 DEF ClientInv

(* A step of one client.                                                    *)
LEMMA OneClient ==
  ASSUME ClientInv, NEW c \in Clients, NEW x, ClientFits(x),
         client' = [client EXCEPT ![c] = x], library'.backend = library.backend
  PROVE  ClientsInv'
<1>1. /\ client' \in [Clients -> Sound]
      /\ \A d \in Clients : ClientFits(client'[d])
  BY DEF ClientInv, ClientsInv, ClientFits
<1>2. Clients' = Clients /\ Sound' = Sound /\ Supported' = Supported /\ Lingers' = Lingers
  BY BuildStays
<1> QED BY <1>1, <1>2 DEF ClientsInv, ClientFits

(* One that enters the library, leaves it or does neither.                  *)
LEMMA Enters ==
  ASSUME ClientInv, NEW c \in Clients, client[c].stage = "new", client'[c].stage = "ready",
         \A d \in Clients : d # c => client'[d] = client[d]
  PROVE  Cardinality(Users)' = Cardinality(Users) + 1
<1>1. Users' = Users \cup {c} /\ c \notin Users
  BY DEF Users
<1> QED BY <1>1, UsersFinite, FS_AddElement

LEMMA Leaves ==
  ASSUME ClientInv, NEW c \in Clients, client[c].stage \in {"ready", "closed"},
         client'[c].stage = "ended", \A d \in Clients : d # c => client'[d] = client[d]
  PROVE  /\ Cardinality(Users)' = Cardinality(Users) - 1 /\ Cardinality(Users) > 0
<1>1. Users' = Users \ {c} /\ c \in Users
  BY DEF Users
<1>2. Cardinality(Users') = Cardinality(Users) - 1
  BY <1>1, UsersFinite, FS_RemoveElement
<1>3. Cardinality(Users) # 0
  BY <1>1, UsersFinite, FS_EmptySet
<1> QED BY <1>2, <1>3, UsersFinite

LEMMA Remains ==
  ASSUME ClientInv, NEW c \in Clients,
         (client[c].stage \in {"ready", "live", "closed"})
           <=> (client'[c].stage \in {"ready", "live", "closed"}),
         \A d \in Clients : d # c => client'[d] = client[d], library' = library
  PROVE  LibraryInv'
<1>1. Users' = Users
  BY DEF Users
<1> QED BY <1>1 DEF ClientInv, LibraryInv, Backend

LEMMA LibraryType == ClientInv => library.count \in Nat /\ library.up \in Nat
BY DEF ClientInv, LibraryInv

LEMMA InitKeeps ==
  ASSUME ClientInv, NEW c \in Clients, transport_global_init(c)
  PROVE  ClientInv'
<1>1. client \in [Clients -> Sound] /\ client[c].stage = "new" /\ ClientFits(client[c])
  BY DEF ClientInv, ClientsInv, transport_global_init
<1>2. ASSUME NEW s \in {"ready", "ended"}
      PROVE  LET x == [client[c] EXCEPT !.stage = s]
             IN  ClientFits(x) /\ [client EXCEPT ![c].stage = s] = [client EXCEPT ![c] = x]
                 /\ x.stage = s
  BY <1>1 DEF ClientFits, Sound, ClientStates, Owns
<1>3. ASSUME NEW s \in {"ready", "ended"}, client' = [client EXCEPT ![c].stage = s],
             library'.backend = library.backend
      PROVE  /\ ClientsInv' /\ client'[c].stage = s
             /\ \A d \in Clients : d # c => client'[d] = client[d]
  <2>1. PICK x : x = [client[c] EXCEPT !.stage = s]
    OBVIOUS
  <2>2. ClientFits(x) /\ client' = [client EXCEPT ![c] = x] /\ x.stage = s
    BY <1>2, <1>3, <2>1
  <2> QED BY <1>1, <1>3, <2>2, OneClient
<1>4. CASE Start /\ client' = [client EXCEPT ![c].stage = "ready"]
  <2>1. /\ library' = [library EXCEPT !.count = library.count + 1,
                         !.up = IF Backend \in Counted /\ library.count > 0 THEN library.up
                                ELSE library.up + 1]
        /\ library \in [backend : ClientBackends, count : Nat, up : Nat, applies : Nat]
        /\ library.up = IF Backend \in Counted THEN IF library.count > 0 THEN 1 ELSE 0
                        ELSE library.count
    BY <1>4 DEF Start, ClientInv, LibraryInv
  <2>2. /\ library' \in [backend : ClientBackends, count : Nat, up : Nat, applies : Nat]
        /\ library'.backend = library.backend /\ library'.count = library.count + 1
        /\ library'.up = IF Backend \in Counted /\ library.count > 0 THEN library.up
                         ELSE library.up + 1
    <3>1. /\ library'.backend = library.backend /\ library'.count = library.count + 1
          /\ library'.up = IF Backend \in Counted /\ library.count > 0 THEN library.up
                           ELSE library.up + 1
      BY <2>1
    <3>2. library'.count \in Nat /\ library'.up \in Nat
      BY <3>1, LibraryType
    <3>3. library' = [library EXCEPT !.count = library'.count, !.up = library'.up]
      BY <2>1, <3>1
    <3> QED BY <2>1, <3>1, <3>2, <3>3
  <2>3. /\ ClientsInv' /\ client'[c].stage = "ready"
        /\ \A d \in Clients : d # c => client'[d] = client[d]
    BY <1>3, <1>4, <2>2
  <2>4. Cardinality(Users)' = Cardinality(Users) + 1
    BY <1>1, <2>3, Enters
  <2>5. LibraryInv'
    <3>1. library'.count = Cardinality(Users)'
      BY <2>2, <2>4 DEF ClientInv, LibraryInv
    <3>2. library'.up = IF Backend' \in Counted THEN IF library'.count > 0 THEN 1 ELSE 0
                        ELSE library'.count
      BY <2>1, <2>2, LibraryType DEF Backend
    <3> QED BY <2>2, <3>1, <3>2 DEF LibraryInv
  <2> QED BY <2>3, <2>5 DEF ClientInv
<1>5. CASE client' = [client EXCEPT ![c].stage = "ended"] /\ UNCHANGED library
  <2>1. /\ ClientsInv' /\ client'[c].stage = "ended"
        /\ \A d \in Clients : d # c => client'[d] = client[d]
    BY <1>3, <1>5
  <2>2. LibraryInv'
    BY <1>1, <1>5, <2>1, Remains
  <2> QED BY <2>1, <2>2 DEF ClientInv
<1> QED BY <1>4, <1>5 DEF transport_global_init

LEMMA CleanupKeeps ==
  ASSUME ClientInv, NEW c \in Clients, transport_global_cleanup(c)
  PROVE  ClientInv'
<1>1. /\ client \in [Clients -> Sound] /\ client[c].stage \in {"ready", "closed"}
      /\ ClientFits(client[c]) /\ Stop /\ client' = [client EXCEPT ![c].stage = "ended"]
  BY DEF ClientInv, ClientsInv, transport_global_cleanup
<1>2. PICK x : x = [client[c] EXCEPT !.stage = "ended"]
  OBVIOUS
<1>3. ClientFits(x) /\ client' = [client EXCEPT ![c] = x] /\ x.stage = "ended"
  BY <1>1, <1>2 DEF ClientFits, Sound, ClientStates, Owns
<1>4. /\ library' = [library EXCEPT !.count = library.count - 1,
                       !.up = IF Backend \in Counted /\ library.count > 1 THEN library.up
                              ELSE library.up - 1]
      /\ library \in [backend : ClientBackends, count : Nat, up : Nat, applies : Nat]
      /\ library.up = IF Backend \in Counted THEN IF library.count > 0 THEN 1 ELSE 0
                      ELSE library.count
  BY <1>1 DEF Stop, ClientInv, LibraryInv
<1>5. client'[c].stage = "ended" /\ \A d \in Clients : d # c => client'[d] = client[d]
  BY <1>1, <1>3
<1>6. Cardinality(Users)' = Cardinality(Users) - 1 /\ library.count > 0
  BY <1>1, <1>5, Leaves DEF ClientInv, LibraryInv
<1>7. /\ library'.backend = library.backend /\ library'.count = library.count - 1
      /\ library'.up = IF Backend \in Counted /\ library.count > 1 THEN library.up
                       ELSE library.up - 1
      /\ library'.applies = library.applies /\ DOMAIN library' = DOMAIN library
  BY <1>4
<1>8. library'.up = IF Backend' \in Counted THEN IF library'.count > 0 THEN 1 ELSE 0
                    ELSE library'.count
  BY <1>4, <1>6, <1>7, LibraryType DEF Backend
<1>9. library'.count \in Nat /\ library'.up \in Nat
  BY <1>6, <1>7, <1>8, LibraryType
<1>10. library' \in [backend : ClientBackends, count : Nat, up : Nat, applies : Nat]
  <2>1. library' = [library EXCEPT !.count = library'.count, !.up = library'.up]
    BY <1>4, <1>7
  <2> QED BY <1>4, <1>9, <2>1
<1>11. LibraryInv'
  <2>1. library'.count = Cardinality(Users)'
    BY <1>6, <1>7 DEF ClientInv, LibraryInv
  <2> QED BY <1>8, <1>10, <2>1 DEF LibraryInv
<1>12. ClientsInv'
  BY <1>3, <1>7, OneClient
<1> QED BY <1>11, <1>12 DEF ClientInv

(* What a context has just acquired, and what is left when it is freed.     *)
LEMMA ContextInitKeeps ==
  ASSUME ClientInv, NEW c \in Clients, context_init(c)
  PROVE  ClientInv'
<1>1. /\ client \in [Clients -> Sound] /\ client[c].stage = "ready"
      /\ ClientFits(client[c]) /\ library' = library
  BY DEF ClientInv, ClientsInv, context_init
<1>. PICK got : got = ToSet(Acquires)
  OBVIOUS
<1>2. got \subseteq Resources
  BY DEF ToSet, Acquires, Resources, Settings
<1>3. CASE client' = [client EXCEPT ![c].stage = "live", ![c].own = got,
                                    ![c].heap = Held(@, got), ![c].force = InitialForce]
  <2>. PICK x : x = [client[c] EXCEPT !.stage = "live", !.own = got,
                                      !.heap = Held(client[c].heap, got), !.force = InitialForce]
    OBVIOUS
  <2>1. client' = [client EXCEPT ![c] = x]
    BY <1>1, <1>3
  <2>2. /\ client[c] \in ClientStates /\ Owns(client[c]) /\ client[c].own = {}
        /\ client[c].last = <<>>
    BY <1>1 DEF ClientFits, Sound
  <2>3. Held(client[c].heap, got) = [r \in Resources |-> IF r \in got THEN 1 ELSE 0]
    BY <2>2 DEF Held, Owns, ClientStates
  <2>4. InitialForce \in [Settings -> Values]
    BY DEF InitialForce, Values
  <2>5. Held(client[c].heap, got) \in [Resources -> Int]
    BY <2>3
  <2>6. /\ x \in ClientStates /\ x.own = got /\ x.heap = Held(client[c].heap, got)
        /\ x.stage = "live" /\ x.last = <<>>
    BY <1>2, <2>2, <2>4, <2>5 DEF ClientStates
  <2>7. ClientFits(x)
    BY <2>3, <2>6 DEF ClientFits, Sound, Owns
  <2>8. ClientsInv' /\ client'[c] = x /\ \A d \in Clients : d # c => client'[d] = client[d]
    BY <1>1, <2>1, <2>7, OneClient
  <2>9. LibraryInv'
    BY <1>1, <2>6, <2>8, Remains
  <2> QED BY <2>8, <2>9 DEF ClientInv
<1>4. CASE client' = [client EXCEPT ![c].stage = "closed"]
  <2>. PICK x : x = [client[c] EXCEPT !.stage = "closed"]
    OBVIOUS
  <2>1. ClientFits(x) /\ client' = [client EXCEPT ![c] = x] /\ x.stage = "closed"
    BY <1>1, <1>4 DEF ClientFits, Sound, ClientStates, Owns
  <2>2. ClientsInv' /\ client'[c] = x /\ \A d \in Clients : d # c => client'[d] = client[d]
    BY <1>1, <2>1, OneClient
  <2>3. LibraryInv'
    BY <1>1, <2>1, <2>2, Remains
  <2> QED BY <2>2, <2>3 DEF ClientInv
<1> QED BY <1>3, <1>4 DEF context_init

LEMMA ContextFreeKeeps ==
  ASSUME ClientInv, NEW c \in Clients, context_free(c)
  PROVE  ClientInv'
<1>1. /\ client \in [Clients -> Sound] /\ client[c].stage = "live"
      /\ ClientFits(client[c]) /\ library' = library
      /\ client' = [client EXCEPT ![c].stage = "closed", ![c].own = {},
                                  ![c].heap = Freed(@, client[c].own)]
  BY DEF ClientInv, ClientsInv, context_free
<1>. PICK x : x = [client[c] EXCEPT !.stage = "closed", !.own = {},
                                    !.heap = Freed(client[c].heap, client[c].own)]
  OBVIOUS
<1>2. client' = [client EXCEPT ![c] = x]
  BY <1>1
<1>3. client[c] \in ClientStates /\ Owns(client[c])
  BY <1>1 DEF ClientFits, Sound
<1>4. Freed(client[c].heap, client[c].own) = [r \in Resources |-> 0]
  BY <1>3 DEF Freed, Owns, ClientStates
<1>5. /\ x \in ClientStates /\ x.own = {} /\ x.heap = [r \in Resources |-> 0]
      /\ x.stage = "closed"
  <2>. PICK none : none = [r \in Resources |-> 0]
    OBVIOUS
  <2>1. /\ none \in [Resources -> Int]
        /\ x = [client[c] EXCEPT !.stage = "closed", !.own = {}, !.heap = none]
    BY <1>4
  <2> QED BY <1>3, <2>1 DEF ClientStates
<1>6. ClientFits(x)
  BY <1>5 DEF ClientFits, Sound, Owns
<1>7. ClientsInv' /\ client'[c] = x /\ \A d \in Clients : d # c => client'[d] = client[d]
  BY <1>1, <1>2, <1>6, OneClient
<1>8. LibraryInv'
  BY <1>1, <1>5, <1>7, Remains
<1> QED BY <1>7, <1>8 DEF ClientInv

(* A configuration that was applied, or failed at one of its steps.         *)
LEMMA ConfigKeeps ==
  ASSUME ClientInv, NEW c \in Clients, NEW config \in Configs, config_apply(c, config)
  PROVE  ClientInv'
<1>. PICK steps : steps = ConfigSteps
  OBVIOUS
<1>. PICK N : N = Len(steps)
  OBVIOUS
<1>. PICK after : after = Stepwise(client[c], steps, config)
  OBVIOUS
<1>1. /\ client \in [Clients -> Sound] /\ client[c].stage = "live"
      /\ client[c] \in Sound /\ library' = [library EXCEPT !.applies = library.applies + 1]
      /\ library \in [backend : ClientBackends, count : Nat, up : Nat, applies : Nat]
  BY DEF ClientInv, ClientsInv, LibraryInv, config_apply
<1>2. steps \in Seq(SureSteps) /\ N \in Nat
  BY <1>1, SureLists, LenProperties DEF Backend
<1>3. steps \in Seq(Steps) /\ \A n \in 1..N : steps[n] \in Steps
  <2>1. SureSteps \subseteq Steps
    BY DEF SureSteps
  <2> QED BY <1>2, <2>1, SeqMonotonic, ElementOfSeq
<1>4. \A n \in 0..N : after[n] \in Sound /\ after[n].stage = "live"
  BY <1>1, <1>3, StepwiseIs
<1>5. ASSUME NEW x, ClientFits(x), x.stage = "live", client' = [client EXCEPT ![c] = x]
      PROVE  ClientInv'
  <2>1. /\ library'.backend = library.backend /\ library'.count = library.count
        /\ library'.up = library.up
        /\ library' \in [backend : ClientBackends, count : Nat, up : Nat, applies : Nat]
    BY <1>1
  <2>2. ClientsInv' /\ client'[c] = x /\ \A d \in Clients : d # c => client'[d] = client[d]
    BY <1>1, <1>5, <2>1, OneClient
  <2>3. Users' = Users
    BY <1>1, <1>5, <2>2 DEF Users
  <2>4. LibraryInv'
    BY <2>1, <2>3 DEF ClientInv, LibraryInv, Backend
  <2> QED BY <2>2, <2>4 DEF ClientInv
<1>6. ASSUME client' = [client EXCEPT ![c] = [after[N] EXCEPT !.last = <<config>>]]
      PROVE  ClientInv'
  <2>. PICK x : x = [after[N] EXCEPT !.last = <<config>>]
    OBVIOUS
  <2>1. after[N] \in ClientStates /\ Owns(after[N]) /\ after[N].stage = "live"
    BY <1>2, <1>4 DEF Sound
  <2>2. x \in ClientStates /\ Owns(x) /\ x.stage = "live" /\ x.last = <<config>>
        /\ x.force = after[N].force
    BY <2>1 DEF ClientStates, Owns
  <2>3. ASSUME NEW f \in Supported \ Lingers PROVE x.force[f] = config[f]
    <3>1. PICK i \in DOMAIN steps : f = steps[i].field
      BY DEF Supported
    <3>2. i \in 1..N
      BY <1>2, <3>1, LenProperties
    <3> QED BY <1>1, <1>2, <2>2, <3>1, <3>2, LastStepRules
  <2>4. ClientFits(x)
    BY <2>2, <2>3 DEF ClientFits, Sound
  <2> QED BY <1>5, <1>6, <2>2, <2>4
<1>7. ASSUME NEW n \in 1..N,
             client' = [client EXCEPT
                          ![c] = [Released(after[n - 1], steps[n]) EXCEPT !.last = <<>>]]
      PROVE  ClientInv'
  <2>. PICK x : x = [Released(after[n - 1], steps[n]) EXCEPT !.last = <<>>]
    OBVIOUS
  <2>1. after[n - 1] \in Sound /\ after[n - 1].stage = "live" /\ steps[n] \in Steps
    BY <1>2, <1>3, <1>4
  <2>2. Released(after[n - 1], steps[n]) \in Sound
        /\ Released(after[n - 1], steps[n]).stage = "live"
    BY <2>1, ReleasedIsSound
  <2>3. x \in ClientStates /\ Owns(x) /\ x.stage = "live" /\ x.last = <<>>
    BY <2>2 DEF Sound, ClientStates, Owns
  <2>4. ClientFits(x)
    BY <2>3 DEF ClientFits, Sound
  <2> QED BY <1>5, <1>7, <2>3, <2>4
<1> QED BY <1>6, <1>7 DEF config_apply

LEMMA ClientInvStep == ClientInv /\ [ClientNext]_clientVars => ClientInv'
<1> SUFFICES ASSUME ClientInv, [ClientNext]_clientVars PROVE ClientInv'
  OBVIOUS
<1>1. CASE UNCHANGED clientVars
  <2>1. library' = library /\ client' = client
    BY <1>1 DEF clientVars
  <2>2. Supported' = Supported /\ Lingers' = Lingers /\ Backend' = Backend /\ Users' = Users
    BY <2>1, BuildStays DEF Users
  <2> QED BY <2>1, <2>2 DEF ClientInv, ClientsInv, LibraryInv, ClientFits
<1>2. ASSUME NEW c \in Clients, ClientSteps(c) PROVE ClientInv'
  BY <1>2, InitKeeps, CleanupKeeps, ContextInitKeeps, ContextFreeKeeps, ConfigKeeps
     DEF ClientSteps
<1> QED BY <1>1, <1>2 DEF ClientNext

LEMMA ClientInvAlways == ClientSpec => []ClientInv
BY ClientInvInit, ClientInvStep, PTL DEF ClientSpec

LEMMA ClientInvMeans == ClientInv => LastConfigRules /\ ResourcesOwned
<1> SUFFICES ASSUME ClientInv PROVE LastConfigRules /\ ResourcesOwned
  OBVIOUS
<1>1. LastConfigRules
  BY DEF ClientInv, ClientsInv, ClientFits, LastConfigRules
<1>2. ResourcesOwned
  <2>1. \A c \in Clients : /\ client[c] \in ClientStates /\ Owns(client[c])
                           /\ client[c].stage # "live" => client[c].own = {}
    BY DEF ClientInv, ClientsInv, ClientFits, Sound
  <2>2. \A c \in Clients : \A r \in DOMAIN client[c].heap :
          client[c].heap[r] = IF r \in client[c].own THEN 1 ELSE 0
    BY <2>1 DEF ClientStates, Owns
  <2>3. (library.count > 0) <=> (Users # {})
    BY UsersFinite, FS_EmptySet DEF ClientInv, LibraryInv
  <2>4. (library.up > 0 <=> Users # {}) /\ (Backend \in Counted => library.up <= 1)
    BY <2>3 DEF ClientInv, LibraryInv
  <2> QED BY <2>1, <2>2, <2>4 DEF ResourcesOwned, Users
<1> QED BY <1>1, <1>2

(* Applying a configuration without error leaves it alone in force: what an *)
(* earlier one set, or one that failed half-way, does not linger, whatever   *)
(* the configurations and their order (the *_config_apply functions).       *)
THEOREM ConfigTheorem == ClientSpec => []LastConfigRules
BY ClientInvAlways, ClientInvMeans, PTL

(* However many clients there are: each string and handle of a context is   *)
(* held once and freed once, and the library is up exactly while a client    *)
(* needs it (context_init, context_free, *_global_init, *_global_cleanup).  *)
THEOREM ClientTheorem == ClientSpec => []ResourcesOwned
BY ClientInvAlways, ClientInvMeans, PTL

-----------------------------------------------------------------------------
(* Requests.  Lists of headers, parts and cookies.                          *)
Lists(S) == {l \in [room : Nat, items : Seq(S)] : Len(l.items) <= l.room}
Texts == Keys \cup Cookies \cup {"Authorization"}
HeaderLists == Lists(Texts)
PartItems == [name : Int, file : Int, type : Int, headers : HeaderLists, data : Int]
BodyStates ==
  [kind : {"none", "form", "multipart"}, len : Int, size : Int, written : Int, parts : Int]
RequestStates ==
  [url : BOOLEAN, headers : HeaderLists, parts : Lists(PartItems), body : BodyStates]

LEMMA LongerRecord ==
  \A r, s, t : [[room |-> r, items |-> s] EXCEPT !.items = t] = [room |-> r, items |-> t]
OBVIOUS

LEMMA AddedIs ==
  ASSUME NEW S, NEW list \in Lists(S), NEW first \in Nat \ {0}, NEW item \in S,
         NEW strings \in Int, NEW o \in Added(list, first, item, strings)
  PROVE  /\ o.list \in Lists(S) /\ o.got \in Int /\ Len(o.list.items) \in Nat
         /\ o.list.items = IF o.ok THEN Append(list.items, item) ELSE list.items
         /\ o.got = Block(o.list) - Block(list) + IF o.ok THEN strings ELSE 0
         /\ o.ok \in BOOLEAN
<1>. PICK items : items = list.items
  OBVIOUS
<1>. PICK n \in Nat : n = Len(items)
  BY LenProperties DEF Lists
<1>. PICK room \in Nat : room = list.room
  BY DEF Lists
<1>1. items \in Seq(S) /\ n <= room /\ list = [room |-> room, items |-> items]
  BY DEF Lists
<1>8. PICK more \in Nat : more = IF n < room THEN room ELSE IF room = 0 THEN first ELSE 2 * room
  OBVIOUS
<1>2. n < more /\ (room # 0 => more # 0)
  BY <1>1, <1>8
<1>3. Grown(list, first) = [room |-> more, items |-> items]
  BY <1>1, <1>8 DEF Grown
<1>. PICK array : array = NewBlocks(list, Grown(list, first))
  OBVIOUS
<1>4. array = IF room = 0 THEN 1 ELSE 0
  BY <1>1, <1>2, <1>3 DEF NewBlocks
<1>. PICK grown : grown = [room |-> more, items |-> items]
  OBVIOUS
<1>5. grown \in Lists(S) /\ Block(grown) = 1 /\ array = Block(grown) - Block(list)
  BY <1>1, <1>2, <1>4 DEF Lists, Block
<1>6. CASE o = Outcome(grown, FALSE, array)
  BY <1>1, <1>4, <1>5, <1>6 DEF Outcome
<1>7. CASE o = Outcome([grown EXCEPT !.items = Append(@, item)], TRUE, array + strings)
  <2>. PICK longer : longer = Append(items, item)
    OBVIOUS
  <2>1. longer \in Seq(S) /\ Len(longer) = n + 1
    BY <1>1, AppendProperties
  <2>2. [grown EXCEPT !.items = Append(@, item)] = [room |-> more, items |-> longer]
    <3>1. /\ Append(grown.items, item) = longer /\ grown.room = more
          /\ DOMAIN grown = {"room", "items"}
      OBVIOUS
    <3>2. [grown EXCEPT !.items = Append(@, item)] = [grown EXCEPT !.items = longer]
      BY <3>1
    <3>3. [grown EXCEPT !.items = longer] = [room |-> more, items |-> longer]
      BY LongerRecord
    <3> QED BY <3>2, <3>3
  <2>3. [room |-> more, items |-> longer] \in Lists(S)
    BY <1>2, <2>1 DEF Lists
  <2>4. /\ o.list = [room |-> more, items |-> longer] /\ o.ok = TRUE /\ o.got = array + strings
    BY <1>7, <2>2 DEF Outcome
  <2>5. Block(o.list) = 1 /\ array \in Int /\ Block(list) \in Int
    BY <1>2, <1>4, <2>4 DEF Block
  <2>6. o.got = Block(o.list) - Block(list) + strings /\ o.got \in Int
    BY <1>5, <2>4, <2>5
  <2>7. o.list.items = longer /\ o.list \in Lists(S)
    BY <2>3, <2>4
  <2>8. Len(o.list.items) \in Nat
    BY <2>1, <2>7
  <2> QED BY <2>4, <2>6, <2>7, <2>8
<1> QED BY <1>3, <1>6, <1>7 DEF Added

LEMMA HeaderListFacts ==
  ASSUME NEW list \in HeaderLists
  PROVE  Len(list.items) \in Nat /\ Block(list) \in Int /\ HeaderBlocks(list) \in Int
         /\ HeaderBlocks(list) = Block(list) + 2 * Len(list.items)
<1>1. Len(list.items) \in Nat
  BY LenProperties DEF HeaderLists, Lists
<1> QED BY <1>1 DEF HeaderBlocks, Block

LEMMA HeaderAdded ==
  ASSUME NEW list \in HeaderLists, NEW key \in Texts, NEW o \in http_headers_add(list, key)
  PROVE  /\ o.list \in HeaderLists /\ o.got \in Int
         /\ HeaderBlocks(o.list) = HeaderBlocks(list) + o.got
<1>1. o \in Added(list, HeaderRoom, key, 2) /\ HeaderRoom \in Nat \ {0}
  BY RequestBounds DEF http_headers_add
<1>2. /\ o.list \in HeaderLists /\ o.got \in Int
      /\ o.list.items = IF o.ok THEN Append(list.items, key) ELSE list.items
      /\ o.got = Block(o.list) - Block(list) + IF o.ok THEN 2 ELSE 0
  BY <1>1, AddedIs DEF HeaderLists
<1>3. Len(o.list.items) = Len(list.items) + IF o.ok THEN 1 ELSE 0
  <2>1. list.items \in Seq(Texts) /\ Len(list.items) \in Nat
    BY LenProperties DEF HeaderLists, Lists
  <2>2. Len(Append(list.items, key)) = Len(list.items) + 1
    BY <2>1, AppendProperties
  <2>3. CASE o.ok
    BY <1>2, <2>1, <2>2, <2>3
  <2>4. CASE ~o.ok
    BY <1>2, <2>1, <2>4
  <2> QED BY <2>3, <2>4
<1>4. /\ HeaderBlocks(list) = Block(list) + 2 * Len(list.items)
      /\ HeaderBlocks(o.list) = Block(o.list) + 2 * Len(o.list.items)
      /\ Block(list) \in Int /\ Block(o.list) \in Int /\ Len(list.items) \in Nat
  BY <1>2, HeaderListFacts
<1>5. CASE o.ok
  <2>1. o.got = Block(o.list) - Block(list) + 2 /\ Len(o.list.items) = Len(list.items) + 1
    BY <1>2, <1>3, <1>5
  <2> QED BY <1>2, <1>4, <2>1
<1>6. CASE ~o.ok
  <2>1. o.got = Block(o.list) - Block(list) /\ Len(o.list.items) = Len(list.items)
    BY <1>2, <1>3, <1>4, <1>6
  <2> QED BY <1>2, <1>4, <2>1
<1> QED BY <1>5, <1>6

(* The blocks of parts.                                                     *)
LEMMA PartBlocksInt ==
  ASSUME NEW part \in PartItems
  PROVE  PartBlocks(part) \in Int /\ HeaderBlocks(part.headers) \in Int
         /\ PartBlocks(part) = 1 + OneIf(part.file) + OneIf(part.type) + HeaderBlocks(part.headers)
<1>1. part.headers \in HeaderLists
  BY DEF PartItems
<1>2. HeaderBlocks(part.headers) \in Int
  BY <1>1, HeaderListFacts
<1> QED BY <1>2 DEF PartBlocks, OneIf

Counts(items) == [i \in DOMAIN items |-> PartBlocks(items[i])]

LEMMA CountsSeq ==
  ASSUME NEW items \in Seq(PartItems)
  PROVE  Counts(items) \in Seq(Int) /\ Len(Counts(items)) = Len(items)
         /\ \A i \in 1..Len(items) : Counts(items)[i] = PartBlocks(items[i])
<1>. PICK n \in Nat : n = Len(items)
  BY LenProperties
<1>1. DOMAIN items = 1..n /\ \A i \in 1..n : items[i] \in PartItems
  BY LenProperties, ElementOfSeq
<1>2. Counts(items) \in [1..n -> Int]
  BY <1>1, PartBlocksInt DEF Counts
<1>3. Counts(items) \in Seq(Int) /\ Len(Counts(items)) = n
  BY <1>2, SeqDef, LenProperties
<1> QED BY <1>1, <1>3 DEF Counts

LEMMA PartsBlocksIs ==
  ASSUME NEW list \in Lists(PartItems)
  PROVE  PartsBlocks(list) = Block(list) + Sum(Counts(list.items)) /\ PartsBlocks(list) \in Int
         /\ Block(list) \in Int /\ Sum(Counts(list.items)) \in Int
<1>1. list.items \in Seq(PartItems)
  BY DEF Lists
<1>2. Sum(Counts(list.items)) \in Int
  BY <1>1, CountsSeq, SumIs
<1>3. PartsBlocks(list) = Block(list) + Sum(Counts(list.items))
  BY DEF PartsBlocks, Counts
<1> QED BY <1>2, <1>3 DEF Block

LEMMA PartAdded ==
  ASSUME NEW list \in Lists(PartItems), NEW part \in PartItems, NEW o \in
         Added(list, PartRoom, part, 1 + OneIf(part.file) + OneIf(part.type)),
         part.headers = NoList
  PROVE  /\ o.list \in Lists(PartItems) /\ o.got \in Int
         /\ PartsBlocks(o.list) = PartsBlocks(list) + o.got
         /\ Len(o.list.items) >= Len(list.items) /\ Len(list.items) \in Nat
<1>. PICK strings : strings = 1 + OneIf(part.file) + OneIf(part.type)
  OBVIOUS
<1>1. PartRoom \in Nat \ {0} /\ strings \in Int /\ PartBlocks(part) = strings
  <2>1. HeaderBlocks(NoList) = 0
    BY DEF HeaderBlocks, NoList, Block
  <2>2. strings \in Int
    BY DEF OneIf
  <2> QED BY <2>1, <2>2, RequestBounds, PartBlocksInt
<1>2. /\ o.list \in Lists(PartItems) /\ o.got \in Int
      /\ o.list.items = IF o.ok THEN Append(list.items, part) ELSE list.items
      /\ o.got = Block(o.list) - Block(list) + IF o.ok THEN strings ELSE 0
      /\ o.ok \in BOOLEAN
  BY <1>1, AddedIs
<1>3. list.items \in Seq(PartItems) /\ Len(list.items) \in Nat
  BY LenProperties DEF Lists
<1>4. CASE o.ok
  <2>1. /\ Append(list.items, part) \in Seq(PartItems)
        /\ Len(Append(list.items, part)) = Len(list.items) + 1
        /\ \A i \in 1..Len(list.items) : Append(list.items, part)[i] = list.items[i]
        /\ Append(list.items, part)[Len(list.items) + 1] = part
    BY <1>3, AppendProperties
  <2>2. Counts(Append(list.items, part)) = Append(Counts(list.items), strings)
    <3>. PICK a : a = Counts(Append(list.items, part))
      OBVIOUS
    <3>. PICK c : c = Counts(list.items)
      OBVIOUS
    <3>. PICK n \in Nat : n = Len(list.items)
      BY <1>3
    <3>1. /\ a \in Seq(Int) /\ Len(a) = n + 1
          /\ \A i \in 1..(n + 1) : a[i] = PartBlocks(Append(list.items, part)[i])
      BY <2>1, CountsSeq
    <3>2. /\ c \in Seq(Int) /\ Len(c) = n
          /\ \A i \in 1..n : c[i] = PartBlocks(list.items[i])
      BY <1>3, CountsSeq
    <3>3. /\ Append(c, strings) \in Seq(Int) /\ Len(Append(c, strings)) = n + 1
          /\ \A i \in 1..n : Append(c, strings)[i] = c[i]
          /\ Append(c, strings)[n + 1] = strings
      BY <1>1, <3>2, AppendProperties
    <3>4. ASSUME NEW i \in 1..(n + 1) PROVE a[i] = Append(c, strings)[i]
      <4>1. CASE i = n + 1
        BY <1>1, <2>1, <3>1, <3>3, <4>1
      <4>2. CASE i # n + 1
        <5>1. i \in 1..n
          BY <4>2
        <5> QED BY <2>1, <3>1, <3>2, <3>3, <5>1
      <4> QED BY <4>1, <4>2
    <3> QED BY <3>1, <3>3, <3>4, SeqEqual
  <2>3. o.list.items = Append(list.items, part) /\ o.got = Block(o.list) - Block(list) + strings
    BY <1>2, <1>4
  <2>4. Sum(Append(Counts(list.items), strings)) = Sum(Counts(list.items)) + strings
    BY <1>1, <1>3, CountsSeq, SumAppend
  <2>5. Sum(Counts(o.list.items)) = Sum(Counts(list.items)) + strings
    BY <2>2, <2>3, <2>4
  <2>6. /\ PartsBlocks(list) = Block(list) + Sum(Counts(list.items))
        /\ PartsBlocks(o.list) = Block(o.list) + Sum(Counts(o.list.items))
        /\ Block(list) \in Int /\ Block(o.list) \in Int /\ Sum(Counts(list.items)) \in Int
    BY <1>2, PartsBlocksIs
  <2>7. PartsBlocks(o.list) = PartsBlocks(list) + o.got
    BY <1>1, <2>3, <2>5, <2>6
  <2>8. Len(o.list.items) = Len(list.items) + 1
    BY <2>1, <2>3
  <2> QED BY <1>2, <1>3, <2>7, <2>8
<1>5. CASE ~o.ok
  BY <1>1, <1>2, <1>3, <1>5, PartsBlocksIs
<1> QED BY <1>4, <1>5

(* A header is added to the last part.                                      *)
WithHeaders(list, n, headers) == [list EXCEPT !.items[n].headers = headers]

LEMMA PartChanged ==
  ASSUME NEW list \in Lists(PartItems), NEW n \in 1..Len(list.items), NEW headers \in HeaderLists,
         NEW r, r = WithHeaders(list, n, headers)
  PROVE  /\ r \in Lists(PartItems) /\ Len(r.items) = Len(list.items)
         /\ PartsBlocks(r) = PartsBlocks(list) + HeaderBlocks(headers)
                             - HeaderBlocks(list.items[n].headers)
<1>. PICK items : items = list.items
  OBVIOUS
<1>. PICK N \in Nat : N = Len(items)
  BY LenProperties DEF Lists
<1>1. /\ items \in Seq(PartItems) /\ items[n] \in PartItems
      /\ list \in [room : Nat, items : Seq(PartItems)]
  BY ElementOfSeq DEF Lists
<1>11. PICK part : part = [items[n] EXCEPT !.headers = headers]
  OBVIOUS
<1>2. /\ part \in PartItems /\ part.headers = headers
      /\ part.file = items[n].file /\ part.type = items[n].type
  BY <1>1, <1>11 DEF PartItems
<1>12. PICK changed : changed = [items EXCEPT ![n] = part]
  OBVIOUS
<1>3. changed \in Seq(PartItems) /\ Len(changed) = N /\ changed[n] = part
      /\ \A i \in 1..N : i # n => changed[i] = items[i]
  BY <1>1, <1>2, <1>12, ExceptSeq
<1>4. r = [list EXCEPT !.items = changed]
  BY <1>1, <1>3, <1>11, <1>12 DEF WithHeaders
<1>5. r \in Lists(PartItems) /\ r.items = changed /\ r.room = list.room
  BY <1>1, <1>3, <1>4 DEF Lists
<1>6. Sum(Counts(changed)) = Sum(Counts(items)) + (PartBlocks(part) - PartBlocks(items[n]))
  <2>. PICK a : a = Counts(items)
    OBVIOUS
  <2>. PICK b : b = Counts(changed)
    OBVIOUS
  <2>1. a \in Seq(Int) /\ Len(a) = N /\ \A i \in 1..N : a[i] = PartBlocks(items[i])
    BY <1>1, CountsSeq
  <2>2. b \in Seq(Int) /\ Len(b) = N /\ \A i \in 1..N : b[i] = PartBlocks(changed[i])
    BY <1>3, CountsSeq
  <2>3. \A i \in 1..N : i # n => b[i] = a[i]
    BY <1>3, <2>1, <2>2
  <2>4. Sum(b) = Sum(a) + (b[n] - a[n])
    <3>1. Len(b) = Len(a) /\ n \in 1..Len(a) /\ \A i \in 1..Len(a) : i # n => b[i] = a[i]
      BY <2>1, <2>2, <2>3
    <3> QED BY <2>1, <2>2, <3>1, SumReplace
  <2> QED BY <1>3, <2>1, <2>2, <2>4
<1>7. PartBlocks(part) - PartBlocks(items[n])
        = HeaderBlocks(headers) - HeaderBlocks(items[n].headers)
  <2>1. OneIf(part.file) = OneIf(items[n].file) /\ OneIf(part.type) = OneIf(items[n].type)
        /\ OneIf(part.file) \in Int /\ OneIf(part.type) \in Int
    BY <1>2 DEF OneIf
  <2>2. /\ PartBlocks(part) = 1 + OneIf(part.file) + OneIf(part.type) + HeaderBlocks(headers)
        /\ HeaderBlocks(headers) \in Int
    BY <1>2, PartBlocksInt
  <2>3. /\ PartBlocks(items[n]) = 1 + OneIf(items[n].file) + OneIf(items[n].type)
                                   + HeaderBlocks(items[n].headers)
        /\ HeaderBlocks(items[n].headers) \in Int
    BY <1>1, PartBlocksInt
  <2> QED BY <2>1, <2>2, <2>3
<1>8. Block(r) = Block(list)
  BY <1>5 DEF Block
<1>9. /\ HeaderBlocks(headers) \in Int /\ HeaderBlocks(items[n].headers) \in Int
  BY <1>1, HeaderListFacts, PartBlocksInt
<1>10. /\ PartsBlocks(r) = Block(r) + Sum(Counts(changed)) /\ Sum(Counts(items)) \in Int
       /\ PartsBlocks(list) = Block(list) + Sum(Counts(items)) /\ Block(list) \in Int
  BY <1>5, PartsBlocksIs
<1> QED BY <1>3, <1>5, <1>6, <1>7, <1>8, <1>9, <1>10

-----------------------------------------------------------------------------
(* What is counted for a form is what is written, field by field.           *)
FieldNames == DOMAIN NameLength
FirstFields == {"grant_type", "client_id", "token"}
LaterFields == FieldNames \ {"grant_type", "token"}

FormFits(form) ==
  /\ form.required \in Seq(FieldNames) /\ form.optional \in Seq(FieldNames)
  /\ Len(form.required) >= 1 /\ form.required[1] \in FirstFields
  /\ \A i \in 2..Len(form.required) : form.required[i] \in LaterFields
  /\ \A i \in 1..Len(form.optional) : form.optional[i] \in LaterFields

LEMMA FormsFit ==
  ASSUME NEW form \in Forms
  PROVE  FormFits(form)
<1>1. FieldNames = {"grant_type", "username", "password", "client_id", "client_secret", "scope",
                    "refresh_token", "code", "redirect_uri", "code_verifier", "assertion",
                    "device_code", "token", "token_type_hint"}
  BY DEF FieldNames, NameLength
<1>2. CASE form = password_grant
  BY <1>1, <1>2 DEF password_grant, Form, FormFits, FirstFields, LaterFields
<1>3. CASE form = refresh_token_grant
  BY <1>1, <1>3 DEF refresh_token_grant, Form, FormFits, FirstFields, LaterFields
<1>4. CASE form = authorization_code_grant
  BY <1>1, <1>4 DEF authorization_code_grant, Form, FormFits, FirstFields, LaterFields
<1>5. CASE form = client_credentials_grant
  BY <1>1, <1>5 DEF client_credentials_grant, Form, FormFits, FirstFields, LaterFields
<1>6. CASE form = jwt_bearer_grant
  BY <1>1, <1>6 DEF jwt_bearer_grant, Form, FormFits, FirstFields, LaterFields
<1>7. CASE form = device_authorization_request
  BY <1>1, <1>7 DEF device_authorization_request, Form, FormFits, FirstFields, LaterFields
<1>8. CASE form = device_access_token_request
  BY <1>1, <1>8 DEF device_access_token_request, Form, FormFits, FirstFields, LaterFields
<1>9. CASE form = token_revocation
  BY <1>1, <1>9 DEF token_revocation, Form, FormFits, FirstFields, LaterFields
<1>10. CASE form = token_introspection
  BY <1>1, <1>10 DEF token_introspection, Form, FormFits, FirstFields, LaterFields
<1> QED
  BY <1>2, <1>3, <1>4, <1>5, <1>6, <1>7, <1>8, <1>9, <1>10 DEF Forms

LEMMA LengthsAgree ==
  /\ \A field \in FirstFields : /\ CountedLength(field, TRUE) = CopiedLength(field, TRUE)
                                /\ CopiedLength(field, TRUE) \in Int
  /\ \A field \in LaterFields : /\ CountedLength(field, FALSE) = CopiedLength(field, FALSE)
                                /\ CopiedLength(field, FALSE) \in Int
<1>1. FieldNames = {"grant_type", "username", "password", "client_id", "client_secret", "scope",
                    "refresh_token", "code", "redirect_uri", "code_verifier", "assertion",
                    "device_code", "token", "token_type_hint"}
  BY DEF FieldNames, NameLength
<1> QED BY <1>1 DEF CountedLength, CopiedLength, NameLength, FirstFields, LaterFields

LEMMA FormAgrees ==
  ASSUME NEW form \in Forms, NEW given
  PROVE  FormSize(Fields(form, given)) = FormWritten(Fields(form, given))
         /\ FormWritten(Fields(form, given)) \in Int
<1>11. PICK fields : fields = Fields(form, given)
  OBVIOUS
<1>. PICK M : M = Len(form.required)
  OBVIOUS
<1>1. /\ form.required \in Seq(FieldNames) /\ form.optional \in Seq(FieldNames)
      /\ M >= 1 /\ form.required[1] \in FirstFields /\ M \in Nat
      /\ \A i \in 2..M : form.required[i] \in LaterFields
      /\ \A i \in 1..Len(form.optional) : form.optional[i] \in LaterFields
  BY FormsFit, LenProperties DEF FormFits
<1>2. /\ fields \in Seq(FieldNames) /\ Len(fields) >= M /\ Len(fields) \in Nat
      /\ \A i \in 1..M : fields[i] = form.required[i]
      /\ \A i \in 1..Len(fields) : i > M => \E j \in 1..Len(form.optional) :
                                               fields[i] = form.optional[j]
  <2>1. fields = Kept(form.required, form.optional, given)
    BY <1>11 DEF Fields
  <2>2. Len(fields) \in M..(M + Len(form.optional))
    BY <1>1, <2>1, KeptIs
  <2>3. Len(form.optional) \in Nat
    BY <1>1, LenProperties
  <2>4. \A i \in 1..Len(fields) : i > Len(form.required) =>
          \E j \in 1..Len(form.optional) : fields[i] = form.optional[j]
    <3>1. KeptFrom(fields, form.required, form.optional)
      BY <1>1, <2>1, KeptIs
    <3> QED BY <3>1 DEF KeptFrom
  <2>5. fields \in Seq(FieldNames)
    BY <1>1, <2>1, KeptIs
  <2>6. \A i \in 1..Len(form.required) : fields[i] = form.required[i]
    BY <1>1, <2>1, KeptIs
  <2>7. Len(fields) >= M /\ Len(fields) \in Nat
    BY <1>1, <2>2, <2>3
  <2> QED BY <2>4, <2>5, <2>6, <2>7
<1>3. fields[1] \in FirstFields
  BY <1>1, <1>2
<1>4. ASSUME NEW i \in 1..Len(fields), i # 1 PROVE fields[i] \in LaterFields
  <2>1. CASE i <= M
    <3>1. i \in 1..M /\ i \in 2..M
      BY <1>1, <1>2, <1>4, <2>1
    <3> QED BY <1>1, <1>2, <3>1
  <2>2. CASE i > M
    BY <1>1, <1>2, <2>2
  <2> QED BY <1>1, <1>2, <2>1, <2>2
<1>5. ASSUME NEW i \in 1..Len(fields)
      PROVE  /\ CountedLength(fields[i], i = 1) = CopiedLength(fields[i], i = 1)
             /\ CopiedLength(fields[i], i = 1) \in Int
  <2>1. CASE i = 1
    <3>1. (i = 1) = TRUE
      BY <2>1
    <3> QED BY <1>3, <2>1, <3>1, LengthsAgree
  <2>2. CASE i # 1
    <3>1. (i = 1) = FALSE
      BY <2>2
    <3> QED BY <1>4, <2>2, <3>1, LengthsAgree
  <2> QED BY <2>1, <2>2
<1>6. DOMAIN fields = 1..Len(fields)
  BY <1>2, LenProperties
<1>12. PICK copied : copied = [i \in DOMAIN fields |-> CopiedLength(fields[i], i = 1)]
  OBVIOUS
<1>7. copied \in [1..Len(fields) -> Int]
  BY <1>5, <1>6, <1>12
<1>8. copied \in Seq(Int)
  BY <1>2, <1>7, SeqDef
<1>9. copied = [i \in DOMAIN fields |-> CountedLength(fields[i], i = 1)]
  BY <1>5, <1>6, <1>12
<1>10. FormSize(fields) = Sum(copied) /\ FormWritten(fields) = Sum(copied)
  BY <1>9, <1>12 DEF FormSize, FormWritten
<1> QED BY <1>8, <1>10, <1>11, SumIs

-----------------------------------------------------------------------------
(* The estimate of a multipart body covers what is written.                 *)
LEMMA PartCovered ==
  ASSUME NEW part \in PartItems
  PROVE  /\ part_written(Lengths(part)) \in Int /\ part_size(Lengths(part)) \in Int
         /\ part_written(Lengths(part)) <= part_size(Lengths(part))
<1>7. PICK p : p = Lengths(part)
  OBVIOUS
<1>. PICK items : items = part.headers.items
  OBVIOUS
<1>. PICK N \in Nat : N = Len(items)
  BY LenProperties DEF PartItems, HeaderLists, Lists
<1>1. DOMAIN items = 1..N
  BY LenProperties DEF PartItems, HeaderLists, Lists
<1>2. /\ p.headers = [h \in 1..N |-> 6] /\ p.name = part.name /\ p.file = part.file
      /\ p.type = part.type /\ p.data = part.data
  BY <1>1, <1>7 DEF Lengths, PartItems
<1>3. /\ p.name \in Int /\ p.file \in Int /\ p.type \in Int /\ p.data \in Int
  BY <1>2 DEF PartItems
<1>8. PICK total : total = Sum([h \in DOMAIN p.headers |-> p.headers[h] + 4])
  OBVIOUS
<1>4. total \in Int
  <2>3. PICK lines : lines = [h \in DOMAIN p.headers |-> p.headers[h] + 4]
    OBVIOUS
  <2>1. lines \in [1..N -> Int]
    BY <1>2, <2>3
  <2>2. lines \in Seq(Int)
    BY <2>1, SeqDef
  <2> QED BY <1>8, <2>2, <2>3, SumIs
<1>9. PICK named : named = IF p.file >= 0 THEN 1 ELSE 0
  OBVIOUS
<1>5. named \in 0..1
  BY <1>9
<1>6. PICK n \in Int : /\ part_written(p) = n + 85 + 12 * named
                      /\ part_size(p) = n + 90 + 13 * named
  <2>1. PICK type \in Int : type = IF p.type >= 0 THEN 14 + p.type + 2
                                    ELSE IF p.file >= 0 THEN 40 ELSE 0
    BY <1>3
  <2>2. PICK file \in Int : file = IF p.file >= 0 THEN p.file + 1 ELSE 0
    BY <1>3
  <2>3. /\ (IF p.file >= 0 THEN 12 + p.file + 1 ELSE 0) = file + 12 * named
        /\ (IF p.file >= 0 THEN 13 + p.file + 1 ELSE 0) = file + 13 * named
    BY <1>3, <1>9, <2>2
  <2>4. /\ part_written(p) = (2 + 40 + 2) + (38 + p.name + 1) + (file + 12 * named) + 2
                               + type + total + 2 + p.data + 2
        /\ part_size(p) = (40 + 6) + (38 + p.name + 4) + (file + 13 * named) + 2
                            + type + total + 2 + p.data + 2
    BY <1>8, <2>1, <2>3 DEF part_written, part_size, Boundary
  <2>5. PICK name \in Int, data \in Int : name = p.name /\ data = p.data
    BY <1>3
  <2>6. PICK n \in Int : n = name + file + type + total + data + 4
    BY <1>4
  <2>7. /\ part_written(p) = (2 + 40 + 2) + (38 + name + 1) + (file + 12 * named) + 2
                               + type + total + 2 + data + 2
        /\ part_size(p) = (40 + 6) + (38 + name + 4) + (file + 13 * named) + 2
                            + type + total + 2 + data + 2
    BY <2>4, <2>5
  <2>8. part_written(p) = n + 85 + 12 * named
    BY <1>4, <1>5, <2>6, <2>7
  <2>9. part_size(p) = n + 90 + 13 * named
    BY <1>4, <1>5, <2>6, <2>7
  <2> QED BY <2>8, <2>9
<1>10. part_written(p) \in Int /\ part_size(p) \in Int /\ part_written(p) <= part_size(p)
  BY <1>5, <1>6
<1> QED BY <1>7, <1>10

LEMMA MultipartCovered ==
  ASSUME req.parts \in Lists(PartItems), req.parts.items # <<>>
  PROVE  /\ Multipart \in BodyStates /\ Multipart.kind = "multipart"
         /\ Multipart.written <= Multipart.size /\ Multipart.written = Multipart.len + 1
         /\ Multipart.parts \in 1..Len(req.parts.items)
<1>. PICK items : items = req.parts.items
  OBVIOUS
<1>. PICK N : N = Len(items)
  OBVIOUS
<1>1. N \in Nat /\ N # 0 /\ DOMAIN items = 1..N /\ \A i \in 1..N : items[i] \in PartItems
  BY LenProperties, ElementOfSeq, EmptySeq DEF Lists
<1>12. PICK parts : parts = [i \in DOMAIN items |-> Lengths(items[i])]
  OBVIOUS
<1>2. DOMAIN parts = 1..N /\ \A i \in 1..N : parts[i] = Lengths(items[i])
  BY <1>1, <1>12
<1>3. Len(parts) = N
  <2>1. parts \in [1..N -> {Lengths(items[i]) : i \in 1..N}]
    BY <1>1, <1>12
  <2>2. parts \in Seq({Lengths(items[i]) : i \in 1..N})
    BY <1>1, <2>1, SeqDef
  <2> QED BY <1>1, <1>2, <2>2, LenProperties
<1>13. PICK written : written = [i \in DOMAIN parts |-> part_written(parts[i])]
  OBVIOUS
<1>14. PICK sizes : sizes = [i \in DOMAIN parts |-> part_size(parts[i])]
  OBVIOUS
<1>4. \A i \in 1..N : /\ part_written(parts[i]) \in Int /\ part_size(parts[i]) \in Int
                      /\ part_written(parts[i]) <= part_size(parts[i])
  BY <1>1, <1>2, PartCovered
<1>5. /\ written \in [1..N -> Int] /\ sizes \in [1..N -> Int]
      /\ \A i \in 1..N : written[i] <= sizes[i]
  BY <1>2, <1>4, <1>13, <1>14
<1>6. written \in Seq(Int) /\ sizes \in Seq(Int) /\ Len(written) = N /\ Len(sizes) = N
  <2>1. written \in Seq(Int) /\ sizes \in Seq(Int)
    <3>1. written \in Seq(Int)
      BY <1>1, <1>5, SeqDef
    <3>2. sizes \in Seq(Int)
      BY <1>1, <1>5, SeqDef
    <3> QED BY <3>1, <3>2
  <2>2. DOMAIN written = 1..N /\ DOMAIN sizes = 1..N
    BY <1>5
  <2>3. Len(written) = N
    BY <1>1, <2>1, <2>2, LenProperties
  <2>4. Len(sizes) = N
    BY <1>1, <2>1, <2>2, LenProperties
  <2> QED BY <2>1, <2>3, <2>4
<1>7. Sum(written) \in Int /\ Sum(sizes) \in Int /\ Sum(written) <= Sum(sizes)
  BY <1>5, <1>6, SumIs, SumAtMost
<1>8. PartsWritten(parts) = Sum(written) + 46 /\ PartsSize(parts) = Sum(sizes) + 48
  BY <1>7, <1>13, <1>14 DEF PartsWritten, PartsSize, Boundary
<1>9. Multipart = [kind |-> "multipart", len |-> PartsWritten(parts), size |-> PartsSize(parts),
                   written |-> PartsWritten(parts) + 1, parts |-> N]
  BY <1>3, <1>12 DEF Multipart
<1>10. /\ PartsWritten(parts) \in Int /\ PartsSize(parts) \in Int
       /\ PartsWritten(parts) + 1 <= PartsSize(parts) /\ N \in 1..N
  BY <1>1, <1>7, <1>8
<1>11. Multipart \in BodyStates
  <2>1. PICK w \in Int : w = PartsWritten(parts)
    BY <1>10
  <2>2. PICK z \in Int : z = PartsSize(parts)
    BY <1>10
  <2>3. Multipart = [kind |-> "multipart", len |-> w, size |-> z, written |-> w + 1, parts |-> N]
    BY <1>9, <2>1, <2>2
  <2>4. w + 1 \in Int /\ N \in Int
    BY <1>1
  <2> QED BY <2>3, <2>4 DEF BodyStates
<1> QED BY <1>9, <1>10, <1>11

-----------------------------------------------------------------------------
(* The inductive invariant: what is allocated is what the request and the   *)
(* jar point to and what a form has overwritten.                            *)
Reached(r) == Url(r) + Body(r) + HeaderBlocks(r.headers) + PartsBlocks(r.parts)

BodyFits(r) ==
  r.body # NoBody =>
    /\ r.body.written <= r.body.size
    /\ r.body.written = r.body.len + 1
    /\ r.body.kind = "multipart" => r.body.parts \in 1 .. Len(r.parts.items)

RequestInv ==
  /\ req \in RequestStates /\ jar \in HeaderLists /\ blocks \in Int /\ lost \in Int
  /\ blocks = lost + Reached(req) + HeaderBlocks(jar)
  /\ BodyFits(req)

LEMMA RequestFacts ==
  ASSUME NEW r \in RequestStates
  PROVE  /\ r.url \in BOOLEAN /\ r.headers \in HeaderLists /\ r.parts \in Lists(PartItems)
         /\ r.body \in BodyStates /\ Url(r) \in Int /\ Body(r) \in Int
         /\ HeaderBlocks(r.headers) \in Int /\ PartsBlocks(r.parts) \in Int /\ Reached(r) \in Int
<1>1. /\ r.url \in BOOLEAN /\ r.headers \in HeaderLists /\ r.parts \in Lists(PartItems)
      /\ r.body \in BodyStates
  BY DEF RequestStates
<1>2. Url(r) \in Int /\ Body(r) \in Int
  BY DEF Url, Body
<1>3. HeaderBlocks(r.headers) \in Int /\ PartsBlocks(r.parts) \in Int
  BY <1>1, HeaderListFacts, PartsBlocksIs
<1> QED BY <1>1, <1>2, <1>3 DEF Reached

LEMMA EmptyLists ==
  /\ NoList \in HeaderLists /\ HeaderBlocks(NoList) = 0
  /\ NoList \in Lists(PartItems) /\ PartsBlocks(NoList) = 0
  /\ NewRequest \in RequestStates /\ Reached(NewRequest) = 0 /\ BodyFits(NewRequest)
<1>1. \A S : NoList \in Lists(S)
  <2>1. ASSUME NEW S PROVE NoList \in Lists(S)
    <3>1. <<>> \in Seq(S) /\ Len(<<>>) = 0
      BY EmptySeq
    <3> QED BY <3>1 DEF Lists, NoList
  <2> QED BY <2>1
<1>2. HeaderBlocks(NoList) = 0
  BY DEF HeaderBlocks, NoList, Block
<1>3. PartsBlocks(NoList) = 0
  <2>1. Counts(<<>>) = <<>>
    BY EmptySeq, CountsSeq
  <2>2. Block(NoList) = 0 /\ NoList.items = <<>>
    BY DEF Block, NoList
  <2> QED BY <1>1, <2>1, <2>2, PartsBlocksIs, SumOfNone
<1>4. NewRequest \in RequestStates
  BY <1>1 DEF NewRequest, RequestStates, BodyStates, NoBody, HeaderLists
<1>5. Reached(NewRequest) = 0
  <2>1. Url(NewRequest) = 0 /\ Body(NewRequest) = 0
    BY DEF NewRequest, Url, Body
  <2> QED BY <1>2, <1>3, <2>1 DEF Reached, NewRequest
<1> QED BY <1>1, <1>2, <1>3, <1>4, <1>5 DEF HeaderLists, BodyFits, NewRequest

LEMMA RequestInitInv == RequestInit => RequestInv
BY EmptyLists DEF RequestInit, RequestInv

(* A step that changes the request, or the jar, by some blocks.             *)
LEMMA RequestChange ==
  ASSUME RequestInv, NEW x \in RequestStates, req' = x, NEW d \in Int, NEW e \in Int,
         Reached(x) = Reached(req) + d - e, BodyFits(x), blocks' = blocks + d, lost' = lost + e,
         jar' = jar
  PROVE  RequestInv'
<1>1. blocks \in Int /\ lost \in Int /\ Reached(req) \in Int /\ HeaderBlocks(jar) \in Int
  BY RequestFacts, HeaderListFacts DEF RequestInv
<1>2. blocks' \in Int /\ lost' \in Int /\ Reached(x) \in Int
  BY <1>1
<1>3. blocks' = lost' + Reached(x) + HeaderBlocks(jar')
  BY <1>1, <1>2 DEF RequestInv
<1>4. jar' \in HeaderLists
  BY DEF RequestInv
<1> QED BY <1>2, <1>3, <1>4 DEF RequestInv

LEMMA JarChange ==
  ASSUME RequestInv, NEW x \in HeaderLists, jar' = x, NEW d \in Int,
         HeaderBlocks(x) = HeaderBlocks(jar) + d, blocks' = blocks + d, req' = req, lost' = lost
  PROVE  RequestInv'
<1>1. blocks \in Int /\ lost \in Int /\ Reached(req) \in Int /\ HeaderBlocks(jar) \in Int
  BY RequestFacts, HeaderListFacts DEF RequestInv
<1>2. blocks' \in Int /\ lost' \in Int
  BY <1>1 DEF RequestInv
<1>3. blocks' = lost' + Reached(req') + HeaderBlocks(jar')
  BY <1>1, <1>2 DEF RequestInv
<1>4. req' \in RequestStates /\ BodyFits(req')
  BY DEF RequestInv
<1> QED BY <1>2, <1>3, <1>4 DEF RequestInv

LEMMA HeadersChange ==
  ASSUME RequestInv, NEW l \in HeaderLists, req' = [req EXCEPT !.headers = l], NEW d \in Int,
         HeaderBlocks(l) = HeaderBlocks(req.headers) + d, blocks' = blocks + d,
         UNCHANGED <<jar, lost>>
  PROVE  RequestInv'
<1>. PICK x : x = [req EXCEPT !.headers = l]
  OBVIOUS
<1>1. /\ x \in RequestStates /\ x.headers = l /\ x.url = req.url /\ x.parts = req.parts
      /\ x.body = req.body
  BY DEF RequestInv, RequestStates
<1>2. Url(x) = Url(req) /\ Body(x) = Body(req)
  BY <1>1 DEF Url, Body
<1>3. Reached(x) = Reached(req) + d - 0
  BY <1>1, <1>2, RequestFacts DEF Reached, RequestInv
<1>4. BodyFits(x)
  BY <1>1 DEF BodyFits, RequestInv
<1>5. lost' = lost + 0
  BY DEF RequestInv
<1> QED BY <1>1, <1>3, <1>4, <1>5, RequestChange

LEMMA AddHeaderKeeps ==
  ASSUME RequestInv, add_header \/ http_request_set_auth
  PROVE  RequestInv'
<1>1. req.headers \in HeaderLists
  BY RequestFacts DEF RequestInv
<1>2. \A key \in Keys \cup {"Authorization"} : key \in Texts
  BY DEF Texts
<1>3. PICK key \in Keys \cup {"Authorization"} :
        \E o \in http_headers_add(req.headers, key) :
          req' = [req EXCEPT !.headers = o.list] /\ blocks' = blocks + o.got
          /\ UNCHANGED <<jar, lost>>
  BY DEF add_header, http_request_set_auth
<1>5. PICK o \in http_headers_add(req.headers, key) :
        req' = [req EXCEPT !.headers = o.list] /\ blocks' = blocks + o.got
        /\ UNCHANGED <<jar, lost>>
  BY <1>3
<1>4. /\ o.list \in HeaderLists /\ o.got \in Int
      /\ HeaderBlocks(o.list) = HeaderBlocks(req.headers) + o.got
  BY <1>1, <1>2, HeaderAdded
<1> QED BY <1>4, <1>5, HeadersChange

LEMMA RemoveHeaderKeeps ==
  ASSUME RequestInv, http_headers_remove
  PROVE  RequestInv'
<1>. PICK items : items = req.headers.items
  OBVIOUS
<1>1. req.headers \in HeaderLists /\ items \in Seq(Texts) /\ Len(items) \in Nat
  BY RequestFacts, LenProperties DEF RequestInv, HeaderLists, Lists
<1>2. PICK key, others :
        /\ others = Kept(<<>>, items, ToSet(items) \ {key})
        /\ req' = [req EXCEPT !.headers.items = others]
        /\ blocks' = blocks - 2 * (Len(items) - Len(others))
        /\ UNCHANGED <<jar, lost>>
  BY DEF http_headers_remove
<1>3. others \in Seq(Texts) /\ Len(others) \in Nat /\ Len(others) <= Len(items)
  <2>1. <<>> \in Seq(Texts) /\ Len(<<>>) = 0
    BY EmptySeq
  <2>2. others \in Seq(Texts)
    BY <1>1, <1>2, <2>1, KeptIs
  <2>3. Len(others) \in Len(<<>>)..(Len(<<>>) + Len(items))
    BY <1>1, <1>2, <2>1, KeptIs
  <2> QED BY <1>1, <2>1, <2>2, <2>3
<1>4. PICK l : l = [req.headers EXCEPT !.items = others]
  OBVIOUS
<1>5. l \in HeaderLists /\ l.items = others /\ l.room = req.headers.room
  BY <1>1, <1>3, <1>4 DEF HeaderLists, Lists
<1>6. req' = [req EXCEPT !.headers = l]
  BY <1>2, <1>4 DEF RequestInv, RequestStates
<1>7. PICK d \in Int : d = 0 - 2 * (Len(items) - Len(others))
  BY <1>1, <1>3
<1>8. blocks' = blocks + d
  <2>1. PICK a \in Int, k \in Int, m \in Int : a = blocks /\ k = Len(items) /\ m = Len(others)
    BY <1>1, <1>3 DEF RequestInv
  <2>2. blocks' = blocks - 2 * (Len(items) - Len(others))
    BY <1>2
  <2> QED BY <1>7, <2>1, <2>2
<1>9. HeaderBlocks(l) = HeaderBlocks(req.headers) + d
  <2>1. Block(l) = Block(req.headers) /\ Block(l) \in Int
    BY <1>5 DEF Block
  <2>2. /\ HeaderBlocks(l) = Block(l) + 2 * Len(others)
        /\ HeaderBlocks(req.headers) = Block(req.headers) + 2 * Len(items)
    BY <1>1, <1>5, HeaderListFacts
  <2> QED BY <1>1, <1>3, <1>7, <2>1, <2>2
<1> QED BY <1>2, <1>5, <1>6, <1>8, <1>9, HeadersChange

(* The parts are others, and the body remains.                              *)
LEMMA PartsChange ==
  ASSUME RequestInv, NEW l \in Lists(PartItems), req' = [req EXCEPT !.parts = l], NEW d \in Int,
         PartsBlocks(l) = PartsBlocks(req.parts) + d, blocks' = blocks + d,
         Len(l.items) >= Len(req.parts.items), UNCHANGED <<jar, lost>>
  PROVE  RequestInv'
<1>1. PICK x : x = [req EXCEPT !.parts = l]
  OBVIOUS
<1>2. /\ x \in RequestStates /\ x.headers = req.headers /\ x.url = req.url /\ x.parts = l
      /\ x.body = req.body
  BY <1>1 DEF RequestInv, RequestStates
<1>3. Url(x) = Url(req) /\ Body(x) = Body(req)
  BY <1>2 DEF Url, Body
<1>4. Reached(x) = Reached(req) + d - 0
  BY <1>2, <1>3, RequestFacts DEF Reached, RequestInv
<1>5. BodyFits(x)
  <2>1. req.body \in BodyStates /\ Len(l.items) \in Nat /\ Len(req.parts.items) \in Nat
    BY RequestFacts, LenProperties DEF RequestInv, Lists
  <2> QED BY <1>2, <2>1 DEF BodyFits, RequestInv, BodyStates
<1>6. lost' = lost + 0
  BY DEF RequestInv
<1> QED BY <1>1, <1>2, <1>4, <1>5, <1>6, RequestChange

LEMMA AddPartKeeps ==
  ASSUME RequestInv, http_request_add_part
  PROVE  RequestInv'
<1>1. req.parts \in Lists(PartItems)
  BY RequestFacts DEF RequestInv
<1>2. PICK part \in PartShapes :
        \E o \in Added(req.parts, PartRoom, [part EXCEPT !.headers = NoList],
                       1 + OneIf(part.file) + OneIf(part.type)) :
          req' = [req EXCEPT !.parts = o.list] /\ blocks' = blocks + o.got
          /\ UNCHANGED <<jar, lost>>
  BY DEF http_request_add_part
<1>3. PICK p : p = [part EXCEPT !.headers = NoList]
  OBVIOUS
<1>4. /\ p \in PartItems /\ p.headers = NoList /\ p.file = part.file /\ p.type = part.type
  <2>1. part \in [name : Nat, file : Nat \cup {-1}, type : Nat \cup {-1}, headers : {<<>>},
                  data : Nat]
    BY RequestBounds
  <2> QED BY <1>3, <2>1, EmptyLists DEF PartItems
<1>5. PICK o \in Added(req.parts, PartRoom, p, 1 + OneIf(p.file) + OneIf(p.type)) :
        req' = [req EXCEPT !.parts = o.list] /\ blocks' = blocks + o.got
        /\ UNCHANGED <<jar, lost>>
  BY <1>2, <1>3, <1>4
<1>6. /\ o.list \in Lists(PartItems) /\ o.got \in Int
      /\ PartsBlocks(o.list) = PartsBlocks(req.parts) + o.got
      /\ Len(o.list.items) >= Len(req.parts.items)
  BY <1>1, <1>4, PartAdded
<1> QED BY <1>5, <1>6, PartsChange

LEMMA AddPartHeaderKeeps ==
  ASSUME RequestInv, http_request_add_part_header_last
  PROVE  RequestInv'
<1>. PICK items : items = req.parts.items
  OBVIOUS
<1>. PICK n : n = Len(items)
  OBVIOUS
<1>1. /\ req.parts \in Lists(PartItems) /\ items \in Seq(PartItems) /\ items # <<>>
      /\ n \in Nat /\ n # 0
  BY RequestFacts, LenProperties, EmptySeq DEF RequestInv, Lists, http_request_add_part_header_last
<1>2. PICK o \in http_headers_add(items[n].headers, "X-Key") :
        req' = [req EXCEPT !.parts.items[n].headers = o.list] /\ blocks' = blocks + o.got
        /\ UNCHANGED <<jar, lost>>
  BY DEF http_request_add_part_header_last
<1>3. n \in 1..Len(req.parts.items) /\ items[n] \in PartItems /\ items[n].headers \in HeaderLists
  <2>1. n \in 1..Len(items)
    BY <1>1
  <2>2. items[n] \in PartItems
    BY <1>1, <2>1, ElementOfSeq
  <2> QED BY <2>1, <2>2 DEF PartItems
<1>4. /\ o.list \in HeaderLists /\ o.got \in Int
      /\ HeaderBlocks(o.list) = HeaderBlocks(items[n].headers) + o.got
      /\ HeaderBlocks(items[n].headers) \in Int
  <2>1. "X-Key" \in Texts
    BY DEF Texts, Keys
  <2> QED BY <1>3, <2>1, HeaderAdded, HeaderListFacts
<1>5. PICK l : l = WithHeaders(req.parts, n, o.list)
  OBVIOUS
<1>6. /\ l \in Lists(PartItems) /\ Len(l.items) = Len(req.parts.items)
      /\ PartsBlocks(l) = PartsBlocks(req.parts) + HeaderBlocks(o.list)
                          - HeaderBlocks(items[n].headers)
  <2>1. /\ l \in Lists(PartItems) /\ Len(l.items) = Len(req.parts.items)
        /\ PartsBlocks(l) = PartsBlocks(req.parts) + HeaderBlocks(o.list)
                            - HeaderBlocks(req.parts.items[n].headers)
    BY <1>1, <1>3, <1>4, <1>5, PartChanged
  <2> QED BY <2>1
<1>7. PartsBlocks(l) = PartsBlocks(req.parts) + o.got
  BY <1>1, <1>4, <1>6, PartsBlocksIs
<1>8. req' = [req EXCEPT !.parts = l]
  BY <1>2, <1>5 DEF RequestInv, RequestStates, WithHeaders
<1>9. Len(l.items) >= Len(req.parts.items)
  BY <1>1, <1>6
<1> QED BY <1>2, <1>4, <1>6, <1>7, <1>8, <1>9, PartsChange

-----------------------------------------------------------------------------
(* The body of a request and its header.                                    *)
LEMMA FlattenKeeps ==
  ASSUME RequestInv, http_request_flatten_parts
  PROVE  RequestInv'
<1>1. /\ req.headers \in HeaderLists /\ req.parts \in Lists(PartItems)
      /\ req.parts.items # <<>> /\ req.body = NoBody /\ "Content-Type" \in Texts
  BY RequestFacts DEF RequestInv, http_request_flatten_parts, Texts, Keys
<1>2. PICK o \in http_headers_add(req.headers, "Content-Type") :
        /\ req' = [req EXCEPT !.headers = o.list, !.body = IF o.ok THEN Multipart ELSE NoBody]
        /\ blocks' = blocks + o.got + IF o.ok THEN 1 ELSE 0
        /\ UNCHANGED <<jar, lost>>
  BY DEF http_request_flatten_parts
<1>3. /\ o.list \in HeaderLists /\ o.got \in Int
      /\ HeaderBlocks(o.list) = HeaderBlocks(req.headers) + o.got
  BY <1>1, HeaderAdded
<1>4. CASE o.ok
  <2>1. PICK x : x = [req EXCEPT !.headers = o.list, !.body = Multipart]
    OBVIOUS
  <2>2. req' = x /\ blocks' = blocks + o.got + 1
    BY <1>2, <1>4, <2>1
  <2>3. /\ x \in RequestStates /\ x.headers = o.list /\ x.url = req.url /\ x.parts = req.parts
        /\ x.body = Multipart
    BY <1>1, <1>3, <2>1, MultipartCovered DEF RequestInv, RequestStates
  <2>4. Url(x) = Url(req) /\ Body(x) = 1 /\ Body(req) = 0
    BY <1>1, <2>3, MultipartCovered DEF Url, Body, NoBody
  <2>5. Reached(x) = Reached(req) + (o.got + 1) - 0
    BY <1>3, <2>3, <2>4, RequestFacts DEF Reached, RequestInv
  <2>6. BodyFits(x)
    BY <1>1, <2>3, MultipartCovered DEF BodyFits
  <2>7. lost' = lost + 0 /\ blocks' = blocks + (o.got + 1) /\ jar' = jar /\ o.got + 1 \in Int
    BY <1>2, <1>3, <2>2 DEF RequestInv
  <2> QED BY <2>2, <2>3, <2>5, <2>6, <2>7, RequestChange
<1>5. CASE ~o.ok
  <2>1. req' = [req EXCEPT !.headers = o.list] /\ blocks' = blocks + o.got
    <3>1. req' = [req EXCEPT !.headers = o.list, !.body = NoBody]
      BY <1>2, <1>5
    <3>2. blocks' = blocks + o.got
      BY <1>2, <1>3, <1>5 DEF RequestInv
    <3> QED BY <1>1, <3>1, <3>2 DEF RequestInv, RequestStates
  <2> QED BY <1>2, <1>3, <2>1, HeadersChange
<1> QED BY <1>4, <1>5

LEMMA NoUrlKeeps ==
  ASSUME RequestInv, init_oauth2_no_url
  PROVE  RequestInv'
<1>1. PICK x : x = [req EXCEPT !.url = FALSE]
  OBVIOUS
<1>2. /\ x \in RequestStates /\ x.headers = req.headers /\ x.url = FALSE /\ x.parts = req.parts
      /\ x.body = req.body
  BY <1>1 DEF RequestInv, RequestStates
<1>3. Url(x) = 0 /\ Body(x) = Body(req)
  BY <1>2 DEF Url, Body
<1>4. Reached(x) = Reached(req) + 0 - Url(req)
  BY <1>2, <1>3, RequestFacts DEF Reached, RequestInv
<1>5. BodyFits(x)
  BY <1>2 DEF BodyFits, RequestInv
<1>6. req' = x /\ lost' = lost + Url(req) /\ blocks' = blocks + 0 /\ jar' = jar
  BY <1>1 DEF RequestInv, init_oauth2_no_url
<1> QED BY <1>2, <1>4, <1>5, <1>6, RequestFacts, RequestChange DEF RequestInv

LEMMA NoBodyKeeps ==
  ASSUME RequestInv, init_oauth2_no_body
  PROVE  RequestInv'
<1>1. req.headers \in HeaderLists /\ "Content-Type" \in Texts
  BY RequestFacts DEF RequestInv, Texts, Keys
<1>2. PICK o \in http_headers_add(req.headers, "Content-Type") :
        /\ req' = [req EXCEPT !.url = TRUE, !.headers = o.list]
        /\ blocks' = blocks + 1 + o.got /\ lost' = lost + Url(req) /\ jar' = jar
  BY DEF init_oauth2_no_body
<1>3. /\ o.list \in HeaderLists /\ o.got \in Int
      /\ HeaderBlocks(o.list) = HeaderBlocks(req.headers) + o.got
  BY <1>1, HeaderAdded
<1>4. PICK x : x = [req EXCEPT !.url = TRUE, !.headers = o.list]
  OBVIOUS
<1>5. /\ x \in RequestStates /\ x.headers = o.list /\ x.url = TRUE /\ x.parts = req.parts
      /\ x.body = req.body
  BY <1>3, <1>4 DEF RequestInv, RequestStates
<1>6. Url(x) = 1 /\ Body(x) = Body(req)
  BY <1>5 DEF Url, Body
<1>7. Reached(x) = Reached(req) + (1 + o.got) - Url(req)
  BY <1>3, <1>5, <1>6, RequestFacts DEF Reached, RequestInv
<1>8. BodyFits(x)
  BY <1>5 DEF BodyFits, RequestInv
<1>9. req' = x /\ blocks' = blocks + (1 + o.got) /\ 1 + o.got \in Int /\ Url(req) \in Int
  BY <1>2, <1>3, <1>4, RequestFacts DEF RequestInv
<1> QED BY <1>2, <1>5, <1>7, <1>8, <1>9, RequestChange

LEMMA FormKeeps ==
  ASSUME RequestInv, init_oauth2
  PROVE  RequestInv'
<1>1. req.headers \in HeaderLists /\ "Content-Type" \in Texts
  BY RequestFacts DEF RequestInv, Texts, Keys
<1>2. PICK form \in Forms : \E given : \E o \in http_headers_add(req.headers, "Content-Type") :
        /\ req' = [req EXCEPT !.url = TRUE, !.headers = o.list,
                              !.body = FormBody(Fields(form, given))]
        /\ blocks' = blocks + 1 + o.got + 1 /\ lost' = lost + Url(req) + Body(req) /\ jar' = jar
  BY DEF init_oauth2
<1>14. PICK given : \E o \in http_headers_add(req.headers, "Content-Type") :
        /\ req' = [req EXCEPT !.url = TRUE, !.headers = o.list,
                              !.body = FormBody(Fields(form, given))]
        /\ blocks' = blocks + 1 + o.got + 1 /\ lost' = lost + Url(req) + Body(req) /\ jar' = jar
  BY <1>2
<1>15. PICK o \in http_headers_add(req.headers, "Content-Type") :
        /\ req' = [req EXCEPT !.url = TRUE, !.headers = o.list,
                              !.body = FormBody(Fields(form, given))]
        /\ blocks' = blocks + 1 + o.got + 1 /\ lost' = lost + Url(req) + Body(req) /\ jar' = jar
  BY <1>14
<1>3. /\ o.list \in HeaderLists /\ o.got \in Int
      /\ HeaderBlocks(o.list) = HeaderBlocks(req.headers) + o.got
  BY <1>1, HeaderAdded
<1>4. PICK body : body = FormBody(Fields(form, given))
  OBVIOUS
<1>5. PICK w \in Int : w = FormWritten(Fields(form, given)) /\ w = FormSize(Fields(form, given))
  BY FormAgrees
<1>6. body = [kind |-> "form", len |-> w, size |-> w + 1, written |-> w + 1, parts |-> 0]
  BY <1>4, <1>5 DEF FormBody
<1>7. body \in BodyStates /\ body # NoBody
  BY <1>6 DEF BodyStates, NoBody
<1>8. PICK x : x = [req EXCEPT !.url = TRUE, !.headers = o.list, !.body = body]
  OBVIOUS
<1>9. /\ x \in RequestStates /\ x.headers = o.list /\ x.url = TRUE /\ x.parts = req.parts
      /\ x.body = body
  BY <1>3, <1>7, <1>8 DEF RequestInv, RequestStates
<1>10. Url(x) = 1 /\ Body(x) = 1
  BY <1>7, <1>9 DEF Url, Body
<1>11. Reached(x) = Reached(req) + (2 + o.got) - (Url(req) + Body(req))
  BY <1>3, <1>9, <1>10, RequestFacts DEF Reached, RequestInv
<1>12. BodyFits(x)
  BY <1>6, <1>9 DEF BodyFits
<1>13. /\ req' = x /\ blocks' = blocks + (2 + o.got) /\ 2 + o.got \in Int
       /\ Url(req) + Body(req) \in Int /\ lost' = lost + (Url(req) + Body(req))
  <2>1. PICK a \in Int, b \in Int, u \in Int, v \in Int, g \in Int :
          a = blocks /\ b = lost /\ u = Url(req) /\ v = Body(req) /\ g = o.got
    BY <1>3, RequestFacts DEF RequestInv
  <2>2. blocks' = blocks + (2 + o.got) /\ lost' = lost + (Url(req) + Body(req))
    BY <1>15, <2>1
  <2>3. 2 + o.got \in Int /\ Url(req) + Body(req) \in Int
    BY <2>1
  <2> QED BY <1>4, <1>8, <1>15, <2>2, <2>3
<1> QED BY <1>9, <1>11, <1>12, <1>13, <1>15, RequestChange

LEMMA FreeKeeps ==
  ASSUME RequestInv, http_request_free
  PROVE  RequestInv'
<1>1. PICK d \in Int : d = 0 - Reached(req)
  BY RequestFacts DEF RequestInv
<1>2. Reached(NewRequest) = Reached(req) + d - 0
  BY <1>1, EmptyLists, RequestFacts DEF RequestInv
<1>3. blocks' = blocks + d
  <2>1. blocks' = blocks - Reached(req)
    BY DEF http_request_free, Reached
  <2> QED BY <1>1, <2>1, RequestFacts DEF RequestInv
<1>4. req' = NewRequest /\ jar' = jar /\ lost' = lost + 0
  BY DEF http_request_free, RequestInv
<1> QED BY <1>2, <1>3, <1>4, EmptyLists, RequestChange

LEMMA CookieKeeps ==
  ASSUME RequestInv, http_cookie_jar_set
  PROVE  RequestInv'
<1>1. jar \in HeaderLists /\ HeaderBlocks(jar) \in Int
  BY HeaderListFacts DEF RequestInv
<1>2. req' = req /\ lost' = lost
  BY DEF http_cookie_jar_set
<1>3. CASE UNCHANGED <<jar, blocks>>
  BY <1>2, <1>3 DEF RequestInv
<1>4. ASSUME NEW name \in Cookies, NEW o \in Added(jar, PartRoom, name, 2), jar' = o.list,
             blocks' = blocks + o.got
      PROVE  RequestInv'
  <2>1. /\ o.list \in HeaderLists /\ o.got \in Int /\ o.ok \in BOOLEAN
        /\ o.list.items = IF o.ok THEN Append(jar.items, name) ELSE jar.items
        /\ o.got = Block(o.list) - Block(jar) + IF o.ok THEN 2 ELSE 0
    <3>1. name \in Texts /\ PartRoom \in Nat \ {0} /\ jar \in Lists(Texts)
      BY <1>1, RequestBounds DEF Texts, HeaderLists
    <3> QED BY <3>1, AddedIs DEF HeaderLists
  <2>2. HeaderBlocks(o.list) = HeaderBlocks(jar) + o.got
    <3>1. jar.items \in Seq(Texts) /\ Len(jar.items) \in Nat
      BY <1>1, LenProperties DEF HeaderLists, Lists
    <3>2. Len(Append(jar.items, name)) = Len(jar.items) + 1
      BY <1>4, <3>1, AppendProperties DEF Texts
    <3>3. /\ HeaderBlocks(jar) = Block(jar) + 2 * Len(jar.items)
          /\ HeaderBlocks(o.list) = Block(o.list) + 2 * Len(o.list.items)
          /\ Block(jar) \in Int /\ Block(o.list) \in Int
      BY <1>1, <2>1, HeaderListFacts
    <3>4. CASE o.ok
      <4>1. o.got = Block(o.list) - Block(jar) + 2 /\ Len(o.list.items) = Len(jar.items) + 1
        BY <2>1, <3>2, <3>4
      <4> QED BY <3>1, <3>3, <4>1
    <3>5. CASE ~o.ok
      <4>1. o.got = Block(o.list) - Block(jar) /\ Len(o.list.items) = Len(jar.items)
        BY <2>1, <3>3, <3>5
      <4> QED BY <3>1, <3>3, <4>1
    <3> QED BY <3>4, <3>5
  <2> QED BY <1>2, <1>4, <2>1, <2>2, JarChange
<1> QED BY <1>3, <1>4 DEF http_cookie_jar_set

LEMMA JarFreeKeeps ==
  ASSUME RequestInv, http_cookie_jar_free
  PROVE  RequestInv'
<1>1. HeaderBlocks(jar) \in Int /\ blocks \in Int
  BY HeaderListFacts DEF RequestInv
<1>2. PICK d \in Int : d = 0 - HeaderBlocks(jar)
  BY <1>1
<1>3. HeaderBlocks(NoList) = HeaderBlocks(jar) + d /\ blocks' = blocks + d
  BY <1>1, <1>2, EmptyLists DEF http_cookie_jar_free
<1>4. jar' = NoList /\ req' = req /\ lost' = lost
  BY DEF http_cookie_jar_free
<1> QED BY <1>3, <1>4, EmptyLists, JarChange

LEMMA RequestInvStep == RequestInv /\ [RequestNext]_requestVars => RequestInv'
<1> SUFFICES ASSUME RequestInv, [RequestNext]_requestVars PROVE RequestInv'
  OBVIOUS
<1>1. CASE UNCHANGED requestVars
  BY <1>1 DEF RequestInv, requestVars
<1>2. CASE RequestNext
  BY <1>2, AddHeaderKeeps, RemoveHeaderKeeps, AddPartKeeps, AddPartHeaderKeeps, FlattenKeeps,
     NoUrlKeeps, NoBodyKeeps, FormKeeps, CookieKeeps, FreeKeeps, JarFreeKeeps DEF RequestNext
<1> QED BY <1>1, <1>2

LEMMA RequestInvMeans == RequestInv => BlocksReachable /\ BodyWhole
<1> SUFFICES ASSUME RequestInv PROVE BlocksReachable /\ BodyWhole
  OBVIOUS
<1>1. blocks = lost + Url(req) + Body(req) + HeaderBlocks(req.headers)
                 + PartsBlocks(req.parts) + HeaderBlocks(jar)
  <2>1. /\ Url(req) \in Int /\ Body(req) \in Int /\ HeaderBlocks(req.headers) \in Int
        /\ PartsBlocks(req.parts) \in Int /\ HeaderBlocks(jar) \in Int /\ lost \in Int
    BY RequestFacts, HeaderListFacts DEF RequestInv
  <2> QED BY <2>1 DEF RequestInv, Reached
<1>2. /\ Len(req.headers.items) <= req.headers.room /\ Len(req.parts.items) <= req.parts.room
      /\ Len(jar.items) <= jar.room
  BY RequestFacts DEF RequestInv, HeaderLists, Lists
<1>3. BodyWhole
  BY DEF RequestInv, BodyWhole, BodyFits
<1> QED BY <1>1, <1>2, <1>3 DEF BlocksReachable

LEMMA RequestInvAlways == RequestSpec => []RequestInv
BY RequestInitInv, RequestInvStep, PTL DEF RequestSpec

(* Whatever allocation fails in whatever operation, and whatever parts,     *)
(* headers and cookies there are: what is allocated can still be reached     *)
(* and freed, but for the URL and body a form's request overwrites, and no   *)
(* array holds more than it has room for (src/http_types.c).                *)
THEOREM RequestTheorem == RequestSpec => []BlocksReachable
BY RequestInvAlways, RequestInvMeans, PTL

(* A form's body is as long as was counted and a multipart body fits in     *)
(* what was estimated, whatever its parts: no write leaves the block, and    *)
(* the length sent is the length written (http_request_flatten_parts and     *)
(* the forms of OAuth 2).                                                  *)
THEOREM BodyTheorem == RequestSpec => []BodyWhole
BY RequestInvAlways, RequestInvMeans, PTL
=============================================================================
