------------------------------ MODULE Process -------------------------------
(***************************************************************************)
(* src/process.c: pipes, worker processes and messages between them, in     *)
(* the POSIX and the Windows build.                                        *)
(*                                                                         *)
(* A pipe is a buffer of pieces and, for each end, the processes that hold  *)
(* it.  The parent asks a worker and reads its answer; it gives a worker up *)
(* after an error, frees the pipes of a worker and then waits for it.  The  *)
(* worker's program is external: it answers what it reads until there is    *)
(* nothing to read, or ends before that.                                   *)
(***************************************************************************)
EXTENDS Naturals, Sequences, SequencesExt

CONSTANTS
  NumWorkers,   \* the workers the parent spawns
  Capacity,     \* pieces a pipe holds; a write of no more is not interrupted
  MaxSize,      \* bound: pieces of a message
  MaxAsks       \* bound: messages to one worker

ASSUME ProcessBounds ==
  /\ NumWorkers \in Nat /\ MaxAsks \in Nat
  /\ Capacity \in Nat \ {0} /\ MaxSize \in Nat \ {0}

VARIABLES
  os,         \* "posix" or "win32"
  size,       \* pieces of each message
  stage,      \* what the parent has done with a worker's pipes and process
  handle,     \* the fields of the AbstractHttpIpcPipe structs that are not NULL
  inherit,    \* win32: the ends that a new process would inherit
  holds,      \* the ends each process holds
  buf,        \* the pieces in a pipe
  op,         \* the blocking call each process is in
  worker,     \* "none", "forked", "running", "exited"
  asked,      \* messages sent to a worker
  taken       \* history: what the successful reads of a pipe returned

procVars == <<os, size, stage, handle, inherit, holds, buf, op, worker, asked, taken>>

Workers == 1..NumWorkers
Parent == 0
Procs == Workers \cup {Parent}
Pipes == Workers \X {"down", "up"}      \* parent_to_child, child_to_parent
Ends == Pipes \X {"r", "w"}
End(c, way, e) == <<<<c, way>>, e>>
EndsOf(c) == {<<<<c, way>>, e>> : way \in {"down", "up"}, e \in {"r", "w"}}
Posix == os = "posix"

Idle == [kind |-> "idle", pipe |-> <<0, "">>, left |-> 0]
Holders(end) == {p \in Procs : end \in holds[p]}
Small(a, b) == IF a < b THEN a ELSE b

ProcInit ==
  /\ os \in {"posix", "win32"}
  /\ size \in 1..MaxSize
  /\ stage = [c \in Workers |-> "new"]
  /\ handle = {}
  /\ inherit = {}
  /\ holds = [p \in Procs |-> {}]
  /\ buf = [q \in Pipes |-> <<>>]
  /\ op = [p \in Procs |-> Idle]
  /\ worker = [c \in Workers |-> "none"]
  /\ asked = [c \in Workers |-> 0]
  /\ taken = [q \in Pipes |-> <<>>]

ParentFree == op[Parent] = Idle

-----------------------------------------------------------------------------
(* Both pipes of a worker; a failure leaves none.                           *)
pipe_init(c) ==
  /\ ParentFree /\ stage[c] = "new"
  /\ stage' = [stage EXCEPT ![c] = "piped"]
  /\ handle' = handle \cup EndsOf(c)
  /\ holds' = [holds EXCEPT ![Parent] = @ \cup EndsOf(c)]
  /\ inherit' = inherit \cup EndsOf(c)
  /\ UNCHANGED <<os, size, buf, op, worker, asked, taken>>

Mutant_spawn_keeps_handles(c) ==
  /\ Posix /\ ParentFree /\ stage[c] = "piped"
  /\ stage' = [stage EXCEPT ![c] = "spawned"]
  /\ worker' = [worker EXCEPT ![c] = "forked"]
  /\ holds' = [holds EXCEPT ![c] = holds[Parent],
                            ![Parent] = @ \ {End(c, "down", "r"), End(c, "up", "w")}]
  /\ UNCHANGED <<os, size, handle, inherit, buf, op, asked, taken>>

(* fork gives the worker everything the parent holds; the parent closes     *)
(* the worker's ends.                                                      *)
posix_spawn(c) ==
  /\ Posix /\ ParentFree /\ stage[c] = "piped"
  /\ LET theirs == {End(c, "down", "r"), End(c, "up", "w")}
     IN \/ /\ stage' = [stage EXCEPT ![c] = "spawned"]
           /\ worker' = [worker EXCEPT ![c] = "forked"]
           /\ holds' = [holds EXCEPT ![c] = holds[Parent], ![Parent] = @ \ theirs]
           /\ handle' = handle \ theirs
        \/ /\ stage' = [stage EXCEPT ![c] = "failed"]
           /\ UNCHANGED <<worker, holds, handle>>
  /\ UNCHANGED <<os, size, inherit, buf, op, asked, taken>>

(* The worker's side of fork: stdin, stdout and exec, which may fail.       *)
posix_exec(c) ==
  /\ worker[c] = "forked"
  /\ \/ /\ worker' = [worker EXCEPT ![c] = "running"]
        /\ holds' = [holds EXCEPT ![c] = @ \ {End(c, "down", "w"), End(c, "up", "r")}]
     \/ /\ worker' = [worker EXCEPT ![c] = "exited"]
        /\ holds' = [holds EXCEPT ![c] = {}]
  /\ UNCHANGED <<os, size, stage, handle, inherit, buf, op, asked, taken>>

(* CreateProcess gives the worker the ends marked inheritable; the parent   *)
(* keeps all of its own.                                                   *)
win32_spawn(c) ==
  /\ ~Posix /\ ParentFree /\ stage[c] = "piped"
  /\ LET left == inherit \ {End(c, "down", "w"), End(c, "up", "r")}
     IN /\ inherit' = left
        /\ \/ /\ stage' = [stage EXCEPT ![c] = "spawned"]
              /\ worker' = [worker EXCEPT ![c] = "running"]
              /\ holds' = [holds EXCEPT ![c] = left]
           \/ /\ stage' = [stage EXCEPT ![c] = "failed"]
              /\ UNCHANGED <<worker, holds>>
  /\ UNCHANGED <<os, size, handle, buf, op, asked, taken>>

pipe_free(c) ==
  /\ ParentFree /\ stage[c] \in {"spawned", "broken", "failed"}
  /\ stage' = [stage EXCEPT ![c] = IF @ = "failed" THEN "ended" ELSE "closed"]
  /\ holds' = [holds EXCEPT ![Parent] = @ \ (EndsOf(c) \cap handle)]
  /\ inherit' = inherit \ EndsOf(c)
  /\ handle' = handle \ EndsOf(c)
  /\ UNCHANGED <<os, size, buf, op, worker, asked, taken>>

-----------------------------------------------------------------------------
(* ipc_write: one write, which the system may carry out in pieces.          *)
Writing(q) == [kind |-> "write", pipe |-> q, left |-> size]
Reading(q) == [kind |-> "read", pipe |-> q, left |-> size]
Exited(c) ==
  /\ worker' = [worker EXCEPT ![c] = "exited"]
  /\ holds' = [holds EXCEPT ![c] = {}]

(* What a process does when its call has returned.                          *)
AfterWrite(p, q) ==
  op' = [op EXCEPT ![p] = Reading(IF p = Parent THEN <<q[1], "up">> ELSE <<q[1], "down">>)]
AfterRead(p, q) ==
  op' = [op EXCEPT ![p] = IF p = Parent THEN Idle ELSE Writing(<<q[1], "up">>)]
AfterError(p, q) ==
  /\ op' = [op EXCEPT ![p] = Idle]
  /\ IF p = Parent
     THEN stage' = [stage EXCEPT ![q[1]] = "broken"] /\ UNCHANGED <<worker, holds>>
     ELSE Exited(p) /\ UNCHANGED stage

ipc_write(p) ==
  LET q == op[p].pipe
      room == Capacity - Len(buf[q])
      piece == Small(op[p].left, room)
      number == IF p = Parent THEN asked[q[1]] ELSE Len(taken[<<q[1], "down">>])
  IN /\ op[p].kind = "write" /\ Holders(<<q, "r">>) # {}
     /\ IF size <= Capacity THEN room >= size ELSE room > 0
     /\ buf' = [buf EXCEPT ![q] = @ \o [i \in 1..piece |-> number]]
     /\ IF piece = op[p].left THEN AfterWrite(p, q)
        ELSE op' = [op EXCEPT ![p].left = @ - piece]
     /\ UNCHANGED <<os, size, stage, handle, inherit, holds, worker, asked, taken>>

(* Nobody can read: an error on Windows, on POSIX the signal SIGPIPE, which *)
(* ends the worker, and the parent too unless it ignores that signal.       *)
ipc_write_broken(p) ==
  LET q == op[p].pipe
  IN /\ op[p].kind = "write" /\ Holders(<<q, "r">>) = {}
     /\ AfterError(p, q)
     /\ UNCHANGED <<os, size, handle, inherit, buf, asked, taken>>

Mutant_accepts_short_read(p) ==
  LET q == op[p].pipe
      n == Small(size, Len(buf[q]))
      got == SubSeq(buf[q], 1, n)
  IN /\ op[p].kind = "read" /\ n > 0
     /\ buf' = [buf EXCEPT ![q] = SubSeq(@, n + 1, Len(@))]
     /\ taken' = [taken EXCEPT ![q] = Append(@, got)] /\ AfterRead(p, q)
     /\ UNCHANGED <<stage, worker, holds>>
     /\ UNCHANGED <<os, size, handle, inherit, asked>>

(* ipc_read: one read, which returns what is there; less than was asked for *)
(* is an error and is lost.                                                *)
ipc_read(p) ==
  LET q == op[p].pipe
      n == Small(size, Len(buf[q]))
      got == SubSeq(buf[q], 1, n)
  IN /\ op[p].kind = "read" /\ n > 0
     /\ buf' = [buf EXCEPT ![q] = SubSeq(@, n + 1, Len(@))]
     /\ IF n = size
        THEN /\ taken' = [taken EXCEPT ![q] = Append(@, got)] /\ AfterRead(p, q)
             /\ UNCHANGED <<stage, worker, holds>>
        ELSE AfterError(p, q) /\ UNCHANGED taken
     /\ UNCHANGED <<os, size, handle, inherit, asked>>

ipc_read_end(p) ==
  LET q == op[p].pipe
  IN /\ op[p].kind = "read" /\ buf[q] = <<>> /\ Holders(<<q, "w">>) = {}
     /\ AfterError(p, q)
     /\ UNCHANGED <<os, size, handle, inherit, buf, asked, taken>>

-----------------------------------------------------------------------------
parent_asks(c) ==
  /\ ParentFree /\ stage[c] = "spawned" /\ asked[c] < MaxAsks
  /\ asked' = [asked EXCEPT ![c] = @ + 1]
  /\ op' = [op EXCEPT ![Parent] = Writing(<<c, "down">>)]
  /\ UNCHANGED <<os, size, stage, handle, inherit, holds, buf, worker, taken>>

worker_listens(c) ==
  /\ worker[c] = "running" /\ op[c] = Idle
  /\ op' = [op EXCEPT ![c] = Reading(<<c, "down">>)]
  /\ UNCHANGED <<os, size, stage, handle, inherit, holds, buf, worker, asked, taken>>

worker_dies(c) ==
  /\ worker[c] = "running"
  /\ Exited(c)
  /\ op' = [op EXCEPT ![c] = Idle]
  /\ UNCHANGED <<os, size, stage, handle, inherit, buf, asked, taken>>

wait_begins(c) ==
  /\ ParentFree /\ stage[c] = "closed"
  /\ op' = [op EXCEPT ![Parent] = [kind |-> "wait", pipe |-> <<c, "">>, left |-> 0]]
  /\ UNCHANGED <<os, size, stage, handle, inherit, holds, buf, worker, asked, taken>>

Mutant_no_terminate ==
  /\ op[Parent].kind = "wait"
  /\ LET c == op[Parent].pipe[1]
     IN /\ worker[c] = "exited"
        /\ stage' = [stage EXCEPT ![c] = "ended"]
  /\ op' = [op EXCEPT ![Parent] = Idle]
  /\ UNCHANGED <<os, size, handle, inherit, holds, buf, worker, asked, taken>>

(* waitpid; WaitForSingleObject, which terminates the worker after 15 s.    *)
wait_and_free ==
  /\ op[Parent].kind = "wait"
  /\ LET c == op[Parent].pipe[1]
     IN /\ stage' = [stage EXCEPT ![c] = "ended"]
        /\ \/ worker[c] = "exited" /\ op' = [op EXCEPT ![Parent] = Idle]
              /\ UNCHANGED <<worker, holds>>
           \/ ~Posix /\ worker[c] = "running" /\ Exited(c)
              /\ op' = [op EXCEPT ![Parent] = Idle, ![c] = Idle]
  /\ UNCHANGED <<os, size, handle, inherit, buf, asked, taken>>

-----------------------------------------------------------------------------
ipc_steps(p) ==
  ipc_write(p) \/ ipc_write_broken(p) \/ ipc_read(p) \/ ipc_read_end(p)

ParentSteps ==
  \/ \E c \in Workers : \/ pipe_init(c) \/ posix_spawn(c) \/ win32_spawn(c)
                        \/ parent_asks(c) \/ pipe_free(c) \/ wait_begins(c)
  \/ wait_and_free
  \/ ipc_steps(Parent)

WorkerSteps(c) == posix_exec(c) \/ worker_listens(c) \/ ipc_steps(c)

ProcNext ==
  \/ ParentSteps
  \/ \E c \in Workers : WorkerSteps(c) \/ worker_dies(c)

(* The system runs every process.                                           *)
ProcFairness ==
  /\ WF_procVars(ParentSteps)
  /\ \A c \in Workers : WF_procVars(WorkerSteps(c))

ProcSpec == ProcInit /\ [][ProcNext]_procVars /\ ProcFairness

-----------------------------------------------------------------------------
(* A message that ipc_read reports is one message, the next one, whole:     *)
(* never a part, or the end of one and the beginning of another.            *)
MessagesWhole ==
  \A q \in Pipes : \A k \in DOMAIN taken[q] : taken[q][k] = [i \in 1..size |-> k]

(* The parent holds exactly the ends its structs name, so none leaks and    *)
(* none is closed twice (by then the number may be another file); what an   *)
(* ended process held is closed, and a worker keeps no way to write to      *)
(* itself, which would hide the end of its input from it.                   *)
EndsOwned ==
  /\ holds[Parent] = handle
  /\ \A c \in Workers :
       /\ stage[c] \in {"closed", "ended"} => holds[Parent] \cap EndsOf(c) = {}
       /\ worker[c] \in {"none", "exited"} => holds[c] = {}
       /\ worker[c] = "running" => End(c, "down", "w") \notin holds[c]

(* Another worker inherited an end of a pipe of c and keeps it open.        *)
HeldByOther(c) ==
  \E d \in Workers \ {c} : holds[d] \cap EndsOf(c) # {}

(* The parent waits in vain: another worker keeps the pipe open, or on      *)
(* Windows, where it keeps the worker's ends, for a worker that has died.   *)
Stranded(c) ==
  \/ HeldByOther(c) /\ (Posix \/ op[Parent].kind # "wait")
  \/ ~Posix /\ op[Parent].kind \in {"read", "write"} /\ worker[c] = "exited"

(* Reads, writes and waits of the parent return, whatever the worker does;  *)
(* the two exceptions are described in the README.                          *)
CallsEnd ==
  \A c \in Workers :
    op[Parent] # Idle /\ op[Parent].pipe[1] = c ~> ParentFree \/ Stranded(c)

=============================================================================
