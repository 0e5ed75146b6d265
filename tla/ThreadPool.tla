----------------------------- MODULE ThreadPool -----------------------------
(***************************************************************************)
(* The worker pool of src/thread_pool.c: the linked task queue, the worker *)
(* loop, abstract_http_thread_pool_init with its partial-failure path,     *)
(* abstract_http_thread_pool_push and abstract_http_thread_pool_free, over *)
(* a mutex and a condition variable.                                       *)
(*                                                                         *)
(* Three kinds of threads take steps: the owner (init, then free), the     *)
(* workers it creates, and clients.  A push may come from a client or from *)
(* a task callback that runs on a worker.  A critical section in which the *)
(* thread does not sleep is one step: every other access to the pool is    *)
(* made with the mutex held, so its middle is invisible.  The worker's     *)
(* section is cut where it tests the queue and where it goes to sleep.     *)
(***************************************************************************)
EXTENDS Naturals, Sequences, Functions

CONSTANTS
  NumThreads,    \* num_threads
  Clients,       \* threads other than the workers that push tasks
  Tasks,         \* one identity per call of push
  NoTask,        \* no task / no call in progress
  CanFail,       \* which primitives may report an error
  JoinTimesOut,  \* thread_join gives up (Windows: after 10000 ms)
  SemaphoreCond, \* the condition variable is a semaphore (before Visual C++ 2010)
  MaxSpurious    \* bound on spurious returns of cond_wait

Primitives == {"alloc", "create", "lock", "unlock", "wait", "signal", "broadcast"}

Workers == 1 .. NumThreads
NoThread == 0
Pushers == Workers \cup Clients

ASSUME ConstantsAssumption ==
  /\ NumThreads \in Nat \ {0}
  /\ NoTask \notin Tasks
  /\ CanFail \subseteq Primitives
  /\ JoinTimesOut \in BOOLEAN
  /\ SemaphoreCond \in BOOLEAN
  /\ MaxSpurious \in Nat
  /\ Clients \cap (0 .. NumThreads) = {}

VARIABLES
  owner,      \* where the thread that calls init and free is
  idx,        \* its loop counter i
  stop,       \* pool->stop
  queue,      \* the list from pool->head to pool->tail
  lock,       \* holder of pool->lock
  pc,         \* where each worker is
  cur,        \* the task a worker took from the queue
  rc,         \* the worker's sticky rc, TRUE for an error
  call,       \* the task of a push in progress, allocated but not queued
  spurious,   \* spurious wakeups so far
  fresh,      \* history: tasks push has not been called with
  refused,    \* history: tasks whose push returned an error
  accepted,   \* history: tasks in the order they entered the queue
  started,    \* history: tasks in the order their callbacks were called
  done        \* history: tasks whose callbacks returned

ownerVars == <<owner, idx>>
history == <<fresh, refused, accepted, started, done>>
vars == <<owner, idx, stop, queue, lock, pc, cur, rc, call, spurious,
          fresh, refused, accepted, started, done>>

PCs == {"none", "lock", "check", "wait", "blocked", "relock", "run", "exited"}
OwnerStates == {"creating", "rollback", "open", "joining", "gone", "failed"}

(* The pool, its mutex and its condition variable have been released.      *)
Freed == owner \in {"gone", "failed"}

TypeOK ==
  /\ owner \in OwnerStates
  /\ idx \in 0 .. NumThreads
  /\ stop \in BOOLEAN
  /\ queue \in Seq(Tasks)
  /\ lock \in Workers \cup {NoThread}
  /\ pc \in [Workers -> PCs]
  /\ cur \in [Workers -> Tasks \cup {NoTask}]
  /\ \A w \in Workers : pc[w] = "run" => cur[w] \in Tasks
  /\ rc \in [Workers -> BOOLEAN]
  /\ call \in [Pushers -> Tasks \cup {NoTask}]
  /\ spurious \in Nat
  /\ fresh \subseteq Tasks
  /\ refused \subseteq Tasks
  /\ accepted \in Seq(Tasks)
  /\ started \in Seq(Tasks)
  /\ done \subseteq Tasks

Init ==
  /\ owner = "creating"
  /\ idx = 0
  /\ stop = FALSE
  /\ queue = <<>>
  /\ lock = NoThread
  /\ pc = [w \in Workers |-> "none"]
  /\ cur = [w \in Workers |-> NoTask]
  /\ rc = [w \in Workers |-> FALSE]
  /\ call = [x \in Pushers |-> NoTask]
  /\ spurious = 0
  /\ fresh = Tasks
  /\ refused = {}
  /\ accepted = <<>>
  /\ started = <<>>
  /\ done = {}

-----------------------------------------------------------------------------
(* The condition variable.  A wakeup only moves a waiter to the point where *)
(* it asks for the mutex again.                                             *)

Blocked == {w \in Workers : pc[w] = "blocked"}

Woken(S) == [w \in Workers |-> IF w \in S THEN "relock" ELSE pc[w]]

(* The sets of waiters one cond_signal may wake: one of them if any.        *)
cond_signal == IF Blocked = {} THEN {{}} ELSE {{w} : w \in Blocked}

(* cond_broadcast wakes every waiter; if it reports an error, none.         *)
cond_broadcast == {Blocked} \cup IF "broadcast" \in CanFail THEN {{}} ELSE {}

cond_wait_spurious(w) ==
  /\ pc[w] = "blocked"
  /\ spurious < MaxSpurious
  /\ spurious' = spurious + 1
  /\ pc' = [pc EXCEPT ![w] = "relock"]
  /\ UNCHANGED <<ownerVars, stop, queue, lock, cur, rc, call, history>>

(* cond_wait returns with the mutex held again; the loop tests once more.   *)
cond_wait_return(w) ==
  /\ pc[w] = "relock"
  /\ lock = NoThread
  /\ lock' = w
  /\ pc' = [pc EXCEPT ![w] = "check"]
  /\ UNCHANGED <<ownerVars, stop, queue, cur, rc, call, spurious, history>>

-----------------------------------------------------------------------------
(* worker_thread                                                            *)

worker_lock(w) ==
  /\ pc[w] = "lock"
  /\ lock = NoThread
  /\ lock' = w
  /\ pc' = [pc EXCEPT ![w] = "check"]
  /\ UNCHANGED <<ownerVars, stop, queue, cur, rc, call, spurious, history>>

worker_lock_fails(w) ==
  /\ "lock" \in CanFail
  /\ pc[w] = "lock"
  /\ pc' = [pc EXCEPT ![w] = "exited"]
  /\ rc' = [rc EXCEPT ![w] = TRUE]
  /\ UNCHANGED <<ownerVars, stop, queue, lock, cur, call, spurious, history>>

(* The loop condition: nothing to do and no stop, so sleep.                 *)
MustWait == ~stop /\ queue = <<>>

worker_check(w) ==
  /\ pc[w] = "check"
  /\ MustWait
  /\ pc' = [pc EXCEPT ![w] = "wait"]
  /\ UNCHANGED <<ownerVars, stop, queue, lock, cur, rc, call, spurious, history>>

worker_wait(w) ==
  /\ pc[w] = "wait"
  /\ lock' = NoThread
  /\ pc' = [pc EXCEPT ![w] = "blocked"]
  /\ UNCHANGED <<ownerVars, stop, queue, cur, rc, call, spurious, history>>

(* The semaphore still holds a wakeup meant for v, which has not run since:  *)
(* w takes it, and v counts as one of those that sleep.                    *)
worker_wait_takes_wakeup(w) ==
  /\ SemaphoreCond
  /\ pc[w] = "wait"
  /\ lock' = NoThread
  /\ \E v \in Workers :
       pc[v] = "relock" /\ pc' = [pc EXCEPT ![w] = "relock", ![v] = "blocked"]
  /\ UNCHANGED <<ownerVars, stop, queue, cur, rc, call, spurious, history>>

(* cond_wait reports an error: rc is set, the mutex released, the thread ends. *)
worker_wait_fails(w) ==
  /\ "wait" \in CanFail
  /\ pc[w] = "wait"
  /\ lock' = NoThread
  /\ pc' = [pc EXCEPT ![w] = "exited"]
  /\ rc' = [rc EXCEPT ![w] = TRUE]
  /\ UNCHANGED <<ownerVars, stop, queue, cur, call, spurious, history>>

(* What rc may be after an unlock: an error sticks.                         *)
AfterUnlock(w) == {rc[w]} \cup IF "unlock" \in CanFail THEN {TRUE} ELSE {}

Mutant_exit_on_stop(w) ==
  /\ pc[w] = "check"
  /\ stop
  /\ lock' = NoThread
  /\ pc' = [pc EXCEPT ![w] = "exited"]
  /\ UNCHANGED <<ownerVars, stop, queue, cur, rc, call, spurious, history>>

(* An earlier error, or stop with an empty queue, ends the thread.          *)
worker_exit(w) ==
  /\ pc[w] = "check"
  /\ ~MustWait
  /\ rc[w] \/ (stop /\ queue = <<>>)
  /\ lock' = NoThread
  /\ pc' = [pc EXCEPT ![w] = "exited"]
  /\ \E e \in AfterUnlock(w) : rc' = [rc EXCEPT ![w] = e]
  /\ UNCHANGED <<ownerVars, stop, queue, cur, call, spurious, history>>

(* Take the head of the queue, release the mutex, call the callback.        *)
worker_take(w) ==
  /\ pc[w] = "check"
  /\ queue # <<>>
  /\ ~rc[w]
  /\ cur' = [cur EXCEPT ![w] = Head(queue)]
  /\ started' = Append(started, Head(queue))
  /\ queue' = Tail(queue)
  /\ lock' = NoThread
  /\ pc' = [pc EXCEPT ![w] = "run"]
  /\ \E e \in AfterUnlock(w) : rc' = [rc EXCEPT ![w] = e]
  /\ UNCHANGED <<ownerVars, stop, call, spurious, fresh, refused, accepted, done>>

(* The callback returns, whatever its code; the node is freed.              *)
worker_done(w) ==
  /\ pc[w] = "run"
  /\ call[w] = NoTask
  /\ done' = done \cup {cur[w]}
  /\ cur' = [cur EXCEPT ![w] = NoTask]
  /\ pc' = [pc EXCEPT ![w] = "lock"]
  /\ UNCHANGED <<ownerVars, stop, queue, lock, rc, call, spurious,
                 fresh, refused, accepted, started>>

worker_thread(w) ==
  \/ worker_lock(w) \/ worker_lock_fails(w)
  \/ worker_check(w)
  \/ worker_wait(w) \/ worker_wait_takes_wakeup(w) \/ worker_wait_fails(w)
  \/ cond_wait_return(w)
  \/ worker_exit(w)
  \/ worker_take(w)
  \/ worker_done(w)

-----------------------------------------------------------------------------
(* abstract_http_thread_pool_push, called by a client while the pool is     *)
(* open or by a callback that runs on a worker.                             *)

MayPush(x) == IF x \in Workers THEN pc[x] = "run" ELSE owner = "open"

push_alloc(x, t) ==
  /\ MayPush(x)
  /\ call[x] = NoTask
  /\ t \in fresh
  /\ fresh' = fresh \ {t}
  /\ call' = [call EXCEPT ![x] = t]
  /\ UNCHANGED <<ownerVars, stop, queue, lock, pc, cur, rc, spurious,
                 refused, accepted, started, done>>

push_alloc_fails(x, t) ==
  /\ "alloc" \in CanFail
  /\ MayPush(x)
  /\ call[x] = NoTask
  /\ t \in fresh
  /\ fresh' = fresh \ {t}
  /\ refused' = refused \cup {t}
  /\ UNCHANGED <<ownerVars, stop, queue, lock, pc, cur, rc, call, spurious,
                 accepted, started, done>>

push_lock_fails(x) ==
  /\ "lock" \in CanFail
  /\ call[x] # NoTask
  /\ refused' = refused \cup {call[x]}
  /\ call' = [call EXCEPT ![x] = NoTask]
  /\ UNCHANGED <<ownerVars, stop, queue, lock, pc, cur, rc, spurious,
                 fresh, accepted, started, done>>

(* The pool is stopped: the node is freed and an error returned.            *)
push_stopped(x) ==
  /\ call[x] # NoTask
  /\ lock = NoThread
  /\ stop
  /\ refused' = refused \cup {call[x]}
  /\ call' = [call EXCEPT ![x] = NoTask]
  /\ UNCHANGED <<ownerVars, stop, queue, lock, pc, cur, rc, spurious,
                 fresh, accepted, started, done>>

(* What push returns after queueing: an error of signal or of unlock is     *)
(* returned although the task stays queued.                                 *)
PushResult(t) ==
  {refused} \cup IF CanFail \cap {"signal", "unlock"} # {}
                 THEN {refused \cup {t}} ELSE {}

Enqueue(x) ==
  /\ queue' = Append(queue, call[x])
  /\ accepted' = Append(accepted, call[x])
  /\ call' = [call EXCEPT ![x] = NoTask]
  /\ UNCHANGED <<ownerVars, stop, lock, cur, rc, spurious, fresh, started, done>>

Mutant_push_no_signal(x) ==
  /\ call[x] # NoTask
  /\ lock = NoThread
  /\ ~stop
  /\ Enqueue(x)
  /\ UNCHANGED <<pc, refused>>

Mutant_push_at_head(x) ==
  /\ call[x] # NoTask
  /\ lock = NoThread
  /\ ~stop
  /\ queue' = <<call[x]>> \o queue
  /\ accepted' = Append(accepted, call[x])
  /\ call' = [call EXCEPT ![x] = NoTask]
  /\ \E S \in cond_signal : pc' = Woken(S)
  /\ UNCHANGED <<ownerVars, stop, lock, cur, rc, spurious, fresh, started, done, refused>>

push_enqueue(x) ==
  /\ call[x] # NoTask
  /\ lock = NoThread
  /\ ~stop
  /\ Enqueue(x)
  /\ \/ \E S \in cond_signal : pc' = Woken(S) /\ refused' \in PushResult(call[x])
     \/ /\ "signal" \in CanFail
        /\ UNCHANGED pc
        /\ refused' = refused \cup {call[x]}

thread_pool_push(x) ==
  \/ \E t \in Tasks : push_alloc(x, t) \/ push_alloc_fails(x, t)
  \/ push_lock_fails(x)
  \/ push_stopped(x)
  \/ push_enqueue(x)

-----------------------------------------------------------------------------
(* abstract_http_thread_pool_init                                           *)

(* malloc, mutex_init or cond_init fails: everything so far is released.    *)
init_alloc_fails ==
  /\ "alloc" \in CanFail
  /\ owner = "creating"
  /\ idx = 0
  /\ \A w \in Workers : pc[w] = "none"
  /\ owner' = "failed"
  /\ UNCHANGED <<idx, stop, queue, lock, pc, cur, rc, call, spurious, history>>

init_create ==
  /\ owner = "creating"
  /\ idx < NumThreads
  /\ idx' = idx + 1
  /\ pc' = [pc EXCEPT ![idx + 1] = "lock"]
  /\ UNCHANGED <<owner, stop, queue, lock, cur, rc, call, spurious, history>>

init_publish ==
  /\ owner = "creating"
  /\ idx = NumThreads
  /\ owner' = "open"
  /\ UNCHANGED <<idx, stop, queue, lock, pc, cur, rc, call, spurious, history>>

(* thread_create failed: stop the workers created so far.  stop is written  *)
(* even when the mutex could not be locked, and errors of broadcast and     *)
(* unlock are only logged.                                                  *)
init_create_fails ==
  /\ "create" \in CanFail
  /\ owner = "creating"
  /\ idx < NumThreads
  /\ lock = NoThread \/ "lock" \in CanFail
  /\ stop' = TRUE
  /\ \E S \in cond_broadcast : pc' = Woken(S)
  /\ owner' = "rollback"
  /\ UNCHANGED <<idx, queue, lock, cur, rc, call, spurious, history>>

Mutant_join_does_not_wait(w) == TRUE

(* thread_join returns when the thread has ended, on Windows also after its *)
(* time is up.                                                              *)
thread_join(w) == pc[w] = "exited" \/ JoinTimesOut

init_join ==
  /\ owner = "rollback"
  /\ idx > 0
  /\ thread_join(idx)
  /\ idx' = idx - 1
  /\ UNCHANGED <<owner, stop, queue, lock, pc, cur, rc, call, spurious, history>>

init_release ==
  /\ owner = "rollback"
  /\ idx = 0
  /\ owner' = "failed"
  /\ UNCHANGED <<idx, stop, queue, lock, pc, cur, rc, call, spurious, history>>

-----------------------------------------------------------------------------
(* abstract_http_thread_pool_free.  The caller may not free the pool while  *)
(* another of its own threads is inside push; callbacks may be.             *)

Mutant_stop_without_broadcast ==
  /\ owner = "open"
  /\ \A c \in Clients : call[c] = NoTask
  /\ lock = NoThread
  /\ stop' = TRUE
  /\ owner' = "joining"
  /\ idx' = 0
  /\ \E S \in cond_signal : pc' = Woken(S)
  /\ UNCHANGED <<queue, lock, cur, rc, call, spurious, history>>

free_stop ==
  /\ owner = "open"
  /\ \A c \in Clients : call[c] = NoTask
  /\ lock = NoThread
  /\ stop' = TRUE
  /\ \/ /\ pc' = Woken(Blocked)
        /\ owner' = "joining"
     \/ /\ "unlock" \in CanFail
        /\ pc' = Woken(Blocked)
        /\ UNCHANGED owner
     \/ /\ "broadcast" \in CanFail
        /\ UNCHANGED <<pc, owner>>
  /\ idx' = 0
  /\ UNCHANGED <<queue, lock, cur, rc, call, spurious, history>>

free_join ==
  /\ owner = "joining"
  /\ idx < NumThreads
  /\ thread_join(idx + 1)
  /\ idx' = idx + 1
  /\ UNCHANGED <<owner, stop, queue, lock, pc, cur, rc, call, spurious, history>>

(* The tasks still queued are freed without being run.                      *)
free_release ==
  /\ owner = "joining"
  /\ idx = NumThreads
  /\ owner' = "gone"
  /\ queue' = <<>>
  /\ UNCHANGED <<idx, stop, lock, pc, cur, rc, call, spurious, history>>

Owner ==
  \/ init_alloc_fails \/ init_create \/ init_publish
  \/ init_create_fails \/ init_join \/ init_release
  \/ free_stop \/ free_join \/ free_release

(* The pool is gone: nothing is left to do.                                 *)
Terminated == Freed /\ UNCHANGED vars

Next ==
  \/ Owner
  \/ \E w \in Workers : worker_thread(w) \/ cond_wait_spurious(w)
  \/ \E x \in Pushers : thread_pool_push(x)
  \/ Terminated

Spec == Init /\ [][Next]_vars

(* Threads that can run do run, callbacks return, and the owner goes on     *)
(* once it is inside init or free.  Nobody has to push, or to call free.    *)
OwnerProgress ==
  init_create \/ init_publish \/ init_join \/ init_release \/ free_join \/ free_release

Fairness ==
  /\ \A w \in Workers : WF_vars(worker_thread(w))
  /\ \A x \in Pushers : WF_vars(push_enqueue(x) \/ push_stopped(x))
  /\ WF_vars(OwnerProgress)

FairSpec == Spec /\ Fairness

-----------------------------------------------------------------------------
(* Properties                                                               *)

(* A task enters the queue at most once, tasks are started in the order     *)
(* they were queued, and until the pool is released the queue holds exactly *)
(* the tasks that were accepted and not yet started: no push is lost and    *)
(* none is run twice, whichever workers and callbacks interleave.           *)
FifoExactlyOnce ==
  /\ IsInjective(accepted)
  /\ owner # "gone" => accepted = started \o queue

(* When abstract_http_thread_pool_free has released the pool, every task    *)
(* that was accepted has run to completion, provided one worker lived to    *)
(* drain the queue (thread_pool.h: "waiting for tasks to complete").        *)
DrainedBeforeRelease ==
  (owner = "gone" /\ \E w \in Workers : ~rc[w]) => Range(accepted) \subseteq done

(* Once init or free has released the pool, no worker will touch its mutex, *)
(* its condition variable or its queue again and no push is under way.      *)
NoUseAfterRelease ==
  Freed => /\ \A w \in Workers : pc[w] \in {"none", "exited"}
           /\ \A x \in Pushers : call[x] = NoTask

(* A push that returned an error did not queue its task: the caller still   *)
(* owns what it passed in.                                                  *)
ErrorMeansNotQueued == refused \cap Range(accepted) = {}

(* A worker that sleeps while work is queued will be followed by one that   *)
(* does not: some worker is awake, so no wakeup has been lost.              *)
NoLostWakeup ==
  (queue # <<>> /\ owner = "open" /\ \A w \in Workers : ~rc[w]) =>
     \E w \in Workers : pc[w] \notin {"none", "blocked", "exited"}

(* What push answers is true: after an error the task is not queued, and    *)
(* after success a worker will come for it (thread_pool.c:691-760).         *)
PushSound == ErrorMeansNotQueued /\ NoLostWakeup

(* The pool is the task service of thread_pool.h: FIFO starts, one run per  *)
(* accepted task, closed only when all of them have finished.               *)
Service == INSTANCE TaskService WITH open <- ~Freed
ImplementsService == Service!Spec

(* The same with the service's fairness: whatever is accepted is started    *)
(* and finished.                                                            *)
ImplementsFairService == Service!FairSpec

(* A call of free, and the rollback of a failed init, returns.              *)
TeardownReturns ==
  /\ owner = "joining" ~> owner = "gone"
  /\ owner = "rollback" ~> owner = "failed"
=============================================================================
