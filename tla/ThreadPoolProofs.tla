-------------------------- MODULE ThreadPoolProofs --------------------------
(***************************************************************************)
(* Proofs about ThreadPool for every number of workers, clients and tasks, *)
(* and every set of failing primitives.                                    *)
(***************************************************************************)
EXTENDS ThreadPool, SequenceTheorems, TLAPS

-----------------------------------------------------------------------------
(* Facts about the list that push appends to and workers take from.         *)

(* Moving the head of the queue to the end of the started tasks keeps the   *)
(* whole, and that head is the first task not yet started.                  *)
LEMMA TakeFromQueue ==
  ASSUME NEW T, NEW s \in Seq(T), NEW q \in Seq(T), q # <<>>
  PROVE  /\ s \o q = Append(s, Head(q)) \o Tail(q)
         /\ Len(s) < Len(s \o q)
         /\ (s \o q)[Len(s) + 1] = Head(q)
  <1> DEFINE h == Head(q)
             r == Tail(q)
  <1>1. /\ h \in T
        /\ r \in Seq(T)
        /\ Len(q) = Len(r) + 1
        /\ Len(r) \in Nat
        /\ Len(s) \in Nat
        /\ \A i \in 1 .. Len(r) : r[i] = q[i + 1]
        /\ h = q[1]
    BY HeadTailProperties, LenProperties
  <1>2. /\ Append(s, h) \in Seq(T)
        /\ Len(Append(s, h)) = Len(s) + 1
        /\ \A i \in 1 .. Len(s) : Append(s, h)[i] = s[i]
        /\ Append(s, h)[Len(s) + 1] = h
    BY <1>1, AppendProperties
  <1> HIDE DEF h, r
  <1>3. /\ s \o q \in Seq(T)
        /\ Len(s \o q) = Len(s) + Len(q)
        /\ \A i \in 1 .. Len(s) + Len(q) :
             (s \o q)[i] = IF i <= Len(s) THEN s[i] ELSE q[i - Len(s)]
    BY ConcatProperties
  <1>4. /\ Append(s, h) \o r \in Seq(T)
        /\ Len(Append(s, h) \o r) = Len(s) + 1 + Len(r)
        /\ \A i \in 1 .. Len(s) + 1 + Len(r) :
             (Append(s, h) \o r)[i] = IF i <= Len(s) + 1 THEN Append(s, h)[i]
                                      ELSE r[i - (Len(s) + 1)]
    BY <1>1, <1>2, ConcatProperties
  <1>5. \A i \in 1 .. Len(s \o q) : (s \o q)[i] = (Append(s, h) \o r)[i]
    BY <1>1, <1>2, <1>3, <1>4
  <1>6. Len(s \o q) = Len(Append(s, h) \o r)
    BY <1>1, <1>3, <1>4
  <1>7. s \o q = Append(s, h) \o r
    BY <1>3, <1>4, <1>5, <1>6, SeqEqual
  <1> QED BY <1>1, <1>3, <1>7 DEF h, r

(* A task appended to a list that does not hold it leaves the list without  *)
(* repetitions.                                                             *)
LEMMA AppendInjectiveList ==
  ASSUME NEW T, NEW s \in Seq(T), NEW t \in T, IsInjective(s), t \notin Range(s)
  PROVE  /\ IsInjective(Append(s, t))
         /\ Range(Append(s, t)) = Range(s) \cup {t}
  <1>1. /\ Len(s) \in Nat
        /\ DOMAIN s = 1 .. Len(s)
        /\ DOMAIN Append(s, t) = 1 .. Len(s) + 1
        /\ \A i \in 1 .. Len(s) : Append(s, t)[i] = s[i]
        /\ Append(s, t)[Len(s) + 1] = t
    BY LenProperties, AppendProperties
  <1> QED BY <1>1 DEF IsInjective, Range

-----------------------------------------------------------------------------
(* Every step keeps the types.                                              *)
LEMMA TypeStep == TypeOK /\ [Next]_vars => TypeOK'
  <1> SUFFICES ASSUME TypeOK, [Next]_vars PROVE TypeOK'
    OBVIOUS
  <1> USE ConstantsAssumption DEF TypeOK, Workers, Pushers, NoThread, PCs,
          OwnerStates, ownerVars, history
  <1>1. ASSUME NEW S \in SUBSET Workers, pc' = Woken(S)
        PROVE  /\ pc' \in [Workers -> PCs]
               /\ \A w \in Workers : pc'[w] = "run" => pc[w] = "run"
    BY <1>1 DEF Woken
  <1>2. Blocked \in SUBSET Workers
    BY DEF Blocked
  <1>3. /\ \A S \in cond_signal : S \in SUBSET Workers
        /\ \A S \in cond_broadcast : S \in SUBSET Workers
    <2>1. CASE Blocked = {}
      BY <2>1 DEF cond_signal, cond_broadcast
    <2>2. CASE Blocked # {}
      BY <2>2, <1>2 DEF cond_signal, cond_broadcast
    <2> QED BY <2>1, <2>2
  <1>4. CASE Owner
    <2>1. CASE init_alloc_fails
      BY <2>1 DEF init_alloc_fails
    <2>2. CASE init_create
      <3>1. idx + 1 \in Workers
        BY <2>2 DEF init_create
      <3> QED BY <2>2, <3>1 DEF init_create
    <2>3. CASE init_publish
      BY <2>3 DEF init_publish
    <2>4. CASE init_create_fails
      <3>1. PICK S \in SUBSET Workers : pc' = Woken(S)
        BY <2>4, <1>3 DEF init_create_fails
      <3> QED BY <2>4, <3>1, <1>1 DEF init_create_fails
    <2>5. CASE init_join
      BY <2>5 DEF init_join
    <2>6. CASE init_release
      BY <2>6 DEF init_release
    <2>7. CASE free_stop
      <3>1. /\ pc' \in [Workers -> PCs]
            /\ \A w \in Workers : pc'[w] = "run" => pc[w] = "run"
        BY <2>7, <1>1, <1>2 DEF free_stop
      <3> QED BY <2>7, <3>1 DEF free_stop
    <2>8. CASE free_join
      BY <2>8 DEF free_join
    <2>9. CASE free_release
      BY <2>9 DEF free_release
    <2> QED BY <1>4, <2>1, <2>2, <2>3, <2>4, <2>5, <2>6, <2>7, <2>8, <2>9 DEF Owner
  <1>5. ASSUME NEW w \in Workers, worker_thread(w) \/ cond_wait_spurious(w)
        PROVE  TypeOK'
    <2>1. CASE worker_lock(w) \/ worker_lock_fails(w) \/ worker_check(w)
      BY <2>1 DEF worker_lock, worker_lock_fails, worker_check
    <2>2. CASE worker_wait(w) \/ worker_wait_takes_wakeup(w) \/ worker_wait_fails(w)
      BY <2>2 DEF worker_wait, worker_wait_takes_wakeup, worker_wait_fails
    <2>3. CASE cond_wait_return(w) \/ cond_wait_spurious(w)
      BY <2>3 DEF cond_wait_return, cond_wait_spurious
    <2>4. CASE worker_exit(w)
      BY <2>4 DEF worker_exit, AfterUnlock
    <2>5. CASE worker_take(w)
      <3>1. /\ Head(queue) \in Tasks
            /\ Tail(queue) \in Seq(Tasks)
        BY <2>5, HeadTailProperties DEF worker_take
      <3>2. Append(started, Head(queue)) \in Seq(Tasks)
        BY <3>1, AppendProperties
      <3> QED BY <2>5, <3>1, <3>2 DEF worker_take, AfterUnlock
    <2>6. CASE worker_done(w)
      <3>1. cur[w] \in Tasks
        BY <2>6 DEF worker_done
      <3> QED BY <2>6, <3>1 DEF worker_done
    <2> QED BY <1>5, <2>1, <2>2, <2>3, <2>4, <2>5, <2>6 DEF worker_thread
  <1>6. ASSUME NEW x \in Pushers, thread_pool_push(x)
        PROVE  TypeOK'
    <2>1. ASSUME NEW t \in Tasks, push_alloc(x, t) \/ push_alloc_fails(x, t)
          PROVE  TypeOK'
      BY <2>1 DEF push_alloc, push_alloc_fails
    <2>2. CASE push_lock_fails(x) \/ push_stopped(x)
      BY <2>2 DEF push_lock_fails, push_stopped
    <2>3. CASE push_enqueue(x)
      <3>1. call[x] \in Tasks
        BY <2>3 DEF push_enqueue
      <3>2. /\ Append(queue, call[x]) \in Seq(Tasks)
            /\ Append(accepted, call[x]) \in Seq(Tasks)
        BY <3>1, AppendProperties
      <3>3. /\ pc' \in [Workers -> PCs]
            /\ \A w \in Workers : pc'[w] = "run" => pc[w] = "run"
        BY <2>3, <1>1, <1>3 DEF push_enqueue
      <3>4. refused' \subseteq Tasks
        BY <2>3, <3>1 DEF push_enqueue, PushResult
      <3> QED BY <3>1, <3>2, <3>3, <3>4, <2>3 DEF push_enqueue, Enqueue
    <2> QED BY <1>6, <2>1, <2>2, <2>3 DEF thread_pool_push
  <1>7. CASE Terminated \/ UNCHANGED vars
    BY <1>7 DEF Terminated, vars
  <1> QED BY <1>4, <1>5, <1>6, <1>7 DEF Next

(* The variables keep their types in every behaviour.                       *)
THEOREM TypeCorrect == Spec => []TypeOK
  <1>1. Init => TypeOK
    <2> SUFFICES ASSUME Init PROVE TypeOK
      OBVIOUS
    <2>1. /\ pc \in [Workers -> PCs]
          /\ \A w \in Workers : pc[w] # "run"
      BY DEF Init, PCs
    <2>2. <<>> \in Seq(Tasks)
      BY EmptySeq
    <2>3. /\ stop \in BOOLEAN
          /\ rc \in [Workers -> BOOLEAN]
      BY DEF Init
    <2>4. /\ cur \in [Workers -> Tasks \cup {NoTask}]
          /\ call \in [Pushers -> Tasks \cup {NoTask}]
          /\ idx \in 0 .. NumThreads
          /\ spurious \in Nat
          /\ owner \in OwnerStates
      BY ConstantsAssumption DEF Init, OwnerStates
    <2> QED BY <2>1, <2>2, <2>3, <2>4 DEF Init, TypeOK
  <1> QED BY <1>1, TypeStep, PTL DEF Spec

-----------------------------------------------------------------------------
(* The order of the queue.                                                  *)

(* Task identities never meet: a task is either untouched, or in one push,  *)
(* or in the queue's history once.                                          *)
IdInv ==
  /\ IsInjective(accepted)
  /\ Range(accepted) \cap fresh = {}
  /\ \A x \in Pushers : call[x] \notin Range(accepted) /\ call[x] \notin fresh
  /\ \A x, y \in Pushers : call[x] = call[y] /\ call[x] # NoTask => x = y

QueueInv == owner # "gone" => accepted = started \o queue

(* What a step of the owner or of a worker leaves alone.                    *)
LEMMA OnlyPushMovesIds ==
  ASSUME TypeOK, [Next]_vars, \A x \in Pushers : ~thread_pool_push(x)
  PROVE  UNCHANGED <<call, fresh, refused, accepted>>
  <1> USE DEF history, ownerVars
  <1>1. CASE Owner
    BY <1>1 DEF Owner, init_alloc_fails, init_create, init_publish, init_create_fails,
         init_join, init_release, free_stop, free_join, free_release
  <1>2. ASSUME NEW w \in Workers, worker_thread(w) \/ cond_wait_spurious(w)
        PROVE  UNCHANGED <<call, fresh, refused, accepted>>
    BY <1>2 DEF worker_thread, cond_wait_spurious, worker_lock, worker_lock_fails,
         worker_check, worker_wait, worker_wait_takes_wakeup, worker_wait_fails,
         cond_wait_return, worker_exit,
         worker_take, worker_done
  <1>3. CASE Terminated \/ UNCHANGED vars
    BY <1>3 DEF Terminated, vars
  <1> QED BY <1>1, <1>2, <1>3 DEF Next

(* Identities move from fresh through call to refused or accepted, so a     *)
(* task enters the queue at most once.                                      *)
LEMMA IdStep == TypeOK /\ IdInv /\ [Next]_vars => IdInv'
  <1> SUFFICES ASSUME TypeOK, IdInv, [Next]_vars PROVE IdInv'
    OBVIOUS
  <1>1. CASE \A x \in Pushers : ~thread_pool_push(x)
    BY <1>1, OnlyPushMovesIds DEF IdInv
  <1>2. ASSUME NEW x \in Pushers, thread_pool_push(x)
        PROVE  IdInv'
    <2> USE ConstantsAssumption
    <2>1. /\ call \in [Pushers -> Tasks \cup {NoTask}]
          /\ accepted \in Seq(Tasks)
          /\ fresh \subseteq Tasks
          /\ Range(accepted) \subseteq Tasks
      BY RangeOfSeq DEF TypeOK
    <2>2. ASSUME NEW t \in Tasks, push_alloc(x, t) PROVE IdInv'
      BY <2>1, <2>2 DEF push_alloc, IdInv
    <2>3. ASSUME NEW t \in Tasks, push_alloc_fails(x, t) PROVE IdInv'
      BY <2>1, <2>3 DEF push_alloc_fails, IdInv
    <2>4. CASE push_lock_fails(x) \/ push_stopped(x)
      BY <2>1, <2>4 DEF push_lock_fails, push_stopped, IdInv
    <2>5. CASE push_enqueue(x)
      <3>1. /\ call[x] \in Tasks
            /\ accepted' = Append(accepted, call[x])
            /\ call' = [call EXCEPT ![x] = NoTask]
            /\ fresh' = fresh
        BY <2>1, <2>5 DEF push_enqueue, Enqueue
      <3>2. /\ IsInjective(accepted')
            /\ Range(accepted') = Range(accepted) \cup {call[x]}
        BY <2>1, <3>1, AppendInjectiveList DEF IdInv
      <3> QED BY <2>1, <3>1, <3>2 DEF IdInv
    <2> QED BY <1>2, <2>2, <2>3, <2>4, <2>5 DEF thread_pool_push
  <1> QED BY <1>1, <1>2

(* Every step keeps what was accepted equal to what was started and what    *)
(* is still queued.                                                         *)
LEMMA QueueStep == TypeOK /\ QueueInv /\ [Next]_vars => QueueInv'
  <1> SUFFICES ASSUME TypeOK, QueueInv, [Next]_vars PROVE QueueInv'
    OBVIOUS
  <1> USE DEF QueueInv, history, ownerVars
  <1>1. CASE Owner
    BY <1>1 DEF Owner, init_alloc_fails, init_create, init_publish, init_create_fails,
         init_join, init_release, free_stop, free_join, free_release
  <1>2. ASSUME NEW w \in Workers, worker_thread(w) \/ cond_wait_spurious(w)
        PROVE  QueueInv'
    <2>1. CASE worker_take(w)
      <3>1. queue # <<>> /\ queue \in Seq(Tasks) /\ started \in Seq(Tasks)
        BY <2>1 DEF worker_take, TypeOK
      <3>2. started \o queue = Append(started, Head(queue)) \o Tail(queue)
        BY <3>1, TakeFromQueue
      <3> QED BY <2>1, <3>2 DEF worker_take
    <2>2. CASE ~worker_take(w)
      BY <1>2, <2>2 DEF worker_thread, cond_wait_spurious, worker_lock, worker_lock_fails,
         worker_check, worker_wait, worker_wait_takes_wakeup, worker_wait_fails,
         cond_wait_return, worker_exit,
         worker_done
    <2> QED BY <2>1, <2>2
  <1>3. ASSUME NEW x \in Pushers, thread_pool_push(x)
        PROVE  QueueInv'
    <2>1. CASE push_enqueue(x)
      <3>1. call[x] \in Tasks
        BY <2>1, ConstantsAssumption DEF push_enqueue, TypeOK
      <3>2. /\ queue \in Seq(Tasks)
            /\ started \in Seq(Tasks)
            /\ started \o queue \in Seq(Tasks)
            /\ <<call[x]>> \in Seq(Tasks)
        BY <3>1, ConcatProperties DEF TypeOK
      <3>3. Append(started \o queue, call[x]) = (started \o queue) \o <<call[x]>>
        BY <3>1, <3>2, AppendIsConcat
      <3>4. Append(queue, call[x]) = queue \o <<call[x]>>
        BY <3>1, <3>2, AppendIsConcat
      <3>5. Append(started \o queue, call[x]) = started \o Append(queue, call[x])
        BY <3>2, <3>3, <3>4, ConcatAssociative
      <3> QED BY <2>1, <3>5 DEF push_enqueue, Enqueue
    <2>2. CASE ~push_enqueue(x)
      BY <1>3, <2>2 DEF thread_pool_push, push_alloc, push_alloc_fails,
         push_lock_fails, push_stopped
    <2> QED BY <2>1, <2>2
  <1>4. CASE Terminated \/ UNCHANGED vars
    BY <1>4 DEF Terminated, vars
  <1> QED BY <1>1, <1>2, <1>3, <1>4 DEF Next

(* Before the first push every identity is fresh.                           *)
LEMMA IdInit == Init => IdInv
  <1> SUFFICES ASSUME Init PROVE IdInv
    OBVIOUS
  <1>1. accepted = <<>> /\ Range(accepted) = {}
    BY EmptySeq DEF Init, Range
  <1>2. \A x \in Pushers : call[x] = NoTask
    BY DEF Init
  <1> QED BY <1>1, <1>2, ConstantsAssumption DEF Init, IdInv, IsInjective

(* No task is lost, none starts twice, and tasks start in queue order,      *)
(* whichever primitives fail and even if thread_join gives up.              *)
THEOREM FifoTheorem == Spec => []FifoExactlyOnce
  <1>1. Init => QueueInv
    BY ConcatEmptySeq, EmptySeq DEF Init, QueueInv
  <1>2. IdInv /\ QueueInv => FifoExactlyOnce
    BY DEF IdInv, QueueInv, FifoExactlyOnce
  <1> QED BY <1>1, <1>2, IdInit, IdStep, QueueStep, TypeCorrect, PTL DEF Spec

-----------------------------------------------------------------------------
(* Releasing the pool.                                                      *)

(* A push is under way only in a running callback or in a client of the     *)
(* open pool.                                                               *)
CallInv ==
  /\ \A w \in Workers : call[w] # NoTask => pc[w] = "run"
  /\ \A c \in Clients : call[c] # NoTask => owner = "open"

(* The workers the owner has created, and those it has joined.              *)
OwnerInv ==
  /\ owner = "creating" => \A w \in Workers : w > idx => pc[w] = "none"
  /\ owner = "rollback" => \A w \in Workers : w > idx => pc[w] \in {"none", "exited"}
  /\ owner = "joining" => \A w \in Workers : w <= idx => pc[w] = "exited"
  /\ owner = "gone" => \A w \in Workers : pc[w] = "exited"
  /\ owner = "failed" => \A w \in Workers : pc[w] \in {"none", "exited"}

(* A worker that ended without an error left a stopped pool and an empty    *)
(* queue behind.                                                            *)
ExitInv == \A w \in Workers : pc[w] = "exited" /\ ~rc[w] => stop /\ queue = <<>>

(* A started task is finished or still runs on some worker, which runs      *)
(* nothing else.                                                            *)
RunInv ==
  /\ \A t \in Range(started) : t \in done \/ \E w \in Workers : pc[w] = "run" /\ cur[w] = t
  /\ \A w \in Workers : pc[w] = "run" => cur[w] \in Range(started)

(* Nothing is pushed to a pool that init has not published.                 *)
EarlyInv ==
  owner \in {"creating", "rollback", "failed"} =>
     accepted = <<>> /\ started = <<>> /\ queue = <<>>

TeardownInv ==
  CallInv /\ OwnerInv /\ ExitInv /\ RunInv /\ EarlyInv /\ DrainedBeforeRelease

(* The effect of waking sleepers: other workers stay where they are.        *)
Wakes == /\ pc' \in [Workers -> PCs]
         /\ \A w \in Workers : pc'[w] = pc[w] \/ (pc[w] = "blocked" /\ pc'[w] = "relock")

(* Waking any set of sleepers is a step that only wakes.                    *)
LEMMA WokenWakes ==
  ASSUME TypeOK, NEW S \in SUBSET Blocked, pc' = Woken(S)
  PROVE  Wakes
  BY DEF Wakes, Woken, Blocked, TypeOK, PCs

(* cond_signal and cond_broadcast choose among the sleepers.                *)
LEMMA SignalTargets ==
  /\ \A S \in cond_signal : S \in SUBSET Blocked
  /\ \A S \in cond_broadcast : S \in SUBSET Blocked
  <1>1. CASE Blocked = {}
    BY <1>1 DEF cond_signal, cond_broadcast
  <1>2. CASE Blocked # {}
    BY <1>2 DEF cond_signal, cond_broadcast
  <1> QED BY <1>1, <1>2

(* Steps that move no worker except to wake it, and neither the history of  *)
(* starts nor the calls nor the owner, keep every conjunct that speaks of   *)
(* them.                                                                    *)
LEMMA WakeStep ==
  ASSUME TypeOK, CallInv, RunInv, Wakes, UNCHANGED <<call, cur, started, done>>,
         owner = "open" => owner' = "open" \/ \A c \in Clients : call[c] = NoTask
  PROVE  CallInv' /\ RunInv'
  BY DEF CallInv, RunInv, Wakes

(* The owner's steps.                                                       *)
LEMMA OwnerStep ==
  ASSUME TypeOK, QueueInv, TeardownInv, ~JoinTimesOut, Owner
  PROVE  TeardownInv'
  <1> USE ConstantsAssumption DEF TeardownInv, history, ownerVars
  <1>0. EarlyInv'
    BY DEF EarlyInv, Owner, init_alloc_fails, init_create, init_publish, init_create_fails,
         init_join, init_release, free_stop, free_join, free_release
  <1>1. CASE init_alloc_fails \/ init_publish
    BY <1>0, <1>1 DEF init_alloc_fails, init_publish, CallInv, OwnerInv, ExitInv, RunInv,
         DrainedBeforeRelease
  <1>2. CASE init_create
    <2>1. /\ idx + 1 \in Workers
          /\ pc[idx + 1] = "none"
          /\ pc' = [pc EXCEPT ![idx + 1] = "lock"]
          /\ owner = "creating"
          /\ idx' = idx + 1
      BY <1>2 DEF init_create, OwnerInv, Workers, TypeOK
    <2>2. CallInv' /\ RunInv'
      BY <1>2, <2>1 DEF init_create, CallInv, RunInv, TypeOK
    <2>3. OwnerInv'
      BY <1>2, <2>1 DEF init_create, OwnerInv, TypeOK, Workers
    <2>4. ExitInv' /\ DrainedBeforeRelease'
      BY <1>2, <2>1 DEF init_create, ExitInv, DrainedBeforeRelease, TypeOK
    <2> QED BY <1>0, <2>2, <2>3, <2>4
  <1>3. CASE init_create_fails
    <2>1. Wakes
      BY <1>3, WokenWakes, SignalTargets DEF init_create_fails
    <2>2. CallInv' /\ RunInv'
      BY <1>3, <2>1, WakeStep DEF init_create_fails
    <2>3. OwnerInv'
      BY <1>3, <2>1 DEF init_create_fails, OwnerInv, Wakes
    <2>4. ExitInv' /\ DrainedBeforeRelease'
      BY <1>3, <2>1 DEF init_create_fails, ExitInv, DrainedBeforeRelease, Wakes
    <2> QED BY <1>0, <2>2, <2>3, <2>4
  <1>4. CASE init_join
    <2>1. OwnerInv'
      BY <1>4 DEF init_join, thread_join, OwnerInv, TypeOK, Workers
    <2> QED BY <1>0, <1>4, <2>1 DEF init_join, CallInv, ExitInv, RunInv, DrainedBeforeRelease
  <1>5. CASE init_release
    <2>1. OwnerInv'
      BY <1>5 DEF init_release, OwnerInv, TypeOK, Workers
    <2> QED BY <1>0, <1>5, <2>1 DEF init_release, CallInv, ExitInv, RunInv, DrainedBeforeRelease
  <1>6. CASE free_stop
    <2>1. Wakes
      <3>1. pc' = Woken(Blocked) \/ pc' = pc
        BY <1>6 DEF free_stop
      <3> QED BY <3>1, WokenWakes DEF Wakes, TypeOK
    <2>2. CallInv' /\ RunInv'
      BY <1>6, <2>1, WakeStep DEF free_stop
    <2>3. OwnerInv'
      BY <1>6, <2>1 DEF free_stop, OwnerInv, Workers
    <2>4. ExitInv' /\ DrainedBeforeRelease'
      BY <1>6, <2>1 DEF free_stop, ExitInv, DrainedBeforeRelease, Wakes
    <2> QED BY <1>0, <2>2, <2>3, <2>4
  <1>7. CASE free_join
    <2>1. OwnerInv'
      BY <1>7 DEF free_join, thread_join, OwnerInv, TypeOK, Workers
    <2> QED BY <1>0, <1>7, <2>1 DEF free_join, CallInv, ExitInv, RunInv, DrainedBeforeRelease
  <1>8. CASE free_release
    <2>1. /\ \A w \in Workers : pc[w] = "exited"
          /\ OwnerInv'
      BY <1>8 DEF free_release, OwnerInv, TypeOK, Workers
    <2>2. ASSUME NEW w \in Workers, ~rc[w] PROVE Range(accepted) \subseteq done
      <3>1. queue = <<>> /\ owner # "gone"
        BY <1>8, <2>1, <2>2 DEF ExitInv, free_release
      <3>2. accepted = started
        BY <3>1, ConcatEmptySeq DEF QueueInv, TypeOK
      <3> QED BY <2>1, <3>2 DEF RunInv
    <2> QED BY <1>0, <1>8, <2>1, <2>2 DEF free_release, CallInv, ExitInv, RunInv, DrainedBeforeRelease
  <1> QED BY <1>1, <1>2, <1>3, <1>4, <1>5, <1>6, <1>7, <1>8 DEF Owner

(* A wakeup that changes hands changes no more than who sleeps.             *)
LEMMA TakesWakeupStep ==
  ASSUME TypeOK, TeardownInv, NEW w \in Workers, worker_wait_takes_wakeup(w)
  PROVE  TeardownInv'
  <1> USE ConstantsAssumption DEF TeardownInv, history, ownerVars
  <1>1. PICK v \in Workers :
          pc[v] = "relock" /\ pc' = [pc EXCEPT ![w] = "relock", ![v] = "blocked"]
    BY DEF worker_wait_takes_wakeup
  <1>2. /\ pc[w] = "wait"
        /\ UNCHANGED <<owner, idx, stop, queue, cur, rc, call, started, done, accepted>>
    BY DEF worker_wait_takes_wakeup
  <1>3. /\ pc' \in [Workers -> PCs]
        /\ \A u \in Workers :
             u \notin {w, v} => pc'[u] = pc[u]
        /\ {pc'[w], pc'[v]} \subseteq {"relock", "blocked"}
        /\ {pc[w], pc[v]} \subseteq {"wait", "relock"}
    BY <1>1, <1>2 DEF TypeOK, PCs
  <1>4. \A u \in Workers : \A place \in {"none", "run", "exited", "lock"} :
          (pc'[u] = place) <=> (pc[u] = place)
    BY <1>1, <1>3
  <1>5. CallInv' /\ RunInv'
    BY <1>2, <1>4 DEF CallInv, RunInv
  <1>6. OwnerInv' /\ DrainedBeforeRelease'
    BY <1>2, <1>4 DEF OwnerInv, DrainedBeforeRelease
  <1>7. ExitInv' /\ EarlyInv'
    BY <1>2, <1>4 DEF ExitInv, EarlyInv
  <1> QED BY <1>5, <1>6, <1>7

(* A worker that takes a step is neither uncreated nor ended, so the pool   *)
(* still exists and the worker has not been joined.                         *)
LEMMA WorkerStep ==
  ASSUME TypeOK, TeardownInv, NEW w \in Workers,
         worker_thread(w) \/ cond_wait_spurious(w), ~worker_wait_takes_wakeup(w)
  PROVE  TeardownInv'
  <1> USE ConstantsAssumption DEF TeardownInv, history, ownerVars
  <1>1. pc[w] \notin {"none", "exited"}
    BY DEF worker_thread, cond_wait_spurious, worker_lock, worker_lock_fails,
         worker_check, worker_wait, worker_wait_fails, cond_wait_return, worker_exit,
         worker_take, worker_done
  <1>2. /\ owner \notin {"gone", "failed"}
        /\ UNCHANGED <<owner, idx, stop, call>>
        /\ \E p \in PCs : pc' = [pc EXCEPT ![w] = p]
    BY <1>1 DEF OwnerInv, worker_thread, cond_wait_spurious, worker_lock, worker_lock_fails,
         worker_check, worker_wait, worker_wait_fails, cond_wait_return, worker_exit,
         worker_take, worker_done, PCs
  <1>3. OwnerInv' /\ DrainedBeforeRelease' /\ EarlyInv'
    <2>1. OwnerInv' /\ DrainedBeforeRelease'
      BY <1>1, <1>2 DEF OwnerInv, DrainedBeforeRelease, TypeOK
    <2>3. EarlyInv'
      BY <1>2 DEF EarlyInv, worker_thread, cond_wait_spurious, worker_lock,
         worker_lock_fails, worker_check, worker_wait, worker_wait_fails, cond_wait_return,
         worker_exit, worker_take, worker_done
    <2> QED BY <2>1, <2>3
  <1>4. CASE \/ worker_lock(w) \/ worker_lock_fails(w) \/ worker_check(w)
             \/ worker_wait(w) \/ worker_wait_fails(w) \/ cond_wait_return(w)
             \/ cond_wait_spurious(w) \/ worker_exit(w)
    <2>1. /\ UNCHANGED <<call, cur, started, done, queue, stop, owner>>
          /\ pc[w] # "run"
          /\ pc'[w] # "run"
          /\ \A v \in Workers : v # w => pc'[v] = pc[v]
      BY <1>4 DEF cond_wait_spurious, worker_lock, worker_lock_fails, worker_check,
           worker_wait, worker_wait_fails, cond_wait_return, worker_exit, TypeOK
    <2>2. CallInv' /\ RunInv'
      BY <2>1 DEF CallInv, RunInv
    <2>3. ExitInv'
      <3>1. CASE worker_exit(w)
        BY <3>1 DEF worker_exit, ExitInv, AfterUnlock, TypeOK
      <3>2. CASE worker_lock_fails(w) \/ worker_wait_fails(w)
        BY <3>2 DEF worker_lock_fails, worker_wait_fails, ExitInv, TypeOK
      <3>3. CASE \/ worker_lock(w) \/ worker_check(w) \/ worker_wait(w)
                 \/ cond_wait_return(w) \/ cond_wait_spurious(w)
        BY <3>3 DEF worker_lock, worker_check, worker_wait, cond_wait_return,
             cond_wait_spurious, ExitInv, TypeOK
      <3> QED BY <1>4, <3>1, <3>2, <3>3
    <2> QED BY <1>3, <2>2, <2>3
  <1>5. CASE worker_take(w)
    <2>1. /\ Head(queue) \in Tasks
          /\ started' = Append(started, Head(queue))
          /\ cur' = [cur EXCEPT ![w] = Head(queue)]
          /\ pc' = [pc EXCEPT ![w] = "run"]
          /\ UNCHANGED <<call, owner, done>>
          /\ pc[w] = "check"
          /\ queue # <<>>
      BY <1>5, HeadTailProperties DEF worker_take, TypeOK
    <2>2. Range(started') = Range(started) \cup {Head(queue)}
      <3>1. /\ Len(started) \in Nat
            /\ DOMAIN started = 1 .. Len(started)
            /\ DOMAIN started' = 1 .. Len(started) + 1
            /\ \A i \in 1 .. Len(started) : started'[i] = started[i]
            /\ started'[Len(started) + 1] = Head(queue)
        BY <2>1, LenProperties, AppendProperties DEF TypeOK
      <3> QED BY <3>1 DEF Range
    <2>3. CallInv' /\ RunInv'
      BY <2>1, <2>2 DEF CallInv, RunInv, TypeOK
    <2>4. ExitInv'
      BY <1>5, <2>1 DEF ExitInv, worker_take, AfterUnlock, TypeOK
    <2> QED BY <1>3, <2>3, <2>4
  <1>6. CASE worker_done(w)
    <2>1. CallInv' /\ RunInv'
      BY <1>6 DEF worker_done, CallInv, RunInv, TypeOK
    <2>2. ExitInv'
      BY <1>6 DEF worker_done, ExitInv, TypeOK
    <2> QED BY <1>3, <2>1, <2>2
  <1> QED BY <1>4, <1>5, <1>6 DEF worker_thread

(* A push changes the queue only while the pool is not stopped.             *)
LEMMA PushStep ==
  ASSUME TypeOK, TeardownInv, NEW x \in Pushers, thread_pool_push(x)
  PROVE  TeardownInv'
  <1> USE ConstantsAssumption DEF TeardownInv, history, ownerVars
  <1>1. /\ Wakes
        /\ UNCHANGED <<owner, idx, stop, cur, rc, started, done>>
    <2>1. CASE push_enqueue(x)
      <3>1. pc' = pc \/ \E S \in cond_signal : pc' = Woken(S)
        BY <2>1 DEF push_enqueue
      <3>2. Wakes
        BY <3>1, WokenWakes, SignalTargets DEF Wakes, TypeOK
      <3> QED BY <2>1, <3>2 DEF push_enqueue, Enqueue
    <2>2. CASE ~push_enqueue(x)
      BY <2>2 DEF thread_pool_push, push_alloc, push_alloc_fails, push_lock_fails,
         push_stopped, Wakes, TypeOK
    <2> QED BY <2>1, <2>2
  <1>2. OwnerInv' /\ RunInv'
    BY <1>1 DEF OwnerInv, RunInv, Wakes
  <1>3. CallInv' /\ owner \notin {"gone", "failed"}
    <2>1. ASSUME NEW t \in Tasks, push_alloc(x, t)
          PROVE  CallInv' /\ owner \notin {"gone", "failed"}
      <3>1. call' = [call EXCEPT ![x] = t] /\ MayPush(x)
        BY <2>1 DEF push_alloc
      <3>2. owner \notin {"gone", "failed"}
        BY <3>1 DEF MayPush, OwnerInv
      <3>3. x \in Clients => x \notin Workers
        BY DEF Workers
      <3> QED BY <1>1, <3>1, <3>2, <3>3 DEF MayPush, CallInv, Wakes, Pushers, TypeOK
    <2>2. ASSUME NEW t \in Tasks, push_alloc_fails(x, t)
          PROVE  CallInv' /\ owner \notin {"gone", "failed"}
      <3>1. call' = call /\ MayPush(x)
        BY <2>2 DEF push_alloc_fails
      <3>2. owner \notin {"gone", "failed"}
        BY <3>1 DEF MayPush, OwnerInv
      <3> QED BY <1>1, <3>1, <3>2 DEF CallInv, Wakes
    <2>3. CASE push_lock_fails(x) \/ push_stopped(x) \/ push_enqueue(x)
      <3>1. call[x] # NoTask /\ call' = [call EXCEPT ![x] = NoTask]
        BY <2>3 DEF push_lock_fails, push_stopped, push_enqueue, Enqueue
      <3> QED BY <1>1, <3>1 DEF CallInv, OwnerInv, Wakes, Pushers, Workers, TypeOK
    <2> QED BY <2>1, <2>2, <2>3 DEF thread_pool_push
  <1>4. ExitInv'
    <2>1. queue' = queue \/ ~stop
      BY DEF thread_pool_push, push_alloc, push_alloc_fails, push_lock_fails,
         push_stopped, push_enqueue
    <2> QED BY <1>1, <2>1 DEF ExitInv, Wakes
  <1>5. DrainedBeforeRelease'
    BY <1>1, <1>3 DEF DrainedBeforeRelease
  <1>6. EarlyInv'
    <2>1. CASE push_enqueue(x)
      <3>1. x \in Workers => Range(started) # {}
        BY <2>1 DEF push_enqueue, CallInv, RunInv
      <3>2. x \in Clients => owner = "open"
        BY <2>1 DEF push_enqueue, CallInv
      <3>3. started # <<>> \/ owner = "open"
        BY <3>1, <3>2 DEF Range, Pushers
      <3> QED BY <1>1, <3>3 DEF EarlyInv
    <2>2. CASE ~push_enqueue(x)
      BY <2>2 DEF EarlyInv, thread_pool_push, push_alloc, push_alloc_fails,
         push_lock_fails, push_stopped
    <2> QED BY <2>1, <2>2
  <1> QED BY <1>2, <1>3, <1>4, <1>5, <1>6

(* Every step of every thread keeps the teardown invariant.                 *)
LEMMA TeardownStep ==
  ASSUME ~JoinTimesOut
  PROVE  TypeOK /\ QueueInv /\ TeardownInv /\ [Next]_vars => TeardownInv'
  <1> SUFFICES ASSUME TypeOK, QueueInv, TeardownInv, [Next]_vars PROVE TeardownInv'
    OBVIOUS
  <1>1. CASE Terminated \/ UNCHANGED vars
    BY <1>1 DEF Terminated, vars, TeardownInv, CallInv, OwnerInv, ExitInv, RunInv,
         EarlyInv, DrainedBeforeRelease
  <1> QED BY <1>1, OwnerStep, WorkerStep, TakesWakeupStep, PushStep DEF Next

(* The teardown invariant holds of a pool about to be initialised.          *)
LEMMA TeardownInit == Init => QueueInv /\ TeardownInv
  <1> SUFFICES ASSUME Init PROVE QueueInv /\ TeardownInv
    OBVIOUS
  <1>1. started = <<>> /\ accepted = started \o queue /\ Range(started) = {} /\ EarlyInv
    BY ConcatEmptySeq, EmptySeq DEF Init, Range, EarlyInv
  <1>2. /\ \A w \in Workers : pc[w] = "none"
        /\ \A x \in Pushers : call[x] = NoTask
        /\ owner = "creating"
    BY DEF Init
  <1> QED BY <1>1, <1>2 DEF QueueInv, TeardownInv, CallInv, OwnerInv, ExitInv, RunInv,
        DrainedBeforeRelease, Pushers

(* With a join that waits, the pool is released only when every accepted    *)
(* task has completed.                                                      *)
THEOREM TeardownTheorem ==
  ASSUME ~JoinTimesOut
  PROVE  Spec => []DrainedBeforeRelease
  <1>1. TeardownInv => DrainedBeforeRelease
    BY DEF TeardownInv
  <1> QED BY <1>1, TeardownInit, TeardownStep, QueueStep, TypeCorrect, PTL DEF Spec

(* With a join that waits, no worker and no push touches the pool after     *)
(* init or free has released it.                                            *)
THEOREM ReleaseTheorem ==
  ASSUME ~JoinTimesOut
  PROVE  Spec => []NoUseAfterRelease
  <1>1. TypeOK /\ TeardownInv => NoUseAfterRelease
    BY DEF TeardownInv, NoUseAfterRelease, Freed, OwnerInv, CallInv, Pushers
  <1> QED BY <1>1, TeardownInit, TeardownStep, QueueStep, TypeCorrect, PTL DEF Spec

-----------------------------------------------------------------------------
(* Refinement of the task service.                                          *)

NoErrors == \A w \in Workers : ~rc[w]

(* Without failing locks, unlocks and waits no worker records an error.     *)
LEMMA NoErrorsStep ==
  ASSUME CanFail \cap {"lock", "unlock", "wait"} = {}
  PROVE  TypeOK /\ NoErrors /\ [Next]_vars => NoErrors'
  <1> SUFFICES ASSUME TypeOK, NoErrors, [Next]_vars PROVE NoErrors'
    OBVIOUS
  <1> USE DEF NoErrors, history, ownerVars
  <1>1. CASE Owner
    BY <1>1 DEF Owner, init_alloc_fails, init_create, init_publish, init_create_fails,
         init_join, init_release, free_stop, free_join, free_release
  <1>2. ASSUME NEW w \in Workers, worker_thread(w) \/ cond_wait_spurious(w)
        PROVE  NoErrors'
    <2>1. CASE worker_take(w) \/ worker_exit(w)
      <3>1. AfterUnlock(w) = {rc[w]}
        BY DEF AfterUnlock
      <3>2. rc' = [rc EXCEPT ![w] = rc[w]]
        BY <2>1, <3>1 DEF worker_take, worker_exit
      <3> QED BY <3>2 DEF TypeOK
    <2>2. CASE ~(worker_take(w) \/ worker_exit(w))
      BY <1>2, <2>2 DEF worker_thread, cond_wait_spurious, worker_lock, worker_lock_fails,
         worker_check, worker_wait, worker_wait_takes_wakeup, worker_wait_fails,
         cond_wait_return, worker_done
    <2> QED BY <2>1, <2>2
  <1>3. ASSUME NEW x \in Pushers, thread_pool_push(x) PROVE NoErrors'
    BY <1>3 DEF thread_pool_push, push_alloc, push_alloc_fails, push_lock_fails,
         push_stopped, push_enqueue, Enqueue
  <1>4. CASE Terminated \/ UNCHANGED vars
    BY <1>4 DEF Terminated, vars
  <1> QED BY <1>1, <1>2, <1>3, <1>4 DEF Next

(* Every step of the pool is a step of the task service or leaves it alone. *)
LEMMA RefinementStep ==
  ASSUME TypeOK, TypeOK', IdInv, QueueInv, TeardownInv, TeardownInv', NoErrors, [Next]_vars
  PROVE  Service!Next \/ UNCHANGED <<accepted, started, done, ~Freed>>
  <1> USE ConstantsAssumption DEF history, ownerVars
  <1>1. CASE Owner
    <2>1. UNCHANGED <<accepted, started, done>>
      BY <1>1 DEF Owner, init_alloc_fails, init_create, init_publish, init_create_fails,
           init_join, init_release, free_stop, free_join, free_release
    <2>2. CASE init_alloc_fails \/ init_release \/ free_release
      <3>1. ~Freed /\ Freed'
        BY <2>2 DEF Freed, init_alloc_fails, init_release, free_release
      <3>2. Range(accepted) \subseteq done
        <4>1. CASE free_release
          <5>1. 1 \in Workers /\ owner' = "gone" /\ rc' = rc
            BY <4>1 DEF free_release, Workers
          <5> QED BY <2>1, <5>1 DEF TeardownInv, DrainedBeforeRelease, NoErrors
        <4>2. CASE init_alloc_fails \/ init_release
          BY <4>2 DEF init_alloc_fails, init_release, TeardownInv, EarlyInv, Range
        <4> QED BY <2>2, <4>1, <4>2
      <3> QED BY <2>1, <3>1, <3>2 DEF Service!Next, Service!Close, Service!Range, Range
    <2>3. CASE ~(init_alloc_fails \/ init_release \/ free_release)
      <3>1. Freed' = Freed
        BY <1>1, <2>3 DEF Owner, Freed, init_create, init_publish, init_create_fails,
           init_join, free_stop, free_join
      <3> QED BY <2>1, <3>1
    <2> QED BY <2>2, <2>3
  <1>2. ASSUME NEW w \in Workers, worker_thread(w) \/ cond_wait_spurious(w)
        PROVE  Service!Next \/ UNCHANGED <<accepted, started, done, ~Freed>>
    <2>1. ~Freed /\ ~Freed'
      <3>1. pc[w] \notin {"none", "exited"} /\ owner' = owner
        BY <1>2 DEF worker_thread, cond_wait_spurious, worker_lock, worker_lock_fails,
           worker_check, worker_wait, worker_wait_takes_wakeup, worker_wait_fails,
         cond_wait_return, worker_exit,
           worker_take, worker_done
      <3> QED BY <3>1 DEF TeardownInv, OwnerInv, Freed
    <2>2. CASE worker_take(w)
      <3>1. /\ queue \in Seq(Tasks) /\ queue # <<>> /\ started \in Seq(Tasks)
            /\ accepted = started \o queue
            /\ started' = Append(started, Head(queue))
            /\ UNCHANGED <<accepted, done>>
        BY <2>1, <2>2 DEF worker_take, TypeOK, QueueInv, Freed
      <3>2. Len(started) < Len(accepted) /\ accepted[Len(started) + 1] = Head(queue)
        BY <3>1, TakeFromQueue
      <3> QED BY <2>1, <3>1, <3>2 DEF Service!Next, Service!Start
    <2>3. CASE worker_done(w)
      <3>1. /\ cur[w] \in Tasks
            /\ cur[w] \in Range(started)
            /\ done' = done \cup {cur[w]}
            /\ UNCHANGED <<accepted, started>>
        BY <2>3 DEF worker_done, TeardownInv, RunInv, TypeOK
      <3>2. CASE cur[w] \in done
        <4>1. done' = done
          BY <3>1, <3>2
        <4> QED BY <2>1, <3>1, <4>1
      <3>3. CASE cur[w] \notin done
        BY <2>1, <3>1, <3>3 DEF Service!Next, Service!Finish, Service!Range, Range
      <3> QED BY <3>2, <3>3
    <2>4. CASE ~(worker_take(w) \/ worker_done(w))
      <3>1. UNCHANGED <<accepted, started, done>>
        BY <1>2, <2>4 DEF worker_thread, cond_wait_spurious, worker_lock, worker_lock_fails,
           worker_check, worker_wait, worker_wait_takes_wakeup, worker_wait_fails,
         cond_wait_return, worker_exit
      <3> QED BY <2>1, <3>1
    <2> QED BY <2>2, <2>3, <2>4
  <1>3. ASSUME NEW x \in Pushers, thread_pool_push(x)
        PROVE  Service!Next \/ UNCHANGED <<accepted, started, done, ~Freed>>
    <2>1. CASE push_enqueue(x)
      <3>1. /\ call[x] \in Tasks
            /\ call[x] \notin Range(accepted)
            /\ accepted' = Append(accepted, call[x])
            /\ UNCHANGED <<started, done, owner>>
        BY <2>1 DEF push_enqueue, Enqueue, IdInv, TypeOK
      <3>2. ~Freed /\ ~Freed'
        BY <2>1, <3>1 DEF push_enqueue, TeardownInv, CallInv, OwnerInv, Freed, Pushers
      <3> QED BY <3>1, <3>2 DEF Service!Next, Service!Accept, Service!Range, Range
    <2>2. CASE ~push_enqueue(x)
      <3>1. UNCHANGED <<accepted, started, done, owner>>
        BY <1>3, <2>2 DEF thread_pool_push, push_alloc, push_alloc_fails,
           push_lock_fails, push_stopped
      <3> QED BY <3>1 DEF Freed
    <2> QED BY <2>1, <2>2
  <1>4. CASE Terminated \/ UNCHANGED vars
    BY <1>4 DEF Terminated, vars, Freed
  <1> QED BY <1>1, <1>2, <1>3, <1>4 DEF Next

(* If join waits and lock, unlock and cond_wait do not fail, the pool is    *)
(* the task service: FIFO starts, one run each, closed when all are done.   *)
THEOREM RefinementTheorem ==
  ASSUME ~JoinTimesOut, CanFail \cap {"lock", "unlock", "wait"} = {}
  PROVE  Spec => Service!Spec
  <1>1. Init => Service!Init /\ NoErrors /\ IdInv
    <2> SUFFICES ASSUME Init PROVE Service!Init /\ NoErrors /\ IdInv
      OBVIOUS
    <2>1. Service!Init /\ NoErrors
      BY DEF Init, Service!Init, Freed, NoErrors
    <2>2. IdInv
      BY IdInit
    <2> QED BY <2>1, <2>2
  <1>2. TypeOK /\ TypeOK' /\ IdInv /\ QueueInv /\ TeardownInv /\ TeardownInv' /\ NoErrors
          /\ [Next]_vars => [Service!Next]_<<accepted, started, done, ~Freed>>
    BY RefinementStep
  <1>3. TypeOK /\ NoErrors /\ [Next]_vars => NoErrors'
    BY NoErrorsStep
  <1>4. TypeOK /\ QueueInv /\ TeardownInv /\ [Next]_vars => TeardownInv'
    BY TeardownStep
  <1> QED BY <1>1, <1>2, <1>3, <1>4, TeardownInit, QueueStep, IdStep, TypeCorrect, PTL
          DEF Spec, Service!Spec, Service!svars
-----------------------------------------------------------------------------
(* What push answers.                                                       *)

(* A refused task is not fresh again, in no call and not queued.            *)
RefusedInv ==
  /\ refused \cap fresh = {}
  /\ \A x \in Pushers : call[x] \notin refused
  /\ ErrorMeansNotQueued

(* Who tests the queue or is about to sleep holds the mutex, and what was   *)
(* seen empty stays empty until the mutex is released to sleep.             *)
LockInv ==
  \A w \in Workers :
    /\ pc[w] \in {"check", "wait"} => lock = w
    /\ pc[w] = "wait" => queue = <<>>

(* A pool under construction is idle; an open pool has all its workers.     *)
OpenInv ==
  /\ owner = "creating" => /\ queue = <<>>
                           /\ \A x \in Pushers : call[x] = NoTask
                           /\ \A w \in Workers : pc[w] # "run" /\ (w <= idx => pc[w] # "none")
  /\ owner = "open" => \A w \in Workers : pc[w] # "none"

AwakeInv == ExitInv /\ LockInv /\ OpenInv /\ NoLostWakeup

(* Pushes that fail say so, those that queue their task do not.             *)
LEMMA RefusedStep ==
  ASSUME CanFail \cap {"signal", "unlock"} = {}
  PROVE  TypeOK /\ IdInv /\ RefusedInv /\ [Next]_vars => RefusedInv'
  <1> SUFFICES ASSUME TypeOK, IdInv, RefusedInv, [Next]_vars PROVE RefusedInv'
    OBVIOUS
  <1> USE DEF RefusedInv, ErrorMeansNotQueued
  <1>1. ASSUME \A x \in Pushers : ~thread_pool_push(x) PROVE RefusedInv'
    <2>1. UNCHANGED <<call, fresh, refused, accepted>>
      BY <1>1, OnlyPushMovesIds
    <2> QED BY <2>1
  <1>2. ASSUME NEW x \in Pushers, thread_pool_push(x) PROVE RefusedInv'
    <2>1. ASSUME NEW t \in Tasks, push_alloc(x, t) \/ push_alloc_fails(x, t)
          PROVE  RefusedInv'
      BY <2>1, ConstantsAssumption DEF push_alloc, push_alloc_fails, TypeOK, IdInv
    <2>2. CASE push_lock_fails(x) \/ push_stopped(x)
      BY <2>2, ConstantsAssumption DEF push_lock_fails, push_stopped, TypeOK, IdInv
    <2>3. CASE push_enqueue(x)
      <3>1. /\ call[x] \in Tasks /\ call[x] \notin Range(accepted)
            /\ accepted' = Append(accepted, call[x])
            /\ call' = [call EXCEPT ![x] = NoTask]
            /\ UNCHANGED fresh
        BY <2>3 DEF push_enqueue, Enqueue, TypeOK, IdInv
      <3>2. Range(accepted') = Range(accepted) \cup {call[x]}
        BY <3>1, AppendInjectiveList DEF TypeOK, IdInv
      <3>3. UNCHANGED refused
        BY <2>3 DEF push_enqueue, PushResult
      <3> QED BY <3>1, <3>2, <3>3, ConstantsAssumption DEF TypeOK
    <2> QED BY <1>2, <2>1, <2>2, <2>3 DEF thread_pool_push
  <1> QED BY <1>1, <1>2

(* Steps that only wake sleepers, and leave the queue, keep the invariant.  *)
LEMMA AwakeWakes ==
  ASSUME TypeOK, AwakeInv, Wakes, UNCHANGED <<queue, lock, rc>>, stop => stop',
         owner' = "open" => owner = "open", owner' # "creating"
  PROVE  AwakeInv'
  BY DEF TypeOK, AwakeInv, Wakes, ExitInv, LockInv, OpenInv, NoLostWakeup

LEMMA AwakeOwner ==
  ASSUME TypeOK, AwakeInv, Owner
  PROVE  AwakeInv'
  <1> USE ConstantsAssumption DEF AwakeInv, ExitInv, LockInv, OpenInv, NoLostWakeup,
          TypeOK, Workers, NoThread, history
  <1>1. CASE init_alloc_fails \/ init_join \/ init_release
    BY <1>1 DEF init_alloc_fails, init_join, init_release
  <1>6. CASE init_publish
    <2>1. \A w \in Workers : pc[w] # "none"
      BY <1>6 DEF init_publish
    <2>2. NoLostWakeup'
      BY <1>6 DEF init_publish
    <2> QED BY <1>6, <2>1, <2>2 DEF init_publish
  <1>2. CASE init_create
    <2>1. idx + 1 \in Workers
      BY <1>2 DEF init_create
    <2> QED BY <1>2, <2>1 DEF init_create
  <1>3. CASE init_create_fails
    BY <1>3, WokenWakes, SignalTargets, AwakeWakes DEF init_create_fails
  <1>4. CASE free_stop
    <2>1. CASE pc' = Woken(Blocked)
      BY <1>4, <2>1, WokenWakes, AwakeWakes DEF free_stop
    <2>2. CASE UNCHANGED <<pc, owner>>
      BY <1>4, <2>2 DEF free_stop
    <2> QED BY <1>4, <2>1, <2>2 DEF free_stop
  <1>5. CASE free_join \/ free_release
    BY <1>5 DEF free_join, free_release
  <1> QED BY <1>1, <1>2, <1>3, <1>4, <1>5, <1>6 DEF Owner

LEMMA AwakeWorker ==
  ASSUME TypeOK, AwakeInv, NEW w \in Workers, worker_thread(w) \/ cond_wait_spurious(w)
  PROVE  AwakeInv'
  <1> USE ConstantsAssumption DEF AwakeInv, ExitInv, LockInv, OpenInv, NoLostWakeup,
          TypeOK, Workers, NoThread, history, ownerVars
  <1>1. CASE worker_lock(w) \/ cond_wait_return(w)
    <2>1. pc' = [pc EXCEPT ![w] = "check"] /\ lock = NoThread /\ lock' = w
      BY <1>1 DEF worker_lock, cond_wait_return
    <2> QED BY <1>1, <2>1 DEF worker_lock, cond_wait_return
  <1>9. CASE cond_wait_spurious(w)
    BY <1>9 DEF cond_wait_spurious
  <1>2. CASE worker_lock_fails(w) \/ worker_wait_fails(w)
    BY <1>2 DEF worker_lock_fails, worker_wait_fails
  <1>3. CASE worker_check(w)
    BY <1>3 DEF worker_check, MustWait
  <1>4. CASE worker_wait(w)
    BY <1>4 DEF worker_wait
  <1>5. CASE worker_wait_takes_wakeup(w)
    <2>1. PICK v \in Workers :
            pc[v] = "relock" /\ pc' = [pc EXCEPT ![w] = "relock", ![v] = "blocked"]
      BY <1>5 DEF worker_wait_takes_wakeup
    <2>2. /\ pc[w] = "wait" /\ v # w /\ pc'[w] = "relock" /\ pc'[v] = "blocked"
          /\ \A u \in Workers \ {v, w} : pc'[u] = pc[u]
          /\ UNCHANGED <<owner, idx, stop, queue, rc, call>>
      BY <1>5, <2>1 DEF worker_wait_takes_wakeup
    <2>3. lock = w /\ queue = <<>>
      BY <2>2
    <2>4. \A u \in Workers : pc'[u] \in {"check", "wait", "exited", "run", "none"} => pc'[u] = pc[u]
      BY <2>2
    <2>5. /\ \A u \in Workers : pc'[u] \notin {"check", "wait"}
          /\ \A u \in Workers : pc'[u] = "none" => pc[u] = "none"
      BY <2>2, <2>3, <2>4
    <2>6. LockInv' /\ NoLostWakeup'
      BY <2>2, <2>3, <2>5
    <2>7. ExitInv'
      BY <2>2, <2>4
    <2>8. OpenInv'
      BY <2>2, <2>3, <2>4, <2>5
    <2> QED BY <2>6, <2>7, <2>8
  <1>6. CASE worker_exit(w)
    BY <1>6 DEF worker_exit, AfterUnlock
  <1>7. CASE worker_take(w)
    <2>1. \A v \in Workers : v # w => pc[v] \notin {"check", "wait"}
      BY <1>7 DEF worker_take
    <2> QED BY <1>7, <2>1 DEF worker_take, AfterUnlock
  <1>8. CASE worker_done(w)
    BY <1>8 DEF worker_done
  <1> QED BY <1>1, <1>2, <1>3, <1>4, <1>5, <1>6, <1>7, <1>8, <1>9 DEF worker_thread

(* A push that queues its task wakes a sleeper, or finds none; a worker     *)
(* that has ended would have left the pool stopped.                         *)
LEMMA AwakePush ==
  ASSUME CanFail \cap {"signal", "unlock"} = {},
         TypeOK, AwakeInv, NEW x \in Pushers, thread_pool_push(x)
  PROVE  AwakeInv'
  <1> USE ConstantsAssumption DEF AwakeInv, ExitInv, LockInv, OpenInv, NoLostWakeup,
          TypeOK, Workers, NoThread, history, ownerVars
  <1>0. owner # "creating"
    BY DEF thread_pool_push, push_alloc, push_alloc_fails, push_lock_fails, push_stopped,
       push_enqueue, MayPush, Pushers
  <1>1. CASE push_enqueue(x)
    <2>1. PICK S \in cond_signal : pc' = Woken(S)
      BY <1>1 DEF push_enqueue
    <2>2. Wakes /\ S \in SUBSET Blocked
      BY <2>1, WokenWakes, SignalTargets
    <2>3. /\ ~stop /\ lock = NoThread
          /\ UNCHANGED <<owner, idx, stop, lock, rc>>
      BY <1>1 DEF push_enqueue, Enqueue
    <2>4. \A w \in Workers : pc[w] \notin {"check", "wait"} /\ pc'[w] \notin {"check", "wait"}
      BY <2>2, <2>3 DEF Wakes
    <2>5. ASSUME owner = "open", \A w \in Workers : ~rc[w]
          PROVE  \E w \in Workers : pc'[w] \notin {"none", "blocked", "exited"}
      <3>1. CASE Blocked = {}
        <4>1. 1 \in Workers
          OBVIOUS
        <4>2. pc[1] # "none" /\ pc[1] # "exited"
          BY <4>1, <2>3, <2>5
        <4>3. pc[1] # "blocked"
          BY <4>1, <3>1 DEF Blocked
        <4> QED BY <2>2, <4>1, <4>2, <4>3 DEF Wakes
      <3>2. CASE Blocked # {}
        BY <2>1, <3>2 DEF cond_signal, Woken, Blocked
      <3> QED BY <3>1, <3>2
    <2> QED BY <1>0, <2>2, <2>3, <2>4, <2>5 DEF Wakes
  <1>2. CASE ~push_enqueue(x)
    BY <1>0, <1>2 DEF thread_pool_push, push_alloc, push_alloc_fails, push_lock_fails, push_stopped
  <1> QED BY <1>1, <1>2

(* If signal and unlock work, an error from push means that the task was    *)
(* not queued, and queued work of an open pool whose workers live has a     *)
(* worker that is awake, whatever else fails and even if joins give up.     *)
THEOREM PushTheorem ==
  ASSUME CanFail \cap {"signal", "unlock"} = {}
  PROVE  Spec => []PushSound
  <1>1. Init => RefusedInv /\ AwakeInv
    <2> SUFFICES ASSUME Init PROVE RefusedInv /\ AwakeInv
      OBVIOUS
    <2>1. /\ accepted = <<>> /\ Range(accepted) = {} /\ refused = {} /\ queue = <<>>
          /\ \A w \in Workers : pc[w] = "none"
          /\ \A x \in Pushers : call[x] = NoTask
          /\ owner = "creating" /\ idx = 0
      BY EmptySeq DEF Init, Range
    <2> QED BY <2>1, ConstantsAssumption DEF RefusedInv, ErrorMeansNotQueued, AwakeInv,
         ExitInv, LockInv, OpenInv, NoLostWakeup, Workers, Pushers
  <1>2. TypeOK /\ AwakeInv /\ [Next]_vars => AwakeInv'
    <2> SUFFICES ASSUME TypeOK, AwakeInv, [Next]_vars PROVE AwakeInv'
      OBVIOUS
    <2>1. CASE Terminated \/ UNCHANGED vars
      BY <2>1 DEF Terminated, vars, AwakeInv, ExitInv, LockInv, OpenInv, NoLostWakeup
    <2> QED BY <2>1, AwakeOwner, AwakeWorker, AwakePush DEF Next
  <1>3. RefusedInv /\ AwakeInv => PushSound
    BY DEF RefusedInv, AwakeInv, PushSound
  <1> QED BY <1>1, <1>2, <1>3, IdInit, IdStep, RefusedStep, TypeCorrect, PTL DEF Spec

=============================================================================
