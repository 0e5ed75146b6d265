---------------------------- MODULE MultiWorkers ----------------------------
(***************************************************************************)
(* The send_multi functions that hand the requests to other threads:        *)
(* http_winhttp_send_multi (src/http_winhttp.c), a work item per request,   *)
(* and http_apple_send_multi (src/http_apple.c), one thread whose run loop  *)
(* serves a read stream per request.                                       *)
(*                                                                         *)
(* work: where the work item of each request is; with Apple, whether the   *)
(* request has an error, a stream, or a stream that is done.  thread: the  *)
(* Apple worker, its pc, its loop counter and *pending_count.              *)
(***************************************************************************)
EXTENDS MultiState

VARIABLES work, thread

NewWorkers == [r \in Reqs |-> "none"]
NewThread == [pc |-> "none", next |-> 1, pending |-> 0]

(* The work item is queued, or cannot be: the items before go on.          *)
winhttp_queue ==
  /\ At("winhttp")
  /\ IF call.next > BatchSize THEN call' = Goto("release") /\ UNCHANGED work
     ELSE \/ /\ call' = [call EXCEPT !.next = @ + 1]
             /\ work' = [work EXCEPT ![call.next] = "queued"]
          \/ \E e \in {"NOMEM", "IO"} : call' = Fail("release", e) /\ UNCHANGED work
  /\ UNCHANGED <<kind, futures, wake, thread>>

Mutant_worker_wakes_first ==
  \E r \in Reqs :
    /\ \/ /\ work[r] = "queued" /\ work' = [work EXCEPT ![r] = "sent"]
          /\ \E result \in Results :
               futures' = [futures EXCEPT ![r].error = result.error,
                                          ![r].response = result.response]
          /\ UNCHANGED wake
       \/ /\ work[r] = "sent" /\ work' = [work EXCEPT ![r] = "ready"]
          /\ wake' = TRUE /\ UNCHANGED futures
       \/ /\ work[r] = "ready" /\ work' = [work EXCEPT ![r] = "done"]
          /\ futures' = [futures EXCEPT ![r].ready = TRUE]
          /\ UNCHANGED wake
    /\ UNCHANGED <<kind, call, thread>>

Mutant_worker_ready_first ==
  \E r \in Reqs :
    /\ \/ /\ work[r] = "queued" /\ work' = [work EXCEPT ![r] = "sent"]
          /\ futures' = [futures EXCEPT ![r].ready = TRUE]
          /\ UNCHANGED wake
       \/ /\ work[r] = "sent" /\ work' = [work EXCEPT ![r] = "ready"]
          /\ \E result \in Results :
               futures' = [futures EXCEPT ![r].error = result.error,
                                          ![r].response = result.response]
          /\ UNCHANGED wake
       \/ /\ work[r] = "ready" /\ work' = [work EXCEPT ![r] = "done"]
          /\ wake' = TRUE /\ UNCHANGED futures
    /\ UNCHANGED <<kind, call, thread>>

(* The send, the stores of response and error, is_ready, and then the      *)
(* wakeup.  The stores are not synchronised; they become visible in the     *)
(* order of the code, as on the processors WinHTTP runs on.                *)
winhttp_async_worker ==
  \E r \in Reqs :
    /\ \/ /\ work[r] = "queued" /\ work' = [work EXCEPT ![r] = "sent"]
          /\ \E result \in Results :
               futures' = [futures EXCEPT ![r].error = result.error,
                                          ![r].response = result.response]
          /\ UNCHANGED wake
       \/ /\ work[r] = "sent" /\ work' = [work EXCEPT ![r] = "ready"]
          /\ futures' = [futures EXCEPT ![r].ready = TRUE]
          /\ UNCHANGED wake
       \/ /\ work[r] = "ready" /\ work' = [work EXCEPT ![r] = "done"]
          /\ wake' = TRUE /\ UNCHANGED futures
    /\ UNCHANGED <<kind, call, thread>>

-----------------------------------------------------------------------------
(* The worker is given the address of the caller's HttpMultiRequest.        *)
apple_start ==
  /\ At("apple")
  /\ \/ call' = Goto("release") /\ thread' = [thread EXCEPT !.pc = "start"]
     \/ \E e \in {"NOMEM", "IO"} : call' = Fail("release", e) /\ UNCHANGED thread
  /\ UNCHANGED <<kind, futures, wake, work>>

(* What the worker reads as multi->count: http_client_send_multi releases   *)
(* the list without waiting for the worker, and count is then 0.           *)
Count == IF call.list = "live" THEN BatchSize ELSE 0

(* Without its arrays the worker ends and completes nothing.               *)
apple_begin ==
  /\ thread.pc = "start"
  /\ thread' \in {[thread EXCEPT !.pc = "open", !.pending = Count],
                  [thread EXCEPT !.pc = "ended"]}
  /\ UNCHANGED <<kind, call, futures, wake, work>>

(* Each request gets a response and an open stream, or an error; a response *)
(* that cannot be initialised ends the worker.                             *)
apple_open ==
  /\ thread.pc = "open"
  /\ IF thread.next > Count
     THEN thread' = [thread EXCEPT !.pc = IF thread.pending > 0 THEN "run" ELSE "collect",
                                   !.next = 1]
          /\ UNCHANGED <<work, futures>>
     ELSE \/ /\ thread' = [thread EXCEPT !.next = @ + 1]
             /\ work' = [work EXCEPT ![thread.next] = "stream"]
             /\ futures' = [futures EXCEPT ![thread.next].response = TRUE]
          \/ /\ thread' = [thread EXCEPT !.next = @ + 1, !.pending = @ - 1]
             /\ work' = [work EXCEPT ![thread.next] = "error"]
             /\ \E made \in BOOLEAN :
                  futures' = [futures EXCEPT ![thread.next].response = made]
          \/ /\ thread' = [thread EXCEPT !.pc = "ended"]
             /\ UNCHANGED <<work, futures>>
  /\ UNCHANGED <<kind, call, wake>>

(* A stream ends or fails; the last one stops the run loop.                *)
apple_stream_done ==
  /\ thread.pc = "run"
  /\ \E r \in Reqs :
       /\ work[r] = "stream"
       /\ \E how \in {"done", "error"} : work' = [work EXCEPT ![r] = how]
  /\ thread' = [thread EXCEPT !.pending = @ - 1,
                              !.pc = IF thread.pending = 1 THEN "collect" ELSE "run"]
  /\ UNCHANGED <<kind, call, futures, wake>>

(* The results are stored, one future after the other, then the loop is    *)
(* woken.  What the response could not be given is an error.               *)
apple_collect ==
  /\ thread.pc = "collect"
  /\ IF thread.next > Count
     THEN /\ thread' = [thread EXCEPT !.pc = "ended"]
          /\ wake' = TRUE
          /\ UNCHANGED futures
     ELSE /\ thread' = [thread EXCEPT !.next = @ + 1]
          /\ \E e \in IF work[thread.next] = "done" THEN {SUCCESS, "NOMEM"} ELSE {"IO"} :
               futures' = [futures EXCEPT ![thread.next].error = e,
                                          ![thread.next].ready = TRUE]
          /\ UNCHANGED wake
  /\ UNCHANGED <<kind, call, work>>

worker_steps ==
  \/ winhttp_queue \/ winhttp_async_worker
  \/ apple_start \/ apple_begin \/ apple_open \/ apple_stream_done \/ apple_collect
=============================================================================
