----------------------------- MODULE MultiSend ------------------------------
(***************************************************************************)
(* http_client_send_multi (src/http_types.c) with the send_multi functions  *)
(* of the backends, and the application that waits in the loop for the     *)
(* futures of a batch.                                                     *)
(***************************************************************************)
EXTENDS CurlMulti, MultiWorkers

CONSTANT BatchBackends   \* backends with a send_multi of their own, and "none"

ASSUME BatchBackendsKnown ==
  BatchBackends \subseteq {"none", "curl", "winhttp", "raw", "fetch", "msh3", "apple",
                           "picoquic", "xquic"}

multiVars == <<kind, call, futures, wake, curl, work, thread>>
others == <<curl, work, thread>>

(* The factory sets send_multi for some backends only; the modalities other *)
(* than the asynchronous one are sequential.                               *)
Kinds == [async : BOOLEAN, backend : BatchBackends, failFast : BOOLEAN]

MultiInit ==
  /\ kind \in {k \in Kinds : (~k.async => k.backend = "none") /\ (k.async => ~k.failFast)}
  /\ call = [pc |-> "begin", next |-> 1, rc |-> SUCCESS, list |-> "none"]
  /\ futures = [r \in Reqs |-> NewFuture]
  /\ wake = FALSE
  /\ curl = NewCurl
  /\ work = NewWorkers
  /\ thread = NewThread

(* The requests are listed; the modality decides what is called.           *)
client_begin ==
  /\ At("begin")
  /\ call' \in {[call EXCEPT !.pc = IF ~kind.async THEN "each" ELSE kind.backend,
                             !.list = "live"],
                Fail("returned", "NOMEM")}
  /\ UNCHANGED <<kind, futures, wake, others>>

client_not_supported ==
  /\ At("none") /\ call' = Fail("release", "NOTSUP")
  /\ UNCHANGED <<kind, futures, wake, others>>

Mutant_client_loop ==
  /\ At("each")
  /\ IF call.next > BatchSize
     THEN call' = Goto("release") /\ UNCHANGED futures
     ELSE \E result \in Results :
            /\ futures' = IF result.error # SUCCESS /\ kind.failFast THEN futures
                          ELSE [futures EXCEPT ![call.next] = Completed(result)]
            /\ call' = IF result.error # SUCCESS /\ kind.failFast
                       THEN Fail("release", result.error)
                       ELSE [call EXCEPT !.next = @ + 1]
  /\ UNCHANGED <<kind, wake, others>>

client_loop == SendEach("each", "release", kind.failFast, Results) /\ UNCHANGED others

http_raw_send_multi == SendEach("raw", "release", TRUE, Results) /\ UNCHANGED others
http_msh3_send_multi == SendEach("msh3", "release", FALSE, Results) /\ UNCHANGED others

(* These backends have no send that succeeds.                              *)
NoResult == [error : {"IO"}, response : {FALSE}]
http_picoquic_send_multi ==
  SendEach("picoquic", "release", TRUE, NoResult) /\ UNCHANGED others

(* After the last request the loop is woken, or cannot be.                 *)
Wakes(place) ==
  /\ At(place)
  /\ \/ call' = Goto("release") /\ wake' = TRUE
     \/ call' = Fail("release", "wakeup") /\ UNCHANGED wake
  /\ UNCHANGED <<kind, futures, others>>

http_fetch_send_multi ==
  \/ SendEach("fetch", "fetch_wakeup", TRUE, Results) /\ UNCHANGED others
  \/ Wakes("fetch_wakeup")

http_xquic_send_multi ==
  \/ SendEach("xquic", "xquic_wakeup", FALSE, NoResult) /\ UNCHANGED others
  \/ Wakes("xquic_wakeup")

(* http_multi_request_free: the list is gone when the function returns.    *)
client_release ==
  /\ At("release")
  /\ call' = [call EXCEPT !.pc = "returned", !.list = "freed"]
  /\ UNCHANGED <<kind, futures, wake, others>>

-----------------------------------------------------------------------------
AllReady == \A r \in Reqs : futures[r].ready

(* An application that dispatched without error ticks the loop until every *)
(* future is ready; a tick ends with a wakeup or a callback of curl's.      *)
application_waits ==
  /\ At("returned") /\ call.rc = SUCCESS
  /\ call' = Goto(IF AllReady THEN "finished" ELSE "ticking")
  /\ UNCHANGED <<kind, futures, wake, others>>

application_checks ==
  /\ At("ticking")
  /\ wake \/ (kind.backend = "curl" /\ AllReady)
  /\ call' = IF AllReady THEN Goto("finished") ELSE call
  /\ wake' = FALSE
  /\ UNCHANGED <<kind, futures, others>>

MultiSteps ==
  \/ client_begin \/ client_not_supported \/ client_loop \/ http_raw_send_multi
  \/ http_msh3_send_multi \/ http_picoquic_send_multi \/ http_fetch_send_multi
  \/ http_xquic_send_multi \/ client_release
  \/ application_waits \/ application_checks

MultiNext ==
  \/ MultiSteps
  \/ curl_steps /\ UNCHANGED <<work, thread>>
  \/ worker_steps /\ UNCHANGED curl

(* Every thread runs and every library ends its transfers.                 *)
MultiFairness ==
  /\ WF_multiVars(MultiSteps)
  /\ WF_multiVars(curl_steps /\ UNCHANGED <<work, thread>>)
  /\ WF_multiVars(worker_steps /\ UNCHANGED curl)

MultiSpec == MultiInit /\ [][MultiNext]_multiVars /\ MultiFairness

-----------------------------------------------------------------------------
(* A future is completed once: after is_ready is seen no thread writes it.  *)
FutureIsFinal ==
  [][\A r \in Reqs : futures[r].ready => futures'[r] = futures[r]]_multiVars

(* While curl's transfers run the loop has one timer for the multi handle   *)
(* if the library wants one and none otherwise, though the identifier in    *)
(* the context is often stale; the tasks are those of the running           *)
(* transfers, also after a dispatch that failed half-way.                  *)
LoopServesCurl ==
  /\ curl.armed = IF curl.wants THEN 1 ELSE 0
  /\ curl.tasks = Running(curl)
  /\ curl.sockets \subseteq Running(curl)
  /\ Running(curl) # {} => curl.wants \/ curl.sockets # {}

(* A batch sent one by one completes the futures in order; when it stops at *)
(* the first error, the error is that of the last completed future, and    *)
(* the requests behind it were not sent.                                   *)
StopsAtError ==
  (At("returned") /\ (~kind.async \/ kind.backend \in {"raw", "fetch", "picoquic"})) =>
    LET sent == {r \in Reqs : futures[r].ready}
        last == Cardinality(sent)
    IN /\ sent = 1..last
       /\ call.rc = SUCCESS => sent = Reqs
       /\ call.rc = "IO" => last > 0 /\ futures[last].error # SUCCESS
       /\ (kind.failFast \/ kind.async) =>
            \A r \in sent : futures[r].error # SUCCESS => r = last /\ call.rc = "IO"

(* Every batch that was dispatched without error is completed, and the     *)
(* application does not stay in the loop: a wakeup is never lost.  (Apple's *)
(* worker reads the list of the caller, which is gone: see the README.)    *)
BatchCompletes ==
  call.list = "live" /\ kind.backend # "apple" ~> At("finished") \/ call.rc # SUCCESS

=============================================================================
