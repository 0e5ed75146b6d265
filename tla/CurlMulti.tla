----------------------------- MODULE CurlMulti ------------------------------
(***************************************************************************)
(* http_curl_send_multi and its callbacks (src/http_curl.c): the transfers  *)
(* run inside libcurl's multi handle, which tells the loop through two      *)
(* callbacks which sockets to watch and when to call back.                  *)
(*                                                                         *)
(* phase: a transfer is added, has a socket, and is finished.  sockets: the *)
(* transfers whose socket the loop watches.  wants: the library has asked   *)
(* for a time-out.  timer: ctx->timer_id is 0 ("none"), names a timer the   *)
(* loop has ("live"), or one that has fired ("stale").  armed: the timers   *)
(* the loop has for this handle.                                           *)
(***************************************************************************)
EXTENDS MultiState

VARIABLE curl

NewCurl == [phase |-> [r \in Reqs |-> "idle"], tasks |-> {}, sockets |-> {},
            wants |-> FALSE, timer |-> "none", armed |-> 0]

Running(c) == {r \in Reqs : c.phase[r] \in {"added", "connected"}}

Mutant_stale_timer_is_error(c, wants) ==
  IF c.timer = "stale" THEN [c EXCEPT !.wants = wants]
  ELSE [c EXCEPT !.wants = wants, !.timer = IF wants THEN "live" ELSE "none",
                 !.armed = IF wants THEN 1 ELSE 0]

(* The old timer is cancelled, which a stale identifier does not hinder;   *)
(* a time-out that is not negative is added to the loop.                   *)
multi_timer_function(c, wants) ==
  LET kept == IF c.timer = "live" THEN c.armed - 1 ELSE c.armed
  IN [c EXCEPT !.wants = wants, !.timer = IF wants THEN "live" ELSE "none",
               !.armed = IF wants THEN kept + 1 ELSE kept]

(* A socket is watched from POLL_IN, OUT or INOUT on until POLL_REMOVE.    *)
multi_socket_function(c, sockets) == [c EXCEPT !.sockets = sockets]

(* Every message of the library: the future is completed, the task freed,  *)
(* the handle removed, and with it its socket.                             *)
ABSTRACT_HTTP_CHECK_MULTI_INFO(c, done) ==
  multi_socket_function([c EXCEPT !.phase = [r \in Reqs |-> IF r \in done THEN "finished"
                                                           ELSE c.phase[r]],
                                  !.tasks = @ \ done],
                        c.sockets \ done)

Finished(done) ==
  \E result \in [done -> Results] :
    futures' = [r \in Reqs |-> IF r \in done THEN Completed(result[r]) ELSE futures[r]]

(* After the library has run it wants to be called again as long as a      *)
(* transfer has not got its socket, and may want it while any runs.        *)
Rearmed(c) ==
  LET added == \E r \in Reqs : c.phase[r] = "added"
  IN \E wants \in BOOLEAN :
       /\ added => wants
       /\ wants => Running(c) # {}
       /\ curl' \in {multi_timer_function(c, wants)} \cup (IF wants = c.wants THEN {c} ELSE {})

-----------------------------------------------------------------------------
(* One round of the loop of send_multi: the task and the handle are made   *)
(* and set up, and the handle is added, upon which the library asks for an  *)
(* immediate time-out.                                                     *)
curl_add ==
  /\ At("curl") /\ call.next <= BatchSize
  /\ \/ /\ call' = [call EXCEPT !.next = @ + 1]
        /\ curl' = multi_timer_function(
                     [curl EXCEPT !.phase[call.next] = "added",
                                  !.tasks = @ \cup {call.next}], TRUE)
     \/ \E e \in {"NOMEM", "IO"} : call' = Fail("curl_undo", e) /\ UNCHANGED curl
  /\ UNCHANGED <<kind, futures, wake>>

(* Options that cannot be set, or nothing more to add.                     *)
curl_added ==
  /\ At("curl")
  /\ \/ call.next > BatchSize /\ call' = Goto("release")
     \/ call.next = 1 /\ call' = Fail("release", "IO")
  /\ UNCHANGED <<kind, futures, wake, curl>>

(* A failure removes the handles added before; the library cancels its     *)
(* time-out with the last one.  Their futures stay as they are.            *)
curl_undo ==
  /\ At("curl_undo")
  /\ LET c == [curl EXCEPT !.phase = [r \in Reqs |-> "idle"], !.tasks = {}]
     IN curl' = IF curl.wants THEN multi_timer_function(c, FALSE) ELSE c
  /\ call' = Goto("release")
  /\ UNCHANGED <<kind, futures, wake>>

(* The loop's timer fires and is gone from the loop; the library moves the  *)
(* added transfers on, and transfers that took too long, or whose first     *)
(* step failed, are done.  Its own time-out is then over.                   *)
multi_timer_cb ==
  /\ At("ticking") /\ curl.armed > 0
  /\ \E done \in SUBSET Running(curl) :
       LET fired == [curl EXCEPT !.timer = "stale", !.armed = @ - 1, !.wants = FALSE]
           moved == {r \in Reqs : curl.phase[r] = "added"} \ done
           run == multi_socket_function(
                    [fired EXCEPT !.phase = [r \in Reqs |-> IF r \in moved THEN "connected"
                                                            ELSE curl.phase[r]]],
                    curl.sockets \cup moved)
       IN /\ Finished(done)
          /\ Rearmed(ABSTRACT_HTTP_CHECK_MULTI_INFO(run, done))
  /\ UNCHANGED <<kind, call, wake>>

(* A socket is ready: its transfer is done with it, and others may end too. *)
multi_socket_cb ==
  /\ At("ticking")
  /\ \E r \in curl.sockets : \E done \in SUBSET Running(curl) :
       /\ r \in done
       /\ Finished(done)
       /\ Rearmed(ABSTRACT_HTTP_CHECK_MULTI_INFO(curl, done))
  /\ UNCHANGED <<kind, call, wake>>

curl_steps == curl_add \/ curl_added \/ curl_undo \/ multi_timer_cb \/ multi_socket_cb
=============================================================================
