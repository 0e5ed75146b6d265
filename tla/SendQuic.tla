----------------------------- MODULE SendQuic ------------------------------
(***************************************************************************)
(* The sends of the backends for HTTP/3.  http_msh3_send (src/http_msh3.c):  *)
(* the request runs on the threads of the library, whose events fill the   *)
(* response while the caller waits, with no time-out, for is_complete      *)
(* ("complete" in pending).  http_picoquic_send and http_xquic_send do not  *)
(* speak HTTP yet: they prepare a connection and return an error.          *)
(***************************************************************************)
EXTENDS SendState

msh3(place) == At("msh3", place)
Msh3Held == {"strings", "response", "connection", "mutex", "cond", "request"}

Msh3Leaves(error) == Returns([Drop("", Msh3Held) EXCEPT !.rc = error, !.res = FALSE])
Msh3Tries(place, things, next, error) ==
  /\ msh3(place)
  /\ \/ s' = Hold(next, things) /\ UNCHANGED net
     \/ Msh3Leaves(error)
  /\ UNCHANGED <<backend, request>>

msh3_parse_url == Msh3Tries("begin", {"strings"}, "msh3_response", "INVAL")

msh3_response ==
  /\ msh3("msh3_response")
  /\ \/ s' = [Hold("msh3_resolve", {"response"}) EXCEPT !.res = TRUE] /\ UNCHANGED net
     \/ Msh3Leaves("NOMEM")
  /\ UNCHANGED <<backend, request>>

(* A start that fails is only logged.                                      *)
msh3_connect ==
  \/ Msh3Tries("msh3_resolve", {}, "msh3_open", "IO")
  \/ Msh3Tries("msh3_open", {"connection"}, "msh3_mutex", "IO")

msh3_sync_init ==
  \/ Msh3Tries("msh3_mutex", {"mutex"}, "msh3_cond", "NOMEM")
  \/ Msh3Tries("msh3_cond", {"cond"}, "msh3_request", "NOMEM")

(* The body, parts and read_chunk of the request are not looked at.        *)
msh3_request ==
  /\ msh3("msh3_request")
  /\ s' \in {Fail("msh3_close", "NOMEM"), [Hold("msh3_close", {"request"}) EXCEPT !.rc = "IO"],
             PassesOn(Hold("msh3_wait", {"request"}), {"none"})}
  /\ UNCHANGED <<backend, request, net>>

msh3_running == msh3("msh3_wait") /\ "complete" \notin net.pending

(* HEADER_RECEIVED and DATA_RECEIVED, without the mutex: an error is       *)
(* remembered and the next event is handled all the same.  on_chunk is not *)
(* looked at.                                                              *)
msh3_data_received ==
  /\ msh3_running
  /\ Arrives
  /\ s' \in {[Store("msh3_wait") EXCEPT !.slips =
                IF request.streaming THEN @ \cup {"on_chunk not called"} ELSE @],
             Fail("msh3_wait", "NOMEM")}
  /\ UNCHANGED <<backend, request>>

(* SHUTDOWN_COMPLETE: is_complete and the signal under the mutex.  A       *)
(* connection closed by the peer is an error; the abort of the stream      *)
(* alone is not noticed.                                                   *)
msh3_shutdown_complete ==
  /\ msh3_running
  /\ \E how \in {"whole", "cut"} :
       /\ net.end = "open"
       /\ net' = [net EXCEPT !.end = how, !.pending = @ \cup {"complete"}]
       /\ s' \in {s, Fail("msh3_wait", "IO")}
  /\ UNCHANGED <<backend, request>>

(* The loop of abstract_http_cond_wait; lock and wait may fail.            *)
msh3_wait ==
  /\ msh3("msh3_wait")
  /\ \/ "complete" \in net.pending /\ s' = Goto("msh3_close")
     \/ "complete" \notin net.pending /\ s' = Fail("msh3_close", "IO")
  /\ UNCHANGED <<backend, request, net>>

msh3_close ==
  /\ msh3("msh3_close")
  /\ \/ s.rc = SUCCESS /\ Returns(Drop("", Msh3Held))
     \/ Msh3Leaves(IF s.rc = SUCCESS THEN "IO" ELSE s.rc)
  /\ UNCHANGED <<backend, request>>

-----------------------------------------------------------------------------
(* A context that no configuration was applied to is refused; the response *)
(* that was allocated is freed whether or not there is a connection, which *)
(* belongs to the context.                                                 *)
http_picoquic_send ==
  \/ /\ At("picoquic", "begin")
     /\ \/ s' = Hold("quic_connection", {"response"}) /\ UNCHANGED net
        \/ \E e \in {"INVAL", "NOMEM"} : Returns([s EXCEPT !.rc = e])
     /\ UNCHANGED <<backend, request>>
  \/ /\ At("picoquic", "quic_connection")
     /\ Returns([Drop("", {"response"}) EXCEPT !.rc = "IO"])
     /\ UNCHANGED <<backend, request>>

(* Nothing ever sets the engine of a context, so none is used.             *)
http_xquic_send ==
  /\ At("xquic", "begin")
  /\ \E e \in {"INVAL", "IO"} : Returns([s EXCEPT !.rc = e])
  /\ UNCHANGED <<backend, request>>

msh3_network == msh3_data_received \/ msh3_shutdown_complete

msh3_steps ==
  \/ msh3_parse_url \/ msh3_response \/ msh3_connect \/ msh3_sync_init
  \/ msh3_request \/ msh3_close
  \/ "complete" \in net.pending /\ msh3_wait

=============================================================================
