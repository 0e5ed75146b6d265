----------------------------- MODULE SendEvent -----------------------------
(***************************************************************************)
(* http_libevent_send (src/http_libevent.c): a base, a connection and a    *)
(* request are made, event_base_dispatch runs until the request is done or *)
(* the loop is broken, and everything but the response is freed.           *)
(***************************************************************************)
EXTENDS SendState

event(place) == At("libevent", place)

(* The URL is cut in host, port and path without allocating.               *)
make_objects ==
  \/ backend = "libevent"
     /\ TryOrLeave("begin", {"base"}, "event_connection", "NOMEM", {})
  \/ TryOrLeave("event_connection", {"connection"}, "event_request", "NOMEM", {"base"})
  \/ TryOrLeave("event_request", {"request"}, "event_body", "NOMEM",
                {"connection", "base"})

(* The body is copied to the output buffer.  A piece that cannot be added  *)
(* is left out and an error of read_chunk ends the loop like the end of    *)
(* the data: the request is sent all the same.                             *)
fill_output ==
  /\ event("event_body")
  /\ \/ s' = BodySent("event_method")
     \/ /\ request.upload = "body"
        /\ s' = [s EXCEPT !.pc = "event_method", !.slips = @ \cup {"body not sent"}]
     \/ /\ request.upload = "stream" /\ s.taken < MaxUpload
        /\ s' \in {[Supplies("event_body") EXCEPT !.wired = @ + 1],
                   [Supplies("event_body") EXCEPT !.slips = @ \cup {"upload piece lost"}]}
     \/ /\ request.upload = "stream"
        /\ s' = [s EXCEPT !.pc = "event_method", !.aborted = TRUE,
                          !.slips = @ \cup {"upload error ignored"}]
  /\ UNCHANGED <<backend, request, net>>

(* A method libevent does not have: connection and base are freed, the     *)
(* request, which the connection does not own yet, is not.                 *)
get_method_cmd ==
  /\ event("event_method")
  /\ \/ s' = Goto("event_make") /\ UNCHANGED net
     \/ Returns([s EXCEPT !.held = @ \ {"connection", "base"}, !.rc = "INVAL",
                          !.slips = @ \cup {"request not freed"}])
  /\ UNCHANGED <<backend, request>>

evhttp_make_request ==
  TryOrLeave("event_make", {}, "event_dispatch", "REFUSED",
             {"request", "connection", "base"})

(* With on_chunk each piece is copied and passed on, and a failure breaks  *)
(* the loop; without, the library collects the pieces.                     *)
http_chunked_cb ==
  /\ event("event_dispatch") /\ net.end = "open" /\ net.arrived < MaxBody
  /\ \/ Arrives /\ s' = IF request.streaming THEN Stream("event_dispatch")
                                             ELSE Store("event_dispatch")
     \/ /\ request.streaming
        /\ s' \in {StreamFails("event_result", "callback"), Fail("event_result", "NOMEM")}
        /\ UNCHANGED net
  /\ UNCHANGED <<backend, request>>

(* Without memory for the body the response stays in *res and the error is *)
(* returned as well.                                                       *)
http_request_done ==
  /\ event("event_dispatch")
  /\ Ends("whole")
  /\ \/ s' = Fail("event_result", "NOMEM")
     \/ s' = [Hold("event_result", {"response"}) EXCEPT !.res = TRUE]
     \/ /\ ~request.streaming /\ net.arrived > 0
        /\ s' = [Hold("event_result", {"response"}) EXCEPT
                   !.res = TRUE, !.rc = "NOMEM",
                   !.slips = @ \cup {"response with error"}]
  /\ UNCHANGED <<backend, request>>

(* A failure of the connection, its time-out among them: the library calls *)
(* http_request_done without a request.                                    *)
http_request_failed ==
  /\ event("event_dispatch")
  /\ Ends("cut")
  /\ s' = Fail("event_result", "REFUSED")
  /\ UNCHANGED <<backend, request>>

(* No error and no response is an error.                                   *)
event_result ==
  /\ event("event_result")
  /\ Returns([s EXCEPT
       !.rc = IF @ = SUCCESS /\ ~s.res THEN "REFUSED" ELSE @,
       !.held = @ \ ({"request", "connection", "base"}
                      \cup (IF s.rc = SUCCESS THEN {"response"} ELSE {}))])
  /\ UNCHANGED <<backend, request>>

event_network == http_chunked_cb \/ http_request_done

event_steps ==
  \/ make_objects \/ fill_output \/ get_method_cmd \/ evhttp_make_request
  \/ http_request_failed \/ event_result
=============================================================================
