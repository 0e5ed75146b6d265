------------------------------ MODULE SendRaw ------------------------------
(***************************************************************************)
(* http_raw_send (src/http_raw.c): one socket, non-blocking only while it  *)
(* connects, a request in one buffer, and a loop of select and recv until  *)
(* the peer closes; then the headers are cut off and parsed.               *)
(*                                                                         *)
(* What recv returns is the header block, piece 0, and the pieces of the   *)
(* body.  "headers" in pending: the header block has arrived whole.        *)
(***************************************************************************)
EXTENDS SendState

raw(place) == At("raw", place)

parse_url ==
  /\ raw("begin")
  /\ \/ \E e \in {"INVAL", "NOMEM"} : Returns([s EXCEPT !.rc = e])
     \/ s' = Hold("raw_resolve", {"host", "path"}) /\ UNCHANGED net
  /\ UNCHANGED <<backend, request>>

Mutant_connect_failure_keeps_socket ==
  \/ TryOrLeave("raw_resolve", {}, "raw_socket", "IO", {"host", "path"})
  \/ TryOrLeave("raw_socket", {"socket"}, "raw_connect", "IO", {"host", "path"})
  \/ TryOrLeave("raw_connect", {}, "raw_writable", "IO", {"host", "path"})

(* gethostbyname, socket, make_socket_nonblocking and connect.             *)
resolve_and_connect ==
  \/ TryOrLeave("raw_resolve", {}, "raw_socket", "IO", {"host", "path"})
  \/ TryOrLeave("raw_socket", {"socket"}, "raw_connect", "IO", {"host", "path"})
  \/ TryOrLeave("raw_connect", {}, "raw_writable", "IO", {"socket", "host", "path"})

(* select for writing within the time-out, then make_socket_blocking.      *)
wait_writable ==
  TryOrLeave("raw_writable", {}, "raw_buffer", "IO", {"socket", "host", "path"})

(* The request line, after which host and path are freed; the headers and  *)
(* the body, read_chunk and parts not being looked at; the loop of send,   *)
(* which blocks for as long as the peer does not read.                     *)
send_request ==
  \/ TryOrLeave("raw_buffer", {"request buffer"}, "raw_line", "NOMEM",
                {"socket", "host", "path"})
  \/ raw("raw_line") /\ s' = Drop("raw_grow", {"host", "path"})
     /\ UNCHANGED <<backend, request, net>>
  \/ raw("raw_grow") /\ UNCHANGED <<backend, request>>
     /\ \/ s' = PassesOn(Goto("raw_send"), {"none", "body"}) /\ UNCHANGED net
        \/ Returns([s EXCEPT !.rc = "NOMEM", !.held = @ \ {"request buffer", "socket"}])
  \/ raw("raw_send") /\ s' = Drop("raw_response", {"request buffer"})
     /\ UNCHANGED <<backend, request, net>>
  \/ raw("raw_send") /\ UNCHANGED <<backend, request>>
     /\ Returns([s EXCEPT !.rc = "IO", !.held = @ \ {"request buffer", "socket"}])

(* *res is set before anything is received.                                *)
allocate_response ==
  \/ raw("raw_response") /\ UNCHANGED <<backend, request>>
     /\ \/ s' = [Hold("raw_body", {"response"}) EXCEPT !.res = TRUE] /\ UNCHANGED net
        \/ Returns([s EXCEPT !.rc = "NOMEM", !.held = @ \ {"socket"}])
  \/ raw("raw_body") /\ UNCHANGED <<backend, request>>
     /\ \/ s' = Hold("raw_recv", {"body"}) /\ UNCHANGED net
        \/ Returns([s EXCEPT !.rc = "NOMEM", !.res = FALSE,
                             !.held = @ \ {"response", "socket"}])

Number == IF "headers" \in net.pending THEN Piece ELSE 0

(* One recv: on_chunk gets the bytes as they come, headers included; the   *)
(* buffer grows, or cannot.                                                *)
recv_data ==
  /\ raw("raw_recv") /\ net.end = "open"
  /\ Number = 0 \/ net.arrived < MaxBody
  /\ net' = IF Number = 0 THEN [net EXCEPT !.pending = {"headers"}]
                          ELSE [net EXCEPT !.arrived = @ + 1]
  /\ IF request.streaming
     THEN s' \in {[s EXCEPT !.given = Append(@, Number)],
                  [s EXCEPT !.given = Append(@, Number), !.aborted = TRUE,
                            !.pc = "raw_close", !.rc = "callback"]}
     ELSE s' \in {[s EXCEPT !.body = Append(@, Number)], Fail("raw_close", "NOMEM")}
  /\ UNCHANGED <<backend, request>>

(* The peer closes, with a part of the headers sent perhaps.               *)
recv_end ==
  /\ raw("raw_recv")
  /\ \/ /\ Ends("whole") /\ "headers" \in net.pending /\ s' = Goto("raw_close")
     \/ /\ Ends("cut")
        /\ s' \in {Goto("raw_close")} \cup
                  (IF Number = 0 /\ ~request.streaming
                   THEN {[s EXCEPT !.pc = "raw_close", !.body = <<0>>]} ELSE {})
  /\ UNCHANGED <<backend, request>>

(* select or recv fails: the time-out counts from the last read.           *)
recv_fails ==
  /\ raw("raw_recv")
  /\ s' = Fail("raw_close", "IO")
  /\ UNCHANGED <<backend, request, net>>

close_socket ==
  /\ raw("raw_close")
  /\ IF s.rc = SUCCESS
     THEN s' = Drop("raw_parse", {"socket"}) /\ UNCHANGED net
     ELSE Returns([s EXCEPT !.res = FALSE, !.held = @ \ {"socket", "response", "body"}])
  /\ UNCHANGED <<backend, request>>

(* The body behind the header block is copied to the response; when there  *)
(* is no memory for the copy the response has none and that is no error.   *)
(* A header that cannot be added is an error.                              *)
parse_response ==
  /\ raw("raw_parse")
  /\ LET parsed == ~request.streaming /\ s.body # <<>>
         rest == IF "headers" \in net.pending THEN Tail(s.body) ELSE s.body
         left == [s EXCEPT !.held = @ \ {"response", "body"}]
     IN \/ Returns([left EXCEPT !.body = IF parsed THEN rest ELSE @])
        \/ /\ parsed /\ rest # <<>>
           /\ Returns([left EXCEPT !.body = <<>>, !.slips = @ \cup {"body lost"}])
        \/ /\ parsed /\ "headers" \in net.pending
           /\ Returns([left EXCEPT !.rc = "NOMEM", !.res = FALSE])
  /\ UNCHANGED <<backend, request>>

raw_network == recv_data \/ recv_end

raw_steps ==
  \/ parse_url \/ resolve_and_connect \/ wait_writable \/ send_request
  \/ allocate_response \/ recv_fails \/ close_socket \/ parse_response
=============================================================================
