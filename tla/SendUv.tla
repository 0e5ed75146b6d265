------------------------------ MODULE SendUv -------------------------------
(***************************************************************************)
(* http_libuv_send (src/http_libuv.c): the request is assembled in one     *)
(* buffer, a private loop runs with a socket and a timer, and callbacks    *)
(* resolve, connect, write and read until libuv_finish.                    *)
(*                                                                         *)
(* pending holds the callbacks the loop still has to make and the flags    *)
(* "done" and "headers" (headers_parsed).  Closing a handle cancels what   *)
(* was pending on it, except the resolution, which is not on the handle;   *)
(* the callbacks of what was cancelled find uv_done set and change nothing.   *)
(***************************************************************************)
EXTENDS SendState

uv(place) == At("libuv", place)
uv_done == "done" \in net.pending
UvHandles == {"timer", "socket"}
UvStrings == {"host", "path", "request buffer", "receive buffer"}

(* Only the first error counts; timer and socket are closed once.          *)
libuv_finish(call, error) ==
  IF uv_done THEN s' = call /\ UNCHANGED net
  ELSE /\ s' = [call EXCEPT !.rc = error, !.held = @ \ UvHandles]
       /\ net' = [net EXCEPT !.pending =
                    (@ \ {"connect", "write", "read", "timer"}) \cup {"done"}]

UvPending(old, new) == [net EXCEPT !.pending = (@ \ old) \cup new]

uv_parse_url ==
  /\ uv("begin")
  /\ \/ Returns([s EXCEPT !.rc = "INVAL"])
     \/ /\ request.upload # "parts"
        /\ s' = Hold("uv_method", {"host", "path"}) /\ UNCHANGED net
  /\ UNCHANGED <<backend, request>>

(* An unknown method is refused, then the buffer is allocated and grows.   *)
uv_build_request ==
  \/ TryOrLeave("uv_method", {}, "uv_buffer", "INVAL", {"host", "path"})
  \/ TryOrLeave("uv_buffer", {"request buffer"}, "uv_header_lines", "NOMEM",
                {"host", "path"})
  \/ TryOrLeave("uv_header_lines", {}, "uv_body", "NOMEM",
                {"host", "path", "request buffer"})

(* The body, or all that read_chunk supplies, is copied behind the headers. *)
(* An error of read_chunk ends the loop like the end of the data.          *)
uv_build_body ==
  /\ uv("uv_body")
  /\ \/ s' = BodySent("uv_loop") /\ UNCHANGED net
     \/ /\ request.upload = "stream" /\ s.taken < MaxUpload
        /\ s' = [Supplies("uv_body") EXCEPT !.wired = @ + 1] /\ UNCHANGED net
     \/ /\ request.upload = "stream"
        /\ s' = [s EXCEPT !.pc = "uv_loop", !.aborted = TRUE,
                          !.slips = @ \cup {"upload error ignored"}]
        /\ UNCHANGED net
     \/ /\ request.upload # "none"
        /\ Returns([s EXCEPT !.rc = "NOMEM",
                             !.held = @ \ {"host", "path", "request buffer"}])
  /\ UNCHANGED <<backend, request>>

Mutant_timer_not_started ==
  \/ Try("uv_loop", {"loop"}, "uv_tcp", "NOMEM", "uv_cleanup")
  \/ Try("uv_tcp", {"socket"}, "uv_timer", "NOMEM", "uv_loop_close")
  \/ /\ uv("uv_timer")
     /\ \/ request.timeout_ms = 0 /\ s' = Goto("uv_lookup") /\ UNCHANGED net
        \/ /\ request.timeout_ms > 0 /\ UNCHANGED net
           /\ s' \in {Hold("uv_lookup", {"timer"}), Fail("uv_loop_close", "NOMEM")}
     /\ UNCHANGED <<backend, request>>

(* What fails once the socket handle exists leaves it open, and a loop     *)
(* with open handles is not closed.                                        *)
uv_open_handles ==
  \/ Try("uv_loop", {"loop"}, "uv_tcp", "NOMEM", "uv_cleanup")
  \/ Try("uv_tcp", {"socket"}, "uv_timer", "NOMEM", "uv_loop_close")
  \/ /\ uv("uv_timer")
     /\ \/ request.timeout_ms = 0 /\ s' = Goto("uv_lookup") /\ UNCHANGED net
        \/ /\ request.timeout_ms > 0
           /\ \/ s' = Hold("uv_lookup", {"timer"}) /\ net' = UvPending({}, {"timer"})
              \/ s' = Fail("uv_loop_close", "NOMEM") /\ UNCHANGED net
     /\ UNCHANGED <<backend, request>>

uv_start_lookup ==
  /\ uv("uv_lookup")
  /\ \/ s' = Goto("uv_run") /\ net' = UvPending({}, {"resolve"})
     \/ libuv_finish(Goto("uv_run"), "UNREACH")
  /\ UNCHANGED <<backend, request>>

libuv_on_timeout ==
  /\ uv("uv_run") /\ "timer" \in net.pending
  /\ libuv_finish(s, "TIMEOUT")
  /\ UNCHANGED <<backend, request>>

UvFailed(what, error) ==
  IF uv_done THEN s' = s /\ net' = UvPending({what}, {}) ELSE libuv_finish(s, error)

(* uv_done is not looked at: after a time-out a connection is still begun, on  *)
(* a handle that is already closed, and nothing closes it again.           *)
libuv_on_resolved ==
  /\ uv("uv_run") /\ "resolve" \in net.pending
  /\ \/ /\ s' = IF uv_done THEN s ELSE [s EXCEPT !.rc = "UNREACH", !.held = @ \ UvHandles]
        /\ net' = [net EXCEPT !.pending = (@ \ {"resolve", "timer"}) \cup {"done"}]
     \/ ~uv_done /\ s' = s /\ net' = UvPending({"resolve"}, {"connect"})
     \/ /\ uv_done
        /\ s' = [s EXCEPT !.slips = @ \cup {"connects after time-out"},
                          !.held = @ \cup {"late connection"}]
        /\ net' = UvPending({"resolve"}, {"late"})
  /\ UNCHANGED <<backend, request>>

(* The late connection runs to its end, calling on_chunk as it goes; an    *)
(* error of on_chunk is lost, since libuv_finish does nothing any more, and *)
(* reading goes on.  The response is freed because the error code is set.  *)
late_events ==
  /\ uv("uv_run") /\ "late" \in net.pending
  /\ \/ /\ request.streaming /\ Arrives
        /\ s' \in {Stream("uv_run"),
                   [StreamFails("uv_run", s.rc) EXCEPT !.slips = @ \cup {"late abort ignored"}]}
     \/ s' = s /\ net' = UvPending({"late"}, {})
  /\ UNCHANGED <<backend, request>>

libuv_on_connect ==
  /\ uv("uv_run") /\ "connect" \in net.pending
  /\ \/ s' = s /\ net' = UvPending({"connect"}, {"write"})
     \/ UvFailed("connect", "REFUSED")
     \/ UvFailed("connect", "IO")                         \* uv_write
  /\ UNCHANGED <<backend, request>>

libuv_on_write ==
  /\ uv("uv_run") /\ "write" \in net.pending
  /\ \/ s' = s /\ net' = UvPending({"write"}, {"read"})
     \/ UvFailed("write", "IO")
  /\ UNCHANGED <<backend, request>>

uv_reading == uv("uv_run") /\ "read" \in net.pending

(* No memory: the library reports it as a read error.                      *)
libuv_alloc_cb ==
  /\ uv_reading
  /\ \/ "receive buffer" \notin s.held
        /\ s' = Hold("uv_run", {"receive buffer"}) /\ UNCHANGED net
     \/ libuv_finish(s, "REFUSED")
  /\ UNCHANGED <<backend, request>>

(* The read that completes the headers.                                    *)
parse_headers ==
  /\ uv_reading /\ "receive buffer" \in s.held /\ "headers" \notin net.pending
  /\ \/ /\ s' = [Hold("uv_run", {"response"}) EXCEPT !.res = TRUE]
        /\ net' = UvPending({}, {"headers"})
     \/ libuv_finish(s, "NOMEM")
  /\ UNCHANGED <<backend, request>>

(* A read behind the headers; one that holds headers and data is the two   *)
(* steps in a row.                                                         *)
libuv_on_read_data ==
  /\ uv_reading /\ "headers" \in net.pending /\ net.end = "open" /\ net.arrived < MaxBody
  /\ \/ /\ s' = IF request.streaming THEN Stream("uv_run") ELSE Store("uv_run")
        /\ Arrives
     \/ request.streaming /\ libuv_finish(StreamFails("uv_run", s.rc), "CANCELED")
     \/ ~request.streaming /\ libuv_finish(s, "NOMEM")
  /\ UNCHANGED <<backend, request>>

(* End of file, be the message complete or not, is success; a reset is an  *)
(* error.  Without complete headers there is no response.                  *)
libuv_on_read_end ==
  /\ uv_reading /\ net.end = "open"
  /\ \/ /\ \E how \in {"whole", "cut"} :
             /\ how = "whole" => "headers" \in net.pending
             /\ net' = [net EXCEPT !.end = how,
                                   !.pending = (@ \ {"read", "timer"}) \cup {"done"}]
        /\ s' = [s EXCEPT !.held = @ \ UvHandles]
     \/ libuv_finish(s, "REFUSED")
  /\ UNCHANGED <<backend, request>>

uv_run_returns ==
  /\ uv("uv_run")
  /\ net.pending \subseteq {"done", "headers"}
  /\ s' = Goto("uv_loop_close")
  /\ UNCHANGED <<backend, request, net>>

uv_loop_close ==
  /\ uv("uv_loop_close")
  /\ s' = IF s.held \cap UvHandles = {} THEN Drop("uv_cleanup", {"loop"})
          ELSE [s EXCEPT !.pc = "uv_cleanup", !.slips = @ \cup {"loop not closed"}]
  /\ UNCHANGED <<backend, request, net>>

uv_cleanup ==
  /\ uv("uv_cleanup")
  /\ Returns([s EXCEPT !.held = @ \ (UvStrings \cup {"response"}),
                       !.res = @ /\ s.rc = SUCCESS])
  /\ UNCHANGED <<backend, request>>

(* What the peer decides; the resolver and the timer answer in bounded time. *)
uv_network ==
  \/ libuv_on_connect \/ libuv_on_write \/ libuv_alloc_cb \/ parse_headers
  \/ libuv_on_read_data \/ libuv_on_read_end \/ late_events

uv_steps ==
  \/ uv_parse_url \/ uv_build_request \/ uv_build_body \/ uv_open_handles
  \/ uv_start_lookup \/ libuv_on_timeout \/ libuv_on_resolved
  \/ uv_run_returns \/ uv_loop_close \/ uv_cleanup
=============================================================================
