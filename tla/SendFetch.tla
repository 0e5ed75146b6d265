----------------------------- MODULE SendFetch -----------------------------
(***************************************************************************)
(* http_fetch_send (src/http_fetch.c), on the fetch library of the BSDs:   *)
(* fetchReqHTTP returns a stream that is read until fread gives nothing.    *)
(* http_wasm_send (src/http_wasm.c): one synchronous fetch of the browser, *)
(* which has the whole response before it returns.                         *)
(***************************************************************************)
EXTENDS SendState

fetch(place) == At("fetch", place)

fetch_parse_url ==
  /\ fetch("begin")
  /\ \/ Returns([s EXCEPT !.rc = "INVAL"])
     \/ request.upload # "parts" /\ s' = Hold("fetch_environment", {"url"}) /\ UNCHANGED net
  /\ UNCHANGED <<backend, request>>

(* The agent and the proxy go to the environment of the process: setenv    *)
(* copies them, and what it returns is not looked at.                      *)
fetch_setenv ==
  /\ fetch("fetch_environment")
  /\ s' = Goto("fetch_upload")
  /\ UNCHANGED <<backend, request, net>>

(* All pieces are collected first; the error of read_chunk is returned.    *)
fetch_read_upload ==
  \/ /\ fetch("fetch_upload") /\ request.upload # "stream"
     /\ s' = BodySent("fetch_request") /\ UNCHANGED <<backend, request, net>>
  \/ /\ backend = "fetch" /\ request.upload = "stream"
     /\ TryOrLeave("fetch_upload", {"upload"}, "fetch_pieces", "NOMEM", {"url"})
  \/ /\ fetch("fetch_pieces") /\ UNCHANGED <<backend, request>>
     /\ \/ s' = BodySent("fetch_request") /\ UNCHANGED net
        \/ /\ s.taken < MaxUpload /\ UNCHANGED net
           /\ s' = [Supplies("fetch_pieces") EXCEPT !.wired = @ + 1]
        \/ s.taken < MaxUpload
           /\ Returns([Drop("", {"upload", "url"}) EXCEPT !.rc = "NOMEM"])
        \/ Returns([Drop("", {"upload", "url"}) EXCEPT !.rc = "callback", !.aborted = TRUE])

(* The library's last error is FETCH_OK when it failed without one.        *)
map_fetch_error == {SUCCESS, "TIMEOUT", "NOMEM", "IO"}

(* No stream: what the last error is mapped to is returned, SUCCESS also,  *)
(* with *res empty.  The library is given no time-out.                     *)
fetchReqHTTP ==
  /\ fetch("fetch_request")
  /\ \/ s' = [Drop("fetch_response", {"url"}) EXCEPT !.held = @ \cup {"stream"}]
        /\ UNCHANGED net
     \/ \E e \in map_fetch_error :
          Returns([s EXCEPT !.rc = e, !.held = @ \ {"url", "upload"},
                            !.slips = IF e = SUCCESS THEN @ \cup {"success without response"}
                                      ELSE @])
  /\ UNCHANGED <<backend, request>>

fetch_response ==
  TryOrLeave("fetch_response", {"response"}, "fetch_read", "NOMEM", {"stream", "upload"})

fread_piece ==
  /\ fetch("fetch_read")
  /\ Arrives
  /\ IF request.streaming
     THEN s' \in {Stream("fetch_read"), StreamFails("fetch_close", "callback")}
     ELSE s' \in {Store("fetch_read"), Fail("fetch_close", "NOMEM")}
  /\ UNCHANGED <<backend, request>>

(* fread gives nothing at the end of the message and when reading fails;   *)
(* the two are not told apart.                                             *)
fread_end == BodyEnd("fetch_read", "fetch_close")
fread_fails ==
  /\ fetch("fetch_read") /\ Ends("cut") /\ s' = Goto("fetch_close")
  /\ UNCHANGED <<backend, request>>

fetch_close ==
  /\ fetch("fetch_close")
  /\ Returns([Drop("", {"stream", "upload", "response"}) EXCEPT !.res = s.rc = SUCCESS])
  /\ UNCHANGED <<backend, request>>

fetch_network == fread_piece \/ fread_end

fetch_steps ==
  \/ fetch_parse_url \/ fetch_setenv \/ fetch_read_upload \/ fetchReqHTTP
  \/ fetch_response \/ fread_fails \/ fetch_close

-----------------------------------------------------------------------------
wasm(place) == At("wasm", place)

wasm_fetch_attr_init ==
  /\ wasm("begin")
  /\ \/ Returns([s EXCEPT !.rc = "INVAL"])
     \/ request.upload # "parts" /\ s' = Goto("wasm_headers") /\ UNCHANGED net
  /\ UNCHANGED <<backend, request>>

wasm_request_headers ==
  TryOrLeave("wasm_headers", {"headers"}, "wasm_upload", "NOMEM", {})

(* read_chunk fills a buffer that doubles.                                 *)
wasm_read_upload ==
  \/ /\ wasm("wasm_upload") /\ request.upload # "stream"
     /\ s' = BodySent("wasm_exec") /\ UNCHANGED <<backend, request, net>>
  \/ /\ backend = "wasm" /\ request.upload = "stream"
     /\ Try("wasm_upload", {"upload"}, "wasm_pieces", "NOMEM", "wasm_cleanup")
  \/ /\ wasm("wasm_pieces") /\ UNCHANGED <<backend, request, net>>
     /\ \/ s' \in {BodySent("wasm_exec"), Fail("wasm_cleanup", "NOMEM"),
                   ReadFails("wasm_cleanup", "CANCELED")}
        \/ s.taken < MaxUpload /\ s' = [Supplies("wasm_pieces") EXCEPT !.wired = @ + 1]

wasm_fetch_exec ==
  /\ wasm("wasm_exec") /\ UNCHANGED <<backend, request>>
  /\ \/ Arrives /\ s' = s
     \/ Ends("whole") /\ s' = Hold("wasm_response", {"fetch"})

(* No fetch, or one that did not get ready; or one that is ready without    *)
(* any data, which is how the browser reports a failure of the network and  *)
(* what the code takes for an empty response.                              *)
wasm_fetch_fails ==
  /\ wasm("wasm_exec") /\ Ends("cut")
  /\ s' \in {Fail("wasm_cleanup", "IO"),
             [Hold("wasm_cleanup", {"fetch"}) EXCEPT !.rc = "TIMEOUT"],
             Hold("wasm_response", {"fetch"})}
  /\ UNCHANGED <<backend, request>>

wasm_response ==
  /\ wasm("wasm_response")
  /\ s' \in {[Hold("wasm_body", {"response"}) EXCEPT !.res = TRUE],
             Fail("wasm_cleanup", "NOMEM")}
  /\ UNCHANGED <<backend, request, net>>

(* The body is copied; with on_chunk it is passed on at once and freed.    *)
wasm_body ==
  /\ wasm("wasm_body")
  /\ s' \in IF net.end = "cut" \/ net.arrived = 0 THEN {Goto("wasm_lines")}
            ELSE {Fail("wasm_cleanup", "NOMEM")} \cup
                 (IF request.streaming
                  THEN {[s EXCEPT !.pc = "wasm_lines", !.given = Collected],
                        [s EXCEPT !.pc = "wasm_cleanup", !.given = Collected,
                                  !.aborted = TRUE, !.rc = "CANCELED"]}
                  ELSE {[s EXCEPT !.pc = "wasm_lines", !.body = Collected]})
  /\ UNCHANGED <<backend, request, net>>

(* A header line that cannot be added is an error; without memory for the  *)
(* lines the response has no headers.                                      *)
wasm_response_headers ==
  /\ wasm("wasm_lines")
  /\ s' \in {Goto("wasm_cleanup"), Fail("wasm_cleanup", "IO"), Fail("wasm_cleanup", "NOMEM")}
  /\ UNCHANGED <<backend, request, net>>

(* An error frees the response, also the error of closing the fetch.       *)
wasm_cleanup ==
  /\ wasm("wasm_cleanup")
  /\ \E rc \in {s.rc} \cup (IF "fetch" \in s.held /\ s.rc = SUCCESS THEN {"IO"} ELSE {}) :
       Returns([Drop("", {"fetch", "headers", "upload", "response"}) EXCEPT
                  !.rc = rc, !.res = @ /\ rc = SUCCESS])
  /\ UNCHANGED <<backend, request>>

wasm_network == wasm_fetch_exec

wasm_steps ==
  \/ wasm_fetch_attr_init \/ wasm_request_headers \/ wasm_read_upload
  \/ wasm_fetch_fails \/ wasm_response \/ wasm_body \/ wasm_response_headers
  \/ wasm_cleanup
=============================================================================
