------------------------------- MODULE Sends -------------------------------
(***************************************************************************)
(* The send functions of all backends behind HttpClient.send: a client of   *)
(* one of the backends sends one request after the other on one context.   *)
(***************************************************************************)
EXTENDS SendCurl, SendUv, SendEvent, SendRaw, SendWindows, SendSoup,
        SendFetch, SendQuic, SendApple

CONSTANT Backends   \* the backends of the builds that are checked

ASSUME BackendNames ==
  Backends \subseteq {"curl", "libuv", "libevent", "raw", "winhttp", "wininet", "libsoup3",
                      "fetch", "wasm", "msh3", "picoquic", "xquic", "apple"}

VARIABLE calls      \* calls of send that have returned

sendVars == <<backend, request, s, net, calls>>

Init ==
  /\ backend \in Backends
  /\ request \in Requests
  /\ s = FreshCall
  /\ net = FreshNet
  /\ calls = 0

(* The steps of the code, and the failures its libraries report.           *)
Step ==
  /\ \/ backend = "curl" /\ curl_steps
     \/ backend = "libuv" /\ uv_steps
     \/ backend = "libevent" /\ event_steps
     \/ backend = "raw" /\ raw_steps
     \/ backend = "winhttp" /\ winhttp_steps
     \/ backend = "wininet" /\ wininet_steps
     \/ backend = "libsoup3" /\ soup_steps
     \/ backend = "fetch" /\ fetch_steps
     \/ backend = "wasm" /\ wasm_steps
     \/ backend = "apple" /\ apple_steps
     \/ backend = "msh3" /\ msh3_steps
     \/ http_picoquic_send
     \/ http_xquic_send
  /\ calls' = IF s'.pc = "returned" THEN calls + 1 ELSE calls

(* What the peer and the network decide.                                   *)
Network ==
  /\ \/ backend = "curl" /\ curl_network
     \/ backend = "libuv" /\ uv_network
     \/ backend = "libevent" /\ event_network
     \/ backend = "raw" /\ raw_network
     \/ backend = "winhttp" /\ winhttp_network
     \/ backend = "wininet" /\ wininet_network
     \/ backend = "libsoup3" /\ soup_network
     \/ backend = "fetch" /\ fetch_network
     \/ backend = "wasm" /\ wasm_network
     \/ backend = "apple" /\ apple_network
     \/ backend = "msh3" /\ (msh3_network \/ msh3_wait)
  /\ calls' = calls

(* The application sends the next request, which may be the same one.      *)
NextSend ==
  /\ s.pc = "returned" /\ calls < MaxSends
  /\ request' \in Requests
  /\ s' = FreshCall
  /\ net' = [FreshNet EXCEPT !.stale = net.stale]
  /\ UNCHANGED <<backend, calls>>

Done == s.pc = "returned" /\ calls = MaxSends /\ UNCHANGED sendVars

Next == Step \/ Network \/ NextSend \/ Done

-----------------------------------------------------------------------------
(* Where a send waits for the peer, in a call of its library.              *)
PeerWaits ==
  {"curl_perform", "event_dispatch", "soup_send", "fetch_request", "fetch_read",
   "wasm_exec", "apple_run", "msh3_wait", "raw_send",
   "winhttp_send_request", "winhttp_write", "winhttp_receive", "winhttp_read",
   "wininet_send_request", "wininet_write", "wininet_end", "wininet_read"}

(* The code gives the library no time-out: four backends never do, those   *)
(* that give whole seconds not below one, the rest not when none is        *)
(* configured.                                                             *)
Unlimited ==
  \/ backend \in {"fetch", "apple", "msh3", "raw"}
  \/ backend \in {"libsoup3", "libevent"} /\ request.timeout_ms \div 1000 = 0
  \/ backend \in {"curl", "winhttp", "wininet", "wasm"} /\ request.timeout_ms = 0

(* libuv has a loop of its own: without a timer it waits for the peer, and *)
(* a connection begun after the time-out is watched by no timer.           *)
NoTimeOut ==
  \/ s.pc \in PeerWaits /\ Unlimited /\ "complete" \notin net.pending
  \/ /\ backend = "libuv" /\ s.pc = "uv_run"
     /\ \/ "late" \in net.pending
        \/ request.timeout_ms = 0 /\ net.pending \cap {"connect", "write", "read"} # {}

(* The code goes on, and a library that was given a time-out reports.      *)
Spec == Init /\ [][Next]_sendVars /\ WF_sendVars(Step /\ ~NoTimeOut)

-----------------------------------------------------------------------------
(* Places where the code departs from the promise; the properties leave    *)
(* them out by name, and the README describes each.                        *)
LostUpload == {"upload error ignored", "upload piece lost", "body not sent"}
LostBody == {"body lost", "earlier pieces lost"}
NotStreamed == {"on_chunk not called"}
NotReleased == {"loop not closed", "request not freed", "connects after time-out",
                "response with error", "earlier pieces lost"}
AbortLost == {"upload error ignored", "late abort ignored"}
NoResponse == {"success without response"}

(* Backends that take the end of the connection for the end of the body.   *)
ReadsToEof == {"libuv", "raw", "fetch", "wasm", "msh3"}

Returned == s.pc = "returned"
Succeeded == Returned /\ s.rc = SUCCESS

(* raw gives the header block to on_chunk before the body.                 *)
GivenBody == IF backend = "raw" /\ s.given # <<>> THEN Tail(s.given) ELSE s.given

(* Every send implements the contract of HttpClient.send: pieces in order, *)
(* nothing after an abort, one result.  An error of a callback that the    *)
(* backend ignores does not count as an abort: libuv and libevent ignore   *)
(* read_chunk's, libuv on_chunk's on a connection begun after a time-out.   *)
Contract ==
  INSTANCE SendContract WITH
    Body <- MaxBody, Upload <- MaxUpload,
    sends <- calls,
    given <- GivenBody,
    taken <- s.taken,
    aborted <- s.aborted /\ s.slips \cap AbortLost = {},
    result <- IF ~Returned THEN "none" ELSE IF s.rc = SUCCESS THEN "success" ELSE "error"
ImplementsSend == Contract!Spec

(* A send that succeeds has a response and the whole message: it ended as   *)
(* the peer meant (where the backend can tell), the body or on_chunk has    *)
(* every piece, and the body of the request was passed on to its end, with  *)
(* every piece taken from read_chunk; curl's library may have asked for     *)
(* less.  libuv has no response when the headers never came, and fetch none *)
(* when its library fails without an error.                                *)
ReceivedWhole ==
  /\ s.slips \cap NoResponse = {} =>
       /\ net.end = "whole" \/ (net.end = "cut" /\ backend \in ReadsToEof)
       /\ s.res \/ (backend = "libuv" /\ net.end = "cut")
  /\ (net.end = "whole" /\ s.slips \cap (LostBody \cup NotStreamed) = {}) =>
       (IF request.streaming THEN GivenBody ELSE s.body) = Collected
SentWhole ==
  s.slips \cap LostUpload = {} => s.wired = s.taken /\ (s.sent \/ backend = "curl")
ResponseComplete == Succeeded => ReceivedWhole /\ SentWhole

(* Whatever fails, and wherever, a returned send has given back all it      *)
(* acquired, a send that failed leaves no response in *res, and when        *)
(* curl_easy_perform runs on the reused handle no option points to memory   *)
(* of a call that has returned.                                            *)
NothingLeftBehind ==
  /\ (Returned /\ s.slips \cap NotReleased = {}) =>
       /\ s.held = {}
       /\ s.rc # SUCCESS => ~s.res
  /\ (backend = "curl" /\ s.pc = "curl_perform") =>
       net.stale \cap {"POSTFIELDS", "READDATA", "HTTPHEADER", "WRITEDATA"} = {}

(* A call returns even if the peer falls silent, unless it is for ever in a *)
(* wait that the code gave no time-out.                                    *)
SendReturns == [](s.pc = "begin" => <>(Returned \/ []NoTimeOut))
=============================================================================
