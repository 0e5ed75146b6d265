----------------------------- MODULE WebSocket -----------------------------
(***************************************************************************)
(* The sending side of the WebSocket client (src/http_ws.c) and the task   *)
(* that owns the connection.  User threads call ws_send and ws_close,      *)
(* which append frames to the queue of a stream; one task runs             *)
(* sync_read_loop, inside whose client->send the transport pulls the queue *)
(* through ws_read_chunk_cb until it is told end of file; the task then    *)
(* parses the response, reports the end and frees the stream, while user   *)
(* threads may still hold a pointer to it.                                 *)
(*                                                                         *)
(* Each section between lock and unlock of the stream's mutex is a step.   *)
(* A frame is two pieces, header with key and masked payload, so that a    *)
(* read may end in the middle of it.                                       *)
(***************************************************************************)
EXTENDS Integers, Sequences

CONSTANTS Users,      \* threads that call ws_send and ws_close
          Spaces,     \* sizes, in pieces, of the buffers the transport reads into
          MaxCalls,   \* bound: calls of one user
          MaxLoops    \* bound: times the request is registered

ASSUME SpacesAssumption == Spaces \subseteq Nat \ {0}
ASSUME BoundsAssumption == MaxCalls \in Nat /\ MaxLoops \in Nat

VARIABLES request,    \* whether req->ws_ctx points to a stream
          made,       \* how many streams were allocated: the name of the last one
          live,       \* whether the last stream is not freed
          queue,      \* its queue, as pieces of frames
          closing,    \* its close_requested
          loop,       \* where the task is
          loops,      \* how often the task was registered
          reports,    \* the callbacks this run of the task called at its end
          at,         \* at[u]: where user u is
          calls,      \* calls[u]: the calls user u made
          held,       \* held[u]: the stream in u's local variable sctx
          accepted,   \* the pieces appended to the last stream
          wire,       \* the pieces of it the transport read
          ended       \* whether the transport was told its end

streamVars == <<request, made, live>>
frameVars == <<queue, closing, accepted, wire, ended>>
loopVars == <<loop, loops, reports>>
userVars == <<at, calls, held>>
vars == <<streamVars, frameVars, loopVars, userVars>>

Opcodes == {"data", "close"}
Pieces == [by : Users, opcode : Opcodes, part : {"header", "payload"}]
Frame(u, op) == <<[by |-> u, opcode |-> op, part |-> "header"],
                  [by |-> u, opcode |-> op, part |-> "payload"]>>

InTransport == {"sending", "asleep", "woken", "eof"}
LoopPlaces == {"idle", "init", "closed", "free", "unset", "error", "done"}
                \cup InTransport
UserPlaces == {"idle", "send", "close", "flag", "hung"}

TypeOK == /\ request \in BOOLEAN /\ live \in BOOLEAN /\ closing \in BOOLEAN
          /\ ended \in BOOLEAN
          /\ made \in 0 .. MaxLoops + 1 /\ loops \in 0 .. MaxLoops
          /\ queue \in Seq(Pieces) /\ accepted \in Seq(Pieces)
          /\ wire \in Seq(Pieces)
          /\ loop \in LoopPlaces
          /\ reports \subseteq {"on_error", "on_close"}
          /\ at \in [Users -> UserPlaces]
          /\ calls \in [Users -> 0 .. MaxCalls]
          /\ held \in [Users -> 0 .. MaxLoops + 1]
          /\ request => live \/ loop = "unset"
          /\ live => request
          /\ loop \in InTransport => live
          /\ loop = "unset" => ~live

(* The application may have called ws_init itself before it registers the  *)
(* request: only then can it send before the task has begun.               *)
Init == /\ request \in BOOLEAN /\ live = request
        /\ made = (IF request THEN 1 ELSE 0)
        /\ queue = <<>> /\ closing = FALSE /\ accepted = <<>> /\ wire = <<>>
        /\ ended = FALSE
        /\ loop = "idle" /\ loops = 0 /\ reports = {}
        /\ at = [u \in Users |-> "idle"]
        /\ calls = [u \in Users |-> 0]
        /\ held = [u \in Users |-> 0]

-----------------------------------------------------------------------------
(* The user threads.                                                       *)

UserAt(u, place) == at' = [at EXCEPT ![u] = place]

(* The stream in sctx is the one the task uses and is not freed.           *)
Valid(u) == live /\ held[u] = made

(* ws_send and ws_close read req->ws_ctx without a lock and return INVAL   *)
(* when it is NULL.                                                        *)
call_begins(u, place) ==
    /\ at[u] = "idle" /\ calls[u] < MaxCalls
    /\ calls' = [calls EXCEPT ![u] = @ + 1]
    /\ IF request THEN /\ UserAt(u, place)
                       /\ held' = [held EXCEPT ![u] = made]
                  ELSE UNCHANGED <<at, held>>
    /\ UNCHANGED <<streamVars, frameVars, loopVars>>

ws_send(u) == call_begins(u, "send")
ws_close(u) == call_begins(u, "close")

(* cond_signal: only the task waits.                                       *)
Signal == loop' = IF loop = "asleep" THEN "woken" ELSE loop

Mutant_send_after_close(u) ==
    /\ at[u] \in {"send", "close"} /\ Valid(u)
    /\ LET frame == Frame(u, IF at[u] = "close" THEN "close" ELSE "data")
       IN  queue' = queue \o frame /\ accepted' = accepted \o frame
    /\ Signal
    /\ UserAt(u, IF at[u] = "close" THEN "flag" ELSE "idle")
    /\ UNCHANGED <<streamVars, closing, wire, ended, loops, reports, calls, held>>

(* The frame is appended whole, in one section.                            *)
send_appends(u) ==
    /\ at[u] \in {"send", "close"} /\ Valid(u)
    /\ ~closing
    /\ LET frame == Frame(u, IF at[u] = "close" THEN "close" ELSE "data")
       IN  queue' = queue \o frame /\ accepted' = accepted \o frame
    /\ Signal
    /\ UserAt(u, IF at[u] = "close" THEN "flag" ELSE "idle")
    /\ UNCHANGED <<streamVars, closing, wire, ended, loops, reports, calls, held>>

send_refused(u) ==
    /\ at[u] \in {"send", "close"} /\ Valid(u)
    /\ closing
    /\ UserAt(u, "idle")
    /\ UNCHANGED <<streamVars, frameVars, loopVars, calls, held>>

(* No memory for the masked copy, or for a larger queue.                   *)
send_fails(u) ==
    /\ at[u] \in {"send", "close"}
    /\ UserAt(u, "idle")
    /\ UNCHANGED <<streamVars, frameVars, loopVars, calls, held>>

(* ws_close, after its ws_send returned, takes the mutex a second time.    *)
close_flags(u) ==
    /\ at[u] = "flag" /\ Valid(u)
    /\ closing' = TRUE
    /\ Signal
    /\ UserAt(u, "idle")
    /\ UNCHANGED <<streamVars, queue, accepted, wire, ended, loops, reports, calls, held>>

(* The task freed the stream between the read of req->ws_ctx and the lock, *)
(* or between the two sections of ws_close: the lock of a freed mutex      *)
(* fails, or never returns.                                                *)
call_on_freed_stream(u) ==
    /\ at[u] \in {"send", "close", "flag"} /\ ~Valid(u)
    /\ \E place \in {"idle", "hung"} : UserAt(u, place)
    /\ UNCHANGED <<streamVars, frameVars, loopVars, calls, held>>

User(u) == \/ ws_send(u) \/ ws_close(u) \/ send_appends(u) \/ send_refused(u)
           \/ send_fails(u) \/ close_flags(u) \/ call_on_freed_stream(u)

-----------------------------------------------------------------------------
(* The task.                                                               *)

(* async_register pushes the task: the first time, or after an earlier run.*)
async_register ==
    /\ loop \in {"idle", "done"} /\ loops < MaxLoops
    /\ loops' = loops + 1
    /\ loop' = "init"
    /\ reports' = {}
    /\ UNCHANGED <<streamVars, frameVars, userVars>>

(* ws_init keeps the stream of an earlier ws_init, with what is queued.    *)
ws_init == IF request
           THEN UNCHANGED <<streamVars, frameVars>>
           ELSE /\ request' = TRUE /\ live' = TRUE
                /\ made' = made + 1
                /\ queue' = <<>> /\ closing' = FALSE /\ ended' = FALSE
                /\ accepted' = <<>> /\ wire' = <<>>

init_succeeds == /\ loop = "init"
                 /\ ws_init
                 /\ loop' = "sending"
                 /\ UNCHANGED <<loops, reports, userVars>>

(* ws_init fails before the stream is attached, or a header or the parser  *)
(* fails afterwards and the stream stays attached.                         *)
init_fails == /\ loop = "init"
              /\ ws_init \/ UNCHANGED <<streamVars, frameVars>>
              /\ loop' = "error"
              /\ reports' = reports \cup {"on_error"}
              /\ UNCHANGED <<loops, userVars>>

MinOf(a, b) == IF a < b THEN a ELSE b

Mutant_read_drops_the_rest(n) ==
    /\ wire' = wire \o SubSeq(queue, 1, n)
    /\ queue' = <<>>

(* Copies the first n pieces out and moves the rest to the front.          *)
Take(n) == /\ wire' = wire \o SubSeq(queue, 1, n)
           /\ queue' = SubSeq(queue, n + 1, Len(queue))

Mutant_waits_for_data == queue = <<>>
MustWait == queue = <<>> /\ ~closing

(* ws_read_chunk_cb, called by the transport or woken in its wait.         *)
read_chunk_data ==
    /\ loop \in {"sending", "woken"}
    /\ queue # <<>>
    /\ \E space \in Spaces : Take(MinOf(space, Len(queue)))
    /\ loop' = "sending"
    /\ UNCHANGED <<streamVars, closing, accepted, ended, loops, reports, userVars>>

read_chunk_waits ==
    /\ loop \in {"sending", "woken"}
    /\ MustWait
    /\ loop' = "asleep"
    /\ UNCHANGED <<streamVars, frameVars, loops, reports, userVars>>

read_chunk_eof ==
    /\ loop \in {"sending", "woken"}
    /\ queue = <<>> /\ ~MustWait
    /\ ended' = TRUE
    /\ loop' = "eof"
    /\ UNCHANGED <<streamVars, queue, closing, accepted, wire, loops, reports, userVars>>

spurious_wakeup == /\ loop = "asleep"
                   /\ loop' = "woken"
                   /\ UNCHANGED <<streamVars, frameVars, loops, reports, userVars>>

(* client->send returns: with a response, whose body the parser accepts or *)
(* rejects, or without.  A server may answer before it has read everything.*)
CanReturn == loop \in {"sending", "eof"}

send_answered == /\ CanReturn
                 /\ loop' = "closed"
                 /\ UNCHANGED <<streamVars, frameVars, loops, reports, userVars>>

send_or_body_fails == /\ CanReturn
                      /\ loop' = "error"
                      /\ reports' = reports \cup {"on_error"}
                      /\ UNCHANGED <<streamVars, frameVars, loops, userVars>>

loop_reports_close == /\ loop = "closed"
                      /\ reports' = reports \cup {"on_close"}
                      /\ loop' = "free"
                      /\ UNCHANGED <<streamVars, frameVars, loops, userVars>>

(* The stream is freed first and req->ws_ctx reset after that.             *)
loop_frees == /\ loop = "free"
              /\ live' = FALSE
              /\ loop' = "unset"
              /\ UNCHANGED <<request, made, frameVars, loops, reports, userVars>>

loop_unsets == /\ loop = "unset"
               /\ request' = FALSE
               /\ loop' = "done"
               /\ UNCHANGED <<made, live, frameVars, loops, reports, userVars>>

(* async_task calls on_err once more and frees its argument; the stream    *)
(* stays attached to the request.                                          *)
task_fails == /\ loop = "error"
              /\ reports' = reports \cup {"on_error"}
              /\ loop' = "done"
              /\ UNCHANGED <<streamVars, frameVars, loops, userVars>>

(* The application frees a stream that a failed run left behind.           *)
ws_free == /\ loop = "done" /\ request
           /\ request' = FALSE /\ live' = FALSE
           /\ UNCHANGED <<made, frameVars, loopVars, userVars>>

Transport == read_chunk_data \/ read_chunk_waits \/ read_chunk_eof
               \/ send_answered \/ send_or_body_fails

Task == \/ init_succeeds \/ init_fails \/ Transport
        \/ loop_reports_close \/ loop_frees \/ loop_unsets \/ task_fails

Next == \/ \E u \in Users : User(u)
        \/ async_register \/ Task \/ spurious_wakeup \/ ws_free

Spec == Init /\ [][Next]_vars

(* The task is scheduled, and a transport that was told the end of the     *)
(* request body gets an answer or an error in the end.  Nothing is assumed *)
(* of the application: it need not send, close or register.                *)
Fairness == WF_vars(Task)
FairSpec == Spec /\ Fairness

-----------------------------------------------------------------------------
(* What the transport read, then what is queued, is what the user threads  *)
(* were told is sent, and that is whole frames: no frame is lost, repeated *)
(* or mixed with another thread's (http_ws.c:150-159, 1014-1044).          *)
WholeFrames(s) ==
    \E n \in 0 .. Len(s) :
       /\ Len(s) = 2 * n
       /\ \A k \in 1 .. n : \E u \in Users, op \in Opcodes :
             s[2 * k - 1] = Frame(u, op)[1] /\ s[2 * k] = Frame(u, op)[2]
StreamIsFrames == wire \o queue = accepted /\ WholeFrames(accepted)

(* The transport is told end of file only when everything accepted was     *)
(* read, and from then on no frame is accepted, not even one whose thread  *)
(* began ws_send before the close (http_ws.c:159-162, 999-1012).           *)
EndIsFinal == ended => wire = accepted /\ closing

(* The task sleeps in ws_read_chunk_cb only while there is nothing to send *)
(* and no close was requested: no append or close goes unnoticed.          *)
NoLostWakeup == loop = "asleep" => queue = <<>> /\ ~closing

(* Once a close is requested, a running task comes to its end and has      *)
(* reported the close or an error to the application.                      *)
Running == loop \notin {"idle", "done"}
CloseEndsLoop == (live /\ closing /\ Running) ~> (~Running /\ reports # {})
=============================================================================
