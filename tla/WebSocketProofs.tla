-------------------------- MODULE WebSocketProofs --------------------------
(***************************************************************************)
(* The sending side of the WebSocket client, for any number of user        *)
(* threads, calls and connections and any read sizes.                      *)
(***************************************************************************)
EXTENDS WebSocket, SequenceTheorems, TLAPS

(* Every stream but the one an application may have made itself belongs to *)
(* one registration, which needs it when it begins.                        *)
Counted == made <= loops + 1 /\ (loop = "init" => made <= loops)

(* End of file means a drained queue under a close request that stays.     *)
EndDrained == ended => queue = <<>> /\ closing

WebSocketInv ==
  /\ TypeOK
  /\ Counted
  /\ StreamIsFrames
  /\ EndDrained
  /\ NoLostWakeup

(* What the constants are.                                                 *)
LEMMA Consts ==
  /\ Spaces \subseteq Nat \ {0} /\ MaxCalls \in Nat /\ MaxLoops \in Nat
  BY SpacesAssumption, BoundsAssumption

(* A frame is its header followed by its payload.                          *)
LEMMA FramePieces ==
  ASSUME NEW u \in Users, NEW op \in Opcodes
  PROVE  /\ Frame(u, op) \in Seq(Pieces) /\ Len(Frame(u, op)) = 2
         /\ Frame(u, op)[1] \in Pieces /\ Frame(u, op)[2] \in Pieces
  BY DEF Frame, Pieces

(* Appending a frame to whole frames gives whole frames.                   *)
LEMMA AppendWhole ==
  ASSUME NEW s \in Seq(Pieces), WholeFrames(s), NEW u \in Users, NEW op \in Opcodes
  PROVE  WholeFrames(s \o Frame(u, op))
<1> DEFINE t == s \o Frame(u, op)
<1>1. PICK n \in 0 .. Len(s) :
         /\ Len(s) = 2 * n
         /\ \A k \in 1 .. n : \E v \in Users, o \in Opcodes :
               s[2 * k - 1] = Frame(v, o)[1] /\ s[2 * k] = Frame(v, o)[2]
  BY DEF WholeFrames
<1>2. /\ Len(s) \in Nat /\ Len(t) = 2 * (n + 1) /\ n + 1 \in 0 .. Len(t)
      /\ \A i \in 1 .. Len(s) : t[i] = s[i]
      /\ t[Len(s) + 1] = Frame(u, op)[1] /\ t[Len(s) + 2] = Frame(u, op)[2]
  <2> DEFINE f == Frame(u, op)
  <2>1. f \in Seq(Pieces) /\ Len(f) = 2
    BY FramePieces
  <2> HIDE DEF f
  <2>2. /\ Len(s) \in Nat /\ Len(s \o f) = Len(s) + 2
        /\ \A i \in 1 .. Len(s) : (s \o f)[i] = s[i]
        /\ (s \o f)[Len(s) + 1] = f[1] /\ (s \o f)[Len(s) + 2] = f[2]
    <3>1. /\ Len(s \o f) = Len(s) + Len(f)
          /\ \A i \in 1 .. Len(s) + Len(f) :
                (s \o f)[i] = IF i <= Len(s) THEN s[i] ELSE f[i - Len(s)]
      BY <2>1, ConcatProperties
    <3>2. Len(s) \in Nat
      OBVIOUS
    <3> HIDE <2>1
    <3>3. Len(f) = 2
      BY <2>1
    <3> QED BY <3>1, <3>2, <3>3
  <2>3. n + 1 \in 0 .. Len(s) + 2 /\ Len(s) + 2 = 2 * (n + 1)
    BY <1>1, <2>2
  <2> QED BY <2>2, <2>3 DEF f
<1>3. ASSUME NEW k \in 1 .. n + 1
      PROVE  \E v \in Users, o \in Opcodes :
               t[2 * k - 1] = Frame(v, o)[1] /\ t[2 * k] = Frame(v, o)[2]
  <2>1. CASE k \in 1 .. n
    <3>1. 2 * k - 1 \in 1 .. Len(s) /\ 2 * k \in 1 .. Len(s)
      BY <1>1, <1>2, <2>1
    <3>2. t[2 * k - 1] = s[2 * k - 1] /\ t[2 * k] = s[2 * k]
      BY <1>2, <3>1
    <3> QED BY <1>1, <2>1, <3>2
  <2>2. CASE k = n + 1
    <3>1. 2 * k - 1 = Len(s) + 1 /\ 2 * k = Len(s) + 2
      BY <1>1, <2>2
    <3>2. t[2 * k - 1] = Frame(u, op)[1] /\ t[2 * k] = Frame(u, op)[2]
      BY <1>2, <3>1
    <3> QED BY <3>2
  <2>3. n \in Nat
    BY <1>2
  <2>4. k \in 1 .. n \/ k = n + 1
    BY <2>3
  <2> QED BY <2>1, <2>2, <2>4
<1> HIDE DEF t
<1>4. WholeFrames(t)
  BY <1>2, <1>3 DEF WholeFrames
<1> QED BY <1>4 DEF t

(* Cutting a sequence in two loses nothing.                                *)
LEMMA CutSeq ==
  ASSUME NEW s \in Seq(Pieces), NEW n \in 0 .. Len(s)
  PROVE  /\ SubSeq(s, 1, n) \in Seq(Pieces)
         /\ SubSeq(s, n + 1, Len(s)) \in Seq(Pieces)
         /\ SubSeq(s, 1, n) \o SubSeq(s, n + 1, Len(s)) = s
<1> DEFINE a == SubSeq(s, 1, n)
           b == SubSeq(s, n + 1, Len(s))
<1>1. Len(s) \in Nat /\ n \in Nat /\ n <= Len(s)
  OBVIOUS
<1>2. /\ a \in Seq(Pieces) /\ Len(a) = n
      /\ \A i \in 1 .. n : a[i] = s[i]
  <2>1. \A i \in 1 .. n : s[i] \in Pieces
    BY <1>1
  <2> QED BY <1>1, <2>1, SubSeqProperties
<1>3. /\ b \in Seq(Pieces) /\ Len(b) = Len(s) - n
      /\ \A i \in 1 .. Len(s) - n : b[i] = s[n + i]
  <2>1. \A i \in n + 1 .. Len(s) : s[i] \in Pieces
    BY <1>1
  <2> QED BY <1>1, <2>1, SubSeqProperties
<1> HIDE DEF a, b
<1>4. /\ a \o b \in Seq(Pieces) /\ Len(a \o b) = Len(s)
      /\ \A i \in 1 .. Len(s) : (a \o b)[i] = s[i]
  <2>1. /\ a \o b \in Seq(Pieces) /\ Len(a \o b) = Len(a) + Len(b)
        /\ \A i \in 1 .. Len(a) + Len(b) :
              (a \o b)[i] = IF i <= Len(a) THEN a[i] ELSE b[i - Len(a)]
    BY <1>2, <1>3, ConcatProperties
  <2>2. Len(a) + Len(b) = Len(s)
    BY <1>1, <1>2, <1>3
  <2>3. ASSUME NEW i \in 1 .. Len(s) PROVE (a \o b)[i] = s[i]
    <3>1. CASE i <= n
      BY <1>1, <1>2, <2>1, <2>2, <3>1
    <3>2. CASE ~(i <= n)
      <4>1. i - n \in 1 .. Len(s) - n /\ n + (i - n) = i
        BY <1>1, <3>2
      <4>2. b[i - n] = s[i]
        BY <1>3, <4>1
      <4>3. (a \o b)[i] = b[i - n]
        BY <1>1, <1>2, <2>1, <2>2, <3>2
      <4> QED BY <4>2, <4>3
    <3> QED BY <3>1, <3>2
  <2> QED BY <2>1, <2>2, <2>3
<1>5. a \o b = s
  BY <1>4, SeqEqual
<1> QED BY <1>2, <1>3, <1>5 DEF a, b

(* Concatenation stays in its type and is associative.                     *)
LEMMA ConcatThree ==
  ASSUME NEW x \in Seq(Pieces), NEW y \in Seq(Pieces), NEW z \in Seq(Pieces)
  PROVE  /\ x \o y \in Seq(Pieces) /\ (x \o y) \o z = x \o (y \o z)
  BY ConcatProperties, ConcatAssociative

(* What taking n pieces does to the stream.                                *)
LEMMA TakeKeepsStream ==
  ASSUME TypeOK, NEW n \in 0 .. Len(queue), Take(n)
  PROVE  queue' \in Seq(Pieces) /\ wire' \in Seq(Pieces) /\ wire' \o queue' = wire \o queue
<1>1. queue \in Seq(Pieces) /\ wire \in Seq(Pieces)
  BY DEF TypeOK
<1> DEFINE a == SubSeq(queue, 1, n)
           b == SubSeq(queue, n + 1, Len(queue))
<1>2. a \in Seq(Pieces) /\ b \in Seq(Pieces) /\ a \o b = queue
  BY <1>1, CutSeq
<1>3. wire' = wire \o a /\ queue' = b
  BY DEF Take
<1> HIDE DEF a, b
<1>4. wire \o a \in Seq(Pieces) /\ (wire \o a) \o b = wire \o (a \o b)
  BY <1>1, <1>2, ConcatThree
<1> QED BY <1>1, <1>2, <1>3, <1>4

(* The size read is a positive number of the queued pieces.                *)
LEMMA ReadSize ==
  ASSUME TypeOK, queue # <<>>, NEW space \in Spaces
  PROVE  MinOf(space, Len(queue)) \in 1 .. Len(queue)
<1>1. queue \in Seq(Pieces) /\ Len(queue) \in Nat /\ Len(queue) # 0
  BY DEF TypeOK
<1> QED BY <1>1, Consts DEF MinOf

(* Appending a frame keeps the stream's types and shape.                    *)
LEMMA AppendKeepsStream ==
  ASSUME TypeOK, StreamIsFrames, NEW u \in Users, NEW op \in Opcodes,
         queue' = queue \o Frame(u, op), accepted' = accepted \o Frame(u, op), wire' = wire
  PROVE  queue' \in Seq(Pieces) /\ accepted' \in Seq(Pieces) /\ StreamIsFrames'
<1>1. queue \in Seq(Pieces) /\ wire \in Seq(Pieces) /\ accepted \in Seq(Pieces)
  BY DEF TypeOK
<1>2. Frame(u, op) \in Seq(Pieces)
  BY FramePieces
<1>3. queue' \in Seq(Pieces) /\ accepted' \in Seq(Pieces)
  BY <1>1, <1>2, ConcatThree
<1>4. WholeFrames(accepted \o Frame(u, op))
  BY <1>1, AppendWhole DEF StreamIsFrames
<1>5. (wire \o queue) \o Frame(u, op) = wire \o (queue \o Frame(u, op))
  BY <1>1, <1>2, ConcatThree
<1>6. wire \o queue = accepted
  BY DEF StreamIsFrames
<1>7. WholeFrames(accepted')
  BY <1>4
<1>8. wire' \o queue' = accepted'
  BY <1>5, <1>6
<1> QED BY <1>3, <1>7, <1>8 DEF StreamIsFrames

(* An empty stream is a sequence of whole frames.                           *)
LEMMA EmptyStream == <<>> \in Seq(Pieces) /\ <<>> \o <<>> = <<>> /\ WholeFrames(<<>>)
<1>1. Len(<<>>) = 0 /\ <<>> \in Seq(Pieces)
  OBVIOUS
<1>2. <<>> \o <<>> = <<>>
  BY <1>1, ConcatEmptySeq
<1>3. WholeFrames(<<>>)
  BY <1>1 DEF WholeFrames
<1> QED BY <1>1, <1>2, <1>3

(* The stream that ws_init attaches, or finds, when a task begins.          *)
LEMMA InitStream ==
  ASSUME WebSocketInv, loop = "init", loop' \in {"sending", "error"},
         UNCHANGED <<loops, userVars>>,
         reports' \subseteq {"on_error", "on_close"}, ws_init
  PROVE  WebSocketInv'
<1>1. loop' \in LoopPlaces /\ loop' \notin {"asleep", "init", "unset"}
  BY DEF LoopPlaces, InTransport
<1>2. CASE request
  <2>1. UNCHANGED <<streamVars, frameVars>> /\ live
    BY <1>2 DEF ws_init, WebSocketInv, TypeOK
  <2>2. TypeOK'
    BY <2>1, <1>1, <1>2 DEF WebSocketInv, TypeOK, streamVars, frameVars, userVars
  <2>3. Counted' /\ StreamIsFrames' /\ EndDrained' /\ NoLostWakeup'
    BY <2>1, <1>1 DEF WebSocketInv, Counted, StreamIsFrames, EndDrained, NoLostWakeup,
                      streamVars, frameVars
  <2> QED BY <2>2, <2>3 DEF WebSocketInv
<1>3. CASE ~request
  <2>1. /\ request' = TRUE /\ live' = TRUE /\ made' = made + 1
        /\ queue' = <<>> /\ closing' = FALSE /\ ended' = FALSE
        /\ accepted' = <<>> /\ wire' = <<>>
    BY <1>3 DEF ws_init
  <2>2. /\ loops \in 0 .. MaxLoops /\ made \in 0 .. MaxLoops + 1 /\ made <= loops
    BY DEF WebSocketInv, TypeOK, Counted
  <2>3. Counted' /\ made' \in 0 .. MaxLoops + 1
    BY <2>1, <2>2, <1>1, Consts DEF Counted
  <2>4. TypeOK'
    BY <2>1, <2>3, <1>1, EmptyStream DEF WebSocketInv, TypeOK, userVars
  <2>5. StreamIsFrames' /\ EndDrained' /\ NoLostWakeup'
    BY <2>1, EmptyStream DEF StreamIsFrames, EndDrained, NoLostWakeup
  <2> QED BY <2>3, <2>4, <2>5 DEF WebSocketInv
<1> QED BY <1>2, <1>3

(* A step of a user thread.                                                 *)
LEMMA UserStep ==
  ASSUME WebSocketInv, NEW u \in Users, User(u)
  PROVE  WebSocketInv'
<1> USE Consts
<1>0. /\ at \in [Users -> UserPlaces] /\ calls \in [Users -> 0 .. MaxCalls]
      /\ held \in [Users -> 0 .. MaxLoops + 1] /\ made \in 0 .. MaxLoops + 1
  BY DEF WebSocketInv, TypeOK
<1>1. ASSUME NEW place \in {"send", "close"}, call_begins(u, place) PROVE WebSocketInv'
  <2>1. /\ at' \in [Users -> UserPlaces] /\ calls' \in [Users -> 0 .. MaxCalls]
        /\ held' \in [Users -> 0 .. MaxLoops + 1]
    BY <1>0, <1>1 DEF call_begins, UserAt, UserPlaces
  <2>2. UNCHANGED <<streamVars, frameVars, loopVars>>
    BY <1>1 DEF call_begins
  <2>3. TypeOK'
    BY <2>1, <2>2 DEF WebSocketInv, TypeOK, streamVars, frameVars, loopVars
  <2> QED BY <2>2, <2>3 DEF WebSocketInv, Counted, StreamIsFrames, EndDrained, NoLostWakeup,
                            streamVars, frameVars, loopVars
<1>2. CASE send_appends(u)
  <2>1. PICK op \in Opcodes : queue' = queue \o Frame(u, op) /\ accepted' = accepted \o Frame(u, op)
    BY <1>2 DEF send_appends, Opcodes
  <2>2. /\ UNCHANGED <<streamVars, closing, wire, ended, loops, reports, calls, held>>
        /\ ~closing /\ Signal /\ live
        /\ at' \in [Users -> UserPlaces]
    BY <1>0, <1>2 DEF send_appends, UserAt, UserPlaces, Valid
  <2>3. queue' \in Seq(Pieces) /\ accepted' \in Seq(Pieces) /\ StreamIsFrames'
    BY <2>1, <2>2, AppendKeepsStream DEF WebSocketInv
  <2>4. /\ loop' \in LoopPlaces /\ loop' # "asleep" /\ (loop' = "init" <=> loop = "init")
        /\ (loop' \in InTransport <=> loop \in InTransport) /\ (loop' = "unset" <=> loop = "unset")
    BY <2>2 DEF Signal, LoopPlaces, InTransport, WebSocketInv, TypeOK
  <2>5. TypeOK'
    BY <2>2, <2>3, <2>4 DEF WebSocketInv, TypeOK, streamVars
  <2>6. Counted' /\ EndDrained' /\ NoLostWakeup'
    BY <2>2, <2>4 DEF WebSocketInv, Counted, EndDrained, NoLostWakeup, streamVars
  <2> QED BY <2>3, <2>5, <2>6 DEF WebSocketInv
<1>3. CASE send_refused(u) \/ send_fails(u) \/ call_on_freed_stream(u)
  <2>1. at' \in [Users -> UserPlaces]
    BY <1>0, <1>3 DEF send_refused, send_fails, call_on_freed_stream, UserAt, UserPlaces
  <2>2. UNCHANGED <<streamVars, frameVars, loopVars, calls, held>>
    BY <1>3 DEF send_refused, send_fails, call_on_freed_stream
  <2>3. TypeOK'
    BY <2>1, <2>2 DEF WebSocketInv, TypeOK, streamVars, frameVars, loopVars
  <2> QED BY <2>2, <2>3 DEF WebSocketInv, Counted, StreamIsFrames, EndDrained, NoLostWakeup,
                            streamVars, frameVars, loopVars
<1>4. CASE close_flags(u)
  <2>1. /\ UNCHANGED <<streamVars, queue, accepted, wire, ended, loops, reports, calls, held>>
        /\ closing' = TRUE /\ Signal /\ live
        /\ at' \in [Users -> UserPlaces]
    BY <1>0, <1>4 DEF close_flags, UserAt, UserPlaces, Valid
  <2>2. /\ loop' \in LoopPlaces /\ loop' # "asleep" /\ (loop' = "init" <=> loop = "init")
        /\ (loop' \in InTransport <=> loop \in InTransport) /\ (loop' = "unset" <=> loop = "unset")
    BY <2>1 DEF Signal, LoopPlaces, InTransport, WebSocketInv, TypeOK
  <2>3. TypeOK'
    BY <2>1, <2>2 DEF WebSocketInv, TypeOK, streamVars
  <2>4. Counted' /\ StreamIsFrames' /\ EndDrained' /\ NoLostWakeup'
    BY <2>1, <2>2 DEF WebSocketInv, Counted, StreamIsFrames, EndDrained, NoLostWakeup, streamVars
  <2> QED BY <2>3, <2>4 DEF WebSocketInv
<1> QED BY <1>1, <1>2, <1>3, <1>4 DEF User, ws_send, ws_close

(* Steps that move only the task, to a place that needs no more than the    *)
(* one it leaves.                                                           *)
LEMMA MoveTask ==
  ASSUME WebSocketInv, UNCHANGED <<streamVars, frameVars, userVars>>,
         loops' \in 0 .. MaxLoops, loops' >= loops,
         loop' \in LoopPlaces \ {"unset"}, loop # "unset",
         loop' = "init" => loops' = loops + 1,
         loop' \in InTransport => loop \in InTransport,
         loop' = "asleep" => queue = <<>> /\ ~closing,
         reports' \subseteq {"on_error", "on_close"}
  PROVE  WebSocketInv'
<1>1. TypeOK'
  BY DEF WebSocketInv, TypeOK, streamVars, frameVars, userVars
<1>2. Counted'
  <2>1. made' = made /\ made \in Nat /\ loops \in Nat /\ loops' \in Nat /\ made <= loops + 1
    BY Consts DEF WebSocketInv, TypeOK, Counted, streamVars
  <2>2. ASSUME NEW m \in Nat, NEW a \in Nat, NEW b \in Nat, m <= a + 1, b >= a
        PROVE  m <= b + 1 /\ (b = a + 1 => m <= b)
    BY <2>2
  <2>3. made <= loops' + 1 /\ (loops' = loops + 1 => made <= loops')
    BY <2>1, <2>2
  <2> QED BY <2>1, <2>3 DEF Counted
<1>3. StreamIsFrames' /\ EndDrained' /\ NoLostWakeup'
  BY DEF WebSocketInv, StreamIsFrames, EndDrained, NoLostWakeup, frameVars
<1> QED BY <1>1, <1>2, <1>3 DEF WebSocketInv

(* A step of the task, a registration, a wakeup or a release by the         *)
(* application.                                                             *)
LEMMA TaskStep ==
  ASSUME WebSocketInv, async_register \/ Task \/ spurious_wakeup \/ ws_free
  PROVE  WebSocketInv'
<1> USE Consts
<1>0. /\ loops \in 0 .. MaxLoops /\ made \in 0 .. MaxLoops + 1
      /\ reports \subseteq {"on_error", "on_close"}
      /\ queue \in Seq(Pieces) /\ wire \in Seq(Pieces) /\ accepted \in Seq(Pieces)
  BY DEF WebSocketInv, TypeOK
<1>1. CASE async_register
  <2>1. /\ UNCHANGED <<streamVars, frameVars, userVars>> /\ loop # "unset"
        /\ loops' = loops + 1 /\ loops' \in 0 .. MaxLoops /\ loop' = "init" /\ reports' = {}
    BY <1>0, <1>1 DEF async_register
  <2>2. loop' \in LoopPlaces \ {"unset"} /\ loop' \notin InTransport
    BY <2>1 DEF LoopPlaces, InTransport
  <2> QED BY <1>0, <2>1, <2>2, MoveTask
<1>2. CASE init_succeeds \/ (init_fails /\ ws_init)
  BY <1>0, <1>2, InitStream DEF init_succeeds, init_fails
<1>3. CASE \/ init_fails /\ UNCHANGED <<streamVars, frameVars>>
           \/ read_chunk_waits \/ spurious_wakeup
           \/ send_answered \/ send_or_body_fails \/ loop_reports_close \/ task_fails
  <2>1. /\ UNCHANGED <<streamVars, frameVars, userVars>> /\ loops' = loops
        /\ loop # "unset" /\ loop' \in {"asleep", "woken", "closed", "free", "error", "done"}
        /\ loop' \in {"asleep", "woken"} => loop \in InTransport
        /\ loop' = "asleep" => queue = <<>> /\ ~closing
        /\ reports' \subseteq {"on_error", "on_close"}
    BY <1>0, <1>3 DEF init_fails, read_chunk_waits, MustWait, spurious_wakeup, send_answered,
                      send_or_body_fails, CanReturn, loop_reports_close, task_fails, InTransport
  <2>2. /\ loop' \in LoopPlaces \ {"unset"} /\ loop' # "init"
        /\ loop' \in InTransport => loop \in InTransport
    BY <2>1 DEF LoopPlaces, InTransport
  <2> QED BY <1>0, <2>1, <2>2, MoveTask
<1>4. CASE read_chunk_data
  <2>1. /\ queue # <<>> /\ loop \in InTransport /\ loop' = "sending"
        /\ UNCHANGED <<streamVars, closing, accepted, ended, loops, reports, userVars>>
    BY <1>4 DEF read_chunk_data, InTransport
  <2>2. PICK space \in Spaces : Take(MinOf(space, Len(queue)))
    BY <1>4 DEF read_chunk_data
  <2>3. MinOf(space, Len(queue)) \in 0 .. Len(queue)
    BY <2>1, ReadSize DEF WebSocketInv
  <2>4. queue' \in Seq(Pieces) /\ wire' \in Seq(Pieces) /\ wire' \o queue' = wire \o queue
    BY <2>2, <2>3, TakeKeepsStream DEF WebSocketInv
  <2>5. loop' \in LoopPlaces /\ loop' \in InTransport /\ loop' \notin {"asleep", "init", "unset"}
    BY <2>1 DEF LoopPlaces, InTransport
  <2>6. TypeOK'
    BY <2>1, <2>4, <2>5 DEF WebSocketInv, TypeOK, streamVars, userVars, InTransport
  <2>7. Counted' /\ NoLostWakeup' /\ StreamIsFrames'
    BY <2>1, <2>4, <2>5 DEF WebSocketInv, Counted, NoLostWakeup, StreamIsFrames, streamVars
  <2>8. EndDrained'
    BY <2>1 DEF WebSocketInv, EndDrained
  <2> QED BY <2>6, <2>7, <2>8 DEF WebSocketInv
<1>5. CASE read_chunk_eof
  <2>1. /\ queue = <<>> /\ closing /\ ended' = TRUE /\ loop' = "eof" /\ loop \in InTransport
        /\ UNCHANGED <<streamVars, queue, closing, accepted, wire, loops, reports, userVars>>
    BY <1>5 DEF read_chunk_eof, MustWait, InTransport
  <2>2. TypeOK'
    BY <2>1 DEF WebSocketInv, TypeOK, streamVars, userVars, LoopPlaces, InTransport
  <2>3. Counted' /\ StreamIsFrames' /\ EndDrained' /\ NoLostWakeup'
    BY <2>1 DEF WebSocketInv, Counted, StreamIsFrames, EndDrained, NoLostWakeup, streamVars
  <2> QED BY <2>2, <2>3 DEF WebSocketInv
<1>6. CASE loop_frees \/ loop_unsets \/ ws_free
  <2>1. /\ UNCHANGED <<made, frameVars, loops, reports, userVars>> /\ live' = FALSE
        /\ loop' \in {"unset", "done"} /\ (request' => loop' = "unset") /\ request' \in BOOLEAN
    BY <1>6 DEF loop_frees, loop_unsets, ws_free, loopVars, WebSocketInv, TypeOK, InTransport
  <2>2. TypeOK'
    BY <2>1 DEF WebSocketInv, TypeOK, frameVars, userVars, LoopPlaces, InTransport
  <2>3. Counted' /\ StreamIsFrames' /\ EndDrained' /\ NoLostWakeup'
    BY <2>1 DEF WebSocketInv, Counted, StreamIsFrames, EndDrained, NoLostWakeup, frameVars
  <2> QED BY <2>2, <2>3 DEF WebSocketInv
<1> QED BY <1>1, <1>2, <1>3, <1>4, <1>5, <1>6 DEF Task, Transport, init_fails

(* The invariant holds before anything happened.                            *)
LEMMA WebSocketInit == Init => WebSocketInv
<1> SUFFICES ASSUME Init PROVE WebSocketInv
  OBVIOUS
<1>1. /\ made \in 0 .. MaxLoops + 1 /\ loops \in 0 .. MaxLoops
      /\ calls \in [Users -> 0 .. MaxCalls] /\ held \in [Users -> 0 .. MaxLoops + 1]
      /\ at \in [Users -> UserPlaces]
  BY Consts DEF Init, UserPlaces
<1>2. /\ queue \in Seq(Pieces) /\ accepted \in Seq(Pieces) /\ wire \in Seq(Pieces)
      /\ reports \subseteq {"on_error", "on_close"}
  BY EmptyStream DEF Init
<1>3. TypeOK
  <2>1. request \in BOOLEAN /\ live \in BOOLEAN /\ (request => live) /\ (live => request)
    BY Zenon DEF Init
  <2>2. closing \in BOOLEAN /\ ended \in BOOLEAN /\ loop = "idle"
    BY DEF Init
  <2>3. loop \in LoopPlaces /\ loop \notin InTransport /\ loop # "unset"
    BY <2>2 DEF LoopPlaces, InTransport
  <2> QED BY <1>1, <1>2, <2>1, <2>2, <2>3 DEF TypeOK
<1>4. Counted /\ StreamIsFrames /\ EndDrained /\ NoLostWakeup
  BY EmptyStream DEF Init, Counted, StreamIsFrames, EndDrained, NoLostWakeup
<1> QED BY <1>3, <1>4 DEF WebSocketInv

(* However user threads, the transport and the task interleave, fail and    *)
(* start again: the transport reads whole frames in the order in which they *)
(* were accepted, end of file means that every accepted frame was read and  *)
(* that none will be accepted any more, and the task sleeps only while      *)
(* there is nothing to send and no close to notice.                         *)
THEOREM WebSocketTheorem ==
  Spec => [](TypeOK /\ StreamIsFrames /\ EndIsFinal /\ NoLostWakeup)
<1>1. Init => WebSocketInv
  BY WebSocketInit
<1>2. WebSocketInv /\ [Next]_vars => WebSocketInv'
  <2> SUFFICES ASSUME WebSocketInv, [Next]_vars PROVE WebSocketInv'
    OBVIOUS
  <2>1. CASE UNCHANGED vars
    BY <2>1 DEF vars, streamVars, frameVars, loopVars, userVars, WebSocketInv, TypeOK, Counted,
                StreamIsFrames, EndDrained, NoLostWakeup
  <2> QED BY <2>1, UserStep, TaskStep DEF Next
<1>3. WebSocketInv => TypeOK /\ StreamIsFrames /\ EndIsFinal /\ NoLostWakeup
  <2> SUFFICES ASSUME WebSocketInv PROVE EndIsFinal
    BY DEF WebSocketInv
  <2>1. wire \in Seq(Pieces) /\ wire \o queue = accepted /\ EndDrained
    BY DEF WebSocketInv, TypeOK, StreamIsFrames
  <2>2. wire \o <<>> = wire
    BY <2>1, ConcatEmptySeq
  <2> QED BY <2>1, <2>2 DEF EndDrained, EndIsFinal
<1> QED BY <1>1, <1>2, <1>3, PTL DEF Spec

(* The end of file the transport was given is final: all that was accepted  *)
(* had been read by then, and the close flag, which refuses every further   *)
(* frame, stays set.                                                        *)
THEOREM EndTheorem == Spec => []EndIsFinal
BY WebSocketTheorem, PTL
=============================================================================
