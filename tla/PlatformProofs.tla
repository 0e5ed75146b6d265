--------------------------- MODULE PlatformProofs ---------------------------
(***************************************************************************)
(* The message bus, batches of requests and coroutines with threads, for    *)
(* any number of messages, requests and coroutines and any bounds: messages *)
(* are handled in order and their nodes owned, futures are final, the loop  *)
(* serves curl, a batch stops at its first error and coroutines run in      *)
(* turn.  Together the parts of Platform keep what is proved of each.       *)
(***************************************************************************)
EXTENDS Platform, PartsProofs

-----------------------------------------------------------------------------
(* The message bus: its list is a queue, handlers are called in the order   *)
(* of the sends, and no node leaks or is used after it was freed.           *)

(* The inductive invariant.  Running messages are older than the head, so   *)
(* that freeing one can disturb neither the list nor another handler, and   *)
(* a freed bus is in no call of process.                                    *)
RunningHandled ==
  \A f \in 1 .. Depth : stack[f].node <= Len(handled)

FreedIdle == ~alive => Depth = 0

QueueInv ==
  /\ Len(handled) <= sent
  /\ FreedIdle
  /\ HandledInOrder
  /\ ListIsQueue

BusInv ==
  /\ TypeOK
  /\ QueueInv
  /\ RunningHandled
  /\ NodesOwned

(* What the constants are.                                                  *)
LEMMA Consts == NULL = 0 /\ MaxSends \in Nat /\ MaxActors \in Nat /\ Nodes = 1 .. MaxSends
  BY BusAssumption DEF NULL, Nodes

(* Inside process there is a call on top of the stack; taking it off leaves *)
(* the calls below as they were.                                            *)
LEMMA StackTop ==
  ASSUME stack \in Seq(Frame), Depth > 0
  PROVE  /\ Depth \in Nat
         /\ Top \in Frame /\ Depth \in DOMAIN stack
         /\ Pop \in Seq(Frame) /\ Len(Pop) = Depth - 1
         /\ \A f \in 1 .. Depth - 1 : Pop[f] = stack[f]
<1>1. Len(stack) \in Nat /\ Len(stack) \in DOMAIN stack /\ DOMAIN stack = 1 .. Len(stack)
  BY DEF Depth
<1>2. stack[Len(stack)] \in Frame
  BY <1>1
<1>3. 1 .. Len(stack) - 1 \subseteq DOMAIN stack
  BY <1>1
<1>4. Pop = [f \in 1 .. Len(stack) - 1 |-> stack[f]]
  BY <1>1 DEF Pop, Depth
<1>5. Len(Pop) = Len(stack) - 1 /\ Pop \in Seq(Frame)
  BY <1>1, <1>3, <1>4
<1> QED BY <1>1, <1>2, <1>3, <1>4, <1>5 DEF Depth, Top

(* Every step keeps every variable in its type.                             *)
LEMMA TypeStep == ASSUME TypeOK, [Next]_vars PROVE TypeOK'
<1> USE Consts
<1>1. CASE abstract_http_actor_spawn
  BY <1>1 DEF abstract_http_actor_spawn, list, TypeOK
<1>2. ASSUME NEW actor \in 1 .. actors, abstract_http_actor_send(actor) PROVE TypeOK'
  <2>1. sent + 1 \in Nodes /\ actor \in 0 .. MaxActors
    BY <1>2 DEF abstract_http_actor_send, TypeOK
  <2>2. next' \in [Nodes -> Nodes \cup {NULL}] /\ head' \in Nodes \cup {NULL}
    <3>1. CASE head = NULL
      BY <1>2, <2>1, <3>1 DEF abstract_http_actor_send, TypeOK
    <3>2. CASE head # NULL
      BY <1>2, <2>1, <3>2 DEF abstract_http_actor_send, TypeOK
    <3> QED BY <3>1, <3>2
  <2>3. /\ receiver' \in [Nodes -> 0 .. MaxActors] /\ live' \subseteq Nodes
        /\ tail' \in Nodes \cup {NULL} /\ sent' \in 0 .. MaxSends
    BY <1>2, <2>1 DEF abstract_http_actor_send, TypeOK
  <2>4. UNCHANGED <<alive, actors, stack, handled, reported, failed>>
    BY <1>2 DEF abstract_http_actor_send
  <2> QED BY <2>2, <2>3, <2>4 DEF TypeOK
<1>3. CASE process_begin
  <2>1. stack' \in Seq(Frame)
    BY <1>3 DEF process_begin, TypeOK, Frame
  <2> QED BY <1>3, <2>1 DEF process_begin, list, TypeOK
<1>4. CASE process_next
  <2>1. Top \in Frame /\ Depth \in DOMAIN stack /\ head \in Nodes
    BY <1>4, StackTop DEF process_next, TypeOK
  <2>2. stack' \in Seq(Frame)
    <3>1. stack' = [stack EXCEPT ![Depth] = [stack[Depth] EXCEPT !.node = head]]
      BY <1>4 DEF process_next
    <3>2. [stack[Depth] EXCEPT !.node = head] \in Frame
      BY <2>1 DEF Top, Frame
    <3> HIDE DEF Frame
    <3> QED BY <2>1, <3>1, <3>2 DEF TypeOK
  <2>3. handled' \in Seq(Nodes) /\ head' \in Nodes \cup {NULL} /\ tail' \in Nodes \cup {NULL}
    BY <1>4, <2>1 DEF process_next, TypeOK
  <2> QED BY <1>4, <2>2, <2>3 DEF process_next, TypeOK
<1>5. CASE handler_succeeds
  <2>1. Top \in Frame /\ Depth \in DOMAIN stack
    BY <1>5, StackTop DEF handler_succeeds, TypeOK
  <2>2. [node |-> NULL, count |-> Top.count + 1] \in Frame
    BY <2>1 DEF Frame
  <2>3. stack' \in Seq(Frame)
    BY <1>5, <2>1, <2>2 DEF handler_succeeds, TypeOK
  <2> QED BY <1>5, <2>3 DEF handler_succeeds, TypeOK
<1>6. CASE handler_fails \/ process_end
  <2>1. Top.count \in Nat /\ Pop \in Seq(Frame)
    BY <1>6, StackTop DEF handler_fails, process_end, TypeOK, Frame
  <2>2. CASE handler_fails
    <3>1. reported' \in Nat /\ stack' \in Seq(Frame) /\ failed' \in Nat /\ live' \subseteq Nodes
      <4>1. stack' \in Seq(Frame)
        BY <2>1, <2>2 DEF handler_fails
      <4>2. reported' \in Nat /\ failed' \in Nat
        BY <2>1, <2>2 DEF handler_fails, TypeOK
      <4>3. live' \subseteq Nodes
        BY <2>2 DEF handler_fails, TypeOK
      <4> QED BY <4>1, <4>2, <4>3
    <3> QED BY <2>2, <3>1 DEF handler_fails, TypeOK
  <2>3. CASE process_end
    <3>1. reported' \in Nat /\ stack' \in Seq(Frame)
      BY <2>1, <2>3 DEF process_end, TypeOK
    <3> QED BY <2>3, <3>1 DEF process_end, list, TypeOK
  <2> QED BY <1>6, <2>2, <2>3
<1>7. CASE abstract_http_message_bus_free
  BY <1>7 DEF abstract_http_message_bus_free, TypeOK
<1>8. CASE UNCHANGED vars
  BY <1>8 DEF vars, TypeOK
<1> QED
  BY <1>1, <1>2, <1>3, <1>4, <1>5, <1>6, <1>7, <1>8
     DEF Next, abstract_http_message_bus_process

(* The pointers and the order of the handler calls.                         *)
LEMMA QueueStep ==
  ASSUME TypeOK, QueueInv, [Next]_vars
  PROVE  QueueInv'
<1> USE Consts
<1>1. ASSUME NEW actor \in 1 .. actors, abstract_http_actor_send(actor)
      PROVE  QueueInv'
  <2>1. /\ alive /\ alive' /\ sent + 1 \in Nodes /\ sent \in Nat /\ handled' = handled
        /\ sent' = sent + 1 /\ tail' = sent + 1 /\ stack' = stack
        /\ Len(handled) \in Nat /\ next \in [Nodes -> Nodes \cup {NULL}]
    BY <1>1 DEF abstract_http_actor_send, UserCode, TypeOK
  <2>2. CASE head = NULL
    <3>1. head' = sent + 1 /\ next' = [next EXCEPT ![sent + 1] = NULL]
      BY <1>1, <2>2 DEF abstract_http_actor_send
    <3> QED BY <2>1, <2>2, <3>1 DEF QueueInv, FreedIdle, HandledInOrder, ListIsQueue
  <2>3. CASE head # NULL
    <3>1. head' = head /\ next' = [next EXCEPT ![sent + 1] = NULL, ![tail] = sent + 1]
      BY <1>1, <2>3 DEF abstract_http_actor_send
    <3>2. /\ head = Len(handled) + 1 /\ tail = sent /\ head \in Nodes /\ head <= tail
          /\ \A n \in head .. sent - 1 : next[n] = n + 1
      BY <2>1, <2>3 DEF QueueInv, ListIsQueue, TypeOK
    <3>3. tail \in Nodes /\ next'[tail] = sent + 1 /\ next'[sent + 1] = NULL
      BY <2>1, <3>1, <3>2, <2>3 DEF TypeOK, QueueInv
    <3>4. \A n \in head .. sent - 1 : next'[n] = n + 1
      BY <2>1, <3>1, <3>2
    <3>5. \A n \in head' .. sent' - 1 : next'[n] = n + 1
      BY <2>1, <3>1, <3>2, <3>3, <3>4
    <3> QED BY <2>1, <2>3, <3>1, <3>2, <3>3, <3>5 DEF QueueInv, FreedIdle, HandledInOrder, ListIsQueue
  <2> QED BY <2>2, <2>3
<1>2. CASE process_next
  <2>1. /\ head \in Nodes /\ head # NULL /\ handled' = Append(handled, head) /\ alive
        /\ alive' = alive /\ sent' = sent /\ next' = next /\ head' = next[head]
        /\ tail' = IF next[head] = NULL THEN NULL ELSE tail
    <3>1. alive
      <4>1. Depth > 0
        BY <1>2 DEF process_next
      <4> QED BY <4>1 DEF QueueInv, FreedIdle
    <3> QED BY <1>2, <3>1 DEF process_next, TypeOK
  <2>2. /\ head = Len(handled) + 1 /\ tail = sent /\ next[tail] = NULL
        /\ Len(handled) \in Nat /\ sent \in Nat /\ Len(handled) <= sent
        /\ \A n \in head .. sent - 1 : next[n] = n + 1
        /\ head <= sent
    BY <2>1 DEF QueueInv, ListIsQueue, TypeOK
  <2>3. head <= sent
    BY <2>2
  <2>4. Len(handled') = head /\ HandledInOrder'
    <3>1. handled \in Seq(Nodes) /\ HandledInOrder
      BY DEF TypeOK, QueueInv
    <3>2. /\ Len(handled') = Len(handled) + 1
          /\ DOMAIN handled' = 1 .. Len(handled) + 1
          /\ handled'[Len(handled) + 1] = head
          /\ \A k \in 1 .. Len(handled) : handled'[k] = handled[k]
      BY <2>1, <2>2, <3>1
    <3>3. \A k \in DOMAIN handled' : handled'[k] = k
      BY <2>2, <3>1, <3>2 DEF HandledInOrder
    <3> QED BY <2>2, <3>2, <3>3 DEF HandledInOrder
  <2>5. next[head] = IF head = sent THEN NULL ELSE head + 1
    BY <2>2, <2>3
  <2>6. ListIsQueue'
    BY <2>1, <2>2, <2>3, <2>4, <2>5 DEF ListIsQueue
  <2> QED BY <2>1, <2>2, <2>3, <2>4, <2>6 DEF QueueInv, FreedIdle
<1>3. CASE abstract_http_actor_spawn \/ process_begin \/ handler_succeeds \/ UNCHANGED vars
  <2>1. UNCHANGED <<alive, head, tail, next, sent, handled>> /\ (~alive => Depth' = Depth)
    BY <1>3 DEF abstract_http_actor_spawn, process_begin, handler_succeeds, UserCode,
                QueueInv, FreedIdle, list, vars, Depth
  <2> QED BY <2>1 DEF QueueInv, FreedIdle, HandledInOrder, ListIsQueue
<1>4. CASE handler_fails \/ process_end
  <2>1. UNCHANGED <<alive, head, tail, next, sent, handled>> /\ Depth > 0
    BY <1>4 DEF handler_fails, process_end, list
  <2>2. alive
    BY <2>1 DEF QueueInv, FreedIdle
  <2> QED BY <2>1, <2>2 DEF QueueInv, FreedIdle, HandledInOrder, ListIsQueue
<1>5. CASE abstract_http_message_bus_free
  BY <1>5 DEF abstract_http_message_bus_free, QueueInv, FreedIdle, HandledInOrder,
              ListIsQueue, Depth
<1> QED
  BY <1>1, <1>2, <1>3, <1>4, <1>5 DEF Next, abstract_http_message_bus_process

(* Freeing the node of the handler that returns, and taking its frame off   *)
(* or clearing it, leaves the other frames and the queue with their nodes.  *)
LEMMA OwnedStep ==
  ASSUME BusInv, QueueInv', TypeOK', [Next]_vars
  PROVE  RunningHandled' /\ NodesOwned'
<1> USE Consts
<1> DEFINE Handling == {f \in 1 .. Depth : stack[f].node # NULL}
<1>0. /\ Len(handled) \in Nat /\ sent \in Nat /\ Depth \in Nat /\ Len(handled) <= sent
      /\ DOMAIN stack = 1 .. Depth /\ stack \in Seq(Frame)
      /\ \A f \in 1 .. Depth : stack[f] \in Frame /\ stack[f].node \in Nat
                               /\ stack[f].node <= Len(handled)
  <2>1. Len(handled) \in Nat /\ sent \in Nat /\ Len(handled) <= sent
    BY DEF BusInv, QueueInv, TypeOK
  <2>2. stack \in Seq(Frame) /\ Depth \in Nat /\ DOMAIN stack = 1 .. Depth
    BY DEF BusInv, TypeOK, Depth
  <2>3. \A f \in 1 .. Depth : stack[f] \in Frame
    BY <2>2
  <2>4. \A f \in 1 .. Depth : stack[f].node \in Nat
    BY <2>3 DEF Frame
  <2>5. \A f \in 1 .. Depth : stack[f].node <= Len(handled)
    BY DEF BusInv, RunningHandled
  <2> QED BY <2>1, <2>2, <2>3, <2>4, <2>5
<1>a. alive => /\ live = {stack[f].node : f \in Handling} \cup (Len(handled) + 1 .. sent)
               /\ \A f, g \in Handling : f # g => stack[f].node # stack[g].node
  BY DEF BusInv, NodesOwned
<1>1. CASE abstract_http_actor_spawn \/ UNCHANGED vars
  BY <1>1 DEF BusInv, RunningHandled, NodesOwned, Depth, abstract_http_actor_spawn, list, vars
<1>2. ASSUME NEW actor \in 1 .. actors, abstract_http_actor_send(actor)
      PROVE  RunningHandled' /\ NodesOwned'
  <2>1. UNCHANGED <<alive, stack, handled>> /\ live' = live \cup {sent + 1} /\ sent' = sent + 1
    BY <1>2 DEF abstract_http_actor_send
  <2>2. Len(handled) + 1 .. sent + 1 = (Len(handled) + 1 .. sent) \cup {sent + 1}
    BY <1>0
  <2> QED BY <2>1, <2>2, <1>0, <1>a DEF BusInv, RunningHandled, NodesOwned, Depth
<1>3. CASE process_begin
  <2>1. /\ stack' = Append(stack, [node |-> NULL, count |-> 0])
        /\ UNCHANGED <<alive, live, handled, sent>>
    BY <1>3 DEF process_begin, list
  <2>2. /\ Depth' = Depth + 1 /\ stack'[Depth + 1].node = NULL
        /\ \A f \in 1 .. Depth : stack'[f] = stack[f]
    BY <2>1, <1>0 DEF Depth
  <2>3. {f \in 1 .. Depth' : stack'[f].node # NULL} = Handling
    BY <2>2, <1>0
  <2>4. {stack'[f].node : f \in Handling} = {stack[f].node : f \in Handling}
    BY <2>2
  <2>5. RunningHandled'
    BY <2>1, <2>2, <1>0 DEF RunningHandled
  <2>6. NodesOwned'
    <3>1. alive => live' = {stack'[f].node : f \in Handling} \cup (Len(handled) + 1 .. sent)
      BY <2>1, <2>4, <1>a
    <3>2. alive => \A f, g \in Handling : f # g => stack'[f].node # stack'[g].node
      BY <2>2, <1>a
    <3> HIDE DEF Handling
    <3> QED BY <3>1, <3>2, <2>1, <2>3 DEF NodesOwned
  <2> QED BY <2>5, <2>6
<1>4. CASE process_next
  <2>1. /\ Depth \in 1 .. Depth /\ stack[Depth].node = NULL
        /\ head \in Nodes /\ head # NULL
        /\ stack' = [stack EXCEPT ![Depth].node = head]
        /\ handled' = Append(handled, head)
        /\ UNCHANGED <<alive, live, sent>>
    BY <1>4, <1>0 DEF process_next, Top, BusInv, TypeOK
  <2>2. alive
    BY <2>1, <1>0 DEF BusInv, QueueInv, FreedIdle
  <2>3. head = Len(handled) + 1 /\ head <= sent
    BY <2>1, <2>2 DEF BusInv, QueueInv, ListIsQueue
  <2>4. /\ Len(handled') = head /\ Depth' = Depth
        /\ stack'[Depth].node = head
        /\ \A f \in 1 .. Depth : f # Depth => stack'[f] = stack[f]
    <3>1. Len(handled') = Len(handled) + 1
      BY <2>1 DEF BusInv, TypeOK
    <3>2. Depth' = Depth
      BY <2>1, <1>0 DEF Depth
    <3>3. stack[Depth] \in Frame
      BY <1>0, <2>1
    <3>4. [stack[Depth] EXCEPT !.node = head].node = head
      BY <3>3 DEF Frame
    <3> QED BY <2>1, <2>3, <1>0, <3>1, <3>2, <3>4
  <2>5. {f \in 1 .. Depth' : stack'[f].node # NULL} = Handling \cup {Depth}
    BY <2>1, <2>4, <1>0
  <2>6. {stack'[f].node : f \in Handling \cup {Depth}} = {stack[f].node : f \in Handling} \cup {head}
    BY <2>1, <2>4, <1>0
  <2>7. Len(handled) + 1 .. sent = {head} \cup (Len(handled') + 1 .. sent)
    BY <2>3, <2>4, <1>0
  <2>8. RunningHandled'
    BY <2>3, <2>4, <1>0 DEF RunningHandled
  <2>9. \A f, g \in Handling \cup {Depth} : f # g => stack'[f].node # stack'[g].node
    BY <2>1, <2>2, <2>3, <2>4, <1>0, <1>a
  <2>10. NodesOwned'
    <3>1. live' = {stack'[f].node : f \in Handling \cup {Depth}} \cup (Len(handled') + 1 .. sent')
      BY <2>1, <2>2, <2>6, <2>7, <1>a
    <3> HIDE DEF Handling
    <3> QED BY <3>1, <2>5, <2>9 DEF NodesOwned
  <2> QED BY <2>8, <2>10
<1>5. CASE handler_succeeds
  <2>1. /\ Depth \in 1 .. Depth /\ stack[Depth].node # NULL
        /\ live' = live \ {stack[Depth].node}
        /\ stack' = [stack EXCEPT ![Depth] = [node |-> NULL, count |-> Top.count + 1]]
        /\ UNCHANGED <<alive, handled, sent>>
    BY <1>5, <1>0 DEF handler_succeeds, Top
  <2>2. /\ Depth' = Depth /\ stack'[Depth].node = NULL
        /\ \A f \in 1 .. Depth : f # Depth => stack'[f] = stack[f]
    <3>1. stack'[Depth] = [node |-> NULL, count |-> Top.count + 1]
      BY <2>1, <1>0
    <3>2. stack'[Depth].node = NULL
      BY <3>1
    <3>3. Len(stack') = Len(stack)
      BY <2>1, <1>0
    <3>4. \A f \in 1 .. Depth : f # Depth => stack'[f] = stack[f]
      BY <2>1, <1>0
    <3> QED BY <3>2, <3>3, <3>4 DEF Depth
  <2>3. {f \in 1 .. Depth' : stack'[f].node # NULL} = Handling \ {Depth}
    BY <2>1, <2>2, <1>0
  <2>4. {stack'[f].node : f \in Handling \ {Depth}} = {stack[f].node : f \in Handling \ {Depth}}
    BY <2>2
  <2>5. alive => {stack[f].node : f \in Handling} \ {stack[Depth].node}
                   = {stack[f].node : f \in Handling \ {Depth}}
    BY <2>1, <1>0, <1>a
  <2>6. stack[Depth].node \notin Len(handled) + 1 .. sent
    BY <2>1, <1>0
  <2>7. RunningHandled'
    BY <2>1, <2>2, <1>0 DEF RunningHandled
  <2>8. NodesOwned'
    <3>1. alive => live' = {stack'[f].node : f \in Handling \ {Depth}} \cup (Len(handled) + 1 .. sent)
      BY <2>1, <2>4, <2>5, <2>6, <1>a
    <3>2. alive => \A f, g \in Handling \ {Depth} : f # g => stack'[f].node # stack'[g].node
      BY <2>2, <1>a
    <3> HIDE DEF Handling
    <3> QED BY <3>1, <3>2, <2>1, <2>3 DEF NodesOwned
  <2> QED BY <2>7, <2>8
<1>6. CASE handler_fails \/ process_end
  <2>1. /\ Depth \in 1 .. Depth
        /\ live' = live \ {stack[Depth].node}
        /\ stack' = Pop
        /\ UNCHANGED <<alive, handled, sent>>
    <3>1. CASE handler_fails
      BY <3>1, <1>0 DEF handler_fails, Top
    <3>2. CASE process_end
      <4>1. NULL \notin live
        BY DEF BusInv, TypeOK
      <4> QED BY <3>2, <4>1, <1>0 DEF process_end, Top, list
    <3> QED BY <1>6, <3>1, <3>2
  <2>2. /\ Depth' = Depth - 1
        /\ \A f \in 1 .. Depth - 1 : stack'[f] = stack[f]
    <3>1. Len(Pop) = Depth - 1 /\ \A f \in 1 .. Depth - 1 : Pop[f] = stack[f]
      BY <2>1, <1>0, StackTop
    <3>2. Depth' = Len(stack')
      BY DEF Depth
    <3> QED BY <2>1, <3>1, <3>2
  <2>0. \A f \in Handling \ {Depth} : f \in 1 .. Depth - 1 /\ stack'[f] = stack[f]
    <3>1. \A f \in Handling \ {Depth} : f \in 1 .. Depth - 1
      BY <1>0
    <3> HIDE DEF Handling
    <3> QED BY <3>1, <2>2
  <2>3. {f \in 1 .. Depth' : stack'[f].node # NULL} = Handling \ {Depth}
    BY <2>1, <2>2, <1>0
  <2>4. {stack'[f].node : f \in Handling \ {Depth}} = {stack[f].node : f \in Handling \ {Depth}}
    <3> HIDE DEF Handling
    <3> QED BY <2>0
  <2>5. alive => {stack[f].node : f \in Handling} \ {stack[Depth].node}
                   = {stack[f].node : f \in Handling \ {Depth}}
    BY <2>1, <1>0, <1>a
  <2>6. stack[Depth].node \notin Len(handled) + 1 .. sent
    BY <2>1, <1>0
  <2>7. RunningHandled'
    BY <2>1, <2>2, <1>0 DEF RunningHandled
  <2>8. NodesOwned'
    <3>1. alive => live' = {stack'[f].node : f \in Handling \ {Depth}} \cup (Len(handled) + 1 .. sent)
      BY <2>1, <2>4, <2>5, <2>6, <1>a
    <3>2. alive => \A f, g \in Handling \ {Depth} : f # g => stack'[f].node # stack'[g].node
      BY <2>2, <1>a, <1>0
    <3> HIDE DEF Handling
    <3> QED BY <3>1, <3>2, <2>1, <2>3 DEF NodesOwned
  <2> QED BY <2>7, <2>8
<1>7. CASE abstract_http_message_bus_free
  BY <1>7, <1>0 DEF abstract_http_message_bus_free, RunningHandled, NodesOwned, Depth
<1> QED
  BY <1>1, <1>2, <1>3, <1>4, <1>5, <1>6, <1>7
     DEF Next, abstract_http_message_bus_process

(* The invariant holds of a bus just made.                                  *)
LEMMA BusInit == Init => BusInv
  BY Consts DEF Init, BusInv, TypeOK, QueueInv, FreedIdle, HandledInOrder, ListIsQueue,
                RunningHandled, NodesOwned, Depth, Frame

(* Every step of the bus keeps it.                                          *)
LEMMA BusStep == ASSUME BusInv, [Next]_vars PROVE BusInv'
<1>1. TypeOK'
  BY TypeStep DEF BusInv
<1>2. QueueInv'
  BY QueueStep DEF BusInv
<1>3. RunningHandled' /\ NodesOwned'
  BY <1>1, <1>2, OwnedStep
<1> QED BY <1>1, <1>2, <1>3 DEF BusInv

LEMMA BusMeans == BusInv => TypeOK /\ HandledInOrder /\ ListIsQueue /\ NodesOwned
  BY DEF BusInv, QueueInv

(* Whatever handlers send, fail or process themselves: handlers are called  *)
(* once per message in the order of the sends, the list from head to tail   *)
(* is exactly the unhandled messages, and nodes are neither leaked nor used *)
(* after they were freed.                                                   *)
THEOREM BusTheorem == Spec => [](TypeOK /\ HandledInOrder /\ ListIsQueue /\ NodesOwned)
<1> QED BY BusInit, BusStep, BusMeans, PTL DEF Spec

-----------------------------------------------------------------------------
(* Batches of requests.                                                     *)

Sequential == {"each", "raw", "fetch", "msh3", "picoquic", "xquic"}
Places == Sequential \cup {"begin", "none", "curl", "curl_undo", "winhttp", "apple",
                           "fetch_wakeup", "xquic_wakeup", "release", "returned",
                           "ticking", "finished"}
Phases == {"idle", "added", "connected", "finished"}

CurlStates ==
  [phase : [Reqs -> Phases], tasks : SUBSET Reqs, sockets : SUBSET Reqs, wants : BOOLEAN,
   timer : {"none", "live", "stale"}, armed : {0, 1}]

Errors == {SUCCESS, "NOMEM", "IO"}
Futures == [ready : BOOLEAN, error : Errors, response : BOOLEAN]
ThreadPlaces == {"none", "start", "open", "run", "collect", "ended"}
Threads == [pc : ThreadPlaces, next : Nat \ {0}, pending : Int]

CallTypes ==
  /\ kind \in Kinds /\ (~kind.async => kind.backend = "none")
  /\ call \in [pc : Places, next : Nat \ {0}, rc : {SUCCESS, "NOMEM", "IO", "NOTSUP", "wakeup"},
               list : {"none", "live", "freed"}]
  /\ futures \in [Reqs -> Futures]

WorkerTypes ==
  /\ work \in [Reqs -> {"none", "queued", "sent", "ready", "done", "stream", "error"}]
  /\ thread \in Threads

(* The timer identifier is current exactly if the loop has a timer; there   *)
(* is one if the library wants one, and it does while a transfer waits for  *)
(* its socket; the loop watches the sockets of the connected transfers.    *)
Timed(c) == (c.timer = "live" <=> c.armed = 1) /\ c.armed = IF c.wants THEN 1 ELSE 0
Tracked(c) == c.tasks = Running(c) /\ c.sockets = {r \in Reqs : c.phase[r] = "connected"}
Wanted(c) == (\E r \in Reqs : c.phase[r] = "added") => c.wants

(* Nothing is connected before the application waits in the loop.           *)
NotConnected == call.pc \in {"begin", "curl", "curl_undo"} => curl.sockets = {}

CurlInv ==
  /\ CallTypes /\ curl \in CurlStates
  /\ Timed(curl) /\ Tracked(curl) /\ Wanted(curl) /\ NotConnected

(* Each backend's transfers, work items or thread exist in its batches only. *)
OneBackend ==
  /\ call.pc \in Sequential => kind.backend \notin {"curl", "winhttp", "apple"}
  /\ call.pc \in {"curl", "curl_undo"} => kind.backend = "curl"
  /\ call.pc = "winhttp" => kind.backend = "winhttp"
  /\ call.pc = "apple" => kind.backend = "apple"
  /\ Running(curl) # {} => kind.backend = "curl"
  /\ \A r \in Reqs : work[r] \in {"queued", "sent", "ready"} => kind.backend = "winhttp"
  /\ thread.pc # "none" => kind.backend = "apple"
  /\ call.pc \in {"begin", "apple"} => thread.pc = "none"

(* The futures that are still to be completed.                              *)
NotYetReady ==
  /\ call.pc \in {"begin", "apple", "curl", "curl_undo"} =>
       \A r \in Reqs : ~futures[r].ready
  /\ call.pc \in Sequential \cup {"winhttp"} =>
       \A r \in Reqs : r >= call.next => ~futures[r].ready
  /\ \A r \in Reqs : r \in Running(curl) \/ work[r] \in {"queued", "sent"} => ~futures[r].ready
  /\ thread.pc \in {"start", "open", "run"} => \A r \in Reqs : ~futures[r].ready
  /\ thread.pc = "collect" => \A r \in Reqs : r >= thread.next => ~futures[r].ready
  /\ call.pc = "begin" => call.next = 1 /\ \A r \in Reqs : work[r] = "none"
  /\ call.pc = "winhttp" => \A r \in Reqs : r >= call.next => work[r] = "none"

FutureInv == CurlInv /\ WorkerTypes /\ OneBackend /\ NotYetReady

LEMMA BatchInit == MultiInit => FutureInv
<1> SUFFICES ASSUME MultiInit PROVE FutureInv
  OBVIOUS
<1> USE DEF MultiInit
<1>1. CallTypes
  BY DEF CallTypes, Kinds, Places, SUCCESS, NewFuture, Futures, Errors
<1>2. curl \in CurlStates /\ Timed(curl) /\ Tracked(curl) /\ Wanted(curl) /\ NotConnected
  BY DEF NewCurl, CurlStates, Phases, Timed, Tracked, Wanted, NotConnected, Running
<1>3. WorkerTypes
  BY DEF WorkerTypes, NewWorkers, NewThread, Threads, ThreadPlaces
<1>4. Running(curl) = {} /\ thread.pc = "none" /\ \A r \in Reqs : work[r] = "none"
  BY DEF NewCurl, Running, NewWorkers, NewThread
<1>5. OneBackend /\ NotYetReady
  BY <1>4 DEF OneBackend, NotYetReady, Sequential, NewFuture
<1> QED BY <1>1, <1>2, <1>3, <1>5 DEF FutureInv, CurlInv

(* A call of the timer function leaves a timer exactly if one is wanted.    *)
LEMMA TimerFunction ==
  ASSUME NEW c \in CurlStates, c.timer = "live" <=> c.armed = 1, NEW wants \in BOOLEAN
  PROVE  LET d == multi_timer_function(c, wants)
         IN /\ d \in CurlStates /\ Timed(d) /\ d.wants = wants
            /\ d.phase = c.phase /\ d.tasks = c.tasks /\ d.sockets = c.sockets
<1> DEFINE d == multi_timer_function(c, wants)
<1>1. c.armed \in {0, 1} /\ c.timer \in {"none", "live", "stale"}
  BY DEF CurlStates
<1>2. /\ d.phase = c.phase /\ d.tasks = c.tasks /\ d.sockets = c.sockets
      /\ d.wants = wants /\ d.timer = (IF wants THEN "live" ELSE "none")
      /\ d.armed = IF wants THEN 1 ELSE 0
  BY <1>1 DEF multi_timer_function, CurlStates
<1>3. d \in CurlStates
  <2>1. d = [c EXCEPT !.wants = wants, !.timer = IF wants THEN "live" ELSE "none",
                      !.armed = IF wants THEN 1 ELSE 0]
    <3> DEFINE kept == IF c.timer = "live" THEN c.armed - 1 ELSE c.armed
    <3>1. kept = 0
      BY <1>1
    <3>2. d = [c EXCEPT !.wants = wants, !.timer = IF wants THEN "live" ELSE "none",
                        !.armed = IF wants THEN kept + 1 ELSE kept]
      BY DEF multi_timer_function
    <3> HIDE DEF d, kept
    <3> QED BY <3>1, <3>2
  <2> HIDE DEF d
  <2> QED BY <2>1 DEF CurlStates
<1>4. Timed(d)
  BY <1>2 DEF Timed
<1> QED BY <1>2, <1>3, <1>4

(* What the library asks for after it has run.                              *)
LEMMA RearmedKeeps ==
  ASSUME NEW c \in CurlStates, Timed(c), Tracked(c), Rearmed(c)
  PROVE  curl' \in CurlStates /\ Timed(curl') /\ Tracked(curl') /\ Wanted(curl')
         /\ curl'.phase = c.phase /\ curl'.sockets = c.sockets
<1>1. PICK wants \in BOOLEAN :
        /\ (\E r \in Reqs : c.phase[r] = "added") => wants
        /\ curl' = multi_timer_function(c, wants) \/ (wants = c.wants /\ curl' = c)
  BY DEF Rearmed
<1>2. c.timer = "live" <=> c.armed = 1
  BY DEF Timed
<1>3. /\ curl' \in CurlStates /\ Timed(curl') /\ curl'.wants = wants
      /\ curl'.phase = c.phase /\ curl'.tasks = c.tasks /\ curl'.sockets = c.sockets
  BY <1>1, <1>2, TimerFunction
<1>4. Running(curl') = Running(c)
  BY <1>3 DEF Running
<1> QED BY <1>1, <1>3, <1>4 DEF Tracked, Wanted

(* Transfers that are done have neither task nor socket.                    *)
LEMMA DoneKeeps ==
  ASSUME NEW c \in CurlStates, Timed(c), Tracked(c), NEW completed \in SUBSET Reqs
  PROVE  LET d == ABSTRACT_HTTP_CHECK_MULTI_INFO(c, completed)
         IN d \in CurlStates /\ Timed(d) /\ Tracked(d) /\ Running(d) = Running(c) \ completed
<1> DEFINE d == ABSTRACT_HTTP_CHECK_MULTI_INFO(c, completed)
<1>1. /\ d.phase = [r \in Reqs |-> IF r \in completed THEN "finished" ELSE c.phase[r]]
      /\ d.tasks = c.tasks \ completed /\ d.sockets = c.sockets \ completed
      /\ d.wants = c.wants /\ d.timer = c.timer /\ d.armed = c.armed
  BY DEF ABSTRACT_HTTP_CHECK_MULTI_INFO, multi_socket_function, CurlStates
<1>2. d \in CurlStates
  BY DEF ABSTRACT_HTTP_CHECK_MULTI_INFO, multi_socket_function, CurlStates, Phases
<1> HIDE DEF d
<1>3. Timed(d)
  BY <1>1 DEF Timed
<1>4. Running(d) = Running(c) \ completed
  BY <1>1 DEF Running
<1>5. Tracked(d)
  BY <1>1, <1>4 DEF Tracked
<1> QED BY <1>2, <1>3, <1>4, <1>5 DEF d

(* The steps of the call and of the application leave curl alone.           *)
LEMMA CallStep ==
  ASSUME CallTypes, MultiSteps
  PROVE  CallTypes' /\ UNCHANGED <<kind, others>>
         /\ (call'.pc \in {"begin", "curl", "curl_undo"} => call.pc = "begin")
<1> USE DEF CallTypes, At, Goto, Fail, SUCCESS, others
<1>1. CASE client_begin
  <2>1. kind.backend \in {"none", "curl", "winhttp", "raw", "fetch", "msh3", "apple",
                          "picoquic", "xquic"}
    BY BatchBackendsKnown DEF Kinds
  <2>2. /\ UNCHANGED <<kind, futures, others>> /\ call.pc = "begin"
        /\ \/ call' = [call EXCEPT !.pc = IF ~kind.async THEN "each" ELSE kind.backend,
                                   !.list = "live"]
           \/ call' = [call EXCEPT !.pc = "returned", !.rc = "NOMEM"]
    BY <1>1 DEF client_begin
  <2>3. call' \in [pc : Places, next : Nat \ {0},
                   rc : {SUCCESS, "NOMEM", "IO", "NOTSUP", "wakeup"},
                   list : {"none", "live", "freed"}]
    BY <2>1, <2>2 DEF Places, Sequential
  <2> QED BY <2>2, <2>3
<1>2. CASE client_not_supported
  BY <1>2 DEF client_not_supported, Places
<1>3. ASSUME NEW place \in Sequential, NEW next_place \in {"release", "fetch_wakeup", "xquic_wakeup"},
             NEW stops \in BOOLEAN, NEW results \in SUBSET Results,
             SendEach(place, next_place, stops, results), UNCHANGED others
      PROVE  CallTypes' /\ UNCHANGED <<kind, others>> /\ call'.pc \notin {"begin", "curl", "curl_undo"}
  <2>1. call.pc = place /\ UNCHANGED <<kind, others>>
    BY <1>3 DEF SendEach
  <2>2. CASE call' = [call EXCEPT !.pc = next_place] /\ UNCHANGED futures
    BY <2>1, <2>2 DEF Places
  <2>3. ASSUME NEW result \in Results, call.next <= BatchSize,
               futures' = [futures EXCEPT ![call.next] = Completed(result)],
               call' = IF result.error # SUCCESS /\ stops
                       THEN [call EXCEPT !.pc = "release", !.rc = result.error]
                       ELSE [call EXCEPT !.next = @ + 1]
        PROVE  CallTypes' /\ call'.pc \notin {"begin", "curl", "curl_undo"}
    <3>1. Completed(result) \in Futures
      BY DEF Completed, Results, Futures, Errors
    <3>2. result.error \in {SUCCESS, "IO"}
      BY DEF Results
    <3>3. call.next + 1 \in Nat \ {0}
      OBVIOUS
    <3>4. call' \in [pc : Places, next : Nat \ {0},
                     rc : {SUCCESS, "NOMEM", "IO", "NOTSUP", "wakeup"},
                     list : {"none", "live", "freed"}]
      BY <2>3, <3>2, <3>3 DEF Places
    <3>5. call'.pc \in {"release", place}
      BY <2>1, <2>3
    <3> QED BY <2>1, <2>3, <3>1, <3>4, <3>5 DEF Sequential
  <2>4. \/ call' = [call EXCEPT !.pc = next_place] /\ UNCHANGED futures
        \/ \E result \in Results :
             /\ call.next <= BatchSize
             /\ futures' = [futures EXCEPT ![call.next] = Completed(result)]
             /\ call' = IF result.error # SUCCESS /\ stops
                        THEN [call EXCEPT !.pc = "release", !.rc = result.error]
                        ELSE [call EXCEPT !.next = @ + 1]
    <3>1. CASE call.next > BatchSize
      BY <1>3, <3>1 DEF SendEach
    <3>2. CASE ~(call.next > BatchSize)
      <4>1. call.next <= BatchSize
        BY <3>2, BatchIsNotEmpty
      <4>2. PICK result \in results :
              /\ futures' = [futures EXCEPT ![call.next] = Completed(result)]
              /\ call' = IF result.error # SUCCESS /\ stops
                         THEN [call EXCEPT !.pc = "release", !.rc = result.error]
                         ELSE [call EXCEPT !.next = @ + 1]
        BY <1>3, <3>2 DEF SendEach
      <4> QED BY <1>3, <4>1, <4>2
    <3> QED BY <3>1, <3>2
  <2>5. CASE call' = [call EXCEPT !.pc = next_place] /\ UNCHANGED futures
    BY <2>1, <2>2, <2>5
  <2> QED BY <2>1, <2>2, <2>3, <2>4
<1>4. Results \in SUBSET Results /\ NoResult \in SUBSET Results
  BY DEF Results, NoResult
<1>5. CASE client_loop \/ http_raw_send_multi \/ http_msh3_send_multi \/ http_picoquic_send_multi
  <2>1. {"each", "raw", "msh3", "picoquic"} \subseteq Sequential /\ kind.failFast \in BOOLEAN
    BY DEF Sequential, Kinds
  <2>2. CASE client_loop
    <3>1. PICK stops \in BOOLEAN : stops = kind.failFast
      BY <2>1
    <3>2. SendEach("each", "release", stops, Results) /\ UNCHANGED others
      BY <2>2, <3>1 DEF client_loop
    <3> QED BY <1>3, <1>4, <2>1, <3>1, <3>2
  <2>3. CASE http_raw_send_multi
    BY <1>3, <1>4, <2>1, <2>3, Zenon DEF http_raw_send_multi
  <2>4. CASE http_msh3_send_multi
    BY <1>3, <1>4, <2>1, <2>4, Zenon DEF http_msh3_send_multi
  <2>5. CASE http_picoquic_send_multi
    BY <1>3, <1>4, <2>1, <2>5, Zenon DEF http_picoquic_send_multi
  <2> QED BY <1>5, <2>2, <2>3, <2>4, <2>5
<1>6. ASSUME NEW place, Wakes(place)
      PROVE  CallTypes' /\ UNCHANGED <<kind, others>> /\ call'.pc \notin {"begin", "curl", "curl_undo"}
  BY <1>6 DEF Wakes, Places
<1>7. CASE http_fetch_send_multi \/ http_xquic_send_multi
  BY <1>3, <1>4, <1>6, <1>7 DEF http_fetch_send_multi, http_xquic_send_multi, Sequential
<1>8. CASE client_release \/ application_waits \/ application_checks
  BY <1>8 DEF client_release, application_waits, application_checks, Places
<1> QED BY <1>1, <1>2, <1>5, <1>7, <1>8 DEF MultiSteps

(* Updates of a future.                                                    *)
LEMMA FutureUpdate ==
  ASSUME NEW f \in Futures, NEW e \in Errors, NEW b \in BOOLEAN
  PROVE  /\ [f EXCEPT !.error = e, !.response = b] \in Futures
         /\ [f EXCEPT !.error = e, !.ready = TRUE] \in Futures
         /\ [f EXCEPT !.response = b] \in Futures /\ [f EXCEPT !.ready = TRUE] \in Futures
  BY DEF Futures

(* The steps of work items and of Apple's thread.                           *)
LEMMA WorkerStep ==
  ASSUME CallTypes, WorkerTypes, worker_steps
  PROVE  CallTypes' /\ WorkerTypes' /\ UNCHANGED kind
         /\ (call'.pc = call.pc \/ (call.pc \in {"winhttp", "apple"} /\ call'.pc = "release"))
<1> USE DEF CallTypes, WorkerTypes, At, Goto, Fail, SUCCESS
<1>0. PICK up \in Nat \ {0}, down \in Int, count \in Int :
        up = thread.next + 1 /\ down = thread.pending - 1 /\ count = Count
  <2>1. thread.next \in Nat \ {0} /\ thread.pending \in Int
    BY DEF Threads
  <2>2. thread.next + 1 \in Nat \ {0} /\ thread.pending - 1 \in Int
    BY <2>1
  <2>3. Count \in Int
    BY BatchIsNotEmpty DEF Count
  <2> QED BY <2>2, <2>3
<1>1. CASE winhttp_queue
  <2>1. CASE call.next > BatchSize
    BY <1>1, <2>1 DEF winhttp_queue, Places
  <2>2. CASE ~(call.next > BatchSize)
    <3>1. call.next + 1 \in Nat \ {0} /\ UNCHANGED <<kind, futures, thread>> /\ call.pc = "winhttp"
      BY <1>1 DEF winhttp_queue
    <3>2. \/ /\ call' = [call EXCEPT !.next = @ + 1]
             /\ work' = [work EXCEPT ![call.next] = "queued"]
          \/ \E e \in {"NOMEM", "IO"} :
               call' = [call EXCEPT !.pc = "release", !.rc = e] /\ UNCHANGED work
      BY <1>1, <2>2 DEF winhttp_queue
    <3> QED BY <3>1, <3>2 DEF Places
  <2> QED BY <2>1, <2>2
<1>2. CASE winhttp_async_worker
  <2>1. UNCHANGED <<kind, call, thread>>
    BY <1>2 DEF winhttp_async_worker
  <2>2. PICK r \in Reqs :
          \/ /\ work' = [work EXCEPT ![r] = "sent"]
             /\ \E result \in Results :
                  futures' = [futures EXCEPT ![r].error = result.error,
                                             ![r].response = result.response]
          \/ /\ work' = [work EXCEPT ![r] = "ready"]
             /\ futures' = [futures EXCEPT ![r].ready = TRUE]
          \/ work' = [work EXCEPT ![r] = "done"] /\ UNCHANGED futures
    BY <1>2 DEF winhttp_async_worker
  <2>3. PICK f \in Futures : futures' = [futures EXCEPT ![r] = f]
    <3>1. ASSUME NEW result \in Results,
                 futures' = [futures EXCEPT ![r].error = result.error,
                                            ![r].response = result.response]
          PROVE  \E f \in Futures : futures' = [futures EXCEPT ![r] = f]
      <4>1. result.error \in Errors /\ result.response \in BOOLEAN
        BY DEF Results, Errors
      <4>2. futures' = [futures EXCEPT ![r] = [futures[r] EXCEPT !.error = result.error,
                                                                 !.response = result.response]]
        BY <3>1
      <4> QED BY FutureUpdate, <4>1, <4>2
    <3>2. CASE futures' = [futures EXCEPT ![r].ready = TRUE]
      <4>1. futures' = [futures EXCEPT ![r] = [futures[r] EXCEPT !.ready = TRUE]]
        BY <3>2
      <4> QED BY <4>1, FutureUpdate DEF Errors
    <3>3. CASE UNCHANGED futures
      BY <3>3
    <3> QED BY <2>2, <3>1, <3>2, <3>3
  <2>4. work' \in [Reqs -> {"none", "queued", "sent", "ready", "done", "stream", "error"}]
    BY <2>2
  <2> QED BY <2>1, <2>3, <2>4
<1>3. CASE apple_start
  <2>1. thread' \in Threads
    BY <1>3 DEF apple_start, Threads, ThreadPlaces
  <2> QED BY <1>3, <2>1 DEF apple_start, Places
<1>4. Count \in Nat /\ \A n \in Nat \ {0} : ~(n > Count) => n \in Reqs
  BY BatchIsNotEmpty DEF Count, Reqs
<1>5. CASE apple_begin
  <2>1. thread' \in Threads
    <3>1. \/ thread' = [thread EXCEPT !.pc = "open", !.pending = count]
          \/ thread' = [thread EXCEPT !.pc = "ended"]
      BY <1>0, <1>5 DEF apple_begin
    <3>2. "open" \in ThreadPlaces
      BY DEF ThreadPlaces
    <3>3. CASE thread' = [thread EXCEPT !.pc = "ended"]
      BY <3>3 DEF Threads, ThreadPlaces
    <3>4. CASE thread' = [thread EXCEPT !.pc = "open", !.pending = count]
      <4>1. thread \in Threads
        BY DEF CallTypes
      <4> QED BY <4>1, <3>2, <3>4 DEF Threads
    <3> QED BY <3>1, <3>3, <3>4
  <2> QED BY <1>5, <2>1 DEF apple_begin
<1>6. CASE apple_open
  <2>1. UNCHANGED <<kind, call>>
    BY <1>6 DEF apple_open
  <2>2. CASE thread.next > Count
    <3>1. thread' \in Threads /\ UNCHANGED <<work, futures>>
      <4>0. PICK one \in Nat \ {0} : one = 1
        OBVIOUS
      <4>1. PICK place \in {"run", "collect"} :
              thread' = [thread EXCEPT !.pc = place, !.next = one]
        <5>1. PICK place \in {"run", "collect"} :
                place = IF thread.pending > 0 THEN "run" ELSE "collect"
          OBVIOUS
        <5>2. thread' = [thread EXCEPT !.pc = IF thread.pending > 0 THEN "run" ELSE "collect",
                                       !.next = 1]
          BY <1>6, <2>2 DEF apple_open
        <5>3. thread' = [thread EXCEPT !.pc = place, !.next = one]
          BY <4>0, <5>1, <5>2
        <5> QED BY <5>3
      <4>2. thread' \in Threads
        BY <4>1 DEF Threads, ThreadPlaces
      <4> QED BY <1>6, <2>2, <4>2 DEF apple_open
    <3> QED BY <2>1, <3>1
  <2>3. CASE ~(thread.next > Count)
    <3>1. \/ /\ thread' = [thread EXCEPT !.next = @ + 1]
             /\ work' = [work EXCEPT ![thread.next] = "stream"]
             /\ futures' = [futures EXCEPT ![thread.next].response = TRUE]
          \/ /\ thread' = [thread EXCEPT !.next = @ + 1, !.pending = @ - 1]
             /\ work' = [work EXCEPT ![thread.next] = "error"]
             /\ \E made \in BOOLEAN :
                  futures' = [futures EXCEPT ![thread.next].response = made]
          \/ thread' = [thread EXCEPT !.pc = "ended"] /\ UNCHANGED <<work, futures>>
      BY <1>6, <2>3 DEF apple_open
    <3>2. thread' \in Threads
      <4>1. CASE thread' = [thread EXCEPT !.next = up]
        BY <4>1 DEF Threads
      <4>2. CASE thread' = [thread EXCEPT !.next = up, !.pending = down]
        BY <4>2 DEF Threads
      <4>3. CASE thread' = [thread EXCEPT !.pc = "ended"]
        BY <4>3 DEF Threads, ThreadPlaces
      <4> QED BY <1>0, <3>1, <4>1, <4>2, <4>3
    <3>3. futures' \in [Reqs -> Futures]
      <4>1. futures' = futures \/ \E made \in BOOLEAN :
              futures' = [futures EXCEPT ![thread.next] = [futures[thread.next] EXCEPT !.response = made]]
        BY <3>1, Zenon
      <4>2. thread.next \in Reqs
        BY <1>4, <2>3 DEF Threads
      <4>3. \A made \in BOOLEAN : [futures[thread.next] EXCEPT !.response = made] \in Futures
        BY <4>2 DEF Futures
      <4>4. CASE futures' = futures
        BY <4>4
      <4>5. ASSUME NEW made \in BOOLEAN,
                   futures' = [futures EXCEPT ![thread.next] =
                                 [futures[thread.next] EXCEPT !.response = made]]
            PROVE  futures' \in [Reqs -> Futures]
        BY <4>2, <4>3, <4>5
      <4> QED BY <4>1, <4>4, <4>5
    <3>4. work' \in [Reqs -> {"none", "queued", "sent", "ready", "done", "stream", "error"}]
      BY <3>1
    <3> QED BY <2>1, <3>2, <3>3, <3>4
  <2> QED BY <2>2, <2>3
<1>7. CASE apple_stream_done
  <2>1. UNCHANGED <<kind, call, futures>>
    BY <1>7 DEF apple_stream_done
  <2>2. \E r \in Reqs : \E how \in {"done", "error"} : work' = [work EXCEPT ![r] = how]
    BY <1>7 DEF apple_stream_done
  <2>3. thread' \in Threads
    <3>1. thread' = [thread EXCEPT !.pending = @ - 1,
                                   !.pc = IF thread.pending = 1 THEN "collect" ELSE "run"]
      BY <1>7 DEF apple_stream_done
    <3>2. PICK place \in ThreadPlaces : place = IF thread.pending = 1 THEN "collect" ELSE "run"
      BY DEF ThreadPlaces
    <3>3. thread' = [thread EXCEPT !.pending = down, !.pc = place]
      BY <1>0, <3>1, <3>2
    <3> QED BY <3>3 DEF Threads
  <2> QED BY <2>1, <2>2, <2>3
<1>8. CASE apple_collect
  <2>1. UNCHANGED <<kind, call, work>>
    BY <1>8 DEF apple_collect
  <2>2. CASE thread.next > Count
    <3>1. thread' \in Threads /\ UNCHANGED futures
      BY <1>8, <2>2 DEF apple_collect, Threads, ThreadPlaces
    <3> QED BY <2>1, <3>1
  <2>3. CASE ~(thread.next > Count)
    <3>1. thread' = [thread EXCEPT !.next = @ + 1] /\ thread' \in Threads
      <4>1. thread' = [thread EXCEPT !.next = @ + 1]
        BY <1>8, <2>3 DEF apple_collect
      <4>2. thread' = [thread EXCEPT !.next = up]
        BY <1>0, <4>1
      <4>3. thread' \in Threads
        BY <4>2 DEF Threads
      <4> QED BY <4>1, <4>3
    <3>2. PICK e \in Errors :
            futures' = [futures EXCEPT ![thread.next].error = e, ![thread.next].ready = TRUE]
      BY <1>8, <2>3 DEF apple_collect, Errors
    <3>3. thread.next \in Reqs
      BY <1>4, <2>3 DEF Threads
    <3>4. futures' = [futures EXCEPT ![thread.next] =
                                       [futures[thread.next] EXCEPT !.error = e, !.ready = TRUE]]
      BY <3>2, <3>3
    <3>5. futures' \in [Reqs -> Futures]
      BY FutureUpdate, <3>3, <3>4
    <3> QED BY <2>1, <3>1, <3>5
  <2> QED BY <2>2, <2>3
<1> QED BY <1>1, <1>2, <1>3, <1>5, <1>6, <1>7, <1>8 DEF worker_steps

(* The steps of libcurl and its callbacks.                                  *)
LEMMA CurlStep ==
  ASSUME CurlInv, curl_steps
  PROVE  /\ CurlInv' /\ UNCHANGED kind
         /\ call'.pc = call.pc
            \/ (call.pc \in {"curl", "curl_undo"} /\ call'.pc \in {"curl_undo", "release"})
         /\ \/ call.pc \in {"curl", "curl_undo"} /\ UNCHANGED futures
            \/ /\ call.pc = "ticking"
               /\ \E completed \in SUBSET Running(curl) :
                    Finished(completed) /\ Running(curl') = Running(curl) \ completed
<1> USE DEF CurlInv
<1> USE DEF At, Goto, Fail
<1>1. curl.timer = "live" <=> curl.armed = 1
  BY DEF Timed
<1>2. CASE curl_add
  <2>1. CASE /\ call' = [call EXCEPT !.next = @ + 1]
             /\ curl' = multi_timer_function(
                          [curl EXCEPT !.phase[call.next] = "added",
                                       !.tasks = @ \cup {call.next}], TRUE)
    <3> DEFINE c == [curl EXCEPT !.phase[call.next] = "added", !.tasks = @ \cup {call.next}]
    <3>1. call.next \in Reqs /\ call.pc = "curl" /\ UNCHANGED <<kind, futures>>
      BY <1>2 DEF curl_add, CallTypes, Reqs
    <3>2. /\ c \in CurlStates /\ c.timer = curl.timer /\ c.armed = curl.armed
          /\ c.phase = [curl.phase EXCEPT ![call.next] = "added"]
          /\ c.tasks = curl.tasks \cup {call.next} /\ c.sockets = curl.sockets
      BY <3>1 DEF CurlStates, Phases
    <3> HIDE DEF c
    <3>3. /\ curl' \in CurlStates /\ Timed(curl') /\ curl'.wants = TRUE
          /\ curl'.phase = c.phase /\ curl'.tasks = c.tasks /\ curl'.sockets = c.sockets
      BY <1>1, <2>1, <3>2, TimerFunction DEF c
    <3>4. curl.phase \in [Reqs -> Phases]
      BY DEF CurlStates
    <3>5. Running(curl') = Running(curl) \cup {call.next}
      BY <3>1, <3>2, <3>3, <3>4 DEF Running
    <3>6. curl.sockets = {}
      BY <3>1 DEF NotConnected
    <3>7. Tracked(curl')
      BY <3>1, <3>2, <3>3, <3>4, <3>5, <3>6 DEF Tracked
    <3>8. CallTypes' /\ call'.pc = call.pc
      <4>1. call.next + 1 \in Nat \ {0}
        BY DEF CallTypes
      <4> QED BY <2>1, <3>1, <4>1 DEF CallTypes
    <3> QED BY <3>1, <3>2, <3>3, <3>6, <3>7, <3>8 DEF Wanted, NotConnected, CurlInv
  <2>2. CASE \E e \in {"NOMEM", "IO"} : call' = Fail("curl_undo", e) /\ UNCHANGED curl
    <3>1. call.pc = "curl" /\ UNCHANGED <<kind, futures>>
      BY <1>2 DEF curl_add
    <3>2. CallTypes' /\ call'.pc = "curl_undo"
      BY <2>2, <3>1 DEF CallTypes, Places
    <3> QED BY <2>2, <3>1, <3>2 DEF NotConnected, Timed, Tracked, Wanted, Running
  <2> QED BY <1>2, <2>1, <2>2 DEF curl_add
<1>3. CASE curl_added
  <2>1. UNCHANGED <<kind, futures, curl>> /\ call.pc = "curl"
    BY <1>3 DEF curl_added
  <2>2. CallTypes' /\ call'.pc = "release"
    BY <1>3, <2>1 DEF curl_added, CallTypes, Places
  <2> QED BY <2>1, <2>2 DEF NotConnected, Timed, Tracked, Wanted, Running
<1>4. CASE curl_undo
  <2> DEFINE c == [curl EXCEPT !.phase = [r \in Reqs |-> "idle"], !.tasks = {}]
  <2>1. /\ call.pc = "curl_undo" /\ curl.sockets = {} /\ UNCHANGED <<kind, futures>>
        /\ call' = [call EXCEPT !.pc = "release"]
        /\ curl' = IF curl.wants THEN multi_timer_function(c, FALSE) ELSE c
    BY <1>4 DEF curl_undo, NotConnected
  <2>2. /\ c \in CurlStates /\ c.timer = curl.timer /\ c.armed = curl.armed
        /\ c.wants = curl.wants /\ c.phase = [r \in Reqs |-> "idle"] /\ c.tasks = {}
        /\ c.sockets = {}
    BY <2>1 DEF CurlStates, Phases
  <2> HIDE DEF c
  <2>3. /\ curl' \in CurlStates /\ Timed(curl') /\ curl'.phase = c.phase
        /\ curl'.tasks = {} /\ curl'.sockets = {}
    <3>1. CASE curl.wants
      BY <1>1, <2>1, <2>2, <3>1, TimerFunction
    <3>2. CASE ~curl.wants
      BY <2>1, <2>2, <3>2 DEF Timed
    <3> QED BY <3>1, <3>2
  <2>4. Running(curl') = {} /\ Tracked(curl') /\ Wanted(curl')
    BY <2>2, <2>3 DEF Running, Tracked, Wanted
  <2>5. CallTypes' /\ call'.pc = "release"
    BY <2>1 DEF CallTypes, Places
  <2> QED BY <2>1, <2>3, <2>4, <2>5 DEF NotConnected
<1>5. ASSUME NEW completed \in SUBSET Running(curl), Finished(completed) PROVE futures' \in [Reqs -> Futures]
  BY <1>5 DEF Finished, Completed, Results, CallTypes, Futures, Errors
<1>6. CASE multi_timer_cb
  <2>1. PICK completed \in SUBSET Running(curl) :
          LET fired == [curl EXCEPT !.timer = "stale", !.armed = @ - 1, !.wants = FALSE]
              moved == {r \in Reqs : curl.phase[r] = "added"} \ completed
              run == multi_socket_function(
                       [fired EXCEPT !.phase = [r \in Reqs |-> IF r \in moved THEN "connected"
                                                               ELSE curl.phase[r]]],
                       curl.sockets \cup moved)
          IN Finished(completed) /\ Rearmed(ABSTRACT_HTTP_CHECK_MULTI_INFO(run, completed))
    BY <1>6 DEF multi_timer_cb
  <2> DEFINE fired == [curl EXCEPT !.timer = "stale", !.armed = @ - 1, !.wants = FALSE]
             moved == {r \in Reqs : curl.phase[r] = "added"} \ completed
             run == multi_socket_function(
                      [fired EXCEPT !.phase = [r \in Reqs |-> IF r \in moved THEN "connected"
                                                              ELSE curl.phase[r]]],
                      curl.sockets \cup moved)
  <2>2. curl.armed = 1 /\ call.pc = "ticking" /\ UNCHANGED <<kind, call>>
    BY <1>6 DEF multi_timer_cb, CurlStates
  <2>3. /\ run \in CurlStates /\ run.timer = "stale" /\ run.armed = 0 /\ run.wants = FALSE
        /\ run.phase = [r \in Reqs |-> IF r \in moved THEN "connected" ELSE curl.phase[r]]
        /\ run.sockets = curl.sockets \cup moved /\ run.tasks = curl.tasks
    <3>1. run = [curl EXCEPT !.timer = "stale", !.armed = 0, !.wants = FALSE,
                             !.phase = [r \in Reqs |-> IF r \in moved THEN "connected"
                                                       ELSE curl.phase[r]],
                             !.sockets = curl.sockets \cup moved]
      BY <2>2 DEF multi_socket_function, CurlStates
    <3> HIDE DEF run
    <3>2. [r \in Reqs |-> IF r \in moved THEN "connected" ELSE curl.phase[r]] \in [Reqs -> Phases]
      BY DEF CurlStates, Phases
    <3>3. curl.sockets \cup moved \in SUBSET Reqs
      BY DEF CurlStates
    <3> HIDE DEF moved
    <3> QED BY <3>1, <3>2, <3>3 DEF CurlStates
  <2> HIDE DEF run
  <2>4. Timed(run)
    BY <2>3 DEF Timed
  <2>5. Running(run) = Running(curl)
    BY <2>3 DEF Running
  <2>6. Tracked(run)
    BY <2>3, <2>5 DEF Tracked
  <2> DEFINE d == ABSTRACT_HTTP_CHECK_MULTI_INFO(run, completed)
  <2>7. completed \in SUBSET Reqs
    BY DEF Running
  <2>8. d \in CurlStates /\ Timed(d) /\ Tracked(d)
    BY <2>3, <2>4, <2>6, <2>7, DoneKeeps
  <2>9. Rearmed(d) /\ Finished(completed)
    BY <2>1 DEF run
  <2>11. Running(d) = Running(curl) \ completed
    BY <2>3, <2>4, <2>5, <2>6, <2>7, DoneKeeps
  <2> HIDE DEF d
  <2>12. Running(curl') = Running(curl) \ completed
    <3>1. curl'.phase = d.phase
      BY <2>8, <2>9, RearmedKeeps
    <3> QED BY <2>11, <3>1 DEF Running
  <2>10. curl' \in CurlStates /\ Timed(curl') /\ Tracked(curl') /\ Wanted(curl')
    BY <2>8, <2>9, RearmedKeeps
  <2> QED BY <1>5, <2>2, <2>9, <2>10, <2>12 DEF NotConnected, CallTypes
<1>7. CASE multi_socket_cb
  <2>1. PICK completed \in SUBSET Running(curl) :
          Finished(completed) /\ Rearmed(ABSTRACT_HTTP_CHECK_MULTI_INFO(curl, completed))
    BY <1>7 DEF multi_socket_cb
  <2> DEFINE d == ABSTRACT_HTTP_CHECK_MULTI_INFO(curl, completed)
  <2>2. completed \in SUBSET Reqs /\ call.pc = "ticking" /\ UNCHANGED <<kind, call>>
    BY <1>7 DEF multi_socket_cb, Running
  <2>3. d \in CurlStates /\ Timed(d) /\ Tracked(d) /\ Running(d) = Running(curl) \ completed
    BY <2>2, DoneKeeps
  <2> HIDE DEF d
  <2>5. Running(curl') = Running(curl) \ completed
    <3>1. curl'.phase = d.phase
      BY <2>1, <2>3, RearmedKeeps DEF d
    <3> QED BY <2>3, <3>1 DEF Running
  <2>4. curl' \in CurlStates /\ Timed(curl') /\ Tracked(curl') /\ Wanted(curl')
    BY <2>1, <2>3, RearmedKeeps DEF d
  <2> QED BY <1>5, <2>1, <2>2, <2>4, <2>5 DEF NotConnected, CallTypes
<1> QED BY <1>2, <1>3, <1>4, <1>6, <1>7 DEF curl_steps

LEMMA BatchTypesStep ==
  ASSUME FutureInv, [MultiNext]_multiVars
  PROVE  CurlInv' /\ WorkerTypes' /\ UNCHANGED kind
<1> USE DEF FutureInv
<1>1. CASE MultiSteps
  BY <1>1, CallStep DEF CurlInv, NotConnected, WorkerTypes, others, Timed, Tracked, Wanted, Running
<1>2. CASE curl_steps /\ UNCHANGED <<work, thread>>
  BY <1>2, CurlStep DEF WorkerTypes
<1>3. CASE worker_steps /\ UNCHANGED curl
  BY <1>3, WorkerStep DEF CurlInv, NotConnected, Timed, Tracked, Wanted, Running
<1>4. CASE UNCHANGED multiVars
  BY <1>4 DEF multiVars, CurlInv, CallTypes, NotConnected, WorkerTypes, Timed, Tracked, Wanted,
     Running
<1> QED BY <1>1, <1>2, <1>3, <1>4 DEF MultiNext

(* A completed future.                                                      *)
Final == \A r \in Reqs : futures[r].ready => futures'[r] = futures[r]

(* The call completes the future of its next request, which is not ready.   *)
LEMMA CallKeepsReady ==
  ASSUME FutureInv, MultiSteps
  PROVE  OneBackend' /\ NotYetReady' /\ Final
<1> USE DEF FutureInv
<1>1. UNCHANGED <<kind, curl, work, thread>> /\ Running(curl') = Running(curl)
  BY CallStep DEF CurlInv, others, Running
<1>2. CASE client_begin
  <2>1. /\ call.pc = "begin" /\ call.next = 1 /\ UNCHANGED futures
        /\ \/ call'.pc = (IF ~kind.async THEN "each" ELSE kind.backend) /\ call'.next = call.next
           \/ call'.pc = "returned"
    BY <1>2 DEF client_begin, At, Fail, CurlInv, CallTypes, NotYetReady
  <2>2. /\ kind.backend \in {"none", "curl", "winhttp", "raw", "fetch", "msh3", "apple",
                             "picoquic", "xquic"}
        /\ ~kind.async => kind.backend = "none"
    BY BatchBackendsKnown DEF CurlInv, CallTypes, Kinds
  <2>3. OneBackend'
    BY <1>1, <2>1, <2>2 DEF OneBackend, Sequential
  <2>4. NotYetReady'
    BY <1>1, <2>1, <2>2 DEF NotYetReady, Sequential, OneBackend
  <2> QED BY <2>1, <2>3, <2>4 DEF Final
<1>3. ASSUME UNCHANGED futures,
             call'.pc \in {"release", "returned", "ticking", "finished",
                           "fetch_wakeup", "xquic_wakeup"}
      PROVE  OneBackend' /\ NotYetReady' /\ Final
  BY <1>1, <1>3 DEF OneBackend, NotYetReady, Sequential, Final
<1>4. ASSUME NEW place \in Sequential, NEW next_place \in {"release", "fetch_wakeup", "xquic_wakeup"},
             NEW stops, NEW results, SendEach(place, next_place, stops, results)
      PROVE  OneBackend' /\ NotYetReady' /\ Final
  <2>1. call.pc = place
    BY <1>4 DEF SendEach, At
  <2>2. CASE call.next > BatchSize
    BY <1>3, <1>4, <2>2 DEF SendEach, Goto, CurlInv, CallTypes
  <2>3. CASE ~(call.next > BatchSize)
    <3>1. PICK result \in results :
            /\ futures' = [futures EXCEPT ![call.next] = Completed(result)]
            /\ call' = IF result.error # SUCCESS /\ stops THEN Fail("release", result.error)
                       ELSE [call EXCEPT !.next = @ + 1]
      BY <1>4, <2>3 DEF SendEach
    <3>2. call.next \in Reqs
      BY <2>3, BatchIsNotEmpty DEF CurlInv, CallTypes, Reqs
    <3>3. ~futures[call.next].ready
      BY <2>1, <3>2 DEF NotYetReady, CurlInv, CallTypes, Reqs
    <3>4. \A r \in Reqs : r # call.next => futures'[r] = futures[r]
      BY <3>1 DEF CurlInv, CallTypes
    <3>5. Final
      BY <3>3, <3>4 DEF Final
    <3>6. \/ call'.pc = "release"
          \/ call'.pc = place /\ call'.next = call.next + 1
      BY <2>1, <3>1 DEF Fail, CurlInv, CallTypes
    <3>7. /\ kind.backend \notin {"curl", "winhttp", "apple"}
          /\ Running(curl) = {} /\ thread.pc = "none"
          /\ \A r \in Reqs : work[r] \notin {"queued", "sent"}
      BY <2>1 DEF OneBackend
    <3>8. OneBackend'
      BY <1>1, <2>1, <3>6, <3>7 DEF OneBackend, Sequential
    <3>9. NotYetReady'
      <4>1. CASE call'.pc = "release"
        BY <1>1, <3>7, <4>1 DEF NotYetReady, Sequential
      <4>2. CASE call'.pc = place /\ call'.next = call.next + 1
        <5>1. call.next \in Nat /\ Reqs \subseteq Nat
          BY DEF CurlInv, CallTypes, Reqs
        <5>2. \A r \in Reqs : r >= call'.next => r # call.next /\ r >= call.next
          BY <4>2, <5>1
        <5>3. \A r \in Reqs : r >= call'.next => ~futures'[r].ready
          BY <2>1, <3>4, <5>2 DEF NotYetReady
        <5> QED BY <1>1, <3>7, <4>2, <5>3 DEF NotYetReady, Sequential
      <4> QED BY <3>6, <4>1, <4>2
    <3> QED BY <3>5, <3>8, <3>9
  <2> QED BY <2>2, <2>3
<1>5. ASSUME NEW place, Wakes(place) PROVE OneBackend' /\ NotYetReady' /\ Final
  BY <1>3, <1>5 DEF Wakes, Goto, Fail, CurlInv, CallTypes
<1>6. CASE client_not_supported \/ client_release \/ application_waits \/ application_checks
  BY <1>3, <1>6 DEF client_not_supported, client_release, application_waits, application_checks,
     Goto, Fail, At, CurlInv, CallTypes
<1>7. {"each", "raw", "msh3", "picoquic", "fetch", "xquic"} \subseteq Sequential
  BY DEF Sequential
<1>8. CASE client_loop \/ http_raw_send_multi \/ http_msh3_send_multi \/ http_picoquic_send_multi
  BY <1>4, <1>7, <1>8, Zenon DEF client_loop, http_raw_send_multi, http_msh3_send_multi,
     http_picoquic_send_multi
<1>9. CASE http_fetch_send_multi \/ http_xquic_send_multi
  BY <1>4, <1>5, <1>7, <1>9, Zenon DEF http_fetch_send_multi, http_xquic_send_multi
<1> QED BY <1>2, <1>6, <1>8, <1>9 DEF MultiSteps

(* libcurl completes the futures of running transfers, and only those.      *)
LEMMA CurlKeepsReady ==
  ASSUME FutureInv, curl_steps, UNCHANGED <<work, thread>>
  PROVE  OneBackend' /\ NotYetReady' /\ Final
<1> USE DEF FutureInv
<1>1. UNCHANGED kind
      /\ (call'.pc = call.pc
          \/ (call.pc \in {"curl", "curl_undo"} /\ call'.pc \in {"curl_undo", "release"}))
  BY CurlStep
<1>2. CASE call.pc \in {"curl", "curl_undo"} /\ UNCHANGED futures
  <2>1. kind.backend = "curl" /\ \A r \in Reqs : ~futures[r].ready
    BY <1>2 DEF OneBackend, NotYetReady
  <2>2. call'.pc \in {"curl", "curl_undo", "release"}
    BY <1>1, <1>2
  <2>3. thread.pc = "none" /\ \A r \in Reqs : work[r] \notin {"queued", "sent", "ready"}
    BY <2>1 DEF OneBackend
  <2>4. OneBackend'
    BY <1>1, <2>1, <2>2, <2>3 DEF OneBackend, Sequential
  <2>5. NotYetReady'
    BY <1>2, <2>1, <2>2, <2>3 DEF NotYetReady, Sequential
  <2> QED BY <1>2, <2>4, <2>5 DEF Final
<1>3. ASSUME call.pc = "ticking", NEW completed \in SUBSET Running(curl), Finished(completed),
             Running(curl') = Running(curl) \ completed
      PROVE  OneBackend' /\ NotYetReady' /\ Final
  <2>1. call'.pc = "ticking"
    BY <1>1, <1>3
  <2>2. \A r \in Reqs : r \notin completed => futures'[r] = futures[r]
    BY <1>3 DEF Finished, CurlInv, CallTypes
  <2>3. \A r \in completed : ~futures[r].ready
    BY DEF NotYetReady, Running
  <2>4. Final
    BY <2>2, <2>3 DEF Final
  <2>5. OneBackend'
    BY <1>1, <1>3, <2>1 DEF OneBackend, Sequential
  <2>6. NotYetReady'
    <3>1. CASE completed = {}
      BY <1>3, <2>1, <2>2, <3>1 DEF NotYetReady, Sequential
    <3>2. CASE completed # {}
      <4>1. /\ kind.backend = "curl" /\ thread.pc = "none"
            /\ \A r \in Reqs : work[r] \notin {"queued", "sent"}
        BY <3>2 DEF OneBackend
      <4>2. \A r \in Running(curl') : ~futures'[r].ready
        BY <1>3, <2>2 DEF NotYetReady, Running
      <4> QED BY <2>1, <4>1, <4>2 DEF NotYetReady, Sequential
    <3> QED BY <3>1, <3>2
  <2> QED BY <2>4, <2>5, <2>6
<1> QED BY <1>2, <1>3, CurlStep

(* A work item, or Apple's thread, completes the futures that are its own.   *)
LEMMA WorkersKeepReady ==
  ASSUME FutureInv, worker_steps, UNCHANGED curl
  PROVE  OneBackend' /\ NotYetReady' /\ Final
<1> USE DEF FutureInv
<1>1. UNCHANGED kind /\ Running(curl') = Running(curl)
      /\ (call'.pc = call.pc \/ (call.pc \in {"winhttp", "apple"} /\ call'.pc = "release"))
  BY WorkerStep DEF CurlInv, Running
<1> USE DEF CurlInv, CallTypes, WorkerTypes
<1>2. CASE winhttp_queue
  <2>1. /\ call.pc = "winhttp" /\ kind.backend = "winhttp" /\ thread.pc = "none"
        /\ Running(curl) = {} /\ UNCHANGED <<futures, thread>>
    BY <1>2 DEF winhttp_queue, At, OneBackend
  <2>2. CASE call'.pc = "release" /\ UNCHANGED work
    <3>1. OneBackend'
      BY <1>1, <2>1, <2>2 DEF OneBackend, Sequential
    <3>2. NotYetReady'
      BY <1>1, <2>1, <2>2 DEF NotYetReady, Sequential
    <3> QED BY <2>1, <3>1, <3>2 DEF Final
  <2>3. ASSUME call.next <= BatchSize, call' = [call EXCEPT !.next = @ + 1],
               work' = [work EXCEPT ![call.next] = "queued"]
        PROVE  OneBackend' /\ NotYetReady' /\ Final
    <3>1. call.next \in Reqs /\ Reqs \subseteq Nat /\ call.next \in Nat
      BY <2>3, BatchIsNotEmpty DEF Reqs
    <3>2. ~futures[call.next].ready /\ call'.pc = "winhttp" /\ call'.next = call.next + 1
      BY <2>1, <2>3, <3>1 DEF NotYetReady, Sequential
    <3>3. \A r \in Reqs : r # call.next => work'[r] = work[r]
      BY <2>3
    <3>4. \A r \in Reqs : r >= call'.next => r # call.next /\ r >= call.next
      BY <3>1, <3>2
    <3>5. OneBackend'
      BY <1>1, <2>1, <3>2 DEF OneBackend, Sequential
    <3>6. NotYetReady'
      BY <1>1, <2>1, <3>2, <3>3, <3>4 DEF NotYetReady, Sequential
    <3> QED BY <2>1, <3>5, <3>6 DEF Final
  <2>4. call.next > BatchSize \/ call.next <= BatchSize
    BY BatchIsNotEmpty
  <2>5. CASE call.next > BatchSize
    BY <1>2, <2>2, <2>5 DEF winhttp_queue, Goto
  <2>6. CASE ~(call.next > BatchSize)
    BY <1>2, <2>2, <2>3, <2>4, <2>6 DEF winhttp_queue, Fail
  <2> QED BY <2>5, <2>6
<1>3. CASE winhttp_async_worker
  <2>1. UNCHANGED <<kind, call, thread>>
    BY <1>3 DEF winhttp_async_worker
  <2>2. PICK r \in Reqs :
          \/ /\ work[r] = "queued" /\ work' = [work EXCEPT ![r] = "sent"]
             /\ \E result \in Results :
                  futures' = [futures EXCEPT ![r].error = result.error,
                                             ![r].response = result.response]
          \/ /\ work[r] = "sent" /\ work' = [work EXCEPT ![r] = "ready"]
             /\ futures' = [futures EXCEPT ![r].ready = TRUE]
          \/ work[r] = "ready" /\ work' = [work EXCEPT ![r] = "done"] /\ UNCHANGED futures
    BY <1>3 DEF winhttp_async_worker
  <2>3. kind.backend = "winhttp" /\ Running(curl) = {} /\ thread.pc = "none"
    BY <2>2 DEF OneBackend
  <2>4. \A x \in Reqs : x # r => futures'[x] = futures[x] /\ work'[x] = work[x]
    BY <2>2
  <2>5. work[r] \in {"queued", "sent"} => ~futures[r].ready
    BY DEF NotYetReady
  <2>6. Final
    <3>1. CASE UNCHANGED futures
      BY <3>1 DEF Final
    <3>2. CASE work[r] \in {"queued", "sent"}
      BY <2>4, <2>5, <3>2 DEF Final
    <3> QED BY <2>2, <3>1, <3>2
  <2>7. work'[r] \in {"queued", "sent"} => ~futures'[r].ready
    <3>1. CASE work[r] = "queued"
      <4>1. PICK result \in Results : futures' = [futures EXCEPT ![r].error = result.error,
                                                                 ![r].response = result.response]
        BY <2>2, <3>1
      <4>2. futures'[r] = [futures[r] EXCEPT !.error = result.error, !.response = result.response]
        BY <4>1
      <4>3. futures[r] \in Futures
        OBVIOUS
      <4>4. futures'[r].ready = futures[r].ready
        BY <4>2, <4>3 DEF Futures
      <4> QED BY <2>5, <3>1, <4>4
    <3>2. CASE work[r] # "queued"
      BY <2>2, <3>2
    <3> QED BY <3>1, <3>2
  <2>8. OneBackend'
    BY <1>1, <2>1, <2>3 DEF OneBackend, Sequential
  <2>9. call.pc \notin {"begin", "apple", "curl", "curl_undo"} \cup Sequential
    BY <2>2, <2>3 DEF OneBackend, NotYetReady
  <2>10. call.pc = "winhttp" => \A x \in Reqs : x >= call.next =>
           x # r /\ work'[x] = "none" /\ ~futures'[x].ready
    BY <2>2, <2>4 DEF NotYetReady
  <2>11. \A x \in Reqs : work'[x] \in {"queued", "sent"} => ~futures'[x].ready
    BY <2>4, <2>7 DEF NotYetReady
  <2>12. NotYetReady'
    BY <1>1, <2>1, <2>3, <2>9, <2>10, <2>11 DEF NotYetReady
  <2> QED BY <2>6, <2>8, <2>12
<1>4. CASE apple_start
  <2>1. /\ call.pc = "apple" /\ call'.pc = "release" /\ kind.backend = "apple"
        /\ Running(curl) = {} /\ UNCHANGED <<futures, work>>
        /\ thread.pc = "none" /\ thread'.pc \in {"none", "start"}
        /\ \A r \in Reqs : ~futures[r].ready
    BY <1>4 DEF apple_start, At, Goto, Fail, OneBackend, NotYetReady, Threads
  <2>2. OneBackend'
    BY <1>1, <2>1 DEF OneBackend, Sequential
  <2>3. NotYetReady'
    BY <1>1, <2>1 DEF NotYetReady, Sequential
  <2> QED BY <2>1, <2>2, <2>3 DEF Final
<1>5. ASSUME UNCHANGED call, thread.pc # "none",
             \A r \in Reqs : work'[r] \notin {"queued", "sent", "ready"},
             thread'.pc \in {"start", "open", "run"} => \A r \in Reqs : ~futures'[r].ready,
             thread'.pc = "collect" => \A r \in Reqs : r >= thread'.next => ~futures'[r].ready
      PROVE  OneBackend' /\ NotYetReady'
  <2>1. kind.backend = "apple" /\ Running(curl) = {} /\ call.pc \notin {"begin", "apple"}
    BY <1>5 DEF OneBackend
  <2>2. call.pc \notin Sequential \cup {"curl", "curl_undo", "winhttp"}
    BY <2>1 DEF OneBackend
  <2>3. OneBackend'
    BY <1>1, <1>5, <2>1, <2>2 DEF OneBackend
  <2>4. NotYetReady'
    BY <1>1, <1>5, <2>1, <2>2 DEF NotYetReady
  <2> QED BY <2>3, <2>4
<1>6. thread.pc # "none" => \A r \in Reqs : work[r] \notin {"queued", "sent", "ready"}
  BY DEF OneBackend
<1>7. CASE apple_begin
  <2>1. /\ thread.pc = "start" /\ thread'.pc \in {"open", "ended"}
        /\ UNCHANGED <<call, futures, work>>
    BY <1>7 DEF apple_begin, Threads
  <2>2. \A r \in Reqs : ~futures[r].ready
    BY <2>1 DEF NotYetReady
  <2> QED BY <1>5, <1>6, <2>1, <2>2 DEF Final
<1>8. CASE apple_open
  <2>1. thread.pc = "open" /\ UNCHANGED call /\ \A r \in Reqs : ~futures[r].ready
    BY <1>8 DEF apple_open, NotYetReady
  <2>2. UNCHANGED futures \/ \E made \in BOOLEAN :
          futures' = [futures EXCEPT ![thread.next].response = made]
    BY <1>8 DEF apple_open
  <2>3. \A r \in Reqs : ~futures'[r].ready
    <3>1. ASSUME NEW made \in BOOLEAN, futures' = [futures EXCEPT ![thread.next].response = made],
                 NEW r \in Reqs
          PROVE  futures'[r].ready = futures[r].ready
      <4>1. futures[r] \in Futures
        OBVIOUS
      <4>2. futures'[r] = IF r = thread.next THEN [futures[r] EXCEPT !.response = made] ELSE futures[r]
        BY <3>1
      <4> QED BY <4>1, <4>2 DEF Futures
    <3> QED BY <2>1, <2>2, <3>1
  <2>4. \A r \in Reqs : work'[r] \notin {"queued", "sent", "ready"}
    BY <1>6, <1>8, <2>1 DEF apple_open
  <2> QED BY <1>5, <2>1, <2>3, <2>4 DEF Final
<1>9. CASE apple_stream_done
  <2>1. thread.pc = "run" /\ UNCHANGED <<call, futures>> /\ \A r \in Reqs : ~futures[r].ready
    BY <1>9 DEF apple_stream_done, NotYetReady
  <2>2. \A r \in Reqs : work'[r] \notin {"queued", "sent", "ready"}
    BY <1>6, <1>9, <2>1 DEF apple_stream_done
  <2> QED BY <1>5, <2>1, <2>2 DEF Final
<1>10. CASE apple_collect
  <2>1. /\ thread.pc = "collect" /\ UNCHANGED <<call, work>>
        /\ \A r \in Reqs : r >= thread.next => ~futures[r].ready
    BY <1>10 DEF apple_collect, NotYetReady
  <2>2. CASE thread.next > Count
    <3>1. thread'.pc = "ended" /\ UNCHANGED futures
      BY <1>10, <2>2 DEF apple_collect, Threads
    <3> QED BY <1>5, <1>6, <2>1, <3>1 DEF Final
  <2>3. CASE ~(thread.next > Count)
    <3>1. /\ thread' = [thread EXCEPT !.next = @ + 1]
          /\ \E e : futures' = [futures EXCEPT ![thread.next].error = e,
                                               ![thread.next].ready = TRUE]
      BY <1>10, <2>3 DEF apple_collect
    <3>2. thread.next \in Nat /\ Reqs \subseteq Nat /\ thread'.next = thread.next + 1
          /\ thread'.pc = "collect"
      BY <2>1, <3>1 DEF Threads, Reqs
    <3>3. \A r \in Reqs : r # thread.next => futures'[r] = futures[r]
      BY <3>1
    <3>4. \A r \in Reqs : r >= thread'.next => r # thread.next /\ r >= thread.next
      BY <3>2
    <3>5. Final
      BY <2>1, <3>2, <3>3 DEF Final
    <3> QED BY <1>5, <1>6, <2>1, <3>2, <3>3, <3>4, <3>5
  <2> QED BY <2>2, <2>3
<1> QED BY <1>2, <1>3, <1>4, <1>7, <1>8, <1>9, <1>10 DEF worker_steps

LEMMA BatchStep ==
  ASSUME FutureInv, [MultiNext]_multiVars
  PROVE  FutureInv' /\ Final
<1>1. CASE UNCHANGED multiVars
  BY <1>1 DEF multiVars, FutureInv, OneBackend, NotYetReady, Final, Running, CurlInv, CallTypes,
     NotConnected, WorkerTypes, Timed, Tracked, Wanted
<1>2. CASE MultiNext
  BY <1>2, BatchTypesStep, CallKeepsReady, CurlKeepsReady, WorkersKeepReady DEF MultiNext, FutureInv
<1> QED BY <1>1, <1>2

LEMMA ServedMeansServes == FutureInv => LoopServesCurl
<1> SUFFICES ASSUME FutureInv PROVE LoopServesCurl
  OBVIOUS
<1>1. \A r \in Running(curl) : curl.phase[r] = "added" \/ curl.phase[r] = "connected"
  BY DEF Running
<1>2. Running(curl) \subseteq Reqs /\ curl.sockets \subseteq Running(curl)
  BY DEF FutureInv, CurlInv, Tracked, Running
<1> QED BY <1>1, <1>2 DEF FutureInv, CurlInv, Timed, Tracked, Wanted, LoopServesCurl

(* Batches that are sent one by one, in the caller's thread.                *)
OneByOne == ~kind.async \/ kind.backend \in {"raw", "fetch", "picoquic"}
Loop == IF kind.async THEN kind.backend ELSE "each"
Stops == kind.failFast \/ kind.async

(* The first n requests were sent; a batch that stops at an error has none  *)
(* before the last of them, and none there unless it is what is returned.   *)
Sent(n) ==
  /\ \A r \in Reqs : futures[r].ready <=> r <= n
  /\ call.rc = "IO" => n > 0 /\ futures[n].error # SUCCESS
  /\ Stops => \A r \in 1..n : futures[r].error # SUCCESS => r = n /\ call.rc = "IO"
  /\ call.pc \in {"begin", Loop} => call.rc = SUCCESS /\ call.next = n + 1
  /\ call.pc = "fetch_wakeup" => call.rc = SUCCESS /\ n = BatchSize
  /\ call.pc \in {"release", "returned"} /\ call.rc = SUCCESS => n = BatchSize

OrderInv ==
  OneByOne =>
    /\ call.pc \in {"begin", Loop, "release", "returned", "ticking", "finished"}
                     \cup (IF Loop = "fetch" THEN {"fetch_wakeup"} ELSE {})
    /\ call.pc \notin {"ticking", "finished"} => \E n \in 0..BatchSize : Sent(n)

LEMMA OrderInit == MultiInit => OrderInv
<1> SUFFICES ASSUME MultiInit PROVE OrderInv
  OBVIOUS
<1>1. call.pc = "begin" /\ call.next = 1 /\ call.rc = SUCCESS /\ \A r \in Reqs : ~futures[r].ready
  BY DEF MultiInit, NewFuture
<1>2. Sent(0)
  BY <1>1, BatchIsNotEmpty DEF Sent, Reqs, SUCCESS
<1> QED BY <1>1, <1>2, BatchIsNotEmpty DEF OrderInv

(* The other backends do nothing in such a batch.                           *)
LEMMA OthersKeepOrder ==
  ASSUME FutureInv, OneByOne,
         (curl_steps /\ UNCHANGED <<work, thread>>) \/ (worker_steps /\ UNCHANGED curl)
  PROVE  UNCHANGED <<kind, call>> /\ (UNCHANGED futures \/ call.pc = "ticking")
<1>1. kind.backend \notin {"curl", "winhttp", "apple"}
  BY DEF FutureInv, CurlInv, CallTypes, OneByOne
<1>2. /\ call.pc \notin {"curl", "curl_undo", "winhttp", "apple"} /\ thread.pc = "none"
      /\ \A r \in Reqs : work[r] \notin {"queued", "sent", "ready"}
  BY <1>1 DEF FutureInv, OneBackend
<1>3. ASSUME curl_steps PROVE UNCHANGED <<kind, call>> /\ call.pc = "ticking"
  BY <1>2, <1>3 DEF curl_steps, curl_add, curl_added, curl_undo, multi_timer_cb, multi_socket_cb, At
<1>4. ASSUME worker_steps PROVE FALSE
  BY <1>2, <1>4 DEF worker_steps, winhttp_queue, winhttp_async_worker, apple_start, apple_begin,
                    apple_open, apple_stream_done, apple_collect, At
<1> QED BY <1>3, <1>4

LEMMA SendKeepsOrder ==
  ASSUME CallTypes, OrderInv, OneByOne, NEW next_place, NEW stops, NEW results \in SUBSET Results,
         SendEach(Loop, next_place, stops, results), stops = Stops,
         next_place = IF Loop = "fetch" THEN "fetch_wakeup" ELSE "release"
  PROVE  OrderInv'
<1>. PICK loop : loop = Loop
  OBVIOUS
<1>1. call.pc = loop /\ UNCHANGED <<kind, wake>> /\ Loop' = loop /\ Stops' = Stops
  BY DEF SendEach, At, Loop, Stops
<1>2. loop \in {"each", "raw", "fetch", "picoquic"}
  BY DEF OneByOne, Loop, CallTypes
<1>3. PICK n \in 0..BatchSize : Sent(n)
  BY <1>1, <1>2 DEF OrderInv
<1>4. call.next = n + 1 /\ call.rc = SUCCESS /\ n \in Nat /\ BatchSize \in Nat
  BY <1>1, <1>3, BatchIsNotEmpty DEF Sent
<1>5. \/ call' = [call EXCEPT !.pc = next_place] /\ UNCHANGED futures
      \/ \E result \in results :
           /\ futures' = [futures EXCEPT ![call.next] = Completed(result)]
           /\ call' = IF result.error # SUCCESS /\ stops
                      THEN [call EXCEPT !.pc = "release", !.rc = result.error]
                      ELSE [call EXCEPT !.next = @ + 1]
  BY DEF SendEach, Goto, Fail
<1>6. CASE call.next > BatchSize
  <2>1. call' = [call EXCEPT !.pc = next_place] /\ UNCHANGED futures /\ n = BatchSize
    BY <1>3, <1>4, <1>6 DEF SendEach, Goto
  <2>2. call'.pc = next_place /\ call'.rc = SUCCESS
    BY <1>4, <2>1 DEF CallTypes
  <2>3. Sent(n)'
    BY <1>1, <1>2, <1>3, <1>4, <2>1, <2>2 DEF Sent, SUCCESS
  <2> QED BY <1>1, <1>2, <2>2, <2>3 DEF OrderInv
<1>7. CASE ~(call.next > BatchSize)
  <2>1. PICK result \in results :
          /\ futures' = [futures EXCEPT ![call.next] = Completed(result)]
          /\ call' = IF result.error # SUCCESS /\ stops
                     THEN [call EXCEPT !.pc = "release", !.rc = result.error]
                     ELSE [call EXCEPT !.next = @ + 1]
    BY <1>7 DEF SendEach, Fail
  <2>2. n + 1 \in Reqs /\ n + 1 \in 0..BatchSize
    BY <1>4, <1>7 DEF Reqs
  <2>3. result.error \in {SUCCESS, "IO"}
    BY DEF Results
  <2>4. /\ futures'[n + 1].ready /\ futures'[n + 1].error = result.error
        /\ \A r \in Reqs : r # n + 1 => futures'[r] = futures[r]
    BY <1>4, <2>1, <2>2 DEF CallTypes, Completed
  <2>5. (\A r \in Reqs : futures[r].ready <=> r <= n + 1)'
    <3>1. \A r \in Reqs : r <= n + 1 <=> r <= n \/ r = n + 1
      BY <1>4 DEF Reqs
    <3>2. \A r \in Reqs : futures[r].ready <=> r <= n
      BY <1>3 DEF Sent
    <3> QED BY <2>4, <3>1, <3>2
  <2>6. \A r \in 1..n : r \in Reqs /\ r # n + 1 /\ r # n + 2
    BY <1>3, <1>4 DEF Reqs
  <2>7. Stops => \A r \in 1..n : futures'[r].error = SUCCESS
    BY <1>3, <1>4, <2>4, <2>6 DEF Sent, SUCCESS
  <2>8. \A r \in 1..n + 1 : r = n + 1 \/ r \in 1..n
    BY <1>4
  <2>9. CASE result.error # SUCCESS /\ Stops
    <3>1. call'.pc = "release" /\ call'.rc = "IO"
      BY <2>1, <2>3, <2>9 DEF CallTypes
    <3>2. Sent(n + 1)'
      BY <1>1, <1>2, <1>4, <2>3, <2>4, <2>5, <2>7, <2>8, <2>9, <3>1 DEF Sent, SUCCESS
    <3> QED BY <1>1, <2>2, <3>1, <3>2 DEF OrderInv
  <2>10. CASE ~(result.error # SUCCESS /\ Stops)
    <3>1. call'.pc = loop /\ call'.rc = SUCCESS /\ call'.next = n + 2
      BY <1>1, <1>4, <2>1, <2>10 DEF CallTypes
    <3>2. Sent(n + 1)'
      BY <1>1, <1>2, <1>4, <2>3, <2>4, <2>5, <2>7, <2>8, <2>10, <3>1 DEF Sent, SUCCESS
    <3> QED BY <1>1, <2>2, <3>1, <3>2 DEF OrderInv
  <2> QED BY <2>9, <2>10
<1> QED BY <1>6, <1>7

LEMMA OrderStep ==
  ASSUME FutureInv, OrderInv, [MultiNext]_multiVars
  PROVE  OrderInv'
<1> USE DEF FutureInv, CurlInv
<1> SUFFICES ASSUME OneByOne' PROVE OrderInv'
  BY DEF OrderInv
<1>1. kind' = kind /\ OneByOne /\ Loop' = Loop /\ Stops' = Stops
  <2>1. kind' = kind
    BY CallStep, CurlStep, OthersKeepOrder, WorkerStep DEF MultiNext, multiVars
  <2> QED BY <2>1 DEF OneByOne, Loop, Stops
<1>2. ASSUME UNCHANGED call, UNCHANGED futures \/ call.pc = "ticking" PROVE OrderInv'
  BY <1>1, <1>2 DEF OrderInv, Sent
<1>3. CASE UNCHANGED multiVars \/ (curl_steps /\ UNCHANGED <<work, thread>>)
           \/ (worker_steps /\ UNCHANGED curl)
  BY <1>1, <1>2, <1>3, OthersKeepOrder DEF multiVars
<1>4. Loop \in {"each", "raw", "fetch", "picoquic"}
  BY <1>1 DEF OneByOne, Loop
<1>5. CASE MultiSteps
  <2>1. CASE client_begin
    <3>1. /\ call.pc = "begin" /\ UNCHANGED futures
          /\ \/ call' = [call EXCEPT !.pc = Loop, !.list = "live"]
             \/ call' = [call EXCEPT !.pc = "returned", !.rc = "NOMEM"]
      BY <2>1 DEF client_begin, At, Fail, Loop
    <3>2. PICK n \in 0..BatchSize : Sent(n)
      BY <1>1, <3>1 DEF OrderInv
    <3>3. call.rc = SUCCESS
      BY <3>1, <3>2 DEF Sent
    <3>4. CASE call' = [call EXCEPT !.pc = Loop, !.list = "live"]
      <4>1. call'.pc = Loop /\ call'.rc = SUCCESS /\ call'.next = call.next
        BY <3>3, <3>4 DEF CallTypes
      <4>2. Sent(n)'
        BY <1>1, <1>4, <3>1, <3>2, <4>1 DEF Sent, SUCCESS
      <4> QED BY <1>1, <1>4, <4>1, <4>2 DEF OrderInv
    <3>5. CASE call' = [call EXCEPT !.pc = "returned", !.rc = "NOMEM"]
      <4>1. call'.pc = "returned" /\ call'.rc = "NOMEM"
        BY <3>5 DEF CallTypes
      <4>2. Sent(n)'
        BY <1>1, <1>4, <3>1, <3>2, <3>3, <4>1 DEF Sent, SUCCESS
      <4> QED BY <1>1, <1>4, <4>1, <4>2 DEF OrderInv
    <3> QED BY <3>1, <3>4, <3>5
  <2>2. CASE client_not_supported \/ http_msh3_send_multi \/ http_xquic_send_multi
    <3>1. call.pc \in {"none", "msh3", "xquic", "xquic_wakeup"}
      BY <2>2 DEF client_not_supported, http_msh3_send_multi, http_xquic_send_multi, SendEach, Wakes, At
    <3> QED BY <1>1, <1>4, <3>1 DEF OrderInv
  <2>3. CASE client_loop \/ http_raw_send_multi \/ http_picoquic_send_multi
             \/ (SendEach("fetch", "fetch_wakeup", TRUE, Results) /\ UNCHANGED others)
    <3>1. Results \in SUBSET Results /\ NoResult \in SUBSET Results
      BY DEF Results, NoResult
    <3>2. call.pc = Loop
      <4>1. call.pc \in {"each", "raw", "fetch", "picoquic"}
        BY <2>3 DEF client_loop, http_raw_send_multi, http_picoquic_send_multi, SendEach, At
      <4> QED BY <1>1, <1>4, <4>1 DEF OrderInv
    <3>3. Loop = "each" <=> ~kind.async
      BY <1>1, <1>4 DEF OneByOne, Loop
    <3>4. CASE client_loop
      <4>1. call.pc = "each" /\ SendEach("each", "release", kind.failFast, Results)
        BY <3>4 DEF client_loop, SendEach, At
      <4>2. kind.failFast = Stops
        BY <3>2, <3>3, <4>1 DEF Stops, CallTypes, Kinds
      <4> QED BY <1>1, <3>1, <3>2, <4>1, <4>2, SendKeepsOrder
    <3>5. ASSUME NEW place \in {"raw", "picoquic", "fetch"}, NEW next_place,
                 NEW results \in SUBSET Results, SendEach(place, next_place, TRUE, results),
                 next_place = IF place = "fetch" THEN "fetch_wakeup" ELSE "release"
          PROVE  OrderInv'
      <4>1. call.pc = place
        BY <3>5 DEF SendEach, At
      <4>2. TRUE = Stops
        BY <3>2, <3>3, <4>1 DEF Stops, CallTypes, Kinds
      <4> QED BY <1>1, <3>2, <3>5, <4>1, <4>2, SendKeepsOrder
    <3> QED BY <2>3, <3>1, <3>4, <3>5 DEF http_raw_send_multi, http_picoquic_send_multi
  <2>4. CASE Wakes("fetch_wakeup")
    <3>1. /\ call.pc = "fetch_wakeup" /\ UNCHANGED futures
          /\ \/ call' = [call EXCEPT !.pc = "release"]
             \/ call' = [call EXCEPT !.pc = "release", !.rc = "wakeup"]
      BY <2>4 DEF Wakes, At, Goto, Fail
    <3>2. PICK n \in 0..BatchSize : Sent(n)
      BY <1>1, <3>1 DEF OrderInv
    <3>3. call'.pc = "release" /\ call'.rc \in {call.rc, "wakeup"}
      BY <3>1 DEF CallTypes
    <3>4. Sent(n)'
      BY <1>1, <1>4, <3>1, <3>2, <3>3 DEF Sent, SUCCESS
    <3> QED BY <1>1, <3>3, <3>4 DEF OrderInv
  <2>5. CASE client_release
    <3>1. /\ call.pc = "release" /\ UNCHANGED futures
          /\ call'.pc = "returned" /\ call'.rc = call.rc
      BY <2>5 DEF client_release, At, CallTypes
    <3>2. PICK n \in 0..BatchSize : Sent(n)
      BY <1>1, <3>1 DEF OrderInv
    <3>3. Sent(n)'
      BY <1>1, <1>4, <3>1, <3>2 DEF Sent
    <3> QED BY <1>1, <3>1, <3>3 DEF OrderInv
  <2>6. CASE application_waits \/ application_checks
    <3>1. call'.pc \in {"ticking", "finished"}
      BY <2>6 DEF application_waits, application_checks, At, Goto, CallTypes
    <3> QED BY <1>1, <3>1 DEF OrderInv
  <2> QED BY <1>5, <2>1, <2>2, <2>3, <2>4, <2>5, <2>6 DEF MultiSteps, http_fetch_send_multi
<1> QED BY <1>3, <1>5 DEF MultiNext

LEMMA OrderMeansStops == OrderInv => StopsAtError
<1> SUFFICES ASSUME OrderInv, call.pc = "returned", OneByOne
             PROVE  LET answered == {r \in Reqs : futures[r].ready}
                        last == Cardinality(answered)
                    IN /\ answered = 1..last
                       /\ call.rc = SUCCESS => answered = Reqs
                       /\ call.rc = "IO" => last > 0 /\ futures[last].error # SUCCESS
                       /\ Stops => \A r \in answered : futures[r].error # SUCCESS => r = last /\ call.rc = "IO"
  BY DEF StopsAtError, OneByOne, At, Stops
<1>1. PICK n \in 0..BatchSize : Sent(n)
  BY DEF OrderInv
<1>2. n \in Int /\ 1 \in Int /\ BatchSize \in Nat
  BY BatchIsNotEmpty
<1>3. {r \in Reqs : futures[r].ready} = 1..n
  BY <1>1, <1>2 DEF Sent, Reqs
<1>4. Cardinality(1..n) = n
  BY <1>2, <1>1, FS_Interval
<1> QED BY <1>1, <1>3, <1>4 DEF Sent, Reqs

(* A batch sent one by one stops at the first error it has to stop at and   *)
(* returns it, and nothing behind it was sent, for batches of any size.     *)
THEOREM BatchStopsAtError == MultiSpec => []StopsAtError
<1> QED BY OrderInit, BatchInit, OrderStep, BatchStep, OrderMeansStops, PTL DEF MultiSpec

(* The loop has exactly the timer and the sockets that libcurl wants, for   *)
(* batches of any size, also after a dispatch that failed half-way.        *)
THEOREM LoopAlwaysServesCurl == MultiSpec => []LoopServesCurl
<1> QED BY ServedMeansServes, BatchInit, BatchStep, PTL DEF MultiSpec

(* No thread and no callback writes a future that is ready, whichever       *)
(* backend sends the batch.                                                *)
THEOREM FuturesAreFinal == MultiSpec => FutureIsFinal
<1>1. FutureInv /\ [MultiNext]_multiVars =>
        FutureInv' /\ [\A r \in Reqs : futures[r].ready => futures'[r] = futures[r]]_multiVars
  BY BatchStep DEF Final
<1> QED BY <1>1, BatchInit, PTL DEF MultiSpec, FutureIsFinal

-----------------------------------------------------------------------------
(* Coroutines with threads.                                                 *)

InChain(e) == \E i \in DOMAIN chain : chain[i] = e
OffPlaces == {"absent", "new", "yield", "done", "freed"}
TopPlaces == {"app", "joining", "starting", "first", "resume", "yield"}

ThreadSets ==
  [asleep : SUBSET Entities, started : SUBSET Cos, ready : SUBSET Cos,
   should_run : SUBSET Cos, done : SUBSET Cos, exiting : SUBSET Cos]

CoTypes ==
  /\ Threaded /\ machine.broken = ""
  /\ at \in [Entities -> OffPlaces \cup TopPlaces \cup {"resume_ready"}]
  /\ DOMAIN on = Entities
  /\ threads \in ThreadSets
  /\ chain \in Seq(Entities) /\ Len(chain) > 0 /\ chain[1] = "main"
  /\ \A i, j \in DOMAIN chain : chain[i] = chain[j] => i = j

(* e is in resume of c, and will not leave it before c gives control back.  *)
Waits(e, c) ==
  /\ on[e] = c
  /\ \/ at[e] = "resume" /\ c \in threads.should_run /\ c \notin threads.done
     \/ at[e] = "resume_ready" /\ at[c] \in {"starting", "first"} /\ c \notin threads.should_run

Chained == \A i \in 1 .. Len(chain) - 1 : chain[i + 1] \in Cos /\ Waits(chain[i], chain[i + 1])

(* The others are in yield, or not started, or have ended.                  *)
Outside ==
  \A e \in Entities : ~InChain(e) =>
    at[e] \in OffPlaces
    /\ (at[e] = "yield" => e \notin threads.should_run \/ e \in threads.exiting)

(* Who is told to exit is being freed.                                      *)
Exits ==
  \A c \in threads.exiting :
    ~InChain(c) /\ (at[c] = "yield" => at[Current] = "joining" /\ on[Current] = c)

Fresh ==
  \A c \in Cos :
    /\ at[c] \in {"absent", "new"} =>
         c \notin threads.started /\ c \notin threads.should_run /\ c \notin threads.exiting
    /\ at[c] \notin {"absent", "new", "done", "freed"} => c \in threads.started
    /\ c \in threads.done => at[c] \in {"done", "freed"}

TurnInv ==
  CoTypes /\ Chained /\ at[Current] \in TopPlaces /\ Outside /\ Exits /\ Fresh

LEMMA ChainFacts ==
  ASSUME CoTypes
  PROVE  /\ Len(chain) \in Nat /\ DOMAIN chain = 1 .. Len(chain) /\ Len(chain) \in DOMAIN chain
         /\ Current \in Entities /\ InChain(Current)
         /\ \A i \in DOMAIN chain : chain[i] \in Entities
         /\ \A i \in 1 .. Len(chain) - 1 :
              i \in DOMAIN chain /\ i + 1 \in DOMAIN chain /\ chain[i] # Current
         /\ "main" \in Entities /\ "main" \notin Cos /\ Cos \subseteq Entities /\ None \notin Entities \ Cos
<1>0. chain \in Seq(Entities) /\ Len(chain) > 0
      /\ \A i, j \in DOMAIN chain : chain[i] = chain[j] => i = j
  BY DEF CoTypes
<1>1. Len(chain) \in Nat /\ DOMAIN chain = 1 .. Len(chain) /\ Len(chain) \in 1 .. Len(chain)
  BY <1>0
<1>2. \A i \in 1 .. Len(chain) : chain[i] \in Entities
  BY <1>0
<1>3. \A i \in 1 .. Len(chain) - 1 :
        i \in 1 .. Len(chain) /\ i + 1 \in 1 .. Len(chain) /\ i # Len(chain)
  <2>1. \A n \in Nat : \A i \in 1 .. n - 1 : i \in 1 .. n /\ i + 1 \in 1 .. n /\ i # n
    OBVIOUS
  <2> QED BY <1>1, <2>1
<1>4. \A i \in 1 .. Len(chain) - 1 : chain[i] # Current
  BY <1>0, <1>1, <1>3 DEF Current
<1> QED BY <1>1, <1>2, <1>3, <1>4, CoroutineBounds DEF Current, InChain, Entities, None

(* Only the last of the chain can be anywhere but in resume, and who is not *)
(* in the chain is in yield, not started or at its end.                    *)
LEMMA Position ==
  ASSUME TurnInv, NEW e \in Entities
  PROVE  /\ at[e] \notin OffPlaces => InChain(e)
         /\ InChain(e) /\ e # Current => at[e] \in {"resume", "resume_ready"}
         /\ at[e] = "resume_ready" => e # Current /\ InChain(e)
<1> USE DEF TurnInv
<1>1. at[e] \notin OffPlaces => InChain(e)
  BY DEF Outside
<1>2. ASSUME InChain(e), e # Current PROVE at[e] \in {"resume", "resume_ready"}
  <2>1. PICK i \in DOMAIN chain : chain[i] = e
    BY <1>2 DEF InChain
  <2>2. i \in 1 .. Len(chain) - 1
    BY <1>2, <2>1, ChainFacts DEF Current
  <2> QED BY <2>1, <2>2 DEF Chained, Waits
<1>3. at[e] = "resume_ready" => e # Current
  BY DEF TopPlaces
<1> QED BY <1>1, <1>2, <1>3 DEF OffPlaces

(* Sleeping and waking up.                                                  *)
LEMMA Quiet ==
  ASSUME TurnInv, UNCHANGED <<build, at, on, chain, machine>>,
         threads' \in ThreadSets, threads'.should_run = threads.should_run,
         threads'.done = threads.done, threads'.exiting = threads.exiting,
         threads'.started = threads.started
  PROVE  TurnInv'
<1>1. CoTypes'
  BY DEF TurnInv, CoTypes, Threaded
<1> QED BY <1>1 DEF TurnInv, Chained, Waits, Outside, Exits, Fresh, Current, InChain

(* The last of the chain goes on.                                           *)
LEMMA MoveTop ==
  ASSUME TurnInv, UNCHANGED <<build, on, chain, machine>>, NEW p \in TopPlaces \ {"yield"},
         at' = [x \in Entities |-> IF x = Current THEN p ELSE at[x]],
         at[Current] # "joining",
         p = "first" \/ Current \in threads.should_run \/ at[Current] \notin {"starting", "first"},
         threads' \in ThreadSets, threads'.should_run = threads.should_run,
         threads'.done = threads.done, threads'.exiting = threads.exiting,
         threads'.started = threads.started
  PROVE  TurnInv'
<1> USE DEF TurnInv
<1>0. Current' = Current /\ Current \in Entities /\ InChain(Current)
  BY ChainFacts DEF Current
<1>1. CoTypes'
  BY DEF CoTypes, Threaded
<1>2. Chained'
  <2> SUFFICES ASSUME NEW i \in 1 .. Len(chain) - 1
               PROVE  chain[i + 1] \in Cos /\ Waits(chain[i], chain[i + 1])'
    BY DEF Chained
  <2>1. /\ chain[i + 1] \in Cos /\ Waits(chain[i], chain[i + 1])
        /\ chain[i] \in Entities /\ chain[i] # Current
    BY ChainFacts DEF Chained
  <2>2. at'[chain[i]] = at[chain[i]] /\ chain[i + 1] \in Entities
    BY <2>1 DEF Entities
  <2>3. CASE chain[i + 1] # Current
    BY <2>1, <2>2, <2>3 DEF Waits
  <2>4. CASE chain[i + 1] = Current
    BY <1>0, <2>1, <2>2, <2>4 DEF Waits
  <2> QED BY <2>3, <2>4
<1>3. at'[Current] \in TopPlaces
  BY <1>0
<1>4. Outside'
  BY <1>0 DEF Outside, InChain
<1>5. Exits'
  BY <1>0, ChainFacts DEF Exits, InChain, CoTypes, ThreadSets
<1>6. Fresh'
  BY <1>0, ChainFacts DEF Fresh, TopPlaces
<1> QED BY <1>0, <1>1, <1>2, <1>3, <1>4, <1>5, <1>6

(* One that is not in the chain is made, ends or is freed.                  *)
LEMMA MoveOutside ==
  ASSUME TurnInv, UNCHANGED <<build, chain, machine, threads>>,
         DOMAIN on' = Entities, \A x \in Entities : x # Current => on'[x] = on[x],
         on'[Current] = on[Current] \/ at[Current] = "app",
         NEW c \in Cos, ~InChain(c), NEW p \in {"new", "done", "freed"},
         at' = [x \in Entities |-> IF x = c THEN p ELSE at[x]],
         p = "new" => at[c] = "absent"
  PROVE  TurnInv'
<1> USE DEF TurnInv
<1>0. Current' = Current /\ Current \in Entities /\ Current # c /\ c \in Entities
  BY ChainFacts DEF Current
<1>1. CoTypes'
  BY DEF CoTypes, Threaded, OffPlaces
<1>2. \A i \in DOMAIN chain : at'[chain[i]] = at[chain[i]]
  BY ChainFacts DEF InChain
<1>3. Chained'
  <2> SUFFICES ASSUME NEW i \in 1 .. Len(chain) - 1
               PROVE  chain[i + 1] \in Cos /\ Waits(chain[i], chain[i + 1])'
    BY DEF Chained
  <2>1. /\ chain[i + 1] \in Cos /\ Waits(chain[i], chain[i + 1])
        /\ at'[chain[i]] = at[chain[i]] /\ at'[chain[i + 1]] = at[chain[i + 1]]
        /\ on'[chain[i]] = on[chain[i]]
    BY <1>2, ChainFacts DEF Chained
  <2> QED BY <2>1 DEF Waits
<1>4. Outside'
  BY <1>0 DEF Outside, InChain, OffPlaces
<1>5. Exits'
  BY <1>0, ChainFacts DEF Exits, InChain, CoTypes, ThreadSets
<1>6. Fresh'
  BY <1>0, ChainFacts DEF Fresh
<1> QED BY <1>0, <1>1, <1>2, <1>3, <1>4, <1>5, <1>6

(* e resumes c: a started one is told to run, another gets its thread.      *)
LEMMA ResumeStep ==
  ASSUME TurnInv, NEW e \in Entities, NEW c \in Cos, thread_resume(e, c)
  PROVE  TurnInv'
<1> USE DEF TurnInv
<1>0. /\ e = Current /\ at[e] = "app" /\ at[c] \in {"new", "yield"} /\ ~InChain(c)
      /\ on' = [on EXCEPT ![e] = c] /\ chain' = Append(chain, c)
      /\ UNCHANGED <<build, machine>>
      /\ c \in Entities /\ c # e
  <2>1. /\ at[e] = "app" /\ at[c] \in {"new", "yield"} /\ ~InChain(c)
        /\ on' = [on EXCEPT ![e] = c] /\ chain' = Append(chain, c) /\ UNCHANGED <<build, machine>>
    BY DEF thread_resume, MayResume, InApp, InChain, Push
  <2> QED BY <2>1, Position, ChainFacts DEF OffPlaces
<1>1. /\ chain' \in Seq(Entities) /\ Len(chain') = Len(chain) + 1 /\ Current' = c
      /\ \A i \in DOMAIN chain : chain'[i] = chain[i] /\ i \in DOMAIN chain'
      /\ chain'[Len(chain) + 1] = c /\ DOMAIN chain' = 1 .. Len(chain) + 1
  <2>1. chain \in Seq(Entities)
    BY DEF CoTypes
  <2> QED BY <1>0, <2>1 DEF Current
<1>2. \A x : InChain(x)' <=> InChain(x) \/ x = c
  <2>1. \A i \in DOMAIN chain' : i \in DOMAIN chain \/ i = Len(chain) + 1
    BY <1>1, ChainFacts
  <2>2. Len(chain) + 1 \in DOMAIN chain'
    BY <1>1, ChainFacts
  <2> QED BY <1>1, <2>1, <2>2 DEF InChain
<1>3. \/ /\ c \in threads.started /\ at[c] = "yield"
         /\ threads' = [threads EXCEPT !.should_run = @ \cup {c}, !.asleep = (@ \ {c}) \cup {e}]
         /\ at' = [x \in Entities |-> IF x = e THEN "resume" ELSE at[x]]
      \/ /\ c \notin threads.started /\ at[c] = "new"
         /\ threads' = [threads EXCEPT !.started = @ \cup {c}, !.asleep = @ \cup {e}]
         /\ at' = [x \in Entities |-> IF x = e THEN "resume_ready"
                                      ELSE IF x = c THEN "starting" ELSE at[x]]
  BY <1>0 DEF thread_resume, HandOver, Move, Fresh
<1>4. /\ threads' \in ThreadSets /\ threads'.done = threads.done
      /\ threads'.exiting = threads.exiting
      /\ threads'.should_run = (IF at[c] = "yield" THEN threads.should_run \cup {c}
                                ELSE threads.should_run)
      /\ threads'.started = threads.started \cup {c}
      /\ threads \in ThreadSets
  <2>1. threads \in ThreadSets
    BY DEF CoTypes
  <2>2. CASE at[c] = "yield"
    <3>1. /\ c \in threads.started
          /\ threads' = [threads EXCEPT !.should_run = @ \cup {c}, !.asleep = (@ \ {c}) \cup {e}]
      BY <1>3, <2>2
    <3> QED BY <1>0, <2>1, <2>2, <3>1 DEF ThreadSets
  <2>3. CASE at[c] = "new"
    <3>1. threads' = [threads EXCEPT !.started = @ \cup {c}, !.asleep = @ \cup {e}]
      BY <1>3, <2>3
    <3> QED BY <1>0, <2>1, <2>3, <3>1 DEF ThreadSets
  <2> QED BY <1>0, <2>2, <2>3
<1>5. CoTypes'
  <2>1. at' \in [Entities -> OffPlaces \cup TopPlaces \cup {"resume_ready"}]
    BY <1>3 DEF CoTypes, OffPlaces, TopPlaces
  <2>2. chain'[1] = "main" /\ Len(chain') > 0
    <3>1. chain[1] = "main" /\ Len(chain) > 0
      BY DEF CoTypes
    <3>3. 1 \in DOMAIN chain
      BY <3>1, ChainFacts
    <3>2. Len(chain) \in Nat
      BY ChainFacts
    <3> QED BY <1>1, <3>1, <3>2, <3>3
  <2>3. \A i, j \in DOMAIN chain' : chain'[i] = chain'[j] => i = j
    <3>1. \A i \in DOMAIN chain' : i \in DOMAIN chain \/ i = Len(chain) + 1
      BY <1>1, ChainFacts
    <3>2. \A i \in DOMAIN chain : chain'[i] # c
      BY <1>0, <1>1 DEF InChain
    <3>3. \A i, j \in DOMAIN chain : chain[i] = chain[j] => i = j
      BY DEF CoTypes
    <3> QED BY <1>1, <3>1, <3>2, <3>3
  <2> QED BY <1>0, <1>1, <1>4, <2>1, <2>2, <2>3 DEF CoTypes, Threaded
<1>6. c \notin threads.exiting /\ c \notin threads.done
  BY <1>0 DEF Exits, Fresh
<1>7. Chained'
  <2> SUFFICES ASSUME NEW i \in 1 .. Len(chain') - 1, NEW x, NEW y,
                      x = chain'[i], y = chain'[i + 1]
               PROVE  y \in Cos /\ Waits(x, y)'
    BY DEF Chained
  <2>1. CASE i = Len(chain)
    <3>1. x = e /\ y = c /\ on'[e] = c
      BY <1>0, <1>1, <2>1, ChainFacts DEF Current, CoTypes
    <3>2. CASE at[c] = "yield"
      BY <1>3, <1>4, <1>6, <3>1, <3>2 DEF Waits
    <3>3. CASE at[c] = "new"
      BY <1>0, <1>3, <1>4, <1>6, <3>1, <3>3 DEF Waits, Fresh
    <3> QED BY <1>0, <3>1, <3>2, <3>3
  <2>2. CASE i # Len(chain)
    <3>1. i \in 1 .. Len(chain) - 1
      <4>1. \A n \in Nat : \A j \in 1 .. (n + 1) - 1 : j # n => j \in 1 .. n - 1
        OBVIOUS
      <4>2. i \in 1 .. (Len(chain) + 1) - 1
        BY <1>1
      <4> QED BY <2>2, <4>1, <4>2, ChainFacts
    <3>2. /\ x = chain[i] /\ y = chain[i + 1] /\ x # e /\ x # c /\ y # c /\ y \in Cos
          /\ Waits(x, y) /\ x \in Entities
      BY <1>0, <1>1, <3>1, ChainFacts DEF Chained, InChain
    <3>3. at'[x] = at[x] /\ on'[x] = on[x]
      BY <1>0, <1>3, <3>2 DEF CoTypes
    <3>4. y \in threads'.should_run <=> y \in threads.should_run
      BY <1>4, <3>2
    <3>5. CASE y = e
      BY <1>0, <1>4, <3>2, <3>3, <3>4, <3>5 DEF Waits
    <3>6. CASE y # e
      <4>1. at'[y] = at[y]
        BY <1>3, <3>2, <3>6, ChainFacts
      <4> QED BY <1>4, <3>2, <3>3, <3>4, <4>1 DEF Waits
    <3> QED BY <3>5, <3>6
  <2> QED BY <2>1, <2>2
<1>8. at'[c] \in TopPlaces
  BY <1>0, <1>3 DEF TopPlaces
<1>9. Outside'
  BY <1>0, <1>2, <1>3, <1>4, ChainFacts DEF Outside
<1>10. Exits'
  <2> SUFFICES ASSUME NEW x \in threads.exiting
               PROVE  ~InChain(x)' /\ at'[x] # "yield"
    BY <1>4 DEF Exits
  <2>1. ~InChain(x) /\ at[x] # "yield" /\ x # c /\ x # e /\ x \in Entities
    BY <1>0, <1>4, <1>6, ChainFacts DEF Exits, ThreadSets
  <2> QED BY <1>2, <1>3, <2>1
<1>11. Fresh'
  <2> SUFFICES ASSUME NEW x \in Cos
               PROVE /\ at'[x] \in {"absent", "new"} =>
                          /\ x \notin threads'.started /\ x \notin threads'.should_run
                          /\ x \notin threads'.exiting
                     /\ at'[x] \notin {"absent", "new", "done", "freed"} => x \in threads'.started
                     /\ x \in threads'.done => at'[x] \in {"done", "freed"}
    BY DEF Fresh
  <2>1. x \in Entities
    BY DEF Entities
  <2>2. CASE x = c
    BY <1>0, <1>3, <1>4, <1>6, <2>2
  <2>3. CASE x # c /\ x = e
    BY <1>0, <1>3, <1>4, <2>1, <2>3 DEF Fresh
  <2>4. CASE x # c /\ x # e
    BY <1>3, <1>4, <2>1, <2>4 DEF Fresh
  <2> QED BY <2>2, <2>3, <2>4
<1> QED BY <1>1, <1>5, <1>7, <1>8, <1>9, <1>10, <1>11

(* A yield, or the end of a coroutine: its resumer is the last of the chain. *)
LEMMA GiveBackStep ==
  ASSUME TurnInv, NEW c \in Cos, at[c] = "app", GiveBack, UNCHANGED <<build, on, machine>>,
         NEW p \in {"done", "yield"}, at' = [x \in Entities |-> IF x = c THEN p ELSE at[x]],
         threads' \in ThreadSets, threads'.should_run = threads.should_run \ {c},
         threads'.done = (IF p = "done" THEN threads.done \cup {c} ELSE threads.done),
         threads'.exiting = threads.exiting, threads'.started = threads.started
  PROVE  TurnInv'
<1> USE DEF TurnInv
<1>0. c = Current /\ InChain(c) /\ c \in Entities
  BY Position, ChainFacts DEF OffPlaces
<1>1. Len(chain) \in Nat /\ Len(chain) > 1
  <2>1. chain[1] = "main" /\ Len(chain) > 0
    BY DEF CoTypes
  <2>2. chain[Len(chain)] # "main"
    BY <1>0, ChainFacts DEF Current
  <2> QED BY <2>1, <2>2, ChainFacts
<1>2. /\ chain' \in Seq(Entities) /\ Len(chain') = Len(chain) - 1
      /\ DOMAIN chain' = 1 .. Len(chain) - 1
      /\ \A i \in 1 .. Len(chain) - 1 : chain'[i] = chain[i] /\ i \in DOMAIN chain
  <2>1. chain \in Seq(Entities) /\ chain' = SubSeq(chain, 1, Len(chain) - 1)
    BY DEF CoTypes, GiveBack
  <2> QED BY <1>1, <2>1
<1>3. \A x : InChain(x)' => InChain(x)
  BY <1>2 DEF InChain
<1>4. ~InChain(c)'
  BY <1>0, <1>2, ChainFacts DEF InChain
<1>5. \A x \in Entities : x # c => (InChain(x) => InChain(x)')
  <2>1. \A n \in Nat : \A i \in 1 .. n : i # n => i \in 1 .. n - 1
    OBVIOUS
  <2>2. \A i \in DOMAIN chain : i # Len(chain) => i \in DOMAIN chain'
    BY <1>2, <2>1, ChainFacts
  <2>3. chain[Len(chain)] = c
    BY <1>0 DEF Current
  <2> QED BY <1>2, <2>2, <2>3 DEF InChain
<1>6. at'[Current'] \in TopPlaces /\ Current' \in Entities
  <2> DEFINE n == Len(chain) - 1
  <2>1. n \in 1 .. Len(chain) - 1 /\ n + 1 = Len(chain) /\ n \in DOMAIN chain'
    BY <1>1, <1>2
  <2>2. Current' = chain[n] /\ chain[n] # c /\ Waits(chain[n], c) /\ chain[n] \in Entities
    <3>1. chain[n + 1] = c
      BY <1>0, <2>1 DEF Current
    <3>2. Current' = chain'[n]
      BY <1>2 DEF Current
    <3> HIDE DEF n
    <3> QED BY <1>0, <1>2, <2>1, <3>1, <3>2, ChainFacts DEF Chained
  <2>3. at[chain[n]] = "resume"
    BY <2>2 DEF Waits
  <2> QED BY <2>2, <2>3 DEF TopPlaces
<1>7. CoTypes'
  <2>1. at' \in [Entities -> OffPlaces \cup TopPlaces \cup {"resume_ready"}]
    BY DEF CoTypes, OffPlaces, TopPlaces
  <2>2. chain'[1] = "main" /\ Len(chain') > 0
    <3>1. chain[1] = "main"
      BY DEF CoTypes
    <3>2. 1 \in 1 .. Len(chain) - 1
      BY <1>1
    <3> QED BY <1>1, <1>2, <3>1, <3>2
  <2>3. \A i, j \in DOMAIN chain' : chain'[i] = chain'[j] => i = j
    <3>1. \A i, j \in DOMAIN chain : chain[i] = chain[j] => i = j
      BY DEF CoTypes
    <3> QED BY <1>2, <3>1
  <2> QED BY <1>2, <2>1, <2>2, <2>3 DEF CoTypes, Threaded
<1>8. Chained'
  <2> SUFFICES ASSUME NEW i \in 1 .. Len(chain') - 1, NEW x, NEW y,
                      x = chain'[i], y = chain'[i + 1]
               PROVE  y \in Cos /\ Waits(x, y)'
    BY DEF Chained
  <2>1. i \in 1 .. Len(chain) - 1 /\ i + 1 \in 1 .. Len(chain) - 1
    BY <1>1, <1>2
  <2>2. /\ x = chain[i] /\ y = chain[i + 1] /\ x # c /\ y # c /\ y \in Cos /\ Waits(x, y)
        /\ x \in Entities /\ y \in Entities
    <3>1. chain'[i] = chain[i] /\ chain'[i + 1] = chain[i + 1]
      BY <1>2, <2>1
    <3>2. i + 1 \in 1 .. Len(chain) - 1 => chain[i + 1] # Current
      BY ChainFacts
    <3> QED BY <1>0, <2>1, <3>1, <3>2, ChainFacts DEF Chained
  <2> QED BY <2>2 DEF Waits
<1>9. Outside'
  BY <1>0, <1>5 DEF Outside, OffPlaces
<1>10. Exits'
  BY <1>0, <1>3, ChainFacts DEF Exits, CoTypes, ThreadSets
<1>11. Fresh'
  BY <1>0, ChainFacts DEF Fresh
<1> QED BY <1>6, <1>7, <1>8, <1>9, <1>10, <1>11

(* e, in its first resume of c, learns that c's thread is ready, and tells  *)
(* it to run.                                                              *)
LEMMA HandOverStep ==
  ASSUME TurnInv, NEW e \in Entities, at[e] = "resume_ready", NEW c, c = on[e],
         UNCHANGED <<build, on, chain, machine>>,
         at' = [x \in Entities |-> IF x = e THEN "resume" ELSE at[x]],
         HandOver(e, c)
  PROVE  TurnInv'
<1> USE DEF TurnInv
<1>1. PICK i \in 1 .. Len(chain) - 1 : chain[i] = e
  <2>1. InChain(e) /\ e # Current
    BY Position
  <2>2. PICK i \in DOMAIN chain : chain[i] = e
    BY <2>1 DEF InChain
  <2>3. \A n \in Nat : \A j \in 1 .. n : j # n => j \in 1 .. n - 1
    OBVIOUS
  <2>4. i # Len(chain)
    BY <2>1, <2>2 DEF Current
  <2> QED BY <2>2, <2>3, <2>4, ChainFacts
<1>2. /\ c = chain[i + 1] /\ c \in Cos /\ at[c] \in {"starting", "first"}
      /\ e # Current /\ InChain(e) /\ InChain(c) /\ c # e
  BY <1>1, Position, ChainFacts DEF Chained, Waits, InChain
<1>3. /\ threads' \in ThreadSets /\ threads'.should_run = threads.should_run \cup {c}
      /\ threads'.done = threads.done /\ threads'.exiting = threads.exiting
      /\ threads'.started = threads.started
  BY <1>2 DEF HandOver, CoTypes, ThreadSets
<1>4. c \notin threads.done /\ Current' = Current
  BY <1>2 DEF Fresh, Current
<1>5. CoTypes'
  BY <1>3 DEF CoTypes, Threaded, TopPlaces
<1>6. Chained'
  <2> SUFFICES ASSUME NEW j \in 1 .. Len(chain) - 1, NEW x, NEW y, x = chain[j], y = chain[j + 1]
               PROVE  y \in Cos /\ Waits(x, y)'
    BY DEF Chained
  <2>1. y \in Cos /\ Waits(x, y) /\ x \in Entities /\ y \in Entities
    BY ChainFacts DEF Chained
  <2>2. CASE x = e
    <3>1. y = c
      BY <2>1, <2>2 DEF Waits
    <3> QED BY <1>3, <1>4, <2>1, <2>2, <3>1 DEF Waits
  <2>3. CASE x # e
    <3>1. y # c
      <4>1. i \in Nat /\ j \in Nat /\ i + 1 \in DOMAIN chain /\ j + 1 \in DOMAIN chain
        BY ChainFacts
      <4>2. ASSUME y = c PROVE FALSE
        <5>1. i + 1 = j + 1
          BY <1>2, <4>1, <4>2 DEF CoTypes
        <5>2. i = j
          BY <4>1, <5>1
        <5> QED BY <1>1, <2>3, <5>2
      <4> QED BY <4>2
    <3> QED BY <1>3, <2>1, <2>3, <3>1 DEF Waits
  <2> QED BY <2>2, <2>3
<1>7. at'[Current] \in TopPlaces
  BY <1>2, ChainFacts
<1>8. Outside'
  BY <1>2, <1>3 DEF Outside, InChain
<1>9. Exits'
  <2> SUFFICES ASSUME NEW x \in threads.exiting
               PROVE  ~InChain(x) /\ (at'[x] = "yield" => at'[Current] = "joining" /\ on[Current] = x)
    BY <1>3, <1>4 DEF Exits, InChain
  <2>1. x \in Entities /\ ~InChain(x) /\ x # e
    BY <1>2, ChainFacts DEF Exits, CoTypes, ThreadSets
  <2> QED BY <1>2, <2>1, ChainFacts DEF Exits
<1>10. Fresh'
  BY <1>2, <1>3, ChainFacts DEF Fresh
<1> QED BY <1>4, <1>5, <1>6, <1>7, <1>8, <1>9, <1>10

(* e frees c, which is told to exit, or has ended already.                  *)
LEMMA JoinStep ==
  ASSUME TurnInv, NEW e \in Entities, at[e] = "app", NEW c \in Cos, ~InChain(c),
         at[c] \in {"new", "yield", "done"}, c \in threads.started,
         UNCHANGED <<build, chain, machine>>, on' = [on EXCEPT ![e] = c],
         at' = [x \in Entities |-> IF x = e THEN "joining" ELSE at[x]],
         threads' = IF c \in threads.done THEN threads
                    ELSE [threads EXCEPT !.should_run = @ \cup {c}, !.exiting = @ \cup {c},
                                         !.asleep = @ \ {c}]
  PROVE  TurnInv'
<1> USE DEF TurnInv
<1>1. e = Current /\ InChain(e) /\ c # e /\ c \in Entities /\ Current' = Current
      /\ at[c] \in {"yield", "done"}
  BY Position, ChainFacts DEF OffPlaces, Fresh, Current
<1>2. /\ threads' \in ThreadSets /\ threads'.done = threads.done
      /\ threads'.started = threads.started
      /\ threads'.should_run \in {threads.should_run, threads.should_run \cup {c}}
      /\ threads'.exiting \in {threads.exiting, threads.exiting \cup {c}}
      /\ c \in threads'.should_run => c \in threads'.exiting \/ threads' = threads
  <2>1. CASE c \in threads.done
    BY <2>1 DEF CoTypes
  <2>2. CASE c \notin threads.done
    BY <2>2 DEF CoTypes, ThreadSets
  <2> QED BY <2>1, <2>2
<1>3. \A x \in Entities : x # e => at'[x] = at[x] /\ on'[x] = on[x]
  BY DEF CoTypes
<1>4. on'[e] = c /\ at'[e] = "joining"
  BY DEF CoTypes
<1>5. CoTypes'
  BY <1>2 DEF CoTypes, Threaded, TopPlaces
<1>6. Chained'
  <2> SUFFICES ASSUME NEW j \in 1 .. Len(chain) - 1, NEW x, NEW y, x = chain[j], y = chain[j + 1]
               PROVE  y \in Cos /\ Waits(x, y)'
    BY DEF Chained
  <2>1. /\ y \in Cos /\ Waits(x, y) /\ x \in Entities /\ y \in Entities /\ x # e /\ y # c
    BY <1>1, ChainFacts DEF Chained, InChain
  <2>2. y \in threads'.should_run <=> y \in threads.should_run
    BY <1>2, <2>1
  <2> QED BY <1>2, <1>3, <2>1, <2>2 DEF Waits
<1>7. Outside'
  <2> SUFFICES ASSUME NEW x \in Entities, ~InChain(x)
               PROVE  at'[x] \in OffPlaces
                      /\ (at'[x] = "yield" => x \notin threads'.should_run \/ x \in threads'.exiting)
    BY DEF Outside, InChain
  <2>1. x # e
    BY <1>1
  <2> QED BY <1>2, <1>3, <2>1 DEF Outside
<1>8. Exits'
  <2> SUFFICES ASSUME NEW x \in threads'.exiting
               PROVE  ~InChain(x) /\ (at'[x] = "yield" => at'[e] = "joining" /\ on'[e] = x)
    BY <1>1 DEF Exits, InChain
  <2>1. CASE x = c
    BY <1>4, <2>1
  <2>2. CASE x # c
    <3>1. x \in threads.exiting /\ x \in Entities
      BY <1>2, <2>2, ChainFacts DEF ThreadSets
    <3> QED BY <1>1, <1>3, <3>1 DEF Exits
  <2> QED BY <2>1, <2>2
<1>9. Fresh'
  <2> SUFFICES ASSUME NEW x \in Cos
               PROVE /\ at'[x] \in {"absent", "new"} =>
                          /\ x \notin threads'.started /\ x \notin threads'.should_run
                          /\ x \notin threads'.exiting
                     /\ at'[x] \notin {"absent", "new", "done", "freed"} => x \in threads'.started
                     /\ x \in threads'.done => at'[x] \in {"done", "freed"}
    BY DEF Fresh
  <2>1. x \in Entities
    BY DEF Entities
  <2>2. CASE x = e
    BY <1>2, <1>4, <2>2 DEF Fresh
  <2>3. CASE x # e
    BY <1>1, <1>2, <1>3, <2>1, <2>3 DEF Fresh
  <2> QED BY <2>2, <2>3
<1> QED BY <1>1, <1>4, <1>5, <1>6, <1>7, <1>8, <1>9 DEF TopPlaces

(* The thread that e freed has ended.                                       *)
LEMMA JoinedStep ==
  ASSUME TurnInv, NEW e \in Entities, free_joined(e)
  PROVE  TurnInv'
<1> USE DEF TurnInv
<1>1. /\ at[e] = "joining" /\ at[on[e]] = "done"
      /\ UNCHANGED <<build, on, chain, machine, threads>>
      /\ at' = [x \in Entities |-> IF x = e THEN "app" ELSE IF x = on[e] THEN "freed" ELSE at[x]]
  BY DEF free_joined, Move
<1>2. e = Current /\ InChain(e) /\ Current' = Current
  BY <1>1, Position, ChainFacts DEF OffPlaces, Current
<1>3. \A x \in Entities : x = on[e] => ~InChain(x) /\ x # e
  BY <1>1, <1>2, Position
<1>4. CoTypes'
  BY <1>1 DEF CoTypes, Threaded, TopPlaces, OffPlaces
<1>5. Chained'
  <2> SUFFICES ASSUME NEW j \in 1 .. Len(chain) - 1, NEW x, NEW y, x = chain[j], y = chain[j + 1]
               PROVE  y \in Cos /\ Waits(x, y)'
    BY <1>1 DEF Chained
  <2>1. /\ y \in Cos /\ Waits(x, y) /\ x \in Entities /\ y \in Entities /\ x # e
        /\ x # on[e] /\ y # on[e]
    BY <1>2, <1>3, ChainFacts DEF Chained, InChain
  <2>2. at'[x] = at[x] /\ (y # e => at'[y] = at[y])
    BY <1>1, <2>1
  <2> QED BY <1>1, <2>1, <2>2 DEF Waits
<1>6. Outside'
  <2> SUFFICES ASSUME NEW x \in Entities, ~InChain(x)
               PROVE  at'[x] \in OffPlaces
                      /\ (at'[x] = "yield" => x \notin threads.should_run \/ x \in threads.exiting)
    BY <1>1 DEF Outside, InChain
  <2>1. x # e
    BY <1>2
  <2> QED BY <1>1, <2>1 DEF Outside, OffPlaces
<1>7. Exits'
  <2> SUFFICES ASSUME NEW x \in threads.exiting
               PROVE  ~InChain(x) /\ at'[x] # "yield"
    BY <1>1 DEF Exits, InChain
  <2>1. x \in Entities /\ ~InChain(x)
    BY ChainFacts DEF Exits, CoTypes, ThreadSets
  <2>2. at[x] = "yield" => x = on[e]
    BY <1>2 DEF Exits
  <2> QED BY <1>1, <2>1, <2>2
<1>8. Fresh'
  <2> SUFFICES ASSUME NEW x \in Cos
               PROVE /\ at'[x] \in {"absent", "new"} =>
                          /\ x \notin threads.started /\ x \notin threads.should_run
                          /\ x \notin threads.exiting
                     /\ at'[x] \notin {"absent", "new", "done", "freed"} => x \in threads.started
                     /\ x \in threads.done => at'[x] \in {"done", "freed"}
    BY <1>1 DEF Fresh
  <2>1. x \in Entities
    BY DEF Entities
  <2> QED BY <1>1, <2>1 DEF Fresh
<1>9. at'[Current] = "app"
  BY <1>1, <1>2
<1> QED BY <1>1, <1>2, <1>4, <1>5, <1>6, <1>7, <1>8, <1>9 DEF TopPlaces

LEMMA TurnInit == CoInit /\ Threaded => TurnInv
<1> SUFFICES ASSUME CoInit, Threaded PROVE TurnInv
  OBVIOUS
<1> USE DEF CoInit
<1>1. "main" \in Entities /\ Len(chain) = 1 /\ chain[1] = "main" /\ chain \in Seq(Entities)
  BY DEF Entities
<1>2. CoTypes
  <2>1. DOMAIN chain = {1}
    BY <1>1
  <2>2. machine.broken = ""
    BY DEF NewMachine
  <2>3. at \in [Entities -> OffPlaces \cup TopPlaces \cup {"resume_ready"}]
    BY DEF OffPlaces, TopPlaces
  <2>4. DOMAIN on = Entities
    OBVIOUS
  <2>5. threads \in ThreadSets
    BY DEF NewThreads, ThreadSets
  <2>6. \A i, j \in DOMAIN chain : chain[i] = chain[j] => i = j
    BY <2>1
  <2>7. Len(chain) > 0
    BY <1>1
  <2> HIDE DEF CoInit
  <2> QED BY <1>1, <2>2, <2>3, <2>4, <2>5, <2>6, <2>7, Zenon DEF CoTypes
<1>3. Chained
  BY <1>1 DEF Chained
<1>4. InChain("main") /\ Current = "main"
  BY <1>1 DEF InChain, Current
<1>5. at["main"] \in TopPlaces /\ Outside
  BY <1>1, <1>4 DEF Outside, TopPlaces, OffPlaces
<1>6. Exits /\ Fresh
  BY CoroutineBounds DEF Exits, Fresh, NewThreads, Entities
<1> QED BY <1>2, <1>3, <1>4, <1>5, <1>6 DEF TurnInv

LEMMA TurnStep == ASSUME TurnInv, [CoNext]_coVars PROVE TurnInv'
<1> USE DEF TurnInv
<1>0. Threaded /\ ~Switching /\ threads \in ThreadSets
  BY DEF CoTypes, Threaded, Switching
<1>1. CASE UNCHANGED coVars
  BY <1>0, <1>1, Quiet DEF coVars
<1>2. ASSUME NEW e \in Entities, spurious_wakeup(e) PROVE TurnInv'
  BY <1>0, <1>2, Quiet DEF spurious_wakeup, ThreadSets
<1>3. ASSUME NEW e \in Entities, NEW c \in Cos, coroutine_init(e, c) PROVE TurnInv'
  <2>1. /\ at[c] = "absent" /\ UNCHANGED <<build, on, chain, machine, threads>>
        /\ at' = [x \in Entities |-> IF x = c THEN "new" ELSE at[x]]
    BY <1>3 DEF coroutine_init, Move
  <2>2. ~InChain(c)
    BY <2>1, Position, ChainFacts DEF TopPlaces
  <2> QED BY <2>1, <2>2, MoveOutside DEF CoTypes
<1>4. ASSUME NEW e \in Entities, switch_steps(e) PROVE TurnInv'
  BY <1>0, <1>4 DEF switch_steps, switch_resume, switch_free, switch_yield, switch_entry_returns
<1>5. ASSUME NEW e \in Entities, NEW c \in Cos, thread_free(e, c) PROVE TurnInv'
  <2>1. /\ at[e] = "app" /\ at[c] \in {"new", "yield", "done"} /\ ~InChain(c)
        /\ on' = [on EXCEPT ![e] = c] /\ UNCHANGED <<build, chain, machine>>
    BY <1>5 DEF thread_free, InApp, InChain
  <2>2. CASE c \notin threads.started
    <3>1. at' = [x \in Entities |-> IF x = c THEN "freed" ELSE at[x]] /\ UNCHANGED threads
      BY <1>5, <2>2 DEF thread_free, Move
    <3>2. e = Current
      BY <2>1, Position DEF OffPlaces
    <3>3. DOMAIN on' = Entities /\ \A x \in Entities : x # Current => on'[x] = on[x]
      BY <2>1, <3>2 DEF CoTypes
    <3> QED BY <2>1, <3>1, <3>2, <3>3, MoveOutside
  <2>3. CASE c \in threads.started
    <3>1. /\ at' = [x \in Entities |-> IF x = e THEN "joining" ELSE at[x]]
          /\ threads' = IF c \in threads.done THEN threads
                        ELSE [threads EXCEPT !.should_run = @ \cup {c}, !.exiting = @ \cup {c},
                                             !.asleep = @ \ {c}]
      BY <1>5, <2>3 DEF thread_free, Move
    <3> QED BY <2>1, <2>3, <3>1, JoinStep
  <2> QED BY <2>2, <2>3
<1>6. ASSUME NEW e \in Entities, resume_ready_wakes(e) PROVE TurnInv'
  <2>1. at[e] = "resume_ready" /\ UNCHANGED <<build, on, chain, machine>>
    BY <1>6 DEF resume_ready_wakes
  <2>2. CASE on[e] \in threads.ready
    <3>1. /\ at' = [x \in Entities |-> IF x = e THEN "resume" ELSE at[x]] /\ HandOver(e, on[e])
      BY <1>6, <2>2 DEF resume_ready_wakes, Move
    <3> QED BY <2>1, <3>1, HandOverStep
  <2>3. CASE on[e] \notin threads.ready
    BY <1>0, <1>6, <2>1, <2>3, Quiet DEF resume_ready_wakes, ThreadSets
  <2> QED BY <2>2, <2>3
<1>7. ASSUME NEW e \in Entities, resume_wakes(e) PROVE TurnInv'
  <2>1. at[e] = "resume" /\ UNCHANGED <<build, on, chain, machine>>
    BY <1>7 DEF resume_wakes
  <2>2. CASE on[e] \in threads.should_run /\ on[e] \notin threads.done
    BY <1>0, <1>7, <2>1, <2>2, Quiet DEF resume_wakes, ThreadSets
  <2>3. CASE ~(on[e] \in threads.should_run /\ on[e] \notin threads.done)
    <3>1. at' = [x \in Entities |-> IF x = e THEN "app" ELSE at[x]] /\ UNCHANGED threads
      BY <1>7, <2>3 DEF resume_wakes, Move
    <3>2. e = Current
      <4>1. InChain(e)
        BY <2>1, Position DEF OffPlaces
      <4>2. PICK i \in DOMAIN chain : chain[i] = e
        BY <4>1 DEF InChain
      <4>3. i \notin 1 .. Len(chain) - 1
        BY <2>1, <2>3, <4>2 DEF Chained, Waits
      <4>4. \A n \in Nat : \A j \in 1 .. n : j \notin 1 .. n - 1 => j = n
        OBVIOUS
      <4> QED BY <4>2, <4>3, <4>4, ChainFacts DEF Current
    <3> QED BY <1>0, <2>1, <3>1, <3>2, MoveTop DEF TopPlaces
  <2> QED BY <2>2, <2>3
<1>8. ASSUME NEW c \in Cos, co_thread_starts(c) PROVE TurnInv'
  <2>1. /\ at[c] = "starting" /\ UNCHANGED <<build, on, chain, machine>>
        /\ at' = [x \in Entities |-> IF x = c THEN "first" ELSE at[x]]
        /\ threads' = [threads EXCEPT !.ready = @ \cup {c}, !.asleep = (@ \ Resumers(c)) \cup {c}]
    BY <1>8 DEF co_thread_starts, Move
  <2>2. c = Current
    BY <2>1, Position, ChainFacts DEF OffPlaces
  <2>3. /\ threads' \in ThreadSets /\ threads'.should_run = threads.should_run
        /\ threads'.done = threads.done /\ threads'.exiting = threads.exiting
        /\ threads'.started = threads.started
    BY <1>0, <2>1, ChainFacts DEF ThreadSets
  <2> QED BY <2>1, <2>2, <2>3, MoveTop DEF TopPlaces
<1>9. ASSUME NEW c \in Cos, co_thread_wakes(c) PROVE TurnInv'
  <2>1. at[c] = "first" /\ UNCHANGED <<build, on, chain, machine>>
    BY <1>9 DEF co_thread_wakes
  <2>2. c = Current
    BY <2>1, Position, ChainFacts DEF OffPlaces
  <2>3. CASE c \in threads.should_run
    <3>1. at' = [x \in Entities |-> IF x = c THEN "app" ELSE at[x]] /\ UNCHANGED threads
      BY <1>9, <2>3 DEF co_thread_wakes, Move
    <3> QED BY <1>0, <2>1, <2>2, <2>3, <3>1, MoveTop DEF TopPlaces
  <2>4. CASE c \notin threads.should_run
    BY <1>0, <1>9, <2>1, <2>4, Quiet, ChainFacts DEF co_thread_wakes, ThreadSets
  <2> QED BY <2>3, <2>4
<1>10. ASSUME NEW c \in Cos, co_thread_returns(c) PROVE TurnInv'
  <2>1. /\ at[c] = "app" /\ GiveBack /\ UNCHANGED <<build, on, machine>>
        /\ at' = [x \in Entities |-> IF x = c THEN "done" ELSE at[x]]
        /\ threads' = [threads EXCEPT !.done = @ \cup {c}, !.should_run = @ \ {c},
                                      !.asleep = @ \ Resumers(c)]
    BY <1>10 DEF co_thread_returns, InApp, Move
  <2>2. /\ threads' \in ThreadSets /\ threads'.should_run = threads.should_run \ {c}
        /\ threads'.done = threads.done \cup {c} /\ threads'.exiting = threads.exiting
        /\ threads'.started = threads.started
    BY <1>0, <2>1 DEF ThreadSets
  <2> QED BY <2>1, <2>2, GiveBackStep
<1>11. ASSUME NEW c \in Cos, thread_yield(c) PROVE TurnInv'
  <2>1. /\ at[c] = "app" /\ GiveBack /\ UNCHANGED <<build, on, machine>>
        /\ at' = [x \in Entities |-> IF x = c THEN "yield" ELSE at[x]]
        /\ threads' = [threads EXCEPT !.should_run = @ \ {c},
                                      !.asleep = (@ \ Resumers(c)) \cup {c}]
    BY <1>11 DEF thread_yield, MayYield, InApp, Move
  <2>2. /\ threads' \in ThreadSets /\ threads'.should_run = threads.should_run \ {c}
        /\ threads'.done = threads.done /\ threads'.exiting = threads.exiting
        /\ threads'.started = threads.started
    BY <1>0, <2>1, ChainFacts DEF ThreadSets
  <2> QED BY <2>1, <2>2, GiveBackStep
<1>12. ASSUME NEW c \in Cos, yield_wakes(c) PROVE TurnInv'
  <2>1. at[c] = "yield" /\ UNCHANGED <<build, on, chain, machine>>
    BY <1>12 DEF yield_wakes
  <2>2. CASE c \in threads.exiting
    <3>1. at' = [x \in Entities |-> IF x = c THEN "done" ELSE at[x]] /\ UNCHANGED threads
      BY <1>12, <2>2 DEF yield_wakes, Move
    <3>2. ~InChain(c)
      BY <2>2 DEF Exits
    <3> QED BY <2>1, <3>1, <3>2, MoveOutside DEF CoTypes
  <2>3. CASE c \notin threads.exiting /\ c \in threads.should_run
    <3>1. at' = [x \in Entities |-> IF x = c THEN "app" ELSE at[x]] /\ UNCHANGED threads
      BY <1>12, <2>3 DEF yield_wakes, Move
    <3>2. c = Current
      <4>1. InChain(c)
        BY <2>1, <2>3, ChainFacts DEF Outside
      <4> QED BY <2>1, <4>1, Position, ChainFacts
    <3> QED BY <1>0, <2>1, <2>3, <3>1, <3>2, MoveTop DEF TopPlaces
  <2>4. CASE c \notin threads.exiting /\ c \notin threads.should_run
    BY <1>0, <1>12, <2>1, <2>4, Quiet, ChainFacts DEF yield_wakes, ThreadSets
  <2> QED BY <2>2, <2>3, <2>4
<1>13. Cos \subseteq Entities
  BY DEF Entities
<1> QED
  BY <1>1, <1>2, <1>3, <1>4, <1>5, <1>6, <1>7, <1>8, <1>9, <1>10, <1>11, <1>12,
     ResumeStep, JoinedStep DEF CoNext, CoSteps, thread_steps

LEMMA TurnMeansInTurn == TurnInv => RunsInTurn
<1> SUFFICES ASSUME TurnInv PROVE RunsInTurn
  OBVIOUS
<1>1. machine.broken = ""
  BY DEF TurnInv, CoTypes
<1>2. \A e \in Entities : at[e] = "app" => e = Current
  BY Position DEF OffPlaces
<1> QED BY <1>1, <1>2 DEF RunsInTurn, InApp

-----------------------------------------------------------------------------
(* Coroutines that switch stacks, resumed by the main thread only.           *)

(* A saved context is that of the coroutine it was saved for.               *)
Machine(m) ==
  /\ DOMAIN m = {"tls", "ctx", "caller", "broken"}
  /\ m.tls \in Cos \cup {None}
  /\ m.ctx = [c \in Cos |-> c]
  /\ m.caller \in [Cos -> {None, "main", "stale"}]
  /\ m.broken \in {"", "freed coroutine"}

SwitchTypes == Switching /\ ~build.nested /\ DOMAIN at = Entities /\ Machine(machine)

Alone == chain = <<"main">> /\ at["main"] = "app" /\ \A c \in Cos : at[c] \in OffPlaces

(* c runs, and what its yield will look up leads to the main thread.        *)
Inside(c) ==
  /\ chain = <<"main", c>> /\ at["main"] = "resume" /\ at[c] = "app"
  /\ \A x \in Cos \ {c} : at[x] \in OffPlaces
  /\ machine.caller[c] = "main"
  /\ machine.tls \in Cos
  /\ Ucontext => machine.tls = c

(* A fiber that was started once goes back to the main thread, and so does   *)
(* the one in thread-local storage.                                         *)
Fibers ==
  ~Ucontext =>
    /\ \A c \in Cos : at[c] \in {"app", "yield", "done"} =>
                        machine.caller[c] = "main" /\ machine.tls \in Cos
    /\ machine.tls \in Cos => machine.caller[machine.tls] = "main"

SwitchInv == SwitchTypes /\ (Alone \/ \E c \in Cos : Inside(c)) /\ Fibers

LEMMA Words ==
  /\ "main" \in Entities /\ Cos \subseteq Entities
  /\ \A c \in Cos : c # "main" /\ c # None /\ c # "stale"
BY CoroutineBounds DEF Entities, None

(* The chain when a coroutine is resumed and when it gives back control.    *)
LEMMA ChainOfTwo ==
  ASSUME NEW c \in Entities
  PROVE  /\ Append(<<"main">>, c) = <<"main", c>>
         /\ SubSeq(<<"main", c>>, 1, Len(<<"main", c>>) - 1) = <<"main">>
<1>1. /\ <<"main">> \in Seq(Entities) /\ <<"main", c>> \in Seq(Entities)
      /\ Len(<<"main">>) = 1 /\ Len(<<"main", c>>) = 2
  BY Words
<1>2. Append(<<"main">>, c) = <<"main", c>>
  <2>1. Append(<<"main">>, c) \in Seq(Entities) /\ Len(Append(<<"main">>, c)) = 2
    BY <1>1
  <2>2. \A i \in 1 .. 2 : Append(<<"main">>, c)[i] = <<"main", c>>[i]
    BY <1>1
  <2> QED BY <1>1, <2>1, <2>2, SeqEqual
<1>3. SubSeq(<<"main", c>>, 1, 1) = <<"main">>
  <2>1. SubSeq(<<"main", c>>, 1, 1) \in Seq(Entities) /\ Len(SubSeq(<<"main", c>>, 1, 1)) = 1
    BY <1>1
  <2>2. \A i \in 1 .. 1 : SubSeq(<<"main", c>>, 1, 1)[i] = <<"main">>[i]
    BY <1>1
  <2> QED BY <1>1, <2>1, <2>2, SeqEqual
<1> QED BY <1>1, <1>2, <1>3

LEMMA SwitchInit == CoInit /\ Switching /\ ~build.nested => SwitchInv
<1> SUFFICES ASSUME CoInit, Switching, ~build.nested PROVE SwitchInv
  OBVIOUS
<1> USE DEF CoInit
<1>1. SwitchTypes
  BY DEF SwitchTypes, Machine, NewMachine, None
<1>2. Alone /\ \A c \in Cos : at[c] = "absent"
  BY Words DEF Alone, OffPlaces
<1>3. Fibers
  <2>1. machine.tls \notin Cos
    BY Words DEF NewMachine
  <2> QED BY <1>2, <2>1 DEF Fibers
<1> QED BY <1>1, <1>2, <1>3 DEF SwitchInv

(* Who runs code of the application is the last of the chain.               *)
LEMMA SwitchPlaces ==
  ASSUME SwitchInv, NEW e \in Entities, at[e] = "app"
  PROVE  /\ e = "main" => Alone
         /\ e \in Cos => Inside(e)
<1>1. e = "main" => Alone
  BY DEF SwitchInv, Inside
<1>2. ASSUME e \in Cos PROVE Inside(e)
  <2>1. ~Alone
    BY <1>2 DEF Alone, OffPlaces
  <2>2. PICK c \in Cos : Inside(c)
    BY <2>1 DEF SwitchInv
  <2>3. c = e
    BY <1>2, <2>2 DEF Inside, OffPlaces
  <2> QED BY <2>2, <2>3
<1> QED BY <1>1, <1>2

(* A coroutine that does not run is made or freed.                          *)
LEMMA SwitchOther ==
  ASSUME SwitchInv, NEW c \in Cos, at[c] \in OffPlaces, NEW p \in {"new", "freed"},
         Move([x \in {c} |-> p]), UNCHANGED <<build, chain, machine>>
  PROVE  SwitchInv'
<1>1. /\ DOMAIN at' = Entities /\ at'["main"] = at["main"] /\ at'[c] = p
      /\ \A x \in Cos : x # c => at'[x] = at[x]
  BY Words DEF Move
<1>2. SwitchTypes'
  BY <1>1 DEF SwitchInv, SwitchTypes, Switching, Machine
<1>3. Alone => Alone'
  BY <1>1 DEF Alone, OffPlaces
<1>4. ASSUME NEW x \in Cos, Inside(x) PROVE Inside(x)'
  <2>1. x # c
    BY <1>4 DEF Inside, OffPlaces
  <2> QED BY <1>1, <1>4, <2>1 DEF Inside, OffPlaces, Ucontext
<1>5. Fibers'
  BY <1>1 DEF SwitchInv, Fibers, Ucontext
<1> QED BY <1>2, <1>3, <1>4, <1>5 DEF SwitchInv

LEMMA SwitchResumeStep ==
  ASSUME SwitchInv, NEW e \in Entities, NEW c \in Cos, switch_resume(e, c)
  PROVE  SwitchInv'
<1>1. e = "main" /\ at[e] = "app" /\ at[c] \in {"new", "yield"} /\ build' = build
      /\ chain' = Append(chain, c)
  BY DEF switch_resume, MayResume, InApp, SwitchInv, SwitchTypes, Push
<1>2. Alone
  BY <1>1, SwitchPlaces
<1> DEFINE m == Stopped(machine, e)
           saved == [m EXCEPT !.caller[c] = e, !.tls = IF Ucontext THEN c ELSE @]
           target == IF Ucontext THEN saved.ctx[c] ELSE c
<1>3. /\ m.ctx = machine.ctx /\ m.tls = machine.tls /\ m.broken = machine.broken
      /\ m.caller \in [Cos -> {None, "main", "stale"}]
      /\ ~Ucontext => m.caller = machine.caller
      /\ DOMAIN m = {"tls", "ctx", "caller", "broken"}
  <2>1. Outdated(machine.ctx, e) = machine.ctx
    <3>1. machine.ctx = [x \in Cos |-> x] /\ \A x \in Cos : x # e
      BY <1>1, Words DEF SwitchInv, SwitchTypes, Machine
    <3> QED BY <3>1 DEF Outdated
  <2>2. /\ Outdated(machine.caller, e) \in [Cos -> {None, "main", "stale"}]
        /\ ~Ucontext => Outdated(machine.caller, e) = machine.caller
    BY DEF Outdated, SwitchInv, SwitchTypes, Machine
  <2>3. DOMAIN machine = {"tls", "ctx", "caller", "broken"}
    BY DEF SwitchInv, SwitchTypes, Machine
  <2> QED BY <2>1, <2>2, <2>3 DEF Stopped
<1> HIDE DEF m
<1>4. /\ DOMAIN saved = {"tls", "ctx", "caller", "broken"}
      /\ saved.ctx = machine.ctx /\ saved.broken = machine.broken
      /\ saved.caller = [m.caller EXCEPT ![c] = e]
      /\ saved.tls = IF Ucontext THEN c ELSE machine.tls
  BY <1>3
<1>5. Jump(saved, e, "resume", target)
  BY DEF switch_resume, m
<1> HIDE DEF saved
<1>6. target = c
  <2>1. machine.ctx = [x \in Cos |-> x]
    BY DEF SwitchInv, SwitchTypes, Machine
  <2>2. machine.ctx[c] = c
    BY <2>1
  <2> QED BY <1>4, <2>2
<1>7. /\ machine' = IF build.kind = "fiber" /\ at[c] = "new" THEN [saved EXCEPT !.tls = c] ELSE saved
      /\ at' = [x \in Entities |-> IF x = e THEN "resume" ELSE IF x = c THEN "app" ELSE at[x]]
  BY <1>1, <1>5, <1>6, Words DEF Jump
<1>8. /\ machine'.ctx = machine.ctx /\ machine'.broken = machine.broken
      /\ machine'.caller = [m.caller EXCEPT ![c] = "main"]
      /\ machine'.tls \in Cos \cup {None}
      /\ DOMAIN machine' = {"tls", "ctx", "caller", "broken"}
      /\ machine'.tls = IF Ucontext \/ at[c] = "new" THEN c ELSE machine.tls
  <2>1. Ucontext \/ build.kind = "fiber"
    BY DEF SwitchInv, SwitchTypes, Switching, Ucontext
  <2>2. machine.tls \in Cos \cup {None} /\ (Ucontext => build.kind # "fiber")
    BY DEF SwitchInv, SwitchTypes, Machine, Ucontext
  <2> QED BY <1>1, <1>4, <1>7, <2>1, <2>2
<1>9. SwitchTypes'
  <2>1. machine.ctx = [x \in Cos |-> x] /\ machine.broken \in {"", "freed coroutine"}
    BY DEF SwitchInv, SwitchTypes, Machine
  <2>2. Machine(machine')
    BY <1>3, <1>8, <2>1 DEF Machine
  <2> QED BY <1>1, <1>7, <2>2 DEF SwitchInv, SwitchTypes, Switching, Machine
<1>10. machine'.tls \in Cos
  BY <1>1, <1>8 DEF SwitchInv, Fibers
<1>11. Inside(c)'
  <2>1. chain' = <<"main", c>>
    BY <1>1, <1>2, Words, ChainOfTwo DEF Alone
  <2>2. at'["main"] = "resume" /\ at'[c] = "app" /\ \A x \in Cos \ {c} : at'[x] \in OffPlaces
    BY <1>1, <1>2, <1>7, Words DEF Alone
  <2>3. machine'.caller[c] = "main"
    BY <1>3, <1>8
  <2> QED BY <1>1, <1>8, <1>10, <2>1, <2>2, <2>3 DEF Inside, Ucontext
<1>12. Fibers'
  <2> SUFFICES ASSUME ~Ucontext
               PROVE  /\ \A x \in Cos : at'[x] \in {"app", "yield", "done"} => machine'.caller[x] = "main"
                      /\ machine'.caller[machine'.tls] = "main"
    BY <1>1, <1>10 DEF Fibers, Ucontext
  <2>1. \A x \in Cos : x # c => machine'.caller[x] = machine.caller[x] /\ at'[x] = at[x]
    BY <1>1, <1>3, <1>7, <1>8, Words
  <2>2. machine'.caller[c] = "main"
    BY <1>3, <1>8
  <2> QED BY <1>8, <1>10, <2>1, <2>2 DEF SwitchInv, Fibers
<1> QED BY <1>9, <1>11, <1>12 DEF SwitchInv

(* The coroutine that runs stops, and the main thread goes on.              *)
LEMMA SwitchBackStep ==
  ASSUME SwitchInv, NEW e \in Cos, Inside(e), NEW m, NEW p \in {"yield", "done"},
         Machine(m),
         ~Ucontext => m.caller = machine.caller /\ m.tls = machine.tls,
         Jump(m, e, p, "main"), GiveBack, build' = build
  PROVE  SwitchInv'
<1>1. /\ machine' = m
      /\ at' = [x \in Entities |-> IF x = e THEN p ELSE IF x = "main" THEN "app" ELSE at[x]]
  BY DEF Jump, Inside, None
<1>2. chain' = <<"main">>
  BY Words, ChainOfTwo DEF GiveBack, Inside
<1>3. Alone'
  BY <1>1, <1>2, Words DEF Alone, Inside, OffPlaces
<1>4. SwitchTypes'
  BY <1>1 DEF SwitchInv, SwitchTypes, Switching, Machine
<1>5. Fibers'
  <2> SUFFICES ASSUME ~Ucontext
               PROVE  /\ \A c \in Cos : at'[c] \in {"app", "yield", "done"} =>
                           m.caller[c] = "main" /\ m.tls \in Cos
                      /\ m.tls \in Cos => m.caller[m.tls] = "main"
    BY <1>1 DEF Fibers, Ucontext
  <2>1. \A c \in Cos : at'[c] \in {"app", "yield", "done"} => at[c] \in {"app", "yield", "done"}
    BY <1>1, Words DEF Inside
  <2> QED BY <2>1 DEF SwitchInv, Fibers
<1> QED BY <1>3, <1>4, <1>5 DEF SwitchInv

LEMMA SwitchYieldStep ==
  ASSUME SwitchInv, NEW e \in Cos, switch_yield(e)
  PROVE  SwitchInv'
<1>1. at[e] = "app" /\ build' = build
  BY DEF switch_yield, MayYield, InApp
<1>2. Inside(e)
  BY <1>1, Words, SwitchPlaces
<1> DEFINE co == machine.tls
           m == Stopped(machine, e)
           saved == IF Ucontext THEN [m EXCEPT !.ctx[co] = e] ELSE m
<1>3. co \in Cos /\ (Ucontext => co = e) /\ machine.caller[co] = "main"
  BY <1>2 DEF Inside, SwitchInv, Fibers
<1>4. /\ saved.tls = machine.tls /\ saved.ctx = machine.ctx /\ saved.broken = machine.broken
      /\ saved.caller = machine.caller
      /\ DOMAIN saved = {"tls", "ctx", "caller", "broken"}
  <2>1. DOMAIN machine = {"tls", "ctx", "caller", "broken"}
    BY DEF SwitchInv, SwitchTypes, Machine
  <2>2. Outdated(machine.caller, e) = machine.caller
    <3>1. machine.caller \in [Cos -> {None, "main", "stale"}]
      BY DEF SwitchInv, SwitchTypes, Machine
    <3>2. \A c \in Cos : machine.caller[c] # e
      BY <3>1, Words
    <3> QED BY <3>1, <3>2 DEF Outdated
  <2>3. machine.ctx = [c \in Cos |-> c]
    BY DEF SwitchInv, SwitchTypes, Machine
  <2>4. Ucontext => [Outdated(machine.ctx, e) EXCEPT ![e] = e] = machine.ctx
    BY <2>3 DEF Outdated
  <2>5. ~Ucontext => Outdated(machine.ctx, e) = machine.ctx
    BY DEF Outdated
  <2>6. /\ m.tls = machine.tls /\ m.ctx = Outdated(machine.ctx, e) /\ m.caller = machine.caller
        /\ m.broken = machine.broken /\ DOMAIN m = {"tls", "ctx", "caller", "broken"}
    BY <2>1, <2>2 DEF Stopped
  <2> HIDE DEF m
  <2>7. CASE Ucontext
    <3>1. /\ saved.tls = machine.tls /\ saved.ctx = [Outdated(machine.ctx, e) EXCEPT ![e] = e]
          /\ saved.caller = machine.caller /\ saved.broken = machine.broken
          /\ DOMAIN saved = {"tls", "ctx", "caller", "broken"}
      BY <1>3, <2>6, <2>7
    <3> QED BY <2>4, <2>7, <3>1
  <2>8. CASE ~Ucontext
    BY <2>5, <2>6, <2>8
  <2> QED BY <2>7, <2>8
<1>5. IF at[co] = "freed" THEN Breaks("freed coroutine")
      ELSE IF saved.caller[co] = e THEN Breaks("self switch")
      ELSE Jump(saved, e, "yield", saved.caller[co]) /\ GiveBack
  BY DEF switch_yield
<1> HIDE DEF m, saved, co
<1>6. CASE at[co] = "freed"
  <2>1. machine' = [machine EXCEPT !.broken = "freed coroutine"] /\ UNCHANGED <<at, chain>>
    BY <1>5, <1>6 DEF Breaks
  <2>2. /\ machine'.tls = machine.tls /\ machine'.caller = machine.caller /\ SwitchTypes'
    BY <1>1, <2>1 DEF SwitchInv, SwitchTypes, Switching, Machine
  <2>3. Inside(e)' /\ Fibers'
    BY <1>1, <1>2, <2>1, <2>2 DEF Inside, SwitchInv, Fibers, Ucontext
  <2> QED BY <2>2, <2>3 DEF SwitchInv
<1>7. CASE at[co] # "freed"
  <2>1. saved.caller[co] = "main" /\ "main" # e
    BY <1>3, <1>4, Words
  <2>2. Jump(saved, e, "yield", "main") /\ GiveBack
    BY <1>5, <1>7, <2>1
  <2>3. Machine(saved)
    BY <1>4 DEF SwitchInv, SwitchTypes, Machine
  <2> QED BY <1>1, <1>2, <1>4, <2>2, <2>3, SwitchBackStep
<1> QED BY <1>6, <1>7

LEMMA SwitchStep == ASSUME SwitchInv, [CoNext]_coVars PROVE SwitchInv'
<1>0. Switching /\ ~Threaded /\ ~build.nested
  BY DEF SwitchInv, SwitchTypes, Switching, Threaded
<1>1. CASE UNCHANGED coVars
  BY <1>1 DEF coVars, SwitchInv, SwitchTypes, Switching, Machine, Alone, Inside, Fibers, Ucontext
<1>2. ASSUME NEW e \in Entities, thread_steps(e) \/ spurious_wakeup(e) PROVE SwitchInv'
  BY <1>0, <1>2 DEF thread_steps, spurious_wakeup, thread_resume, thread_free, resume_ready_wakes,
     resume_wakes, free_joined, co_thread_starts, co_thread_wakes, co_thread_returns,
     thread_yield, yield_wakes, Awake
<1>3. ASSUME NEW e \in Entities, NEW c \in Cos, coroutine_init(e, c) PROVE SwitchInv'
  BY <1>3, SwitchOther DEF coroutine_init, OffPlaces
<1>4. ASSUME NEW e \in Entities, NEW c \in Cos, switch_free(e, c) PROVE SwitchInv'
  BY <1>4, SwitchOther DEF switch_free, OffPlaces
<1>5. ASSUME NEW e \in Cos, switch_entry_returns(e) PROVE SwitchInv'
  <2>1. at[e] = "app" /\ build' = build /\ GiveBack /\ Jump(machine, e, "done", machine.caller[e])
    BY <1>5 DEF switch_entry_returns, InApp
  <2>2. Inside(e)
    BY <2>1, Words, SwitchPlaces
  <2>3. machine.caller[e] = "main"
    BY <2>2 DEF Inside
  <2> QED BY <2>1, <2>2, <2>3, SwitchBackStep DEF SwitchInv, SwitchTypes
<1> QED
  BY <1>1, <1>2, <1>3, <1>4, <1>5, SwitchResumeStep, SwitchYieldStep
     DEF CoNext, CoSteps, switch_steps

LEMMA SwitchMeansInTurn == SwitchInv => RunsInTurn
<1> SUFFICES ASSUME SwitchInv PROVE RunsInTurn
  OBVIOUS
<1>1. machine.broken \in {"", "freed coroutine"}
  BY DEF SwitchInv, SwitchTypes, Machine
<1>2. ASSUME NEW e \in Entities, at[e] = "app" PROVE e = Current
  <2>1. CASE e = "main"
    <3>1. Alone
      BY <1>2, <2>1, SwitchPlaces
    <3> QED BY <2>1, <3>1 DEF Alone, Current
  <2>2. CASE e \in Cos
    <3>1. Inside(e)
      BY <1>2, <2>2, SwitchPlaces
    <3> QED BY <3>1 DEF Inside, Current
  <2> QED BY <2>1, <2>2 DEF Entities
<1> QED BY <1>1, <1>2 DEF RunsInTurn, InApp

(* The builds and the ways to use them that keep the order.                 *)
Orderly == Threaded \/ ~build.nested

OrderlyInv == TurnInv \/ SwitchInv

LEMMA OrderlyInit == CoInit /\ Orderly => OrderlyInv
<1>1. CoInit => Threaded \/ Switching
  BY CoroutineBounds DEF CoInit, Threaded, Switching
<1> QED BY <1>1, TurnInit, SwitchInit DEF Orderly, OrderlyInv

LEMMA OrderlyStep == ASSUME OrderlyInv, [CoNext]_coVars PROVE OrderlyInv'
BY TurnStep, SwitchStep DEF OrderlyInv

LEMMA OrderlyMeansInTurn == OrderlyInv => RunsInTurn
BY TurnMeansInTurn, SwitchMeansInTurn DEF OrderlyInv

(* Only the coroutine that was resumed last runs code of the application: in *)
(* builds with threads however resumes, yields and frees are nested and      *)
(* whichever wakeups are spurious, and in builds that switch stacks if only  *)
(* the main thread resumes.                                                *)
THEOREM CoroutinesRunInTurn == Orderly /\ CoSpec => []RunsInTurn
<1> QED BY OrderlyMeansInTurn, OrderlyInit, OrderlyStep, PTL DEF CoSpec

-----------------------------------------------------------------------------
(* The parts of the platform.                                               *)

(* A step of the platform is a step of one part or leaves it alone.         *)
LEMMA StepOfAPart ==
  ASSUME [PlatformNext]_platformVars
  PROVE  /\ [Next]_vars /\ [ProcNext]_procVars /\ [MultiNext]_multiVars /\ [CoNext]_coVars
         /\ [ClientNext]_clientVars /\ [RequestNext]_requestVars
<1>1. CASE UNCHANGED platformVars
  BY <1>1 DEF platformVars
<1>2. CASE Bus(Next)
  BY <1>2 DEF Bus, NotBus
<1>3. CASE InCoroutines(CoNext)
  BY <1>3 DEF InCoroutines, NotCoroutines
<1>4. CASE InProcesses(ProcNext)
  BY <1>4 DEF InProcesses, NotProcesses
<1>5. CASE InClients(ClientNext)
  BY <1>5 DEF InClients, NotClients
<1>6. CASE InRequests(RequestNext)
  BY <1>6 DEF InRequests, NotRequests
<1>7. CASE InBatch(MultiNext)
  BY <1>7 DEF InBatch, NotBatch
<1> QED BY <1>1, <1>2, <1>3, <1>4, <1>5, <1>6, <1>7 DEF PlatformNext

(* What is proved of the bus, of processes, of clients, of the requests they *)
(* build and of batches holds of the platform, as the run checks it, for any *)
(* numbers of these; what is proved of coroutines, in the same builds.      *)
THEOREM PlatformTheorem ==
  /\ PlatformSpec =>
       [](ListIsQueue /\ NodesOwned /\ EndsOwned /\ MessagesWhole /\ LoopServesCurl
          /\ StopsAtError /\ LastConfigRules /\ ResourcesOwned /\ BlocksReachable
          /\ BodyWhole) /\ FutureIsFinal
  /\ PlatformSpec /\ Orderly => []RunsInTurn
<1>1. PlatformInit => /\ BusInv /\ EndsInv /\ MessageInv /\ FutureInv /\ OrderInv
                      /\ ClientInv /\ RequestInv
                      /\ Orderly => OrderlyInv
  BY BusInit, EndsInit, MessageInit, BatchInit, OrderInit, OrderlyInit, ClientInvInit,
     RequestInitInv DEF PlatformInit
<1>2. /\ EndsInv /\ [PlatformNext]_platformVars => EndsInv'
      /\ MessageInv /\ [PlatformNext]_platformVars => MessageInv'
  BY StepOfAPart, EndsStep, MessageStep
<1>3. FutureInv /\ [PlatformNext]_platformVars =>
        FutureInv' /\ [\A r \in Reqs : futures[r].ready => futures'[r] = futures[r]]_multiVars
  BY StepOfAPart, BatchStep DEF Final
<1>4. FutureInv /\ OrderInv /\ [PlatformNext]_platformVars => OrderInv'
  BY StepOfAPart, OrderStep
<1>5. OrderlyInv /\ [PlatformNext]_platformVars => OrderlyInv'
  BY StepOfAPart, OrderlyStep
<1>6. BusInv /\ [PlatformNext]_platformVars => BusInv'
  BY StepOfAPart, BusStep
<1>8. /\ ClientInv /\ [PlatformNext]_platformVars => ClientInv'
      /\ RequestInv /\ [PlatformNext]_platformVars => RequestInv'
  BY StepOfAPart, ClientInvStep, RequestInvStep
<1>7. /\ BusInv => ListIsQueue /\ NodesOwned
      /\ EndsInv => EndsOwned
      /\ MessageInv => MessagesWhole
      /\ FutureInv => LoopServesCurl
      /\ OrderInv => StopsAtError
      /\ OrderlyInv => RunsInTurn
      /\ ClientInv => LastConfigRules /\ ResourcesOwned
      /\ RequestInv => BlocksReachable /\ BodyWhole
  BY EndsMeansOwned, BusMeans, ServedMeansServes, OrderMeansStops, OrderlyMeansInTurn,
     ClientInvMeans, RequestInvMeans DEF MessageInv
<1> QED
  BY <1>1, <1>2, <1>3, <1>4, <1>5, <1>6, <1>7, <1>8, PTL DEF PlatformSpec, FutureIsFinal

=============================================================================
