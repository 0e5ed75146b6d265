------------------------------ MODULE ActorBus ------------------------------
(***************************************************************************)
(* The message bus of src/actor.c without hooks: actors, the linked list   *)
(* of messages with its head and tail pointers, and                        *)
(* abstract_http_message_bus_process, which calls handlers that may send,  *)
(* spawn, fail, or call process again.                                     *)
(*                                                                         *)
(* The bus has no lock: one thread at a time uses it.  Nodes are named by  *)
(* the order of the sends, NULL is 0, and a node's memory may be reused    *)
(* only after it was freed, so a name is never reused.                     *)
(***************************************************************************)
EXTENDS Naturals, Sequences

CONSTANTS
  MaxActors,  \* bound: actors spawned
  MaxSends,   \* bound: messages sent
  MaxDepth    \* bound: calls of process inside each other

ASSUME BusAssumption ==
  /\ MaxActors \in Nat
  /\ MaxSends \in Nat
  /\ MaxDepth \in Nat

NULL == 0
Nodes == 1 .. MaxSends

VARIABLES
  alive,      \* the bus has not been freed
  actors,     \* bus->actor_count
  head, tail, \* bus->head, bus->tail
  next,       \* node->next
  receiver,   \* node->msg.receiver
  live,       \* nodes allocated and not freed
  stack,      \* the calls of process: the node in each one's handler, its count
  sent,       \* history: how many messages were sent
  handled,    \* history: the nodes whose handlers were called, in order
  reported,   \* output: the sum of all *out_processed
  failed      \* output: how many calls of process returned an error

list == <<head, tail, next, receiver, live>>
vars == <<alive, actors, head, tail, next, receiver, live, stack, sent,
          handled, reported, failed>>

Frame == [node : Nodes \cup {NULL}, count : Nat]

TypeOK ==
  /\ alive \in BOOLEAN
  /\ actors \in 0 .. MaxActors
  /\ head \in Nodes \cup {NULL}
  /\ tail \in Nodes \cup {NULL}
  /\ next \in [Nodes -> Nodes \cup {NULL}]
  /\ receiver \in [Nodes -> 0 .. MaxActors]
  /\ live \subseteq Nodes
  /\ stack \in Seq(Frame)
  /\ sent \in 0 .. MaxSends
  /\ handled \in Seq(Nodes)
  /\ reported \in Nat
  /\ failed \in Nat

Init ==
  /\ alive = TRUE
  /\ actors = 0
  /\ head = NULL
  /\ tail = NULL
  /\ next = [n \in Nodes |-> NULL]
  /\ receiver = [n \in Nodes |-> 0]
  /\ live = {}
  /\ stack = <<>>
  /\ sent = 0
  /\ handled = <<>>
  /\ reported = 0
  /\ failed = 0

-----------------------------------------------------------------------------

Depth == Len(stack)
Top == stack[Depth]

(* The program runs outside process, or in the handler process called last. *)
UserCode == alive /\ (Depth > 0 => Top.node # NULL)

abstract_http_actor_spawn ==
  /\ UserCode
  /\ actors < MaxActors
  /\ actors' = actors + 1
  /\ UNCHANGED <<alive, list, stack, sent, handled, reported, failed>>

(* A copy of the message is linked behind the tail.                         *)
abstract_http_actor_send(actor) ==
  /\ UserCode
  /\ sent < MaxSends
  /\ sent' = sent + 1
  /\ live' = live \cup {sent + 1}
  /\ receiver' = [receiver EXCEPT ![sent + 1] = actor]
  /\ IF head = NULL
     THEN /\ head' = sent + 1
          /\ next' = [next EXCEPT ![sent + 1] = NULL]
     ELSE /\ next' = [next EXCEPT ![sent + 1] = NULL, ![tail] = sent + 1]
          /\ UNCHANGED head
  /\ tail' = sent + 1
  /\ UNCHANGED <<alive, actors, stack, handled, reported, failed>>

process_begin ==
  /\ UserCode
  /\ Depth < MaxDepth
  /\ stack' = Append(stack, [node |-> NULL, count |-> 0])
  /\ UNCHANGED <<alive, actors, list, sent, handled, reported, failed>>

Mutant_stops_before_last ==
  /\ Depth > 0 /\ Top.node = NULL
  /\ head # tail
  /\ head' = next[head]
  /\ UNCHANGED tail
  /\ stack' = [stack EXCEPT ![Depth].node = head]
  /\ handled' = Append(handled, head)
  /\ UNCHANGED <<alive, actors, next, receiver, live, sent, reported, failed>>

Mutant_pop_keeps_tail ==
  /\ Depth > 0 /\ Top.node = NULL
  /\ head # NULL
  /\ head' = next[head]
  /\ UNCHANGED tail
  /\ stack' = [stack EXCEPT ![Depth].node = head]
  /\ handled' = Append(handled, head)
  /\ UNCHANGED <<alive, actors, next, receiver, live, sent, reported, failed>>

(* The head is unlinked and its handler called.                             *)
process_next ==
  /\ Depth > 0 /\ Top.node = NULL
  /\ head # NULL
  /\ head' = next[head]
  /\ tail' = IF next[head] = NULL THEN NULL ELSE tail
  /\ stack' = [stack EXCEPT ![Depth].node = head]
  /\ handled' = Append(handled, head)
  /\ UNCHANGED <<alive, actors, next, receiver, live, sent, reported, failed>>

Mutant_success_leaks ==
  /\ Depth > 0 /\ Top.node # NULL
  /\ stack' = [stack EXCEPT ![Depth] = [node |-> NULL, count |-> Top.count + 1]]
  /\ UNCHANGED <<alive, actors, list, sent, handled, reported, failed>>

handler_succeeds ==
  /\ Depth > 0 /\ Top.node # NULL
  /\ live' = live \ {Top.node}
  /\ stack' = [stack EXCEPT ![Depth] = [node |-> NULL, count |-> Top.count + 1]]
  /\ UNCHANGED <<alive, actors, head, tail, next, receiver, sent, handled, reported, failed>>

Pop == SubSeq(stack, 1, Depth - 1)

(* process returns the handler's error, and the count without this message; *)
(* the rest of the queue stays.                                             *)
handler_fails ==
  /\ Depth > 0 /\ Top.node # NULL
  /\ live' = live \ {Top.node}
  /\ stack' = Pop
  /\ reported' = reported + Top.count
  /\ failed' = failed + 1
  /\ UNCHANGED <<alive, actors, head, tail, next, receiver, sent, handled>>

process_end ==
  /\ Depth > 0 /\ Top.node = NULL
  /\ head = NULL
  /\ stack' = Pop
  /\ reported' = reported + Top.count
  /\ UNCHANGED <<alive, actors, list, sent, handled, failed>>

(* Messages still queued are freed unhandled.  Only outside process.        *)
abstract_http_message_bus_free ==
  /\ alive
  /\ Depth = 0
  /\ alive' = FALSE
  /\ live' = {}
  /\ UNCHANGED <<actors, head, tail, next, receiver, stack, sent, handled, reported, failed>>

abstract_http_message_bus_process ==
  process_next \/ handler_succeeds \/ handler_fails \/ process_end

Next ==
  \/ abstract_http_actor_spawn
  \/ \E actor \in 1 .. actors : abstract_http_actor_send(actor)
  \/ process_begin
  \/ abstract_http_message_bus_process
  \/ abstract_http_message_bus_free

Spec == Init /\ [][Next]_vars

(* Handlers return, and the program calls process again and again.          *)
FairSpec ==
  /\ Spec
  /\ WF_vars(abstract_http_message_bus_process)
  /\ WF_vars(process_begin /\ Depth = 0)

-----------------------------------------------------------------------------
(* Properties                                                               *)

(* Handlers are called once per message and in the order of the sends, over *)
(* all calls of process, those made by handlers and those a failing handler *)
(* cut short.                                                               *)
HandledInOrder == \A k \in DOMAIN handled : handled[k] = k

(* From head to tail the list holds, in order, exactly the messages no      *)
(* handler has been called with, also when a handler sends while its own    *)
(* message was the last one.                                                *)
ListIsQueue ==
  alive =>
    IF head = NULL
    THEN tail = NULL /\ Len(handled) = sent
    ELSE /\ head = Len(handled) + 1
         /\ tail = sent
         /\ head <= tail
         /\ next[tail] = NULL
         /\ \A n \in head .. sent - 1 : next[n] = n + 1

(* No node leaks and none is used after it was freed: allocated are exactly *)
(* the queued messages and those whose handlers run, and a running handler  *)
(* has a message of its own.                                                *)
NodesOwned ==
  alive =>
    LET running == {f \in 1 .. Depth : stack[f].node # NULL}
    IN /\ live = {stack[f].node : f \in running} \cup (Len(handled) + 1 .. sent)
       /\ \A f, g \in running : f # g => stack[f].node # stack[g].node

(* While process keeps being called, every message is handled in the end,   *)
(* unless the bus is freed: a failing handler delays the others only.       *)
EveryMessageHandled ==
  \A n \in Nodes : (alive /\ n <= sent) ~> (~alive \/ n <= Len(handled))
=============================================================================
