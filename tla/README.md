# A verification of c-abstract-http

`c-abstract-http` is a C library that sends HTTP requests through whichever
network library a platform offers, under several execution modalities:
blocking, event loop, thread pool, coroutine, message passing, separate
process. This directory holds TLA+ models of the parts of it in which order,
interleaving and failure matter, TLC configurations that check them on small
instances, and TLAPS proofs of their main properties for instances of any size.

Paths are relative to the repository: `src/` is its `src/src/` directory,
headers are `src/include/c_abstract_http/`.

- [Inventory](#inventory)
- [Modules](#modules)
- [How the modules correspond to the code](#how-the-modules-correspond-to-the-code)
- [Runs](#runs)
- [Fairness](#fairness)
- [Proofs](#proofs)
- [What the checks found in the code](#what-the-checks-found-in-the-code)
- [Assumptions and what is left out](#assumptions-and-what-is-left-out)
- [Plan](#plan)

## Inventory

The library is layered. A client (`http_types.c`, `transport.c`) holds a
configuration and two function pointers, `send` and `send_multi`, which a
backend (`http_curl.c`, `http_libuv.c`, ...) supplies. `send_multi` and the
WebSocket and event-stream clients use the concurrency primitives:

    transport.c  --chooses-->  backend (curl, libuv, libevent, raw, ...)
    http_types.c --send-->        backend --callbacks--> on_chunk, read_chunk
    http_types.c --send_multi-->  backend --add_fd/add_timer/wakeup--> event_loop.c
                                          --push-->      thread_pool.c
    http_ws.c, http_sse.c --push--> thread_pool.c
    coroutine.c  --switch, or a thread per coroutine-->  the program's functions
    process.c    --spawn, pipes--> worker processes
    actor.c      a message bus the program drives itself

Every primitive can also be delegated to hooks the program supplies; then the
library's own code only forwards the call.

| component | state | operations | what is hard | what makes it correct |
|---|---|---|---|---|
| **thread pool** `thread_pool.c` | linked task queue, stop flag, mutex, condition variable, worker threads and each one's sticky error code | init, push, free; worker loop | pushes from clients and from callbacks, sleeping workers, wakeups that change hands, init that fails half way, free while callbacks push, primitives that report errors | tasks run once and in order; no wakeup is lost; free returns after everything accepted has finished; nothing is used after release |
| **timers** `event_loop.c` | binary heap of nodes with an active flag, identifier counter | add, cancel, the pass `process_timers`, removal of cancelled roots | callbacks that add and cancel while the fired node is still the root; lazy deletion; the clock | no timer is lost, none fires twice, early, or after a later one; every due timer fires |
| **event loop** `event_loop.c` | descriptor slots with active flags, stop flag, wakeup pipe or event | add/mod/remove_fd, run, tick, stop, wakeup | callbacks that change the slots under iteration; stop and wakeup from another thread; the one poll timeout per pass; two platforms | removed descriptors are not called; ready ones are not starved; stop and wakeup are seen; no sleep past a timer; an idle loop returns |
| **actor bus** `actor.c` | actors, linked list of messages with head and tail | spawn, send, process, free | handlers that send, fail, and call process again | messages are handled once, in order and in the end; nodes are neither leaked nor used after free |
| **coroutines** `coroutine.c` | per coroutine a context, a fiber, or a thread with mutex and two conditions; thread-local current coroutine | init, resume, yield, is_done, free | nested resumes; the hand-over between two threads; freeing a suspended coroutine | exactly one side runs; yield returns to whoever resumed; every resume and free returns |
| **process and IPC** `process.c` | pipe handles, what children inherit, byte streams | pipe_init, spawn, wait, read, write, free, serialise, deserialise | short reads, inherited ends, a child that dies, failures between steps | what is read is a whole message; ends neither leak nor are closed twice; reads, writes and waits end |
| **client types** `http_types.c` | requests, headers, parts, cookies, bodies | constructors and destructors, multipart and OAuth bodies, base64, URL coding, the loopback server's answer | an allocation that fails half way; sizes that are added up in one place and written in another | nothing leaks or dangles; bodies fit what was allocated; codecs round-trip |
| **send_multi** `http_types.c` and the backends | the request list on the caller's stack, a future per request, a task per transfer, worker threads | dispatch, completion, wakeup of the loop | libcurl calls back into the loop while the loop dispatches; workers complete futures while the loop's thread tests them; a request of several fails | a future is written once; every dispatched batch completes; the loop's timers and sockets are those libcurl wants |
| **blocking sends** of thirteen backends | the resources a call holds, the handle or context it reuses, the state of the connection | send | a dozen acquisitions, each of which may fail; time-outs with callbacks still pending; peers that stop anywhere; callbacks that abort | a success has the whole message; a failure leaves nothing behind; the callbacks are called in order and never after an abort; the call returns |
| **clients and configurations** `transport.c`, `*_global_*`, `*_context_*`, `*_config_apply` | process-wide counts, contexts, copied strings, settings in force | global init and cleanup, client init and cleanup, applying a configuration | failure after some settings; order and repetition of the calls | the last configuration decides; what is copied is owned once; the library runs while a client needs it |
| **WebSocket** `http_ws.c` | per request a stream: queue of outgoing bytes, close flag, mutex, condition; per run of the task a frame parser | init, send, close, free, register; the transport's read callback | senders and closers race with the transport's reads and with the end of the task; chunks cut frames anywhere; fragments and control frames | nothing accepted is lost or mixed; the end comes last; a close ends the task; messages are reassembled in order |
| **event streams** `http_sse.c` | line buffer, event fields, last id, retry delay, pool task | init, register, parse | fields that outlive lines and events; buffers that grow | the events are those of the stream |
| **adapter** `cmp_integration.c`, **error slots** `c_abstract_http_tls.c`, **crypto** `crypto_utils.c` | function tables, a slot per thread, none | forward, get and set, digests | - | - |

`PROJECT.json` says of each component how much of it is modelled, and under
`hazards` where a step of this code could go wrong in a way a test would hardly
show.

## Modules

Primitives:

| module | models | uses |
|---|---|---|
| `TaskService` | the promise of `thread_pool.h`: accept, start in order, finish, close | |
| `ThreadPool`, `ThreadPoolProofs` | `thread_pool.c`; theorems | refines `TaskService` |
| `TimerSet` | the promise of timers: a set of identifiers with due times | |
| `TimerHeap`, `TimerHeapProofs` | the heap and the timer pass of `event_loop.c`; theorems | refines `TimerSet` |
| `EventLoop`, `EventLoopProofs` | descriptors, poll, dispatch, stop, wakeup of `event_loop.c`; theorems | `TimerSet` for its timers |
| `ActorBus` | `actor.c`; theorems in `PlatformProofs` | |
| `CoroutineState`, `CoroutineSwitch`, `CoroutineThread`, `Coroutine` | `coroutine.c`: what its builds share, the ones that switch stacks, the one with threads, and the program | |
| `Process` | `process.c` without the encoding | |

Clients and requests:

| module | models | uses |
|---|---|---|
| `Clients` | global and context state and `config_apply` of all backends | |
| `Requests` | requests, bodies and cookie jars under failing allocations | |
| `PartsProofs` | theorems about these two and `Process`, and the induction they use | extends `Clients`, `Requests`, `Process` |
| `MultiState`, `CurlMulti`, `MultiWorkers`, `MultiSend` | a batch and its futures; curl's multi handle over the loop; the work items of WinHTTP and Apple's thread; `http_client_send_multi` with all of these | |
| `WebSocket`, `WebSocketProofs` | the stream and the task of `http_ws.c`; theorems | |
| `Platform`, `MCPlatform`, `PlatformProofs` | the parts an application uses on their own, together; constants for TLC; theorems | extends `ActorBus`, `Coroutine`, `Process`, `Clients`, `Requests`, `MultiSend` |

Blocking sends:

| module | models | uses |
|---|---|---|
| `SendContract` | the promise of `HttpClient.send` | |
| `SendState` | what a call holds, what it was given, what the peer does | |
| `SendCurl`, `SendUv`, `SendEvent`, `SendRaw`, `SendWindows`, `SendSoup`, `SendFetch`, `SendQuic`, `SendApple` | the `send` of one backend each; `SendWindows` of WinHTTP and WinINet, `SendFetch` of libfetch and the browser, `SendQuic` of msh3, picoquic and xquic | extend `SendState` |
| `Sends`, `SendsProofs` | a client of any of them that sends one request after the other; theorems | extends the above, refines `SendContract` |

Algorithms:

| module | models | uses |
|---|---|---|
| `WsParser` | frame parser and packing of `http_ws.c` | |
| `SseParser` | event parser of `http_sse.c` | |
| `IpcCodec`, `TextCodecs` | the encoding of messages in `process.c` and packed headers; base64, forms, queries and URLs of `http_types.c` | |
| `Algorithms`, `AlgorithmsProofs`, `MCAlgorithms` | applies these to inputs and states what should come out; theorems about frames | extends `WsParser`, instances of the others |

`EventLoop` and `TimerHeap` are two halves of one file. The loop's questions
(does it oversleep, does it return, is it starved) do not depend on how timers
are stored, so `EventLoop` keeps them in the abstract `TimerSet`, whose actions
`Add`, `Cancel` and `Fire` it calls; that the heap, with its lazily deleted
nodes, is such a set is the refinement that `TimerHeap` checks and
`TimerHeapProofs` proves. In the same
way `MultiSend` needs of a single send only that it has a result, which is what
`Sends` checks of every backend, and of the loop only that it calls back, which
is what `EventLoop` checks.

The parts in `Platform` share no state, so that an application that uses
several of them is no more than their interleaving: a behaviour of `Platform`
uses one part, chosen in the initial state, and keeps the others at rest.

Operators named `Mutant_...` are deliberately broken versions of the
definition that follows them. They are used by no specification; substituting
one for its original must break the property named beside it in
`PROJECT.json`, which shows that the property depends on that code.

## How the modules correspond to the code

### ThreadPool

`owner` is where the thread that calls init and free is, `idx` its loop
counter; `queue`, `stop` and `lock` are the fields of
`struct AbstractHttpThreadPool`; `pc`, `cur` and `rc` are each worker's program
counter, task and error code; `call` is the task of a `push` that has allocated
its node and not yet queued it.

| action | code |
|---|---|
| `worker_lock`, `worker_check`, `worker_wait`, `worker_wait_takes_wakeup`, `cond_wait_return`, `worker_exit`, `worker_take`, `worker_done`, `..._fails` | `worker_thread` |
| `push_alloc`, `push_stopped`, `push_enqueue`, `..._fails` | `abstract_http_thread_pool_push` |
| `init_create`, `init_publish`, `init_create_fails`, `init_join`, `init_release`, `init_alloc_fails` | `abstract_http_thread_pool_init` with its rollback |
| `free_stop`, `free_join`, `free_release` | `abstract_http_thread_pool_free` |
| `cond_signal`, `cond_broadcast`, `cond_wait_spurious` | the condition variable: a set of sleepers, of which a signal wakes one |

A critical section in which the thread does not sleep is one step: whoever else
wants the pool must wait for the mutex, so the middle is invisible. The
worker's section is cut between the test of the queue and the sleep, and a
woken worker asks for the mutex again before it tests again. `CanFail` names
the primitives (`alloc`, `create`, `lock`, `unlock`, `wait`, `signal`,
`broadcast`) that may report an error, and each error path of the code is an
action or a disjunct. `JoinTimesOut` is the Windows `thread_join`, which gives
up after ten seconds. `SemaphoreCond` is the condition variable of Visual C++
before 2010, a waiter count and a semaphore: a worker that goes to sleep may take
the wakeup another one has not taken yet (`worker_wait_takes_wakeup`). To take it
later than at once would make no difference, since both would still wait. The one
place where an error of `lock` does not stop the code is the rollback of init,
which then writes `stop` without the mutex.

### TimerHeap

`timers` is the array (from 1 instead of 0). Sifting, removal and purge are
recursive functions (over the array and the slot of the node that moves, `Sifts`)
that make the code's comparisons and swaps, including the
difference between `process_timers`, which lets the moved node sink while its
old slot is still counted, and run and tick, which shorten the array first.
`process_timers` is cut around the callback (`phase`), in which the program may
add and cancel. `process_timers_end` returns to the caller, which removes
cancelled roots unless it leaves because of a stop. `TimerSet` remembers what was
cancelled, so that a node that gets lost is not taken for a cancellation.

### EventLoop

`at` is the place of the loop's thread between two calls that block or call
back; what it does in between is one step, since everything it touches but
`stop_requested` belongs to its thread. Slots are reused as the code reuses
them, and the dispatch loop walks the *current* slots against the sets that
`select` filled in earlier, testing each slot's activity when it gets there.
`wake_at` is when the poll will time out: `tick` polls, `run` waits for the
earliest timer. `wakeup` is the number of bytes in the pipe (POSIX) or the
state of the event (Windows, capacity 1). The variable `windows`, chosen in the
initial state, selects the branches of `#if defined(_WIN32)`: the wait without descriptors, the second `select` after
a long timeout, and a `select` that does not watch the wakeup event. A second
thread calls stop (flag first, wakeup second) and wakeup; callbacks call both.

### ActorBus

Nodes are named by the order of the sends; `next`, `head` and `tail` are the
pointers. `stack` holds the calls of `abstract_http_message_bus_process` in
progress, each with the node whose handler it runs and its count, since a
handler may send, spawn, fail or call process itself.

### WebSocket

`request` says whether `req->ws_ctx` points to a stream, `live` whether that
stream is not freed; `made` numbers the streams, and `held[u]` is the one in a
user thread's local variable `sctx`, which may be an old one. `queue` is made
of two pieces per frame, so that a read can end inside a frame; `accepted` and
`wire` remember what `ws_send` appended and the transport read. The task's
`loop` goes through `sync_read_loop`; the transport's calls of
`ws_read_chunk_cb` are its steps `read_chunk_...`, with the wait of the
condition variable as a place of its own.

| action | code |
|---|---|
| `ws_send`, `ws_close` | the read of `req->ws_ctx` without a lock |
| `send_appends`, `send_refused`, `send_fails` | the locked section of `c_abstract_http_ws_send` and its early returns |
| `close_flags` | the second locked section of `c_abstract_http_ws_close` |
| `call_on_freed_stream` | either section after the task freed the stream: it fails, or hangs |
| `async_register`, `init_...`, `send_answered`, `send_or_body_fails`, `loop_...`, `task_fails` | `c_abstract_http_ws_async_register`, `..._sync_read_loop`, `..._async_task` |
| `read_chunk_...`, `spurious_wakeup` | `ws_read_chunk_cb` |
| `ws_free` | `c_abstract_http_ws_free` |

### Coroutine

`at` is where each coroutine and the main thread stand, `on` the coroutine of the
call of resume or free they are in, and `chain` the resumes that have not
returned: the last of it is who should run. `build` is chosen in the initial
state. In the builds that switch stacks (`CoroutineSwitch`) `machine.tls` is the
thread-local current coroutine, and a saved context names the one it was saved
for until that one runs again, when it becomes stale: jumping through a stale
context, or to someone who does not wait, is undefined and makes the machine
broken. A fiber goes on where it left, wherever that is. In the build with
threads (`CoroutineThread`) `threads` holds the flags of all coroutines, and who
is asleep; what is done between lock and unlock or wait is one step, and
`spurious_wakeup` wakes anybody.

| action | code |
|---|---|
| `coroutine_init`, `switch_resume`, `switch_yield`, `switch_entry_returns`, `switch_free` | `abstract_http_coroutine_init`, `_resume`, `_yield`, the entry function, `_free` with ucontext or fibers |
| `thread_resume`, `resume_ready_wakes`, `resume_wakes`, `co_thread_starts`, `co_thread_wakes`, `co_thread_returns`, `thread_yield`, `yield_wakes`, `thread_free`, `free_joined`, `spurious_wakeup` | the same functions where a coroutine is a thread |

### Process

A pipe is a sequence of pieces of messages; `handle` are the ends the parent's
structs name, `holds` the ends each process holds, `inherit` those a new
Windows process gets (POSIX forks get all). Writes block when the pipe is full,
reads when it is empty, and see its end when nobody holds the other one. A worker's
program is external: it answers what it reads, or ends at any moment. The parent
gives a worker up after an error, frees its pipes and then waits for it, which is
what the callers of this file do.

### Clients

A client's `own` and `heap` are what its context owns, and how often that is
allocated; `force` holds the settings in force. `config_apply` of each backend is
a list of steps of six kinds (set, try, given, withproxy, copy, reopen: the
comments in the module) in the order of the code, of which any that can fail may
end the call. What has no effect (a setting a backend ignores) is no step.

### Requests

Memory is a number of blocks. `Added` is the common shape of the functions that
append: grow the array, copy one string after the other, free the copies when one
fails, and leave the larger array. A form's size is `CountedLength` summed over its
fields, the numbers the code adds, and its content `CopiedLength`, the lengths of
what it then copies; a multipart body likewise.

### MultiSend

`call` is `http_client_send_multi` up to its return and then the application's
loop, which ticks until all futures are ready. `list` says whether the
`HttpMultiRequest` on the stack of the caller is still there. With curl the transfers go
on inside the loop's callbacks: `curl.phase`, `curl.sockets` and `curl.armed` are
what libcurl and the loop hold, `curl.timer` the identifier in the context, which
is stale after the timer has fired. With WinHTTP a work item makes its three
stores (result, is_ready, wakeup) one after the other. The other backends send one
request after the other in the caller's thread (`SendEach`), and differ in when
they stop.

### Sends

`s` is the call: its place, the resources it holds, the error so far, what it has
stored, given to `on_chunk` and taken from `read_chunk`; `net` is what the
library and the peer hold. The steps of the code and of the library's callbacks
are `Step`; `Network` is the peer, which sends the next piece, ends the message,
breaks the connection, or does nothing. Each acquisition is a step with two
outcomes, and the failing one names what the code releases there. A place where
the code departs from the contract puts a name in `slips`; the properties except
these by name, and [below](#what-the-checks-found-in-the-code) each is described.

A request has a body of one of four forms: none, in memory, from `read_chunk`, or
parts that were never flattened. `PassesOn` is the place where a backend is done
with it: `sent` says that a form the code looks at was passed on to its end,
otherwise the step puts "body not sent" in `slips`. With curl `sent` is not kept,
because the library asks for the upload and may stop asking. `timeout_ms` is the
one of the context's configuration; `NoTimeOut` says from it, per backend, whether a
call is in a wait for which the code has set no time-out.

### Algorithms

`WsParser`, `SseParser`, `IpcCodec` and `TextCodecs` are operators. In
`Algorithms` a state is one input, and each
invariant applies the code's operators to it and compares the result with an
independent definition: the meaning of a sequence of frames or
of lines, the inverse of an encoding. Small inputs are initial states, larger
ones are reached by a step (`AddFrame`, `AddLine`), which is
no step of the program. Bytes of frames and texts are numbers, since masks and
digits are computed from them; in event streams a field name is one token, and
between processes a number is one cell. Parsers keep the buffers' capacities,
scaled down, since growth and limits depend on them. The array operations of the
timer heap are operators too; `HeapOpsAreSetOps` applies them to every heap that the
run of `TimerHeap` reaches.

## Runs

Each run finishes within two minutes with two TLC workers.

| run | asks | bounds |
|---|---|---|
| `pool_service` | Is the pool the fair task service? Is what push answers true, is no wakeup lost, do init's rollback and free return? With failing allocation and thread creation, and wakeups that change hands. | 2 workers, 1 client, 3 tasks, 1 spurious wakeup |
| `pool_faults` | Does safety survive when every primitive may report an error? | the same, all primitives fail |
| `timer_heap` | Is the heap the timer set, in order, losing nothing, firing everything due? Do the array operations do what sets do? | 4 registrations, timeouts 0 to 2, clock to 2 |
| `loop_dispatch` | Removed descriptors are not called, ready ones are not starved, in both builds | 2 descriptors, 3 registrations, masks that callbacks empty, no timers |
| `loop_timers` | No oversleeping, timers served, idle loops return, in both builds; stop and wakeup served on POSIX | 1 descriptor, 2 timers, clock to 2, pipe of 1 byte |
| `loop_windows_wakeup` | (violated) Does a wakeup reach a Windows loop? | 1 descriptor |
| `websocket` | Is what the transport reads what was accepted, frame by frame? Is the end final, does a close end the task? | 2 threads with 2 calls each, 2 registrations, reads of 1 or 3 pieces |
| `algorithms` | Do the parsers report what streams mean, and do the encodings invert? | 1 to 3 frames; 4 lines; 2 headers; texts of 4 bytes, all single bytes |
| `ws_empty_frame` | (violated) Is every complete message delivered? | the same |
| `sends` | Does every backend's send implement the contract, succeed with the whole response and upload only, leave nothing behind, and return where a time-out was set? | 13 backends, 2 calls on one context, bodies and uploads of up to 2 pieces, time-outs of 0, 500 and 30,000 ms |
| `platform` | Bus: list and ownership, every message handled. Coroutines: turns, calls return. Processes: whole messages, ends owned, calls end. Clients: the last configuration rules, resources owned. Requests: blocks reachable, bodies whole. Batches: futures final, the loop serves curl, errors stop, batches complete. | 4 sends, 2 nested calls, 2 actors; 2 coroutines, 2 yields, three builds, nested in the one with threads; 2 workers, 2 messages of 1 to 3 pieces, pipes of 2; 2 clients, 2 configurations out of 3; 3 operations, first arrays of 1; 3 requests, 9 backends |
| `coroutine_nested` | (violated) Does a yield return to its resumer when coroutines resume coroutines, with ucontext? | 2 coroutines |

Why these bounds are enough to meet the interesting cases:

- Two workers are needed for a signal to reach the wrong one, for one to take
  the other's wakeup, and for one to
  empty the queue under another that was woken; three tasks let one run, one be
  queued, and one be pushed by a callback. One spurious return puts a worker in
  the loop's second test.
- Four timers make a heap of three levels; a callback can add under the fired
  root, and cancel both root and leaf. `HeapOpsAreSetOps` adds a fifth node to them, so
  that the last node is a left or a right child and the new one may rise two
  levels; for larger heaps there is `HeapOpsTheorem`.
- Three registrations of two descriptors let a slot be emptied by a callback,
  reused, and met again by the same dispatch loop.
- A pipe of one byte is full after one wakeup, so the dropped byte is reached.
- Two threads with two calls let one send while the other is between its CLOSE
  frame and its flag; two registrations let the second run meet a stream that
  the first left. A read of one piece cuts a frame, one of three takes a frame
  and part of the next.
- Three frames are a message of three fragments, or of two with a control frame
  between them; limits of 4 bytes and a first buffer of 2 make the reassembly
  buffer grow to its limit, and a fragment of 4 bytes after a message of 3 grow past
  it. Lengths in sixteen and sixty-four bits are written
  out also where fewer bits would do, and `MessagesReassembled` tries the real
  boundaries. Four lines and the blank line after them are two events, the
  second of which could inherit from the first.
- Two calls of send on one context let the second meet whatever the first left:
  options of the handle, pending callbacks, stale pointers. Two pieces have a
  first, a last, and a place between them for the peer to stop at. Time-outs are
  none, one below a second, which becomes none in backends that count seconds, and
  the default (http_types.c:775).
- With two coroutines one can resume the other and be resumed again while the
  other is suspended; two yields bring each back to where it was. Pipes of two
  pieces and messages of three make writes stop half way.
- Two clients share a count that must neither stop the library early nor leave
  it running; two configurations are one that gives a setting and one that does
  not. Arrays whose first size is one grow at the second item.
- A batch of three has requests before and after the one that fails.
- `MaxTimers`, `MaxRegs`, `MaxTime`, `MaxSends` (of the bus: messages; of a
  context: calls), `MaxActors`, `MaxDepth`, `MaxYields`, `MaxAsks`, `MaxSize`,
  `MaxApplies`, `MaxOperations`, `MaxCalls`, `MaxLoops`, `MaxBody`, `MaxUpload`,
  `MaxLines` and `MaxSpurious` are the only bounds that the code does not have;
  each guards the action that counts it. `HeaderRoom`, `PartRoom`, `Capacity`,
  `PipeCap`, `MaxFrame` and the rooms of the parsers are sizes the code has,
  scaled down.

Deadlock checking is off where the system may stop: in `pool_faults`, where a
failed broadcast or lock puts threads to sleep for good; in `algorithms`, where
a state is an input; in `websocket` and `platform`, where an application may
have nothing left to do.

## Fairness

- `ThreadPool`: each worker that can take a step takes one, so callbacks
  return; a push that has begun goes on; the owner goes on once it is inside
  init or free. Nothing makes anyone push, free, or fail. The mutex needs no
  strong fairness here because a holder releases it in a bounded number of steps
  and at these bounds only finitely many other calls compete for it.
- `TimerHeap`: the loop goes on making passes and callbacks return, which is
  what `http_loop_run` does while it is not stopped.
- `EventLoop`: the loop's thread is scheduled and callbacks return; a stop that
  has set the flag goes on to its wakeup; time passes. No fairness is asked of
  the program, of the second thread's willingness to stop, or of sockets.
- `WebSocket`: the task is scheduled, and a transport that was told the end of
  the body gets an answer or an error in the end (a transport that is still
  reading may also go on reading). Nobody need send, close or register.
- `Sends`: the steps of the code, the callbacks of the libraries' loops, and
  time-outs that were set: `WF(Step /\ ~NoTimeOut)`. The peer may fall silent at
  any moment, and nothing is asked of a wait that the code has not limited.
  `SendReturns` says that every call returns or stays in such a wait for ever.
  They are: every wait of fetch, which stores `timeout_ms` and does not use it
  (http_fetch.c:424), of Apple's run loop (http_apple.c:463) and of msh3; the
  blocking `send` of raw (http_raw.c:537-556), whose `connect` and `recv` are always
  limited, by thirty seconds if nothing else was configured (http_raw.c:95); those
  of libsoup and libevent if the time-out is below one second, since both divide
  by 1000 (http_libsoup3.c:755, http_libevent.c:1262); and those of curl, WinHTTP,
  WinINet and wasm if it is 0, which curl is given as it is (http_curl.c:504-509) and
  the others are not given. libuv starts no timer if it is 0
  (http_libuv.c:1948), and no timer watches a connection begun after the time-out.
  Limits that a library has of its own are not counted. Name lookup, and the
  application's callbacks, return.
- `Platform`: a process call of the bus that has begun goes on, handlers return,
  and the program calls process again when it is outside; every coroutine and
  thread that can go on does, and the program's coroutines end; every process
  that can go on does, a worker may end instead; the application ticks the loop
  of a batch, libcurl's transfers end, and worker threads go on. Clients and
  requests need none.

## Proofs

`ThreadPoolProofs`, for any number of workers, clients and tasks, also with
wakeups that change hands:

- `TypeCorrect`: `Spec => []TypeOK`, with any failing primitives.
- `FifoTheorem`: `Spec => []FifoExactlyOnce`, with any failing primitives and
  joins that time out. Invariant: `IdInv` (an identity is fresh, in one push,
  or in the history once) and `QueueInv` (accepted is started followed by the
  queue). `FifoExactlyOnce` alone is not inductive: a push could queue a task
  that is already in the history.
- `TeardownTheorem` and `ReleaseTheorem`: assuming joins do not time out,
  `Spec => [](DrainedBeforeRelease /\ NoUseAfterRelease)`, with any failing
  primitives. Invariant `TeardownInv`: who may be inside push (`CallInv`), which
  workers the owner's counter says do not exist or have ended (`OwnerInv`), a
  worker that ended cleanly left a stopped pool with an empty queue
  (`ExitInv`), started tasks are done or on a worker (`RunInv`), nothing
  precedes publication (`EarlyInv`). `ExitInv` is the heart: it survives a push
  because push tests `stop` under the same mutex.
- `RefinementTheorem`: assuming joins do not time out and lock, unlock and wait
  report no errors, `Spec => Service!Spec`: the pool is `TaskService`. The extra
  assumption is needed: if every worker dies of an error, free releases a pool
  whose queued tasks never ran.

- `PushTheorem`: assuming signal and unlock report no errors,
  `Spec => []PushSound`, with any other failing primitives and joins that time
  out. Without the assumption push answers an error for a task it has queued.
  Invariants: `RefusedInv` (a refused task is in no call and not queued) for the
  answer, and `AwakeInv` for the wakeup: whoever is between the test of the
  queue and its sleep holds the mutex and still sees the empty queue (`LockInv`),
  and an open pool has all its workers (`OpenInv`).

`EventLoopProofs`, for any number of descriptors, registrations and timers, in
both builds:

- `RemovedTheorem`: `Spec => RemovedNeverCalled`. Invariant `Registry`: the
  slots in use are the registered descriptors, one slot for each. Without the
  latter a removal, which empties one slot, could leave another to be called.
- `NoOversleeping`: `Spec => []OverdueTimerWakes`. Invariant `Awaited`: while the
  loop sleeps, its timeout is not after any timer's due time, or has passed
  already. It rests on a timer being added and removed only while the loop is
  awake, and on the least due time, which `LeastOf` obtains from the
  well-foundedness of the naturals.

`TimerHeapProofs`, for any number of timers:

- `HeapTheorem`: `Spec => [](TypeOK /\ Ordered(timers) /\ OneNodeEach(timers))`,
  with any timeouts and a clock that moves at will: no parent expires after its
  child, and no identifier stands in two nodes. Sifting up starts from an array
  that is a heap but for the last node (`UpRaises`), sifting down from one that is
  a heap but for the root (`DownLowers`); each exchange moves that exception one
  level and keeps the nodes (`Reorders`). `process_timers` sifts while a copy of
  the moved node still stands in the last slot: that does no harm because nodes
  that do not expire before the one that sinks stay where they are (`Lowered`), so
  the copy does, and is cut off (`LastForRoot`, `RemoveRootDrops`). `PurgeKeeps` says that the
  purge drops only cancelled nodes.
- `TimerTheorem`: `Spec => ImplementsTimerSet`, that is `Spec => Timer!Spec`, if
  timeouts are not negative and the clock does not step back. `PassInv` adds
  what removing "whatever node is at the root" after a callback needs: that the
  root is due and no longer active, which stays so because nothing a callback
  registers expires before `now`. Without the assumption the theorem is false, and the runs
  find the lost timer ("The time of day" below).

That the recursive functions of sifting and purge exist at all is shown first
(`Recursion`: each call makes a number smaller, and the values are found below 0,
below 1, ...), with the same induction over sets of numbers as in `PartsProofs`.

- `HeapOpsTheorem`: `Spec => []HeapOpsAreSetOps`, from the same for every heap whose
  nodes are all different, and every node that is new to it (`SetOpsHold`). It adds to the above that a sift keeps the set of nodes
  (`ReordersNodes`), that a removed root was the only node lost (`DropsRoot`), and
  that the purge ends at an active root, which in a heap is the earliest of all
  (`PurgeStops`, `KeepsActive`).

`AlgorithmsProofs`, for any number of frames, of any length, under any limit:

- `CutsTheorem`: `CutsDontMatter` whenever `input.frames` is a sequence of frames, any
  at all (`Frames`: all bits, opcodes and keys), and so for more inputs than those
  that `Spec` enumerates. What is read
  is kept in a context whose parts agree (`Wf`: the key is read after the length, no
  more of a payload than the length says, and masked by its place in the
  frame). The loop of a feed ends, because each turn takes a byte or completes a
  frame, and the one after that takes a byte (`Turnsleft`, `LoopStep`), so that
  its result is that of any sufficient number of turns (`FeedAfter`). A turn
  that has all the bytes it wants does the same whatever follows them (`TurnFits`);
  the one turn that may want more, in a payload, does in two parts what it does in one
  (`PartsJoin`). So both ways of cutting meet again after the turn that the cut
  divides, and go on alike (`FeedJoins`).
- `ReassemblyTheorem`: `MessagesReassembled` for every sequence of frames but the
  empty one. `Legal` and `Fits` stand in the property, not in the theorem: they say
  which streams RFC 6455 allows and for which the buffers are sure to suffice.
  Between two frames a context is `Ready`: only the fragments so far, their
  buffer's capacity and the events are carried (`Carried` says which they are
  after k frames: the data since the message began, enough room for them, and the
  meanings of the first k frames). A header is read byte by byte (`Goes`, a
  way from one context to another along bytes; `OpcodeGoes`, `LenGoes` in its
  three forms, `KeyGoes`), and gives back what was written in it (`TwoBytesRead`,
  `EightBytesRead`). A payload is unmasked with the key it was masked with
  (`XorTwice`, from the bits of a byte). At its end, `frame_complete` does one of
  four things: a control frame is reported and carries the message on
  (`ControlCarried`), a fragment is stored (`FragmentCarried`), and a
  final frame is reported alone or with the fragments before it (`FinalCarried`).
  The buffer doubles until the fragments fit (`DoubledFits`) and so stays within
  the limit when they take at most half of it, or when the limit itself is
  the first capacity doubled (`NewRoomIs`, `LimitIsDoubled`). `ShippedLimit` shows
  that of the limits the library is built with, 1048576 and 4096; `MaxFrame` is a build
  option (CMakeLists.txt:126) and may be set so that it is not. The induction over
  frames (`AllReached`) goes over sets of numbers, as all inductions here.
  `FrameWaits` is the exception in the property: a frame without payload at the
  end is still to be reported.
- `StreamsTheorem`: `Spec => [](CutsDontMatter /\ MessagesReassembled)`, when the
  payloads that `Spec` takes for its frames are at most 125 bytes
  (`ShortPayloads`), which makes every length it writes a correct one.

- `UrlTheorem`: any text that was written into a URL or a form is read back
  (`urldecode_alloc` after `urlencode_append`), and takes exactly the bytes that
  `math_urlencode_len` counted for it. This is the part of `CodecsInvert` about
  `TextRoundTrip`'s URLs, for texts of any bytes and length. The escapes are
  inverted digit by digit (`HexBack`, `EscapedBack`); the code of a byte lies where
  the codes of those before it end (`UrlAt`), and is read as that byte, which
  leads to the next one (`DecodeNext`).

A frame's length is below 2^32 in these theorems, as an `EightBytes` writes no more;
the code reads all 64 bits, and the limit refuses longer ones.

`WebSocketProofs`, for any number of threads, calls, registrations and sizes of
reads:

- `WebSocketTheorem`:
  `Spec => [](TypeOK /\ StreamIsFrames /\ EndIsFinal /\ NoLostWakeup)`. The
  invariant `WebSocketInv` adds `Counted` (every stream but one the application
  made itself belongs to one registration, `made <= loops + 1`, which bounds
  `made` in the type invariant) and `EndDrained` (`EndIsFinal` in terms of the
  queue: after the end the queue is empty and the close flag stays). The pieces'
  two halves stay together because appends happen under the mutex, and a read
  moves a prefix of the queue to the end of what was read, which leaves their
  concatenation alone (`TakeKeepsStream`).

`PartsProofs`, for any number of workers, messages and pieces, and any
capacity of the pipes:

- `EndsAlwaysOwned`: `ProcSpec => []EndsOwned`. The invariant `EndsInv` adds the
  types and `WaitsForClosed`: the parent is in wait only for a worker whose
  pipes it has freed, so that the end of the wait gives nothing away.
- `MessagesAlwaysWhole`: `ProcSpec => []MessagesWhole`. The invariant
  `MessageInv` says of each pipe that what it holds is the rest of one message,
  the one after those taken from it, up to what its writer has written; which
  calls are under way on it; and that parent and worker take turns.

The same module, for any number of clients, configurations, operations, headers,
parts and cookies:

- `ConfigTheorem` and `ClientTheorem`: `ClientSpec => []LastConfigRules` and
  `ClientSpec => []ResourcesOwned`, for each backend's list of steps. The
  invariant `ClientInv` says of each client that it has one block of each resource it
  owns and is as its stage says (`ClientsInv`), and that the library counts those
  who need it (`LibraryInv`). `config_apply` is a recursive function over its list
  of steps: what `LastStepRules` shows is that a field which some step always
  sets is, after all of them, as the configuration says; `SureLists` that each
  list has such a step for every field but those that linger.
- `RequestTheorem` and `BodyTheorem`: `RequestSpec => []BlocksReachable` and
  `RequestSpec => []BodyWhole`. The invariant `RequestInv` is the first of these
  with types. A form's body is as long as counted because field by field the
  lengths agree (`LengthsAgree`), and a multipart body fits because every part is
  covered by what is estimated for it (`PartCovered`).

What these compute over lists (`Sum`, `Kept`, `Stepwise`) are recursive functions.
Facts about them for lists of any length are proved by induction in a form the
provers can use: over sets of numbers (`LeastNumber`, `UpTo`) in place of
predicates, with the existence of a function that is defined step by step shown
first (`StepByStep`).

`SendsProofs`, for any number of calls, pieces and uploads, and any of the 13 backends:

- `SendTheorem`: `Spec => ImplementsSend`, that is `Spec => Contract!Spec`.
  A callback's error counts as an abort unless it is one that the code does not
  see: those of `read_chunk` with libuv and libevent, and those of `on_chunk` on
  libuv's late connection (`AbortLost`).
- `CompleteTheorem` and `LeavesTheorem`: `Spec => []ResponseComplete` and
  `Spec => []NothingLeftBehind`. `ResponseComplete` is `ReceivedWhole`, a response
  and all of its pieces, and `SentWhole`, an upload passed on to its end and
  not only as far as it was taken from `read_chunk`.

None of the three is inductive. `SendsInv` has three parts. `Common` holds of every
backend at every place: a call that was aborted fails, what was taken from
`read_chunk` was sent unless the call fails (`Honest`), `on_chunk` got the first
pieces in order (`GivenInOrder`), and a call that begins finds nothing of the one
before but the pointers left in a handle (`Fresh`). `BackendInv` says of each
backend what a call holds at each place and how much of the response it has
(`Nothing`, `Receiving`, `Received`), and what its library may still do: with curl
which of the handle's options point to this call; with libuv which callbacks
are pending (`UvCallbacks`), and that a connection is opened late only when the
error is already set. What is held is what makes the releases complete; how far
the response has got is what makes success mean the whole of it. `UploadInv` says
that a call behind the last place where the body is passed on (`Uploading` lists
the others) has passed it on, has failed, or has made one of the slips; it is
inductive because a step from one of these places leads to another, or through
`PassesOn`, to an error or to a slip (`UploadGoesOn`), and no later step
takes back what was sent (the last part of `Good`). A step of any
backend is one of four `Kinds`: it calls nothing, takes a piece of the
upload, gives a piece of the response, or returns. These are the contract's
steps (`ContractNext`), so each backend only has to show that its steps
are of these kinds and keep its invariant (`CurlSteps`, `UvSteps`, ...), mostly by
lemmas about the places they have in common: a try that holds something or
leaves (`TryStep`, `TryOrLeaveStep`), an upload (`UploadStep`), a piece of the
response (`PieceStep`), an end (`EndStep`, `FailStep`). What the code does
otherwise is excepted by the names in `slips`, as in the runs' properties.

`PlatformProofs`, for any number of messages, actors and nested calls of the bus, requests and
coroutines:

- `BusTheorem`: `Spec => [](TypeOK /\ HandledInOrder /\ ListIsQueue /\ NodesOwned)`.
  `BusInv` adds to these that the nodes in the stack's frames have been handled
  (`RunningHandled`), which is what keeps the node a send allocates apart from
  those of running handlers, and the explicit shape of the pointer chain
  (`QueueInv`).
- `LoopAlwaysServesCurl` and `FuturesAreFinal`: `MultiSpec => []LoopServesCurl`
  and `MultiSpec => FutureIsFinal`. `FutureInv` is the conjunction of `CurlInv`
  (the timer in the context is live exactly when one is armed; tasks are the
  running transfers; a transfer without a socket wants a timer; nothing is
  connected while the batch is still dispatched), of `OneBackend` (only the
  backend of this client has transfers, work items or a thread) and of
  `NotYetReady` (the future of a transfer that runs, of a work item before its
  store, and of a request not yet sent is not ready). `NotYetReady` is what
  makes futures final, and holds because nobody but the transfer completes its
  future, which needs `OneBackend`.
- `BatchStopsAtError`: `MultiSpec => []StopsAtError`: what has been sent is an
  initial part of the list, and all of it but the last succeeded unless errors
  do not stop the batch.
- `CoroutinesRunInTurn`: `Orderly /\ CoSpec => []RunsInTurn`, where `Orderly` is the
  build with threads, or any build in which coroutines do not resume others: the
  builds that the run `platform` checks. The rest is refuted by `coroutine_nested`.
  With threads the invariant is
  `TurnInv`, which describes the chain: everyone in it but the last is in resume of the
  next one, and will find the next one's flag set (`Chained`); the last is at a
  place where one runs or is about to (`TopPlaces`); everyone else has not
  started, has yielded and not been told to run, or has ended (`Outside`); who
  is told to exit is outside and being joined (`Exits`). The flags are why a
  spurious wakeup lets nobody run who should not. With ucontext and fibers
  it is `SwitchInv`: only one stack runs, that of the main program (`Alone`) or of
  the one coroutine that it resumed (`Inside`), each context saved is that of the
  coroutine it was saved for (`Machine`), and what a yield looks up leads back to the
  main program (`Fibers`).
- `PlatformTheorem`: the composition keeps all of these, the bus's, those of
  processes, and those of clients and requests. A step of
  the platform is a step of one part and a stutter of the others
  (`StepOfAPart`).

The assumptions are those of the constants (`ASSUME` in each module): bounds
are naturals, names are distinct, the backends of a batch are those the factory
knows, and those that send are the 13 that are modelled (`BackendNames`), the names of form fields have the lengths of `NameLength` (the provers do
not count characters; TLC does), and `PartShapes`, the lengths a part may have, are
naturals.

Only model-checked: every liveness property (progress under fairness is out of
the prover's reach); what the violations refute; and in
`algorithms` `EventsReported` and `CodecsInvert` (but for its URLs). These two compare
folds and functions over the whole input with a meaning or an inverse of it, and
need for each of them an induction of its own over lines, fields or characters, as
`ReassemblyTheorem` has one over frames and `UrlTheorem` one over bytes.

## What the checks found in the code

Three disagreements with what the headers say have a run of their own:

- On Windows a loop asleep in `select` is not woken by `http_loop_wakeup`
  (`loop_windows_wakeup`), and so not by `http_loop_stop` either.
- `ws_parser_feed` looks at a payload only while bytes are left, so that a frame
  without payload that ends what was fed, such as an empty message, is not
  reported (`ws_empty_frame`). `MessagesReassembled` says that nothing else is
  missing.
- With ucontext a coroutine that has resumed another one no longer is the
  current coroutine of its thread: its next yield saves its context over the
  other's and does not go back to its resumer (`coroutine_nested`). With fibers
  the same yield switches to the wrong fiber or to itself.

The properties except the following by name, or by the constants of the runs:

- *Joins on Windows.* `thread_join` gives up after ten seconds
  (thread_pool.c:218), and free then releases the pool under a running worker.
  `JoinTimesOut = TRUE` violates `DrainedBeforeRelease`.
- *The time of day.* `process_timers` removes whatever node is at the root after
  the callback (event_loop.c:573). With a clock that steps back, or a negative
  timeout, a timer registered by the callback can be there, and is lost:
  `ClockSteps = {1, -1}` violates `ImplementsTimerSet`.
- *Uploads whose errors are ignored.* libuv and libevent send what they have when
  `read_chunk` fails; libevent drops a piece, or a whole body, that it cannot buffer
  (http_libevent.c:1277-1317).
- *Uploads that are not sent*, in sends that succeed: raw never calls `read_chunk`
  (http_raw.c:487-533), msh3 looks at no body at all.
- *Aborts that are ignored.* On a connection that libuv begins after the time-out
  `libuv_finish` does nothing any more (http_libuv.c:760), so that after an error of
  `on_chunk` (http_libuv.c:1388, 949) reading goes on and `on_chunk` is called
  again; the send still fails, with the time-out.
- *A success without a response.* `map_fetch_error` maps `FETCH_OK` to success
  (http_fetch.c:199-201); if libfetch returns no stream and sets no error code,
  `http_fetch_send` succeeds and leaves `*res` as it was (640-649).
- *Bodies that are lost.* raw drops the response's body when there is no memory
  for its copy, and passes the header block to `on_chunk`; Apple makes a new data
  object for each read, so that it keeps only the last piece of a body and leaks
  the others (http_apple.c:110). msh3 does not call `on_chunk`.
- *The end of a body.* libuv, raw, fetch, wasm and msh3 take the end of the
  connection for the end of the body (`ReadsToEof`); libuv succeeds without a
  response when not even the headers came; wasm takes a failed request for an
  empty response.
- *What is kept.* libuv's loop is not closed on one error path, and a resolution
  that ends after the time-out still connects, without a timer; libevent's
  request is not freed when the method is unknown; libevent, WinHTTP, WinINet and
  Apple may leave a response in `*res` together with an error.
- *No time-out.* Every backend has waits without one, always or with some
  configurations; the [fairness of `Sends`](#fairness) lists them. raw's counts from
  the last read.
- *Multipart parts* that were not flattened are ignored by WinHTTP, libevent, raw,
  msh3 and Apple, and nothing in the library flattens them. Flattening adds a
  second Content-Type if there is one.
- *Requests prepared twice.* A form's request overwrites the URL and the body that
  were there (`lost` counts them).
- *Settings that linger* when a later configuration does not give them: curl's
  tls, agent and authorization, WinHTTP's time-out and authorization, the
  time-out of WinINet, raw and libsoup (`Lingers`). Nothing under `src/` calls
  `config_apply` after a client has been made.
- *Apple's batches.* The worker thread reads the list of requests on the stack of
  a caller that has returned (http_types.c:2475), and may complete no future;
  `BatchCompletes` leaves this backend out.
- *Worker processes.* `spawn` does not mark pipe ends close-on-exec, so that a
  second worker keeps the first one's pipes open (`HeldByOther`); on Windows the
  parent keeps the worker's ends and does not see it die. A read that comes
  short reports an error and leaves the stream out of step. `pipe_free` takes
  descriptor 0 for no descriptor.
- *Yields on Windows.* A yield after the current coroutine was freed reads it
  through thread-local storage (coroutine.c:203, "freed coroutine").

Also visible in the models, though no text of the repository denies it: `push`
returns an error of `cond_signal` or `unlock` for a task that stays queued, and
its callers free the argument; `PushSound` is therefore checked only with
primitives that do not fail that way. `http_loop_run` resets `stop_requested`
after it was entered, so that a stop from another thread between the call and
the reset is lost; `LoopResponds` speaks of later ones. The dispatch loop may
tell a registration of readiness that was polled for an earlier one of the same
descriptor number. `ws_close` queues its CLOSE frame before it sets the flag
that refuses further frames, so that another thread's frame, or a second CLOSE,
can follow it on the wire; a thread that still holds a stream may lock it after
the task freed it; and a task asleep in the read callback is woken by nothing
but a send or a close, whatever the server does. The last fragment's opcode is
reported for the whole message, so that its type is that of a continuation. The
limit on fragments depends on earlier messages: a final frame leaves a capacity of exactly
the message's length (http_ws.c:706), which the next fragmented message
doubles (http_ws.c:667), so that after one of 5,000 bytes a message of 700,000 is
refused with the limit at 1,048,576; `Fits` counts on half the limit only. A
message between processes with an empty header value is written but refused
when it is read. In `sse_process_line` the buffer grows when the data and a line
feed exceed it, while a terminator is written after them. After a WinHTTP or
curl dispatch that failed, the futures of the requests behind the failing one
never become ready; their error is that of the call. `http_fetch.c` takes an
error of `fread` for the end. The loopback server reads once, so that a request that
arrives in two parts is cut, and leaks the first of two `code` fields.

## Assumptions and what is left out

- `ThreadPool`: free is not called while another thread of the caller is inside
  push (callbacks on workers may be). An unlock that reports an error has still
  released the mutex. Delegation to external hooks is left out.
- `TimerHeap`: callbacks do not call run or tick, so passes do not nest (an inner
  pass that empties the heap would make the outer one count below zero,
  event_loop.c:580); the
  test hook that makes a swap fail is left out; an allocation failure in add
  changes nothing and is left out; the array's capacity doubles and is left out.
- `EventLoop`: the moment between reading the clock for the timeout and
  entering `select` is not a step of its own; `select` does not fail (no signals,
  no closed descriptors); `tick` and `run` are called by one thread and not by
  callbacks; `http_loop_free` and hooks are left out. Reading and writing
  `stop_requested` from two threads without synchronisation is taken as a read
  that sees the last write: library calls separate the reads.
- `ActorBus`: hooks and allocation failures, which change nothing, are left out;
  the bus has no lock, so one thread at a time uses it; free is called outside
  process.
- `Coroutine`: a coroutine is resumed by one that is not beneath it, and freed
  while it is not running; mutexes and condition variables do not fail. Nested
  resumes are checked in the build with threads, and refuted with ucontext.
- `Process`: a message is written by one call of write, and the parent asks one
  worker at a time. A write to a worker that has died reports an error
  (SIGPIPE is ignored by the program, or ends it, after which nothing is asked).
- `Clients`: initialisation and cleanup are made on one thread, which http_curl.h
  asks for ("assuming single-threaded startup"); a client lives between its own
  global init and cleanup.
- `Requests`: the encoded length of a value is counted and written by the same
  rules, which `TextCodecs` checks, and is left out of both sums.
- `MultiSend`: futures are stored without synchronisation, and the stores become
  visible in the order of the code. libcurl's callbacks do not fail, and the
  context keeps its loop. A wakeup by the WinHTTP worker does not fail; the code only
  logs it (http_winhttp.c:1259-1263), and an application that ticks its loop until the
  futures are ready does not depend on it.
- `Sends`: a library reports each of its operations once; the response is cut at
  any piece; names, headers and statuses are left out. `http_fetch.c` puts the agent and
  the proxy in the environment with `setenv`, as POSIX builds do; the branch with
  `putenv` is compiled only where neither `_POSIX_C_SOURCE` nor `__unix__` nor
  `__APPLE__` is defined. A WinHTTP time-out for one operation alone, which sets
  the others to none (http_winhttp.c:767-780), is left out: `timeout_ms` stands for
  all of them.
- `WebSocket`: mutex and condition variable do not report errors; the handshake
  key, its verification and the headers are left out. `ws_close` takes one pointer
  to the stream where the code reads `req->ws_ctx` again in its call of `ws_send`
  (http_ws.c:956-959, 1077). Left out are also descriptors of
  the connection itself, which belong to the transport; the response is fed to
  the parser in one piece by this code, but `CutsDontMatter` does not rely on it.
- `WsParser`, `SseParser`, `IpcCodec`, `TextCodecs`: memory is there; the retry
  delay of event streams, which nothing reads, and the carriage return as a line
  end of its own, which the parser drops by choice, are left out.

Not modelled: `crypto_utils.c`, whose digests are out of reach of a model
checker; the per-thread error slots of `c_abstract_http_tls.c`, in which threads do not
meet; the adapter `cmp_integration.c` between two tables of functions; the mocks
inside `http_libuv.c` (1603-1725); the `send_multi` of `http_wasm.c`, which
nothing installs; saving a body to a file, and the socket calls around the
loopback server's one read; the logger. The sends of picoquic and xquic always
return an error, and are modelled as that.

## Plan

What could be added, in this order:

1. Nested passes of `TimerHeap`, with callbacks that call `http_loop_tick`.
2. The opening handshake of `http_ws.c`, and the task of `http_sse.c` on the
   pool, over `TaskService`.
3. External hooks: a delegating loop and pool, of which the library only
   forwards the calls.
4. Proofs: `EventsReported`, by induction over the lines of a stream, and
   `CodecsInvert`, over the fields of a message and the groups of base64.
