# A TLA+ model of making-chat-on-c

The repository is a set of C programs from an operating systems course: a
thread-safe queue with active objects on top of it, a chat server around poll, a
chat between two hosts, a file transfer over eight transports, a program of
performance tests, and two examples of threads that count. This directory
holds TLA+ modules that model them, TLC runs that check the modules on small
instances, and proofs that the TLA+ proof system checks for every instance.

## 1. Inventory

| part | source | state | operations |
|---|---|---|---|
| work queue | `task5_designPattren/queue.c` | linked list (`head`, `tail`, nodes), a mutex, a condition variable | `createQueue`, `enqueue`, `dequeue`, `isEmpty`, `deleteQueue` |
| active objects | `task5_designPattren/activeobject.c` | per object: queue, thread, function, `next`, `flag` | `createActiveObject`, `run`, `getQueue`, `stop` |
| pipeline | `task5_designPattren/st_pipeline.c` | four active objects, the control block `arr`, the variable `num` | `main`, `partD_a` .. `partD_d`, `isPrime` |
| reactor | `task4_DesignPattern_Reactor/react_server.c` | array of `pollfd`, its two counts, array of events, `running` | `startReactor` (the loop), `addFd`, `addEvent`, `handleEvent`, `del_from_pfds`, `stopReactor` |
| chat | `task3_making-chat-on-c/stnc.c` | two processes per host that share one socket | connect or accept, `handle_client`, the loop over standard input |
| transfer | `task3_making-chat-on-c/server.c`, `client.c` | a handshake connection and one transport | `server_main`, `client_main`, `s_*` and `c_*` for eight transports |
| performance program | `task3_making-chat-on-c/prartb_2.c` | its arguments, one connection | `main`, eight `perform_*_client_test`, `perform_server_performance_test`, `calculate_checksum` |
| performance draft | `task3_making-chat-on-c/partb.c` | as the above | not modelled (section 5) |
| mutex examples | `threads_mutex_example/mutex.c`, `problem.c` | a counter, with and without a mutex | `main`, `doSomeThing` |
| exercises | `LIBS_GDB`, `Task1_GDB` | none | not modelled |

How the parts interact: the threads of the active objects share the queues (each
object takes from its own and puts into the next one's), and all of them work on one
variable of the first. The reactor meets its clients through the kernel only: poll
reports what was true some time ago. The chat's four processes meet in one TCP
connection. The transfer's two programs meet in the handshake and in the transport;
nothing but two pauses of the client keeps them in step. The performance program is
started once as a server and once as a client, and of the clients only the mmap test
ever reaches that server. `server.c` and `prartb_2.c` each have a checksum of their own.

What is hard, and the property that says it should go right:

* threads in any order, a signal that reaches nobody or too many, nodes that are
  freed and handed out again: the queue is a FIFO queue and loses no wakeup;
* the shut-down of a pipeline whose threads end one after the other while main
  joins and frees them;
* indices and `revents` that are out of date when they are used, an array that grows
  while it is walked over (reactor);
* the end of a connection that two processes share (chat);
* a client that does not read, on whom the one thread of the reactor waits;
* pauses that are too short, datagrams that get lost, a peer that has given up or been
  killed, a FIFO that it has left behind (transfer);
* two programs that both send and never read, and what is reported of a transmission
  that broke off (performance program);
* an `int` that overflows in the sum of a checksum;
* increments that get lost, and threads that nobody waits for (mutex examples).

`PROJECT.json` lists every hazard at its line with the properties aimed at it.

## 2. Modules

| module | models |
|---|---|
| `FifoQueue` | what the users of the queue rely on: a sequence, put at one end, taken from the other |
| `WorkQueue`, `MCWorkQueue` | `queue.c`, one step per lock, wait, signal, unlock; implements `FifoQueue` |
| `Pipeline` | `activeobject.c` and `st_pipeline.c`, on FIFO queues with atomic operations |
| `Reactor`, `MCReactor` | `react_server.c`, its clients and the kernel |
| `Chat` | `stnc.c` on both hosts |
| `Transfer` | `server.c` and `client.c` |
| `Checksum` | `compute_checksum` of `server.c`, `calculate_checksum` of `prartb_2.c` |
| `Perf` | `prartb_2.c`, several processes of it on one host and the programs they meet |
| `Jobs` | `mutex.c` and `problem.c` |
| `WorkQueueProofs`, `PipelineProofs`, `ReactorProofs`, `ChatProofs`, `TransferProofs`, `PerfProofs`, `JobsProofs`, `ChecksumProofs` | the proofs about each of them (section 4) |

`Pipeline` composes active objects over the abstract queue; that `WorkQueue` implements
this queue is checked by TLC (`ImplementsFifo`) and proved (`Refinement`).

A definition whose comment starts with "Mutant:" stands before an action of the code
and is a plausible wrong form of it. No specification uses it; putting it in the
action's place shows that a property is able to fail.

### WorkQueue

`head`, `tail`, `nxt`, `task` are the fields of the C structures, `alloc` the nodes
that malloc has handed out, `lock` and `pc` the mutex and the place of each thread.
`chain` is a history variable: the nodes in the order in which they were linked. What
runs between a lock and the next wait, signal or unlock is one step because the mutex
makes it indivisible (`MutualExclusion` is part of the invariant); malloc, which runs
outside, and free are steps of their own. `pthread_cond_wait` may return without a
signal. malloc fails when no node is left, and `enqueue` then ends the process.
`deleteQueue` is modelled with its loop, which steps twice per turn; `DeleteOutcome`
says what this leaves: a queue of even length loses half of its nodes, one of odd
length makes the program follow a null pointer, and only an empty one is deleted
cleanly.

### Pipeline

`obj`, `flag`, `queue` are the fields of the objects, `st`, `hand`, `pos` the place of
each thread in `run` and in its function, `cell` the variable `num` of `partD_a`,
written as what was drawn and what was added to it, so that no random number is
needed. An uninitialised flag holds anything (`GarbageFlags`). Any thread may be slow.
`sleep(1)` keeps the objects apart only if a number gets through the line in that time;
`late` records whether a sleep has ever been too short, and `OutputInOrder` says what is
printed as long as none has. Everything else holds in any case. `stop` joins a thread
that has been joined: this is undefined. Its own wait is modelled (it goes on only when the
thread has ended), and it then crashes or goes on. `FreedSafe` speaks of the moment at which
`stop` is about to delete the queue, and of all that follows.

### Reactor

`pfds`, `fdCount`, `fdSize`, `events`, `running` are the fields of `Reactor`; `i`,
`marks` and `room` are the loop variable and the array `descriptorsToRemove`. `cl`,
`in`, `rst`, `peer` are the clients, unread data, reset connections and the kernel's
table of descriptors. Clients connect, send, leave and reset between any two steps of
the server. accept hands out the lowest free number. A slot that is used again keeps
its `revents`; slots that `realloc` adds hold anything. A chunk that has been read
(`msg`) is sent to the other slots one after the other (`todo`), and the clients move in
between. Clients in `Deaf` never read: once `Room` messages are on their way to one of
them, `send` blocks, and with it the server, until that client leaves.

### Chat

Per host a parent and a child process, per direction the lines on the wire and behind
them the mark `Fin`, which the kernel sends at `shutdown` or when the last process of
the host ends. `eof` records who has ended the input by end of file, for `exit` ends the
parent alone: `EndNeedsEof` and `EofEnds` say together what ends the children.

### Transfer

The place of the server and of the client, the words of the handshake, the blocks in
the transport. `timely` says whether the client's pauses suffice, `faulty` whether
datagrams may be dropped and the read of a stream may fail, `exists` whether the client
finds the file. The four streams share `ServeStream` and `SendStream`. Their code differs
in addresses, and in what a failed read does: `s_ipv6_tcp` (`server.c:178`) and `s_pipe`
(562) take it for the end of the stream and report, `s_ipv4_tcp` (107-112) and
`s_uds_stream` (445-448) exit (`Lenient`, `SrvRecvFails`). A datagram
that finds no socket is lost without notice over UDP and an error over a Unix socket.
The server compares a datagram with `exit` in a buffer that, for IPv4 and the Unix
socket, has not been cleared before the first one: what it held may spoil an `exit`
(`MayGoOn`), or complete a datagram that is no more than the start of one (`MayEnd`). If `mortal`, either program may be
killed at any point: its streams end behind what it has sent, which the server cannot
tell from the end of the file. `fifo` is the named pipe, which a killed server leaves
behind: it may be there from the start, and the next client then waits in `open` for a
reader.

### Checksum

A byte has `W` values (256 in the code), a word two bytes. `calculate_checksum` keeps its sum in an
int of two words, wraps, and folds twice; whether `>>` of a negative sum copies the sign is left open, since the
overflow that makes it negative is undefined in C and compilers choose. `compute_checksum`
keeps it in a long, which no buffer of the code can overflow, and folds as often as
needed. `ones` is the sum RFC 1071 asks for, every carry added at once, and `total` the
plain one. `Rfc1071`: the answer is the complement of `ones` as long as the int did not
overflow, and behind by one for each overflow. Buffers of 100 MB, which all callers in
`prartb_2.c` use, overflow it many times.

### Perf

`args` is what each process was started with, in the detail in which `main` looks at it:
the number of arguments, `-p` in the third place, `-q` in the fourth, and the test or the
port. The usage that `main` prints (`prartb_2.c:842`) has `-p` in the fourth place, where
it is not looked for; a client's test runs only if `-p` stands where its port should, so
that `atoi` makes the port 0. Tests over TCP and UDP therefore fail at their first packet,
or crash for want of 100 MB of stack, and the modelled test ends there; `uds_stream`,
`mmap` and `pipe` get as far as sending. `sent` and `full` count what a process has handed
to the kernel and what of it nobody has read; `far` is its peer: another program, which
reads, stays idle or goes; or, for a server on port 12345 and an mmap test, each other.
The mmap test allocates its buffer behind `connect` and may end there for want of memory, as
the server may behind `accept`; a connection stays in the backlog of the server when its
client has ended, and is accepted then. A write to a peer that has gone ends in `SIGPIPE` or in an error, depending on the
transport and on whether the peer left anything unread.

### Jobs

Both examples in one module: `prog` tells which. Increments are a load and a store.
Without the mutex the example makes one thread per processor, but has room for the ids
of two and joins two; the id of a third is written behind the array, where the counter
may be (`Garbage`).

## 3. Runs

| run | question | bounds |
|---|---|---|
| `queue_safety` | list, heap, wakeups, refinement | 2 producers with 2 calls, 2 consumers, 3 nodes: empty, refilled, nodes used again, malloc failing |
| `queue_liveness` | every task delivered, every enqueue returns | 2 producers with 1 call, 2 consumers, 2 nodes |
| `pipeline` | orderly shut-down, nothing lost, what is printed, the program ends | the 4 objects of the code, 2 numbers, any flags, failing malloc |
| `reactor_safety` | the table of descriptors, order of messages | 3 clients, 3 numbers, first array of 2 slots so that it grows, 2 chunks in all |
| `reactor_liveness` | what is sent is read, who connects is accepted | 3 clients, one of which never reads and has no room, 2 numbers (accept fails), 1 chunk |
| `chat_safety` | lines in order, no send to a closed socket, what ends everything | 3 lines per host |
| `transfer_all` | all transports, all disturbances | files of up to 3 blocks, each of which may read exit, and the last begin like it |
| `checksum` | the checksum of RFC 1071 | bytes of 4 values, buffers of up to 70 bytes: the int overflows twice |
| `perf` | what is reported, who blocks, who ends | 2 programs with any arguments, 2 units of data and one of checksum, room for 1 |
| `jobs` | numbering and pairing of jobs, who is waited for | up to 3 processors |
| `reactor_ready`, `reactor_removal` | a comment of the code that does not hold | as above, with the code's first array of 5 slots |

Two threads of a kind are enough to have one overtaken by another, and three nodes for
a node to be first, last and in between. Three clients are enough for two to leave in
one pass while one stays. Two blocks tell order and loss apart; more repeat them. Data
that exceed the room by one unit block as 100 MB do. A third processor is the first whose
thread nobody joins. Every bound is a constant (`MaxEnq`, `MaxSay`, `MaxLines`,
`MaxBlocks`, `MaxLen`, `MaxCpus`, `Cap`, `Size`) and limits only how often something is
done, or how much there is of it. Deadlock is not checked: all these programs end, or
wait for somebody who need not come.

### What does not hold

* `ReadyWhenRead`: the comment at `react_server.c:250` says that the descriptor is ready
  to read. `addFd` leaves the `revents` of the slot it fills. When a client has left and
  another one connects, the stale `POLLIN` leads to `recv` on a socket with nothing to
  read, and the server with its one thread stands still until that client sends.
* `RemovalExact`: removals move the last descriptor into the gap while the indices of the
  others still refer to the old places. Several departures in one pass may make the server
  forget a connected client. With three clients (`fd_count` is 4) this takes the first and the
  third: the dead descriptor of slot 3 moves into slot 1,
  and the second removal, at index 3 beyond the count, drops slot 2, whose client is there,
  while the dead one stays. Slots 1 and 2, 2 and 3, or all three are removed exactly.
  `SingleRemovalExact` shows that one departure is handled correctly.

What a reader of the code might expect and the checked properties say otherwise:

* the program asks for `exit` to leave the chat (`stnc.c:70`); it ends the parent only.
  If both users leave this way, both children wait for ever (`EndNeedsEof`); end of input
  by one of them is enough for all to end (`EofEnds`);
* over a Unix datagram socket the first 1024 bytes of the file are sent, once, although
  `client.c:254` speaks of the file contents (`DatagramsInOrder`);
* the reactor stands still while a client does not read (`DataIsRead`, `BacklogServed`
  have `Blocked` among their outcomes);
* a transfer over IPv6 TCP or the pipe is reported as complete when a read fails in the middle
  of it (`StreamWhole`, `server.c:178`, 562);
* a performance server reports a completed test after a connection that was reset
  (`ReportedWhole`), and never ends when its client is the mmap test (`JoinedBlocks`);
* `calculate_checksum` is not the checksum of RFC 1071, which `prartb_2.c:639` names, for
  the buffers it is used on (`Rfc1071`).

### Fairness

* `WorkQueue`: a thread in a critical section goes on (weak fairness: the scheduler
  stops no thread for ever); a thread that asks for the mutex gets it if it becomes
  free again and again (strong fairness: the mutex of the C library may be unfair for
  a while and not for ever); a consumer calls `dequeue` again, as the loop of `run`
  does. No call of `enqueue` and no spurious wakeup is assumed.
* `Pipeline`: each thread, and main, goes on while it can.
* `Reactor`: the server goes on; clients need not do anything.
* `Chat`: listen, accept and the children go on; users need not type.
* `Transfer`: both programs go on; nobody need be killed.
* `Perf`: every process goes on; the programs at the other end need do nothing.
* `Checksum` and `Jobs` have safety properties only.

## 4. Proofs

Every safety property that a passing run checks is also proved, for every value of the
constants that meets the assumption named in its module; TLC evaluates the assumptions on
every run.

| assumption | what is left open |
|---|---|
| `QueueAssumption` | any finite number of threads and nodes, any number of calls |
| `PipelineAssumption` | any number of objects from two on and of numbers, any flags, with or without malloc failing |
| `ReactorAssumption` | any finite number of clients and of descriptors, any first size of the array, any room, any of the clients never reading |
| `ChatAssumption`, `TransferAssumption` | any number of lines; files of any length |
| `PerfAssumption` | any set of programs, any amount of data and any room above zero |
| `JobsAssumption` | any number of processors, any garbage in the counter |
| `ChecksumAssumption` | bytes of any size above one value, buffers of any length |

Each proof follows the same plan: an inductive invariant that TLC checked on the run's
instance first, a lemma that it holds at the start, a lemma per action that it is kept,
lemmas about the operators on the way, and the theorems drawn from it. Below, what each
invariant adds to the property and why the property is not inductive alone.

`WorkQueueProofs`. The inductive invariant `IInv` is the conjunction of the types,
`PcRole`, `MutualExclusion`, `LocalNodes`, `ListShape` and `HeapAccounting`. The last
three need each other: linking a node keeps `ListShape` only if the node is in no list
and ends in a null pointer (`LocalNodes`), which the other threads leave so only if they
have no node in common with it (`HeapAccounting`), and that holds because malloc hands
out none of the nodes in use. From it follow `TypeCorrect`, `Exclusion`, `ListSound` and
`HeapSound`. `Refinement` maps `EnqLink` to `Enqueue`, `DeqTake` to `Dequeue` and all
other steps to stutters. `WakeupSafety` shows `NoLostWakeup` to be inductive relative to
`IInv` by counting the threads that are on their way to look at the list. `DeleteLeaks`
adds where the loop of `deleteQueue` stands: behind an even number of nodes, of which
every other one is still allocated (`Deleting`).

`PipelineProofs`. `NULL` is at the same time the end mark of `run` and what an object
hands on last, so that everything rests on when it is sent. `IInv` says what main has
created, joined and freed (`Creation`, `Joined`), what the life of `ao_1` is
(`FirstObject`: one control block, then its own end mark), and that the mark is last
(`SentinelLast`) and the control block with `ao_1` (`ControlBlockConfined`). Without
`FirstObject` the other two are not inductive: a second control block, or an unset flag
of `ao_1`, would break both. `Confinement`, `SentinelSafety` and `FreeSafety` follow.
`NumbersProcessed` counts: what an object has worked off, has in hand and has in its queue
(`In`) is what the one before has handed on (`Out`), which is nothing behind a set flag;
at the end mark nothing is left in between, so that the counts agree from object to object
(`Counting`, relative to `IInv`). `OutputOrdered` follows the one variable all objects
write: as long as no sleep was too short, at most one number is on its way (`Carried`
names the object that has it and excludes all others), the variable holds what the objects
up to there made of it, and each object has printed exactly what it has worked off
(`Written`); both are needed at once, as what is printed is the variable at that moment.

`ReactorProofs`. `TableInv` describes the walk over the table: the marks ascend, the n-th
is not below n, and the table never outgrows the array of marks by more than the slot
that the listener, always first, may have filled in this pass (`Walk`); who is registered
is in `events` and no two descriptors have one client (`Table`). This bounds the number of
marks by the room for them, a thing the code relies on without saying so, and it keeps
the listener in front although the removals move slots. `Exact` carries the history of one
pass: until two marks have met in a pass, the polled descriptors and the marked
ones are told apart. Over it, `IInv` follows the data: what is unread is the end of what
was said, a message in hand is what was just taken, and who is polled has all chunks up to
the one being sent (`Delivered`, with `Due` for those the loop has not come to yet).
`ErrorsCrash` is an action property: no step goes on from an error or hangup.

`ChatProofs`. `Roles` orders the ends: a direction after its parent, a child after the
direction it reads. With it the lines shown and those on the wire are together what was
sent, whatever is closed meanwhile (`NoLineLost`, `NobodySendsToClosed`).

`TransferProofs`. For streams, what is on the way continues what was received, and the end
comes once, behind a file that was sent whole or by a client that failed for a named reason
(`StreamInv`); a server that is done got all of it, or a read of it failed (`Over`). For UDP the datagrams received and then those on the way are picked in
ascending order from those sent (`Picked`), with no gap if nothing is lost (`Exactly`); the
ascending functions are carried as witnesses from step to step.

`PerfProofs`. `Roles` says which program can be where, `Unread` that nobody reads for a
program whose peer is a queue or another of its kind, `Peers` that only a sender has one;
what is reported and who blocks (`ReportedSound`, `Joined`) follow from counting what was
handed over against the room.

`JobsProofs`. `Lines` counts: two lines per finished job and one for the job under way, so
that the counter under the mutex is the place of its lines; `Counts` bounds the counter
without the mutex by the increments begun, as long as the threads are no more than the array
has room for; `Main` and `Printed` say who was joined and has therefore printed.

`ChecksumProofs`. The sum stands for the bytes modulo R - 1: adding keeps it (an int up to
multiples of R * R, `WrapSum`), a fold takes away R - 1 for each unit of the high half
(`FirstFold`), and the second leaves a word (`SecondFold`), because the first leaves less
than 2R - 1 in absolute value (`Folded`, the range the property alone does not know). Of
congruent words only 0 and R - 1 differ, and a sum is 0 for nothing but zeros; so the word is the ones'
complement sum if the int kept the sum, and off by the overflows if not.

`InboxInOrder` and `LinesInOrder` are stated by index: the natural form with `SelectSeq`
needs a recursive definition, which the provers cannot unfold.

Only model-checked: the liveness properties (`EveryTaskDelivered`, `EnqueueReturns`,
`Termination`, `DataIsRead`, `BacklogServed`, `EofEnds`, `Completes`, `ClientEnds`,
`Ends`), which are out of the prover's reach since they rest on fairness; and the two
comments of the code that do not hold, for which TLC has the counterexamples.

## 5. Abstractions, and what is left out

* Texts, times and addresses. A task, a line, a chunk and a block are told apart by who
  made them and when; the sum of a buffer is modelled in `Checksum` alone. The overruns by
  one byte (`react_server.c:300`, `stnc.c:18`, `stnc.c:84`) and the overflow of `msg`
  (`react_server.c:303-305`) are therefore outside the model; they are listed as hazards.
* `fork`, `socket`, `bind`, `realloc` and `poll` do not fail, except that the performance
  server's set-up may. malloc does in the queue and the active objects, and in the
  performance program, `pthread_create` does in the mutex examples (not in the active
  objects), accept does when no number is left, connect and sendto do when nobody
  listens, the read of a stream in the transfer may, and so may a write to a peer that has gone.
* Stale files of Unix sockets (`/tmp/file.txt`), and `received_file.txt`, into which the
  pipe server copies what it gets. The performance program's `sample.txt`, which nobody
  reads since the only test that would fails before it opens the file.
* What a performance test does behind a step that always fails (`prartb_2.c:82-158`,
  `204-229`, `258-318`, `367-389`, `438-461`): no run of the program gets there.
* `partb.c`. Its `main` declares the tests and never calls one; `type` is null when it is
  compared; two definitions of `ipv6_tcp` conflict, so that the file does not compile.
* `isEmpty` is modelled by its hold on the mutex: nobody calls it.
* `main.c` only chooses a program; `chat.c`, which the Makefile names, is not in the
  repository. `LIBS_GDB` and `Task1_GDB` are exercises without state.

## 6. Plan

Order of the work: queue (core of all that runs in threads) with its abstract
specification and proofs; active objects and pipeline on top of it; reactor; chat;
transfer; checksum, performance program and mutex examples; then the proofs of their
safety properties. What is left, in this order:

1. action properties worth a proof beside `ErrorsCrash`: what no step of the pipeline or of
   the transfer may take back (what was printed, what was received);
2. steps that lemmas of two proof modules share (a sequence of which a first part is
   taken, as in `Chat` and `Transfer`) in one module;
3. an object of the pipeline whose thread could not be created (`activeobject.c:30`).
