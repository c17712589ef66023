# A TLA+ model of server-perf (BIND 9 on netmap)

The repository is BIND 9.9 (`named` and its libraries) with one change of its
own: the UDP path of the server can bypass the kernel's network stack and read
and write the rings of a network card directly through *netmap* (`src/netmap`,
and the code under `IO_USE_NETMAP` in `src/lib/isc/unix/socket.c`). This
directory models the concurrent core that everything in `named` runs on, the
path of a request from the socket to the client object, the datapath the
repository adds, and the journal in which updates survive a crash. TLC checks
the models on small instances; TLAPS proves the safety properties for every
size.

1. [The system](#the-system)
2. [Modules and plan](#modules-and-plan)
3. [IscTask](#isctask-the-task-system), with [TaskSpec](#taskspec)
4. [RWLock](#rwlock-the-reader-writer-lock), with [RWSpec](#rwspec)
5. [IscSocket](#iscsocket-the-socket-manager)
6. [NsClient](#nsclient-clients-interfaces-and-quotas)
7. [NetmapIO](#netmapio-the-netmap-datapath)
8. [IscTimer](#isctimer-timers-and-their-heap)
9. [Journal](#journal-updates-that-survive-a-crash)
10. [What is proved](#what-is-proved)
11. [What the runs found](#what-the-runs-found)
12. [What is not modelled](#what-is-not-modelled)

## The system

| component | state | operations | interacts with |
|---|---|---|---|
| task system, `lib/isc/task.c` | tasks (state, references, event queue, shutdown events, flags), the manager (list of tasks, two ready queues, mode, `tasks_running`, pause / exclusive / exiting flags), worker threads | create, attach, detach, send, purge, unsend, shutdown, onshutdown, setprivilege; begin/endexclusive; setmode, pause, resume, excltask, destroy; `dispatch()` | every other component posts events to tasks; timers, the socket watcher and the main thread call it from outside of the workers |
| reader-writer lock, `lib/isc/rwlock.c` | `cnt_and_flag`, `write_requests`, `write_completions`, `write_granted`, `readers_waiting`, two conditions | lock, trylock, unlock, tryupgrade, downgrade | zone tables, databases, ADB, ACLs, views, ... |
| socket manager, `lib/isc/unix/socket.c` | sockets with lists of requests and pending flags, `fds` and `fdstate` by descriptor, a pipe to the watcher thread, the epoll set | create, open, close, listen, recv, send, accept, connect, cancel, attach, detach; the watcher; destroy | posts internal events to tasks; calls netmap for netmap sockets |
| netmap datapath, `netmap/dns_util.c` | `g_macaddr_map` (8 peers, by query id), the rings shared with the kernel, the template of a packet header | `netmap_recv`, `netmap_send` | called by `socket.c`; the watcher's `poll()` synchronises the rings |
| netmap devices, `netmap/nm_util.c` | `g_storage`, a table of 32 open interfaces | open, get ring by descriptor | interface manager, `dns_util.c` |
| timer manager, `lib/isc/timer.c`, `heap.c` | a heap of timers, a thread | create, reset, touch, detach | posts events to tasks |
| client manager, `bin/named/client.c` | client objects (a state machine from FREED to RECURSING), lists of active, inactive and recursing clients | receive, accept, read, request, send, recursion, timeout, replace, shutdown | tasks, sockets, timers, resolver, update |
| quota, `lib/isc/quota.c` | `used`, `soft`, `max` | reserve, release, attach, detach | clients: `tcp-clients`, `recursive-clients` |
| interface manager, `bin/named/interfacemgr.c` | the list of interfaces with a generation | scan, purge, shutdown | opens the sockets, owns the client managers |
| journal, `lib/dns/journal.c` | header, index and transactions of a file | open, begin, write, commit, find, roll forward, iterate, compact | zones (dump, load, transfers), dynamic update |
| dispatch, `lib/dns/dispatch.c` | query-id tables, sockets, buffers | add/remove response, receive, cancel | resolver, requests; sockets |
| the DNS part (`lib/dns`, `bin/named`) | zones, caches, databases, views, keys | query processing, transfers, validation | rests on all of the above |

How they interact: the watcher finds a descriptor readable, posts an internal
event to the socket's task and stops watching; a worker runs `internal_recv()`,
which takes the data and sends a completion event to the client's task; another
worker runs `client_request()`, which answers, starts a fetch, or hands the
message to an update, and replaces the client by another one that listens; the
answer goes out through `isc_socket_sendto()`, which for a netmap socket writes
to the transmit ring at once, on the worker's thread and without `sock->lock`;
the next `poll()` of the watcher hands the ring to the card. An update is
written to the journal and synced before it becomes visible; the master file is
dumped later and the journal compacted.

What is hard to test in this code (the list with lines is `hazards` in
`PROJECT.json`):

- *tasks*: two locks taken one after the other, so between "made ready" and
  "queued" everything else may happen to the task; freeing a task under others
  that still hold it; signals that are deliberately left out; exclusive access
  built on a counter; shutdown of the manager against creation;
- *reader-writer lock*: atomics that change without the mutex under which the
  threads go to sleep; comparisons of two counters by two plain reads; the
  downgrade, upgrade and trylock paths that change the word in several steps;
  starvation of readers;
- *sockets*: descriptor numbers that are used again while messages about their
  last owner are in the pipe; events for sockets that are being dropped; one
  epoll registration for two directions;
- *clients*: who is responsible for listening while clients replace each other,
  run into quotas and are recycled; leaving a state means waiting for events
  that must be certain to come; one client cancels the query of another after
  it has released the lock through which it found it;
- *netmap*: a table searched by query id only, whose entries keep their id when
  they are free; a ring written without a lock by several workers while the
  kernel rewrites the counters; a full ring; the hand-over of the descriptor
  between watcher and worker;
- *timers*: times that are old when they are used, events that are on their way
  when a timer is reset or dropped, failures half way through a reset;
- *journal*: a crash, a loss of power or a failed write between any two writes;
  serial numbers that wrap; an index that forgets; files left by a crash.

The properties that make each component correct: a task is a serial queue,
scheduled exactly once, no wakeup is lost, nothing freed is used, exclusive
access is exclusive, destroy returns with everything freed; the lock excludes,
is fair where it says so and loses no wakeup; a request on a socket is watched
once, by the right descriptor; somebody always listens, and giving up always
ends; an answer goes to who asked and is not overwritten before it is sent; a
timer is served in time and not after its end; a restart serves every update
that was acknowledged.

## Modules and plan

| module | of | composes / abstracts | runs |
|---|---|---|---|
| `IscTask` | `task.c` | implements `TaskSpec` | `task_safety`, `task_live` |
| `TaskSpec` | what `task.h` promises | – | through `IscTask` |
| `RWLock` | `rwlock.c` | implements `RWSpec` | `rwlock_safety`, `rwlock_progress` |
| `RWSpec` | an abstract reader-writer lock | – | through `RWLock` |
| `IscSocket` | `socket.c`: sockets, watcher, manager | – | `socket`, `socket_duplex` |
| `NsClient` | `client.c` with `interfacemgr.c`, `quota.c` and the recursion of `query.c` | four components in one state | `client` |
| `NetmapIO` | `dns_util.c`, netmap paths of `socket.c` | datapath, socket requests, kernel | `netmap_asker`, `netmap_race` |
| `IscTimer`, `HeapOps` | `timer.c`, `heap.c` | the timer over the heap | `timer` |
| `Journal` | `journal.c` with the dump and load of `zone.c` | journal, zone, disk | `journal`, `journal_jnw` |
| `EventList` | lists of events and tasks | used by `IscTask`, `NsClient` | – |
| `RWLockProofs`, `IscTaskProofs`, `IscSocketProofs`, `NetmapIOProofs`, `IscTimerProofs`, `NsClientProofs`, `JournalProofs` | theorems about the models they are named after | extend the models | – |
| `DataProofs` | lemmas about numbers, sets and sequences; theorem about `HeapOps` | extended by the other proofs | – |

Left for later: `Dispatch` (`dispatch.c`: query ids, buffers, shutdown) as a
further module.

Conventions: the actions have the names of the functions they model, and the
steps of a function that is split are named after it. Definitions marked
*Mutant* next to a definition are wrong versions of it (a guard dropped, a
signal forgotten); substituted for it they break the property they are listed
with in `PROJECT.json`, which shows that the property depends on that code.
They are used nowhere else. Each module has a type invariant; it is a conjunct
of one of the invariants that the runs check.

## IscTask: the task system

`IscTask.tla` models `lib/isc/task.c` as it is built here (worker threads, no
shared manager). Its variables are the fields of `struct isc__task` (functions
over `Tasks`), those of `struct isc__taskmgr`, and for each thread where it is
(`pc`), which task it runs (`cur`), how many events it has executed (`count`)
and what is left of the call it is inside (`call`).

One action is one critical section. `isc_task_send()`, `_detach()`,
`_shutdown()` release the task lock before they take the manager's; the thread
then *owes* a `task_ready()`, which is two more steps (`task_ready`: read the
privilege under the task lock; `task_ready_push`: push and signal under the
manager lock). `dispatch()` is `dispatch_wait`/`dispatch_exit`/`dispatch_pop`
(manager lock), `dispatch_start`/`dispatch_next` (task lock: one turn of the
do-while loop up to the next event action), `task_finished`, and
`dispatch_end` (manager lock, kept until the head of the loop, hence the
variable `mgrlock`). `isc_taskmgr_destroy()` keeps the manager lock while it
walks the list, one task lock at a time. A condition variable is the set of
threads at a certain `pc`; a signal wakes one of them, a woken thread has to
take the lock and test again, and a thread may wake without a signal.
`isc_task_destroy()` is a shutdown followed by a detach.

Event actions are arbitrary: a worker in an action may call any operation, as
may the clients. What callers have to respect is in `Holds` (a pointer is used
while a reference exists or by the task's own action) and in the guards that
come from `REQUIRE`s. `isc_task_setprivilege()` is called on tasks the caller
refers to, one call at a time for a task, as its only caller does (the zone
manager, `zone.c:14396`); the other threads may do what they like with the task
between its two critical sections. A task queued by then, by the walk of
`isc_taskmgr_destroy()` for one, is linked into the priority list twice:
`ENQUEUE` does not look. TLC reaches that step (`setprivilege_relink`); the list
is broken from there on, nothing is said of what follows (`Broken` in the
liveness properties), and the properties hold up to it.

`manager->excl` is read and written without a lock. `isc_task_detach()` on it is
`DetachExcl` (the reference is dropped, then `task_ready()` if it is due) and
`excl_clear` (the pointer), `isc_taskmgr_setexcltask()` attaches the new task in
a step of its own, and `isc_taskmgr_excltask()` reads the pointer, reads it again
or not, and attaches. In the gap between reference and pointer a reader may
attach to a task that is on its way out or find `NULL` in its second read: the
call is then `stale` and nothing is said of what follows. In `named` this can
happen at shutdown, when the main thread destroys the manager while the server
task is loading a configuration. `NoUseAfterFree` says what holds outside of it.

Bounds: two workers, one client thread, two tasks, one or two events, quantum
1, at most two references; a task identity is allocated once. Two workers are
what is needed for one of them to slip through while the other one acts, two
tasks for a queue with an order and for a task to be starved by another, two
events for a quantum to run out; more of each repeats the same pairs. Each run
offers a set of operations (`LifeOps`, `LiveOps`), because all of them at once
exceed what TLC can explore; the sets overlap where operations interfere.
Deadlock is not checked: a system with nothing to do may stop, and a manager
that is destroyed does.

Fairness (`FairSpec`): weak fairness for every step a thread takes inside of
the library, since the code has no way to stop there; strong fairness for the
return of an event action and for `isc_task_endexclusive()`, since an action
calls finitely many operations and does not keep exclusive access for ever
(strong, because the calls an action makes in between disable its return).
Nobody has to call anything and no spurious wakeup has to happen.

### TaskSpec

`TaskSpec.tla` is the task system as its users see it (`task.h:24-67`): a task
is a queue of events executed in order by at most one worker, it lives while it
is referred to or has events, its shutdown events are executed before it is
freed, last one first. There are no ready queues, modes, locks or managers.
`ImplementsTaskSpec` maps the fields of `struct isc__task` to it and the workers
inside an event action to `runner`; everything else of `IscTask` is a stuttering
step. It contains that events keep their order, that none is lost or executed
twice, that protected events survive a purge and that one worker at a time runs
a task.

| run | shows |
|---|---|
| `task_safety` | a ready task is in exactly one place, carried by one thread or queue, and has no event that nobody will look at (`ScheduledOnce`); it is not used after it is freed (`NoUseAfterFree`); no wakeup is lost (`NoLostWakeup`); destroy tells every task and returns with nothing left (`DestroyedIsEmpty`); refinement of `TaskSpec` |
| `task_live` | with exclusive access and privileged mode: `ExclusiveAccess`, `RunningCounted`, the priority queue is a sublist of the ready queue (`PrioritySublist`); liveness: events are taken, unreferenced tasks are freed, exclusive access is granted, privileged mode ends by itself, destroy returns |

## RWLock: the reader-writer lock

`RWLock.tla` models the variant of `lib/isc/rwlock.c` that is compiled (atomic
`xadd` and `cmpxchg`). Every atomic operation and every unlocked read that the
code branches on is a step; a comparison `write_requests != write_completions`
is two reads with other threads in between (`peek`, then `Compare`), in an
order the compiler chooses (`FirstRead`). A critical section of `rwl->lock` is
one step but for the one that makes such a comparison: there the thread holds
the mutex between the two reads (`MutexFree`). `cnt_and_flag` is kept as its two
halves, which each operation reads or changes together. The counters wrap at
`Wrap` instead of 2^32: they are only compared for equality, and `Wrap` has to
be larger than the number of threads plus one (in the code 2^32 is).
`write_granted` is kept up to the quota.

Bounds: three threads that do everything (safety), wrap 5, quota 2. Three are
needed for a writer that waits behind a writer while a reader comes, and the
wrap is passed many times.

Fairness: a thread inside an operation keeps going (weak), and who holds the
lock releases it in the end (strong, because it may upgrade and downgrade in
between). Spurious wakeups are part of the safety run; the progress run leaves
them out, since one that comes again and again hides what wakes whom.

### RWSpec

`RWSpec.tla` is the lock without counters: sets of readers, at most one writer,
and for each waiting writer who asked before it. Writers are served in that
order; a successful trylock or upgrade goes ahead of them. In the mapping a
writer has the lock from setting the flag to clearing it, waiting writers are
those with a ticket, and `ahead` compares the ages of tickets, which is where
the arithmetic modulo `Wrap` and the decrements of `write_completions` by
trylock have to come out right.

| run | shows |
|---|---|
| `rwlock_safety` | `MutualExclusion`; the word is exact (`WordIsExact`); the INSIST of tryupgrade (`ReaderKeepsWriterOut`); a thread sleeps only while another will wake it (`NoSleeperLeft`); refinement of `RWSpec`. Deadlock is checked |
| `rwlock_progress` | two readers and two writers that never stop (three threads, one of them both): when a reader waits some reader gets in (`ReadersGetIn`), and every writer gets its turn (`WriterGetsIn`). That the reader that waits is the one that gets in, which the comment at `rwlock.c:212-216` claims, is false: see the findings |

## IscSocket: the socket manager

`IscSocket.tla` models `lib/isc/unix/socket.c` with the watcher thread and
epoll, as built. State: for each socket its references, descriptor, the lengths
of the four lists of requests, which internal events are posted; for the
manager `fds`, `fdstate`, the list of sockets and the pipe; for the kernel which
descriptors are open and what epoll has registered; where the watcher and
`isc_socketmgr_destroy()` are.

An action is a critical section of `sock->lock`, of an `fdlock` or of
`manager->lock`. `closesocket()` is two steps (mark under `fdlock`, write to the
pipe), `destroy()` a third; the watcher is `epoll_wait`, one `process_fd` per
ready descriptor, then `process_ctlfd`, one message at a time. Requests of a kind
are interchangeable, so a list is its length; an internal event completes any
number of them and asks the watcher for the rest. `socket_request` is the common
part of the four operations that queue a request (`socket_recv`, `socket_send`,
`isc__socket_accept`, `isc__socket_connect`), with the conditions each has for
waking the watcher (`NeedsPoke`). A message carries the socket that sent it, for
the properties only: the code's message is the descriptor and the kind.

What callers are assumed to do (`MayAsk`, `MayClose`, the guard of detach) is
what `socket.h` asks. They may cancel and ask again, before or after the
ISC_R_CANCELED events have arrived (`canceled_received`), as `dispatch.c` does,
read and write on one socket at the same time, and close a socket once what they
canceled has been answered. A listener only accepts and a socket that connects
does nothing else. A cancel takes a connection attempt only if it is for all
tasks or for the task that asked: so call all callers in the repository, and the
branch for another task's attempt (`socket.c:6108-6121`), which clears
`connecting` and keeps `connect_ev`, is left out.

`mixed` is a history: the first request of a kind found a message, a registration
or an internal event that was for another kind or for what a cancel took away.
Then the promises of `WatchedOnce` end, and with them the INSISTs of the
dispatch functions: see the findings. A failing INSIST ends the program, so
`process_fd` has no step there.

Bounds: two sockets, two descriptors, one request per list, two references, two
messages on their way when a caller asks (`MaxPipe`). One socket reads,
accepts or connects and has its requests canceled, the other one connects and
writes; both share descriptor numbers over time, and a listener and the
connection it accepts can exist together. In `socket_duplex` both sockets read
and write. The proofs cover every combination and lists of every length. Fairness: threads inside the library, tasks with
internal events, and the watcher once there is something to do get on; the
network owes nothing. Deadlock is not checked: sockets may be idle.

| run | shows |
|---|---|
| `socket` | until a request finds a watch that is for something else, every queued request is watched by exactly one registration, message or event, and an INSIST of the dispatch functions fails for no other socket (`WatchedOnce`); what the watcher or a task finds is alive (`NoUseAfterFree`); messages belong to the owner of the descriptor and a close is the last word about it (`DescriptorIsOwned`); who may call close, cancels included, never meets a pending event (`QuietWhenDone`); destroy returns (`DestroyReturns`) with nothing left (`DestroyedIsClean`) |
| `socket_duplex` | *violation*: with a read registered, a send is not watched |

## NsClient: clients, interfaces and quotas

`NsClient.tla` puts `client.c`, the life of an interface, `quota.c` and
`query_recurse()`/`query_resume()` into one state: the fields of `ns_client_t`
that control it (`state`, `newstate`, the counts of outstanding work,
`references`, `mortal`, the quotas), the interface's references and
`ntcpcurrent`, the manager's lists, and what the quotas have given out.

A handler of a client's task is one action, because the task runs one event at
a time and handlers of other clients meet it only in counters and lists that
have locks. The handlers call each other (`exit_check()` may end a request,
close a connection, start to listen or free the client), so the functions are
written as functions from state to state and composed as the code composes
them. `ns_client_killoldestquery()` finds another client under a lock and
cancels its query after releasing it: there the handler is two actions
(`victim`). Messages are reduced to what they lead to: an answer that is sent,
queued or fails, an update, a forwarded update, recursion that starts or
cannot be started. External are the socket (a request ends, also by a cancel),
the resolver and the zone (they answer), and the clock.

Bounds: three clients on one interface, `tcp-clients` 1, `recursive-clients` 2
with soft limit 1: every limit is reached, memory for clients runs out, and a
query is aborted in favour of another. All events of each client interleave.
Deadlock is not checked: a server with no requests waits, and one that has shut
down is done.

| run | shows |
|---|---|
| `client` | each state has exactly the outstanding work its description allows and always some (`StateMeansWork`, the INSISTs of the handlers rest on it); one client is responsible for datagrams and at least one for connections (`ListenerRemains`); interface, manager and quota counts are the numbers of their users and nothing is destroyed under them (`NoUseAfterFree`); a client that has to leave its state waits only for what is certain to come, and an interface that goes tells every client (`ExitIsDue`) |

## NetmapIO: the netmap datapath

`NetmapIO.tla` models `netmap/dns_util.c` with the code of `socket.c` around it:
the table `g_macaddr_map`, the receive ring (the queue of its unread packets),
the transmit ring with the kernel's copies of its counters, the receive
requests of the socket and who looks after them.

Receiving (`socket_recv`, `internal_recv`) is one step, because it is done
under `sock->lock` and while the watcher does not poll; it looks at `Limit`
packets at most (512 in the code). Sending is not: each sender tests `avail`
(`netmap_send`), reads `cur` and then `avail` again (`process_send_ring`,
`send_room`), writes template and payload into the slot (`send_fill`), reads the
query id back from the slot (`build_pkt_header`), compares it with one table
entry after the other (`netmap_get_macmap`), copies the address it found
(`get_macmap_copy`) and marks the entry as free, whoever it is for by now
(`get_macmap_release`); then it loads and stores `avail` and writes `cur` back.
Each of these is a step. Nothing limits the queries: ids repeat, queries that
are never answered (`drop`) keep their entries, and a full table gives up its
last entry.

`rx_sync` and `tx_sync` are the kernel's side of the watcher's poll, written from
the rules in `netmap/net/netmap.h`; they are external and may come at any time.
A packet is a query, a query that `doio_netmap_recv()` refuses after it was
entered in the table (source port zero, longer than `maxudp`), or something else;
one that does not fit the buffer ends `named` (`assert`, `dns_util.c:253`) and is
not delivered. Addresses are reduced to the peer's link-layer address, which only
the table remembers and for which the template has this host's own;
checksums and lengths are left out.

`spoilt` is a history variable: the queries to which one of four things happened,
each recorded in the step that does it. (1) Another query with the same id is in
work or in the table. (2) The table was full and the query's entry was written
over. (3) A release that came late freed its entry. (4) Its sender and another
one wrote into the same slot. For these the code gives no guarantee, and the run
reaches all four; `ReplyToAsker` is about every other query.

Bounds: two senders, two peers, ids 0 to 2 (0 is the id of an unused entry), two
table entries instead of eight, two receive and three transmit slots, three
queries and two in work: enough to fill the table with two unanswered queries
and enter a third, to reuse an entry under another id while a sender searches,
and to wrap the ring. Deadlock is not checked: the number of queries is bounded,
so the model stops.

| run | shows |
|---|---|
| `netmap_asker` | an answer goes to who asked: for each query in work that was not spoilt the first entry with its id is its own, and a slot has the asker's address once its header is built (`ReplyToAsker`); requests are watched (`RequestsAreWatched`) |
| `netmap_race` | *violation*: two senders fill the same slot |

## IscTimer: timers and their heap

`IscTimer.tla` models `lib/isc/timer.c` with its thread, `HeapOps.tla` the heap
of `lib/isc/heap.c` as functions from heap to heap. The state is that of
`struct isc__timer` (functions over `Timers`), of `struct isc__timermgr`, of the
thread `run()` (`pc`, `now`, `verdict`) and of the calls under way (`call`).

`isc_timer_create()` and `isc_timer_reset()` take the time and then wait for the
manager lock: two actions each. `isc_timer_detach()` gives up the reference
under the timer's lock and calls `destroy()`, which needs the manager's: two
actions. `run()` keeps the manager lock from the head of its loop (`run_top`)
until it sleeps (`run_wait`); each turn of the loop of `dispatch()` is
`dispatch_look`, which decides what is due, and `dispatch_fire`, which posts the
event, takes the timer out of the heap and puts it back: between the two a timer
can be touched. Allocations may fail (`Memory`), and so may sums of times
(`TimeMax` stands for the largest `unsigned int`). The events of the task are
kept as a set, because only which ones are there matters; taking them is
external. `era` and `purged` are history: they say to which setting of a timer
an event belongs. Callers keep the references they need and touch only once
timers (`timer.h`).

Bounds: two timers, one client thread beside `run()`, the task and the clock,
three seconds, one reset, six settings that cover every type. The races are
those of one call under way with `run()`; two calls exclude each other by the
manager lock. Two timers are enough for one to overtake the other; the heap
itself is checked in all states of up to six elements and three priorities
(`HeapOpsCorrect`), and proved right for every size ([below](#what-is-proved)). Deadlock is not checked: the clock ends.

| run | shows |
|---|---|
| `timer` | the heap stays ordered, knows where its elements are, and what is in it exists and is active (`HeapKeepsOrder`); no event outlives its timer or a purge (`PurgeIsFinal`); the thread wakes in time and when the manager is destroyed (`WakesInTime`); no timer is due later than its parameters say (`NotLate`); a life or idle timeout is the last event of a setting (`TimeoutIsLast`) |

## Journal: updates that survive a crash

`Journal.tla` models `lib/dns/journal.c` and its users: an update or a transfer
writes a transaction, a dump makes the served version the master file and
compacts the journal, a restart loads the master file and rolls the journal
forward. The file is kept twice, as the kernel has it (`file`) and as the disk
is sure to have it (`synced`); `journal_fsync()` makes them equal. Each write of
`dns_journal_commit()` is a step: records, sync, transaction header, file header,
index, sync. Between any two the process can die (`crash`: the kernel keeps what
it has), the power can fail (`power_loss`: any part of what is not synced is
lost), or an operation can fail (`fail`: the caller gives the version up, what
was written stays).

A version of the zone is the set of versions it was made from and its serial
number before it is cut to `SerialMod`; so "has every acknowledged update" is
inclusion of sets, and applying a transaction to a version it was not made for
gives something that is no version. Positions are offsets with serial numbers as
in the code; transactions have size 1. The index with its search, its removal of
every other entry and of ambiguous entries, and `DNS_SERIAL_GT` are as in the
code.

Bounds: five versions, serial numbers modulo 6 starting at 5, so that they pass
zero and half the range; two index entries instead of 56, so that the index
overflows; a target size that makes compaction have something to do. With
`SerialMod` 8 the run passes too (3.3 million states). Deadlock is not checked:
versions run out.

`excused` records three situations the code does not cope with, each visible in
the source, and the properties say nothing after them: a serial number that has
moved by half the range since the dump (the forced dump is under `#ifdef
notyet`, `journal.c:1154`); a loss of power that keeps the file header and loses
the transaction header, which are synced together; and a crash between the
writes of header and index when the index has entries that are to be purged:
they stay on disk, and when the serial number has wrapped around they lead a
search to the wrong transaction. TLC found the third one.

| run | shows |
|---|---|
| `journal` | after any history, if `named` died now, master file and journal would give the served version or one made from it, and after a loss of power every acknowledged update or a refusal (`RecoveryIsExact`); for every serial number the search finds the transaction that starts with it, or says there is none (`FindIsExact`) |
| `journal_jnw` | *violation*: the file of a compaction that died is used by the next one |

## What is proved

Each theorem holds for every value of the constants that satisfies the named
assumption of its model (`RWLockAssumption`, `ConstantAssumption`,
`NetmapAssumption`, `SocketAssumption`, `TimerAssumption`,
`NsClientAssumption`, `JournalAssumption`; TLC evaluates them in every run of
these modules). `DataProofs` has the lemmas about finite sets, intervals and
lists that several of them use. The library's induction theorems cannot be
applied by these provers, so where a proof counts it takes the least number
that has not been reached (lemmas `Least` and `UpTo`).

| module | theorem | states |
|---|---|---|
| `RWLockProofs` | `Exclusion`, `CountsExact`, `UpgradeInsist` | `MutualExclusion`, `WordIsExact`, `ReaderKeepsWriterOut` |
| | `NobodySleepsForever` | `NoSleeperLeft` |
| | `LockServesInTurn` | `RWLock` implements `RWSpec` |
| `IscTaskProofs` | `RunningIsCounted`, `ExclusiveIsAlone` | `RunningCounted`, `ExclusiveAccess` |
| | `ReadyIsScheduled`, `AllocatedWhileReached`, `PriorityIsSublist`, `DestroyLeavesNothing`, `NoWakeupIsLost` | `ScheduledOnce`, `NoUseAfterFree`, `PrioritySublist`, `DestroyedIsEmpty`, `NoLostWakeup` |
| | `TaskSystemIsSerial` | `IscTask` implements `TaskSpec` |
| `IscSocketProofs` | `NothingFreedIsFound`, `DescriptorsHaveOwners`, `ClosingIsQuiet`, `ManagerLeavesNothing` | `NoUseAfterFree`, `DescriptorIsOwned`, `QuietWhenDone`, `DestroyedIsClean` |
| | `RequestsAreWatchedOnce` | `WatchedOnce`, with cancels, requests after them and both directions |
| `NetmapIOProofs` | `RequestsKept` | `RequestsAreWatched` |
| | `AnswersReachAsker` | `ReplyToAsker` |
| `DataProofs` | `HeapOpsAreCorrect` | the heap operations, for every size |
| `IscTimerProofs` | `HeapIsKept`, `PurgedIsGone`, `RunWakesInTime`, `TimersAreNotLate`, `TimeoutsAreLast` | `HeapKeepsOrder`, `PurgeIsFinal`, `WakesInTime`, `NotLate`, `TimeoutIsLast` |
| `NsClientProofs` | `StatesMeanWork`, `SomebodyListens`, `UsersAreCounted`, `LeavingEnds` | `StateMeansWork`, `ListenerRemains`, `NoUseAfterFree`, `ExitIsDue` |
| `JournalProofs` | `FindIsAlwaysExact`, `RecoveryIsAlwaysExact` | `FindIsExact`, `RecoveryIsExact` |

### The lock

For every finite set of threads, every wrap larger than the number of threads
plus one, and every quota.

`MutualExclusion` speaks about the threads, the code about `cnt_and_flag`, so
the inductive invariant `IInv` joins the two: the word is exact, at most one
thread has set the flag (`OneFlag`), and none has while another one reads
(`ReadersAlone`). A writer enters when the word is zero, so by exactness nobody
has announced itself; a reader enters after it has announced itself and seen
the flag clear. The proof that a step keeps `IInv` is in two parts. `Orderly(t)`
says what all steps have in common: others stay in their classes (a broadcast
moves sleepers only within them), the counts follow the classes that `t` leaves
and enters, and `t` starts to write or to read only under those conditions.
`OrderlyKeeps` shows that this is enough, with the cardinality lemmas `Count`
and `FewIn`; `AskOrderly`, `ReleaseOrderly`, `StepOrderly` and `WakeupOrderly`
show it of every action.

Sleeping and the order of writers need a second invariant, `JInv`. `Turns`: the
two counters are apart by the writers that are queued or own the lock, and the
ages of the queued tickets are exactly 1 to the number of queued writers, so
that the wrap does no harm and somebody always has the oldest ticket.
`FlagWatched`, `TurnWatched`, `QuietWatched`: for each reason to sleep, whenever
a thread sleeps although the reason is gone, some other thread is awake at a
place from which it will look for sleepers; and if that thread is between the
two reads of a comparison, what it has read does not hide the sleeper (`Awake`,
`Calls`). The refinement then maps every step: `ahead` of `RWSpec` is the order
of the ages, which `Turns` keeps.

### The tasks

For every finite set of workers and any clients, tasks, events, quantum and set
of operations offered.

`isc_task_beginexclusive()` waits until `tasks_running` is one and then trusts
that its own task is the one that is counted. That takes three facts, which with
the places of the threads (`PlacesOK`) are the inductive invariant `IInv`: the
counter is exact; at most one worker is in the protocol, and then
`exclusive_requested` is set (`OneAsks`); and nobody takes a task while it is
set, so that the worker stays alone until it calls `isc_task_endexclusive()`.
Most steps are `Quiet`: they move no worker into or out of a counted part of
`dispatch()` (signals and broadcasts move sleepers within their part). A step of
`dispatch()` or of the protocol is `Orderly(w)`: only `w` moves, the counter
follows it, and it takes a task, asks or is granted only under these conditions.
`QuietKeeps` and `OrderlyKeeps` show that such steps keep `IInv`;
`TaskCallQuiet`, `CallStepQuiet`, `ClientQuiet`, `SpuriousQuiet` and
`WorkerOrderly` show which actions are which.

The queues need `QInv`. `Life(t)`: a ready task is in one of three places (the
queue, the hands of a thread that owes the push, the hands of a worker that puts
it back) and only once; a running task has one worker; references, events and
shutdown events go with the state. `Privilege(t)`: the second list agrees with
the first and the flag except inside `isc_task_setprivilege()`. `PInv` adds who
keeps the references: a task inside `isc_task_setprivilege()` has one besides
the manager's, and `manager->excl` has one outside of the gap. `Destroying`:
the walk of `isc_taskmgr_destroy()` holds the lock, meets only tasks that exist,
and leaves none behind that was not told. `NoLostWakeup` is shown on top of it:
every step that makes the queue longer wakes a sleeper or is taken by a worker
that goes back to the head of its loop. `TaskSystemIsSerial` maps each critical
section to one step of `TaskSpec` or to none, with `QInv` to say that the queue
an event is taken from is the one it was sent to, and that a task is freed only
when nothing refers to it.

### The sockets

For any finite sets of sockets and descriptors. `SInv` ties four things
together: what keeps a socket alive (`Accounts`, `Stages`), whose a descriptor
is at each stage of a close (`Descriptor`, `Number`), what the pipe may hold
(`Mail`: a message about a descriptor belongs to its owner or to one whose close
is pending, and after a close there is no message about that number), and the
manager's end (`Manager`). That a number is used again only after the watcher
has read the close is what makes late messages harmless.

`WatchedOnce` rests on `WInv`: a socket that is not `mixed` has at most one
*token*, a message, a registration or an internal event, it turns from one into
the next, and whoever waits has it. A cancel leaves the token behind; the socket
becomes `mixed` when somebody asks before it is used up, and is itself again when
it is asked with nothing left, or closed. `ClosingIsQuiet` needs no such
exception: an internal event that is posted serves a request that waits or
comes, at its task, before the ISC_R_CANCELED event.

### The netmap datapath

Nothing is assumed of the senders or the queries. Query numbers are in one place
only (`Fresh`). Every query in work that was not spoilt has an entry that was
written for it, and no earlier entry has its id (`Work`); a sender that searches
for it has not passed that entry, and one that copies is at it (`Looking`). A
slot has the payload of the sender that builds its header, or both are spoilt
(`Filled`), and the address, once that sender is done (`Addressed`). The steps
that need an argument are a receive, which takes a free entry, so that what lies
before it is in use and none of it has the new id; a release, which can hit the
entry of another query only with that query spoilt; and the search, which cannot
end without finding the entry. About the counters of the ring nothing is proved
but their types: `netmap_race` shows that they are wrong with two senders.

### The heap and the timers

`heap.c` is two loops. `DataProofs` gives both one shape, `Slide`: the hole at
`k` is filled from the place `g[k]` as long as `k` is in a set `C`, and a rank
falls from `k` to `g[k]`. For a recursion of this shape there is exactly one
function (`Slides`), and it leaves every element in the heap once, with the
index that says where it is. `float_up()` and `sink_down()` are two instances;
the order follows because only the places on the path change. So insert, delete,
increased and decreased are right for every size, where the run has heaps of up
to six elements.

`IscTimerProofs`, for any finite sets of timers and clients and any settings the
`REQUIRE`s of `isc_timer_create()` accept. `TInv` is the conjunction of the
properties with what they need: `Handles` (a call under way has a timer that
exists or that nobody else creates), `Firing` (what `dispatch_look` found is
still the head when it is served), `Eras` (events belong to settings that have
been), `IdleFits` (a touched timer's idle time starts now). Each critical
section is summarized once (`CreateIs`, `ResetIs`, `DestroyIs`, `FireIs`: at
most one timer moves, and `run()` is woken if that one becomes the head), and
the parts of `TInv` are proved from the summaries.

### The clients

For every finite set of clients, any interfaces and any quotas.

The handlers are functions of the whole state, so the invariant is a predicate
of a world, `Good(w)`, and `IInv` says it of the variables. It has three parts.
`Global`: types, and the books; references, `ntcpcurrent`, the managers' lists
and both quotas are the numbers of their users. `Settled`, of each client
between two events: where it belongs (`Placed`), on which lists it may be
(`Listed`) and what it waits for (`Waits`). `Served`, of each interface that is
up: exactly one client is responsible for datagrams, at least one for
connections. The four properties follow from it; they are not inductive alone.
What they lack is that a client in READY is never mortal; that work is canceled
exactly when its client has to leave, or the client has still to be told to
listen; that `references` is the update and the fetch in work; that a client's
task has been shut down exactly when `newstate` is FREED, and has not been told
to end exactly while its manager is up. TLC checked all of it on the run's instance
before it was proved.

In the middle of a handler of client `c` the invariant does not hold: `exit_check()`
takes a client through states in which it waits for nothing. `Loose(w, c)` is
what remains true of `c` there, `Busy(w, c)` adds that all others are settled.
Each function a handler is made of has one lemma that says how it `Moves` the
world: the books follow `c` (`Flow`), other clients are left `Aside`, and `c`
does not drop its responsibility for listening (`Duty`). `Moves` is transitive,
so the lemmas compose as the functions do, and a handler that has moved from a
good world to one in which `c` is settled ends in a good world (`Finish`). Four
operations reach other clients and have arguments of their own:
`ns_client_replace()` hands the responsibility to a client it recycles or
creates, `ns_query_cancel()` ends another client's fetch after its lock was
released, and an interface that comes up or is purged acts on all its clients.

### The journal

For every even range of serial numbers, every size of the index, target size and
number of versions. Both theorems are about `Spec`, in which no `.jnw` file is
left over, and say what the properties say: nothing after the three situations
in `excused`.

`FindIsExact` is about one search in one file; what makes it true is what two
files, the index and a transaction under way have in common. `FindInv` says that
there is a serial number `s[k]` for each offset such that `Books(s)`: file and
disk begin and end with their serial numbers and all that is addressable rises
by less than half the range (`Filled`), headers carry these numbers or are not
there yet (`Agrees`), and an entry of the index is right or, if it is behind the
beginning, behind everything that is addressable (`IndexSafe`). That last part
is what `index_invalidate()` is for: in the window between header and index the
file still has entries that are to go. A transaction under way (`Underway`)
starts where the file ends, and after the first sync every remaining transaction
is in reach of the new serial number. The search is a loop over the index and a
walk; both get exact (`BooksFind`) because on a rising stretch DNS_SERIAL_GT is
the order of the distances from its beginning (`Dist`).

`RecoveryIsExact` needs versions behind the serial numbers. `RecoveryInv` says
that there is a version `h[k]` for each offset, with `Books` of their serial
numbers and `Story(h)`: each body leads from one version to the next, on the
disk and in the file (`Written`); the file is at most one transaction ahead of
the disk (`Ahead`); master file, a dump under way and the zone are among these
versions in this order, and neither the master file nor what compaction is put
off for, which is not beyond it, is half the range from the end (`Places`); what was acknowledged is in the last version on the disk
(`Acked`); the transaction under way leads from the served version (`Leads`).
Then a roll forward from the master file finds its place and applies what
follows, and with any part of the unsynced blocks lost it either reaches a
version that has everything acknowledged or is refused (`CrashIs`, `PowerIs`).
Compaction is the step that could break it: `CompactKeeps` shows that it never
cuts beyond the master file, because the serial number it is given is not beyond
the master file's and not half the range behind. Each action has one lemma for
`Books` and one for `Story`; only a new header and a compaction change the
witnesses `s` and `h`. TLC checked `RecoveryInv`, with a witness read off the
files, on the run's instance with `SerialMod` 8 before it was proved.

### What proving changed in the models

- `isc_task_setprivilege()` needs a reference of the caller's own, not the one
  the manager keeps for its exclusive task: without it `PrioritySublist` is
  violated, as TLC confirms. Its only caller, the zone manager, has one in its
  task pool.
- `TaskSpec` distinguishes the purge of one event (`isc_task_purgeevent()`) from
  the withdrawal of a range.
- In `IscTimer` the guards of two `CASE`s overlapped; the parameters of a timer
  are times that can be represented.
- Filters of a list, in `IscTask` and `NsClient`, are written with the recursive
  function of `EventList`: what `SelectSeq` returns cannot be proved here.

- In `Journal` the walk of `journal_find()` starts with the serial number of the
  guess, as in the code, and not with the one its offset has in the file: the two
  differ at a stale entry of the index, one of the excused situations. The loops
  over the index are recursive functions (the lemma `Loop` of `DataProofs` says
  that such a loop has a result), and `JournalAssumption` says that `None` is
  none of the records.

### Only model-checked

Everything under fairness: progress of the lock, of the tasks and of the
destruction of the socket manager. The prover does not treat it. The violations
of the next section are TLC's as well.

## What the runs found

Each is a run whose property states what the repository says and that TLC
refutes (`findings` in `PROJECT.json` has the quotations).

- Two workers that send on one netmap socket use the same slot
  (`dns_util.c:297`).
- `watch_fd()` ignores EEXIST, so a socket that is watched for reading is not
  watched for writing when a send is queued (`socket.c:850`).
- `dns_journal_compact()` uses a `.jnw` file left by a crash with its old header
  and index; with nothing to copy it becomes the journal, and a restart refuses
  the zone (`journal.c:2155`).

Seen while modelling, without a run of their own:

- `isc_taskmgr_pause()` waits for a signal that is sent only if
  `pause_requested` is set, and sets it after the wait (`task.c:1626`); called
  while a task runs it does not return. Only tests call it.
- The writer quota does not keep a reader from starving, against the comment
  "In order to prevent readers from starving" (`rwlock.c:212-216`). TLC refutes
  `pc[t] = "r_check" ~> pc[t] = "reading"` on the instance of `rwlock_progress`:
  a second reader that comes and goes resets the count between the writer's
  clearing of the flag and its test of the quota (`rwlock.c:308`, `:498`), and
  the first one never gets in. `ReadersGetIn` is what remains true.
- A caller that cancels a receive and asks again can end the program. TLC's
  trace: the receive is canceled and the watcher reads its message and registers
  the descriptor; the new receive finds the list empty and sends a message;
  the descriptor is readable, the watcher posts the internal event, unregisters
  the descriptor, reads the message and registers it again; it is still readable
  before the task has run, and `INSIST(!sock->pending_recv)` fails
  (`socket.c:3325`). `dns_dispatch_changeattributes()` and `startrecv()` make
  such calls (`dispatch.c:3943-3946`). With both directions on one socket a
  hangup can do the same. `WatchedOnce` says who is safe.
- `doio_netmap_send()` reports success when the ring had no room
  (`socket.c:1973`).
- `timer.h` promises that a touched timer does not time out before the interval
  has passed, but `dispatch()` releases the timer's lock between its test of
  `idle` and the sending of the event (`timer.c:728`), so a timeout that is
  already decided comes nevertheless.
- A receive that fails ends a UDP client without a successor (`client.c:1456`),
  and a failing accept leaves a TCP client idle, as its comment says
  (`client.c:2262`).
- The clean-up loop of `ns_interface_listenudp()` counts in the wrong direction
  (`i <= 0`, `interfacemgr.c:305`).
- `netmap_getfd()` ignores a failed open, never gives entries back and aborts at
  the 33rd (`nm_util.c:209`, `:233`).
- `internal_accept()` reads `sock->statsindex` after releasing the socket
  (`socket.c:3742`).

## What is not modelled

The models cover a small part of the repository's lines, about two in a
hundred of all C code when the older copies of BIND under `hpbind/`, the
contributions and the tests are counted as well. What is left out, and why:

- *Of the modelled components*: task names, times and statistics; what a priority
  list linked twice or a stale `manager->excl` leads to; torn reads of `timer->idle` (times are whole seconds)
  and of an entry of `g_macaddr_map` (an unspoilt query's entry is not written while
  its sender reads it); several rings or interfaces of netmap;
  sockets of type fdwatch, `dup`, socket options and the other poll methods; the
  capacity of the watcher's pipe; the
  hand-over of a client to a zone transfer, views and the contents of messages;
  failing set-up of an interface; the iteration of the journal for IXFR, the
  serial numbers of inline signing, transactions that keep the serial number
  (`bind8_compat`), the two-stage rename of other systems, and the durability of
  a rename.
- *Components with control of their own*: dispatch, the resolver and the
  address database, the databases' versions, zone maintenance, rate limiters.
  They are concurrent state machines of the kind modelled here; dispatch is
  next in the plan. Zones and the resolver are an order of magnitude larger than
  `client.c`, and useful models of them need abstractions of DNS data first.
- *Device handling of netmap*: sequential, at start only.
- *The DNS part proper* (messages, names, record types, DNSSEC, configuration)
  and the tools: sequential code over large data, outside of what small
  instances can say.
- *Copies and third-party code*: `hpbind/`, `contrib/`, the test framework.
