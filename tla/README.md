# TLA+ models of the services in golang-programming

The repository collects several independent Go programs: the labs of MIT 6.824
(`6.824-labs`), the projects and class examples of CMU 15-440 (`15-440`), the URL
shortener `goto`, and examples from talks. This directory models the ones with a
protocol or a concurrent core, one module per component, checks them with TLC on
small instances, and proves the central invariants with TLAPS for all instances.

## Inventory

| Component | State | Operations | Interacts with |
|---|---|---|---|
| View server, `6.824-labs/viewservice` | current view, acked flag, restart flag, a record per known server | `Ping`, `Get`, `tick`, `Kill` | p/b servers ping it, clerks ask it |
| Primary/backup service, `6.824-labs/pbservice` | per server its view, its store, its mutex; per clerk a cached view | `Get`, `Put`, `Forward`, `Sync`, `tick`, `kill`, clerk `Get`/`Put`/`updateView` | view server (RPC), each other (RPC under the mutex) |
| Lock service, `6.824-labs/lockservice` | per server a lock table and a table of replays | `Lock`, `Unlock`, `kill`, the `dying` mode; clerk `Lock`/`Unlock` | primary calls backup under its mutex; clerks fail over |
| LSP, `15-440/P1-F11/lsp` | per connection sequence numbers, send buffer, epoch counters; server's table of connections | connect, send, receive, epoch trigger, read, write, close | goroutines over channels; UDP through `lspnet`, which drops packets |
| Storage server, `15-440/P2-F11/storageimpl`, with `libstore` and `cache` | key table, leases per key; cached entries with their lease | get, put, list update, lease grant, revoke, registration | client caches hold leases, the server calls back to revoke |
| Tribbler, `15-440/P2-F11/tribimpl` | an id counter; all else in storage | `CreateUser`, `PostTribble`, `AddSubscription`, `RemoveSubscription`, `GetSubscriptions`, `GetTribbles`, `GetTribblesBySubscription` | libstore calls, one after the other; several front ends over one storage |
| Proxy counter, `15-440/P2-F11/proxycounter` | counters, override switches | the storage calls, `Reset`, `Override*`, `DisableLease` | sits between a libstore and a storage server; the test driver changes it meanwhile |
| URL shortener, `goto` and its steps `goto/code/0` to `3` | URL map, save queue, buffered file; slaves' caches | `Get`, `Put`, `load`, `saveLoop`; `ProxyStore.Get`/`Put` | HTTP handlers, slaves call the master by RPC |
| Buffers behind channels, `15-440/class05`, `class07` | a linked list, a list of deferred requests | insert, front, remove, empty, flush, contents, list | callers through a director or server goroutine, or RPC |
| Feed reader, `Google-IO/2013/feed-reader` | pending items, seen set, last error | loop, `Merge`, `Close` | channels |
| Shared memory by communicating, `codewalk/sharemem` | each resource's error count, the monitor's table | `Poller`, `Sleep`, `StateMonitor` | channels; a resource is passed on, not shared |
| Replicated search, `Google-IO/2012/google.go` | results so far | `Google`, `First`, `fakeSearch` | channels, a timeout |
| Chat, `LCA2014/part2`, `part3` | the slice of clients, a channel of messages | accept, read, write to all | a goroutine per client, one or two managers |

Paxos, kvpaxos, shardmaster and shardkv are unimplemented lab skeletons; the
remaining programs are command lines, test drivers or demonstrations of a single loop.
`PROJECT.json` lists all of them.

What is hard in this code: handlers that keep their mutex across a call to another
server; views and leases that are stale when they are used; crashes and restarts
between the steps of a handler; calls repeated after an error although the first one
was executed; timeouts racing late answers; goroutines that block on each other's
channels.

## Modules

### ViewService

`ViewService.tla` is the view server. Each handler and `tick()` runs under `vs.mu`, so
each is one action: `Ping`, `tick` (split by the state of the view into `TickUnacked`,
`TickAcked`, `TickRestarted`, `TickPanic`), `Kill`. `Get` only returns `view`. The map
`vs.clients` is kept field by field: `known` (its keys), `dead`, `idle`, `lastViewnum`,
`age`. Time is counted in whole `PingInterval`s: `Elapse` ages every client, `age` is
capped just above `DeadPings`, and `sinceTick` is the time since the last `tick()`, at
most `MaxLate`. Go's random map order is an existential choice of the idle client.
`formed` and `acks` are history: the view as formed, and the numbers acknowledged by
the primaries their views were formed with.

* `TypeOK` includes that every role is held by a client in the map, or `tick()` would
  dereference nil.
* `PastViewsAcked`: a view is left only after its own primary acknowledged it.
* `PanicOnlyIfTickLate`: the nil dereference at `vs.clients[v.Primary].idle` is possible
  (`TickPanic`), and only when the ticker is more than `DeadPings` intervals late.
* `RestartedPrimaryLeavesView` (liveness): a primary that restarts loses its view.

### PBService

`PBService.tla` instantiates `ViewService` and adds the p/b servers and the clerks.
A call is a request in the `inbox` of the server called. `mu[s]` is the mutex of server `s` together
with the progress of its holder: `"forward"` while `Get` or `Put` waits for the backup
(`ServeForwarding`), `"forwarded"` or `"rejected"` after its answer or without one (`ForwardFails`), until
`Finish`; `"sync"` while `tick()` hands over the store (`SyncBackup`). `Serve` is a handler that needs no
backup; `Forward` and `Sync` are the backup's handlers, each a step of its own that needs the backup's
mutex, so crashes, other requests and view changes interleave with every call. An answer reaches a caller
that is there in the step of the handler. A request may outlive its caller: what a dead process wrote to a
connection is still read at the other end (`Left`, with `deaf` set: nobody waits for the answer), and so is a
request whose reply the unreliable accept loop discards (`Late`, `Arrivals`). `Ping` calls take effect
in the step of their caller: they change only the view server and the caller's local view, under the
caller's mutex. The store is one key. Any clerk may put; the values are numbered in the order in which
the Puts were called, and `before` notes which had returned by then, so that the values that a returned Put has
replaced are known (`Superseded`) whatever concurrent Puts do. `Faults` selects what can go wrong:

* `crash`: a server of an acknowledged view dies, never both; `early`: a server dies
  while the view is not acknowledged. Its handlers end with it (`Crash`);
* `kill`: `kill()` closes the listener and ends the loops, while what was accepted, and a `tick()` under way,
  go on (`Kill`);
* `restart`: a stopped server comes back empty under its name once it is out of the view;
  `quick`: also before that;
* `slow`: servers miss pings (without it every server pings once per interval);
* `unreliable`: the accept loop's mode that discards requests, or shuts the connection
  down for writing so that the caller sees an error while the request is executed
  later.

Properties:

* `GetsAreFresh`: no Get returns a value that a Put had replaced when the Get began.
* `PutsArePreserved`: neither the running primary nor the running backup of an acknowledged view stores such a
  value. Both are subject to one exception, `overtaken`: a `Forward` that its dead primary had sent is executed by
  the backup all the same, which was promoted perhaps and has taken a later Put (below, "What the models
  found"). The history variable becomes true in exactly that step, when the value it stores was already
  replaced.
* `ReplicasIdentical`: the servers of an acknowledged view have the same store whenever the primary's mutex is free.
  This one has no exception.
* `OnePrimaryPerView`, whatever fails, and the liveness property `PutsReturn`.

### LockService and LockSpec

`LockService.tla` has the two servers and the clerks. The primary's handler takes three
steps (`LockPrimary` decides and changes the table, `CallBackup` runs the backup's
handler, `FinishPrimary` stores the replay and replies) and holds `ls.mu` throughout;
the backup's takes one (`LockBackup`). A server stops in three ways, selected by
`Failures`: `crash` (the process), `kill` (only the listener closes, accepted requests
go on) and `dying` (the last accepted connection is deaf, and closes after two seconds
whether or not its request was handled). `LockSpec.tla` is the promise: a table of
locks on which each call acts once, atomically. `ImplementsLockSpec` is the refinement:
the outcome is in the backup's tables while it runs and in the primary's, its current
request included, afterwards; so a call takes effect when the backup handles it, or,
without a backup, when the primary decides it, or when the backup dies under the
primary's call.

### Lsp

`Lsp.tla` is the live sequence protocol: the server, its clients and UDP. Every
connection has two ends, each the goroutine of an `lspConn` with its state under the
source's names (`sendBuf`, `recvBuf`, `sendChan`, `recvChan`, `nextSendSeqNum`,
`nextRecvSeqNum`, `lastAck`, `closed`). One iteration of the `select` in `serve` is one
action: `Send`, `ReceiveData`, `ReceiveAck`, `Deliver` (the front of `recvBuf` reaches the
application), `epochTrigger`. In front of the ends stand `loopServe` of the server
(`srv`; `handleUdpPacket`, `ServerWrite`, `ServerClose`, `ServerCloseAll`, `ServerRemove`) and of
each client (`cli`; `ClientRead`, `ClientWrite`, `ClientClose`, `ClientRemove`). The channels
between them have one place, so a loop that finds a channel full waits in a state of
its own (`at = "recvChan"`, `"sendChan"`, `"closeChan"`) and goes on in `ServerHandOver` or
`ClientHandOver`; an end that gives up waits in `"removeChan"`, and one that closes waits for
ever in `"writeDone"`, which only it would receive from. `"panic"` is the nil connection in
`handleUdpPacket`. The network keeps the order of the packets of one direction and may
lose any (`Lose`).

Epochs. An end is in time (`InTime`) when its timer runs out only after everything sent has
been handled, and the two ends take turns; any other epoch is hasty and counts as a
disturbance, like a close. Time is otherwise left out: `silent` counts epochs since
`lastTime`.

* `StreamsInOrder`: each application reads exactly a prefix of what the other wrote. This is
  about clients whose address the server accepts once: a second connection of an address
  starts both streams anew at the server only.
* `AckedMeansReceived`: a payload leaves `sendBuf` only once the peer has it.
* `ConnectionsKept`: while fewer than `EpochLimit - 1` packets are lost, at most one of them a
  CONNECT, and no epoch is hasty and nobody closes, no end gives up on its peer and the server
  never meets a packet of an address it does not know.
* `WritesDelivered` (liveness): every payload written is then read.

### Storage

`Storage.tla` has the storage servers (`hashmap`, `leasePool`, the entries with their
holders), the libstores (`ring`, the nodes each one knows, in the order of their ids, empty
before it is created; `pickServer`) and their caches. A call
is a goroutine; each of its steps is what the code does under one lock, or one RPC:
`Get` consults the cache, `ReadValue` is the server's read, `AddLease` or
`LeaseMissing`/`NewEntry`/`AddFirstHolder` is `addLeasePool`, which checks and inserts in two
critical sections, `GetReply` is `Cache.Grant`. A write is `BeginWrite`, `revokeLease` (marks
the entry, copies the holders), for each holder `RevokeNext` and `RevokeLease` or
`RevokeTimeout`, `RevokeDone`, and then `Write`, which for `AppendToList` is a read and a write
in two steps. Entries are numbered objects, because a call keeps its pointer after the
pool has another one. `panicked` collects the processes that died in `Cache.Grant`
or of the nil client in `revokeLease`. What a cache holds is kept as the
fact that it holds a copy and since when. `duty` is history: the copies on record when
`revokeLease` began.

* `RevokedBeforeWrite`: when the write happens none of those copies is still served.
* `KeysHaveOneServer`: all libstores send a key to the same server.

### Tribbler

`Tribbler.tla` is the front end: several Tribservers over one storage. A handler is a
sequence of storage operations, one action each; the appends and removals are two
(`ReadToChange`, then `WriteTribs` or `WriteFoll`), as the storage server reads and writes a list
under separate locks. Each user has one client, which calls one thing at a time; the
handlers of different users interleave everywhere. `sort.Sort` leaves tribbles of one time in any
order: `Sorted` is the set of the arrangements it may return. `Restart` kills a server: its ids start
at 0 again, the storage stays, answers that were on their way are lost (`unsure`).

Readings go through libstore, whose cache may answer with a copy (`libstoreimpl.go:149`), and a copy of a list can be
out of date: a lease granted between `revokeLease` and the write outlives the write. `GetFollows` and `GetList`
therefore answer from storage or with any list that this server has read of that key since it started
(`tribsHeld`, `follHeld`); when a lease is asked for, granted, revoked or over is left to `Storage`. `old` notes
for a call the keys whose list was not what storage had. The other keys need no copies: a tribble's key
is written once, which `PostsKept` says, a user's is only looked for and never removed, and the cache does not keep
that a key is absent.

* `PostsKept`: an accepted tribble is in its user's list once and is never replaced, although
  ids are given out again after a restart; and no tribble's key is written a second time.
* `TimelineComplete`: an answer is newest first and leaves out a tribble of anybody it is about only for
  `MaxTribs` newer ones, whatever is posted meanwhile, and a timeline is about everybody the user follows. A list
  that was an out-of-date copy is exempt, for its author alone: there the code does leave out accepted tribbles
  (below).
* `ErrorsExplained`: a reading fails only for an author at another server (the tribble's key
  holds the hostport, `tribimpl.go:209`), one who posts at the time, or one whose server died
  between list and tribble.

### Goto

`Goto.tla` has the final program (version 4) and its four earlier steps. `Count`, `Set` (or,
where `Set` holds only the read lock, `SetLook` and `SetWrite`) and the save are the loop of `Put`;
`SaveToFile`, `SaveUnbuffered` and `Save` are the ways a record reaches the file, `FlushBuffer` is the
ticker. The file is a sequence of half records: the buffered writer hands on whole
buffers, which may end within a record. `MasterDies` loses all but the file, `NewURLStore`
loads the records up to the first that does not decode (`Decoded`), the first record of a
key winning (`Loaded`). Slaves (`ProxyGet`, `ProxySet`) keep one connection and what they have seen.
URLs are numbers; every call adds its own.

* `KeysUnique`: a key that was given out leads to its URL and no other (version 4).
* `KeysContiguous`: the keys in the map are the first ones, unless `load` left a hole.
* `NothingDropped`: a record whose `Put` returned is in queue, buffer or file.
* `CachesAgree`: a connected slave redirects as the master does.
* `PutsEnd`, `AckedGetsSaved` (liveness): `Put` returns; its record reaches the file.

### Buffers and BufferSpec

`Buffers.tla` has the three servers around one linked list: `abuf`, where a director hands
out a token (`startop`, `startread`, `Operate`, `finish`), and `sserver` and `dserver`, where a
goroutine executes requests and defers reads of an empty list (`Receive`, `Defer`,
`ServeDeferred`, `Reply`). The list is kept link by link, as `bufi` does. For `dserver` the
handlers of `rpclib` are included: most ask the server for a string to log after their
own request, and `List` reads the live list outside the server (`ReadList`, `ReadRaced`).
`BufferSpec.tla` is the promise, a queue whose operations take effect one at a time
between call and return; `BufferImplements` is the refinement, with `BufContents` as the
queue. `OpsReturn` (liveness): an operation that needs no element is not held up.

### FeedReader, Pollers, Search, Chat

* `FeedReader.tla`: the subscription loops (`startFetch`, `Fetched`, `fetchDone`, `TakeUpdate`), the
  goroutines of `Merge` (`PutUpdate`, `Quit`, `AskClose`), `Close` and `main`. `EachItemOnce`: no item
  is read twice and none is lost before `Close`; `ClosedAfterAll`: `updates` is closed when no
  one can send any more (the errors are not part of it: `merge.Close` keeps the last one only);
  `CloseEnds` (liveness).
* `Pollers.tla`: a resource is with `main`, with a poller, or asleep. `OneOwner`, which is what
  makes the unlocked error count safe, and `PolledForEver`. `http.Head` has no timeout: a poller at a
  resource in `Silent` need not return from it, and `PolledForEver` is promised while fewer servers are silent
  than there are pollers.
* `Search.tla`: `OneResultPerKind`, however replicas and timeout race. The three kinds are those of the code, as
  is the return after three results.
* `Chat.tla`: `EveryoneHears`, unless a manager read the slice while `main` appended to it (a
  half-written slice ends in a panic, `TakeTorn`), or stays for ever in `client.Write`, which has no deadline, to a
  client that does not read (`Deaf`, `Stuck`).

### ProxyCounter

`ProxyCounter.tla` has concurrent handlers that read the switches, forward and count, each
access a step, and the driver's calls as sequences of assignments. `CountsExact`: at rest
the counters are what the calls since `Reset` amount to. `OkMeansServed`: OK without an error
means that the server did it; the exception is a handler that saw the override and read
its answer after `OverrideOff` had cleared it.

### MCPrograms

`MCPrograms.tla` puts `Goto`, `Buffers`, `FeedReader`, `Pollers`, `Search`, `Chat` and `ProxyCounter`
side by side: `program` is chosen once, one runs and the others stay as they start. They
do not interact; it is one run instead of seven.

## Runs

| Run | Instance | Shows |
|---|---|---|
| `view_server` | 2 servers, 4 views, ticker up to 2 intervals late with `DeadPings` = 1 | all of `ViewService`'s own properties; every action, the panic included, happens |
| `lock_service` | 2 clerks, 2 calls each, 1 lock, crashes | refinement of `LockSpec` |
| `lock_service_failures` | 2 clerks, 1 call each, all three ways to stop | no call hangs |
| `lock_race` (violation) | 2 clerks, `kill` | both clerks are granted one lock |
| `pb_service` | 3 servers with 1 clerk or 2 servers with 2 clerks, 4 views, 2 Puts, `crash` and `early` | fresh Gets, preserved Puts, identical replicas |
| `pb_service_faults` | 2 servers, 2 views, no Puts, all seven faults | one primary per view number |
| `pb_put_blocked` (violation) | 2 servers, `crash`, fairness | after the backup's death without a spare no Put returns |
| `lsp` | 1 client, 2 and 1 payloads, 2 faults, fairness | order, no duplicate, no loss in between; acknowledged means received; connections survive losses, the server does not panic, payloads arrive |
| `storage_leases` | 2 servers, 2 libstores, 1 key, 2 writes, 3 seconds | leases are revoked before a write; one server per key |
| `tribbler` | 2 users, 2 front ends, 7 calls, 3 posts, 1 restart, any copies | posts are kept, answers complete, errors explained |
| `programs` | below | the safety of the small programs and the buffers' refinement |
| `programs_liveness` | below, fairness | their liveness |

Bounds. `DeadPings` is 1 instead of 5: only the order of a client's age, `DeadPings` and
`sinceTick` matters. Four views are what three servers go through until a second backup is synchronised (first primary,
backup joins, promotion, new backup). In `pb_service` the constraint `Instance` lets either the third server
start or the second clerk call: the third server is for the transfer of a store that was forwarded, the second
clerk for concurrent Puts, and a `Forward` that outlives its primary arises with either. `MaxPut` = 2 makes
an older value distinguishable from none. `pb_service_faults` needs no Puts, as its property is about views.
In `LockService` two calls per clerk let a retry be followed by another call.
In `Lsp`, `SeqMod` is 2 instead of 256: the number of the second payload is then that of
CONNECT, the wrap the code reaches after 255. `MaxFaults` = 2 allows two lost packets or one
hasty epoch or one close (those weigh two); `EpochLimit` = 4 is the least with which two lost packets
are bridged, so that `ConnectionsKept` needs its condition on CONNECT. Two connections per address are
allowed, but no two faults lead to a second one: what happens then is said in "What the
models found". In `Storage` a lease, its guard and the query window last one second each, and the
clock runs for three, so that a lease can be asked for, granted, run out at the cache, then
at the server, and be forgotten; the two servers' ids lie on both sides of the key's hash, so
that an incomplete ring sends it elsewhere. `MaxDelay`, the time an answer may take, is
assumed to be at most the guard: without that the guard guarantees nothing.
In `Tribbler` seven calls create both users, subscribe one of them to both, have both post and read the
timeline, or create one, have it post three times and read; an answer holds `MaxTribs` = 2 tribbles, so it has an
order, and the third post pushes out the first. In `Goto`, `Base` = 2 gives the
third URL a key of two digits, the queue holds one record, and the buffer three halves, so
that the second record is cut; one crash comes at any point. Three users of a buffer make
two wait while one works, and two values show an order. The feed reader has two
feeds whose queue holds one item; three URLs and two pollers leave one URL waiting. In
`ProxyCounter` two calls overlap with two calls of the driver: a `Reset` or a switch, and what undoes it.
`programs_liveness` has the same instances with fewer users, feeds' fetches and messages,
`goto` in versions 1 and 4 without slaves, and the proxy idle but for one call.
`CHECK_DEADLOCK FALSE` is set because the models stop at their bounds and servers may be
killed.

Fairness. `ViewService!FairSpec`: time passes and the ticker goroutine runs.
`LockService!FairSpec` and `PBService!FairSpec`: every goroutine that can take a step
does, and `sync.Mutex` is not withheld from a waiting handler for ever (strong fairness
for the steps that take it); the code has no other scheduling assumption.
`Lsp!FairSpec`: every goroutine that can run does, including an epoch timer when nothing
else is left to do, and the applications keep reading; nobody has to write, close or lose
anything. Strong fairness is not needed: no two goroutines compete for a step.
`MCPrograms!FairSpec`: goroutines that can run do, sleeps and tickers end; where several wait
at one channel each gets its turn, because Go serves the waiters of a channel first in,
first out (strong fairness of the receiving steps). Nobody has to call, to say anything or
to deliver items, and the master need not come back. Two calls of the standard library have no timeout in this
code and are not assumed to return: `http.Head` of a resource in `Silent` (`PollerStep` is fair only outside
`InHead`), and `net.Conn.Write` to a client in `Deaf` (`ManagerStep` is fair only outside `Stuck`; `EveryoneHears` has
the condition that no manager stays there).

## Proofs

Eight modules hold the proofs. Each theorem is about the specification that the runs
check, for every value of the constants that its module's assumptions allow; where it needs
a further condition (`CrashesOnly`, `CrashOnly`, `OnceSpec`) the condition is said below, with
what goes wrong without it. An
invariant a run checks is seldom inductive; the invariants that are, and why each part is
needed:

### ViewServiceProofs

`TypeCorrect`, `ViewsAreAcknowledged` and `PanicNeedsLateTick`, from `ViewServiceAssumption` (`None` is
no server, `DeadPings` and `MaxLate` positive), for any number of servers. `IInv` adds to the types:

* `AckInv`: while a view is unacknowledged nothing is struck out of it (`formed = view`), so
  the ping that sets `acked` comes from the primary the view was formed with; an
  acknowledged view's number, and all smaller ones, are in `acks`. Without the first part
  the induction fails at `Ping`, without the second at `NewView`.
* `RestartInv`: while `primaryRestarted` is set the view is acknowledged, its primary is
  alive in the map and was heard of since the last tick (`age <= sinceTick`). This is why
  a tick that finds the primary silent must be late.

`FillRolesLemma` states once what filling a vacant role does; the lemmas per action
follow, then `NextIInv`.

### PBServiceProofs

`PBTypeCorrect` and `AtMostOnePrimary` hold whatever `Faults` allows. `IInv` contains the view
server's own invariant (`VSP!IInv`, from `ViewServiceProofs`) and:

* `LearnedInv`: no server is ahead of the view server, and views of one number differ
  only in the roles that were struck out;
* `ServingInv`: while a handler waits for the backup, `serving` is a clerk's request, not one of another server;
* `SentInv`: a request of a server that waits for its answer is the one that server's handler or `tick()` sent,
  to the backup of its view.

`PBGetsAreFresh`, `PBPutsArePreserved` and `PBReplicasIdentical` are proved for any number of servers, of clerks
that put and get concurrently, and of Puts, under
`CrashesOnly` (`Faults` is at most `crash` and `early`): with the other faults the code violates them, as said
below. A request that outlived its primary is part of what they are proved about; the first two have the
exception `overtaken`. `CInv` says who knows what:

* `LifeInv`: the view server takes no running server for dead, and one of an acknowledged view runs;
* `RolesInv`: a role is struck out of a view, or missing in what somebody learned, only when its server is down;
* `PrimaryInv`: a running server that was primary still is, and learns of no other view while its backup runs;
* `BusyInv`, `InboxInv`, `HandlerInv`, `CallerInv`: only running servers have requests and handlers, a request is
  that of a clerk who waits for it (`Waiting`), or of a server that waits, or has outlived its caller, and is handled
  once. One that outlived its caller (`Orphan`) is a `Sync` of a view that is not acknowledged and never
  will be, or a `Forward` at a backup whose primary is down, or at one that was promoted since: so no `Forward` of
  a dead primary ever reaches the backup of a primary that runs, which is why the replicas stay identical;
* `PastInv`: a Put under way has not returned and its value is its own;
* `StoreInv`: once the store was handed over (`HandedOver`) the backup stores what the primary does, or what the
  request between them will make of it; and `PutsArePreserved`.

`GetsAreFresh` is a part of it as well.

### LockServiceProofs

`LockTypeCorrect` holds for every way to stop. `LockServiceRefines`, the refinement of
`LockSpec`, is proved under `CrashOnly` (`Failures` is at most `crash`): with `kill` it is false, which
is what `lock_race` shows. Every step of the two servers is shown to be one step of
`LockSpec` or none. The invariant: `CrashInv` (a process that runs listens), `ClerkInv` (clerks turn to
the backup when the primary is gone, and what the primary has answered the backup
remembers), `FreshInv` (nobody remembers a call that was not made yet), `RequestInv` (a request at the
primary is what its clerk waits for) and `ReplicaInv` (the tables are equal when the mutex is free,
one effect apart while the backup is called, and equal again after, but for the replay).

### StorageProofs

`StorageTypeCorrect`, `WritesWaitForLeases` and `OneServerPerKey`. `StorageAssumption` says that the
servers are finitely many with different ids, that a lease has a guard
(`LEASE_GUARD_SECONDS` > 0) and that an answer takes no longer than the guard (`MaxDelay`). The
last two are what the guard is for: the cache counts its lease from the answer, the server
from the request, and without them a copy outlives its lease at the server. The invariants:
`DateInv` (an entry of a pool is there, and nothing is dated in the future), `HomeInv` (a libstore
that is there knows all servers, so that every call is at the key's own server and the key
nowhere else) and `DutyInv`, which follows each copy on record from `revokeLease` over the
holders still to be called to the write: it is over, or its holder is still to be called. `KeysHaveOneServer` rests on
`HomeInv` alone.

### TribblerProofs

`PostsAreKept` and `ErrorsAreExplained`, from `MaxTribs` being a number. A handler's storage
operation relies on what an earlier one read, so `TribInv` says for each call what is still true
of it: `AppendAt` (the list that was read is still the list, since only the user's own call
changes it, and the id is not in it), `PutAt` (the id in the list belongs to no accepted
tribble), `FetchAt` (the ids left to fetch lead to tribbles, or the author is excused). `TribsHeldInv` says that every
list a server may have a copy of is how the list in storage begins: lists of tribbles only grow, so an out-of-date copy leads to
tribbles too. `ThereInv`
says that an id in a list has its tribble except between the two writes of a post, and
`OverlapInv` that a reading has noted everyone who posts at the time.

`TimelinesAreComplete` follows a reading through its steps (`TimeInv`). The list of ids is in the order of
posting, restarts included, and so is what was accepted (`PostsInv`); what a user follows is
what was answered OK, as a call about to write it has read it (`FollAt`). What has been found is
known by its origin: a user asked for already gone through, or the one whose list is being
fetched, and then newer than every id left (`Origin`). A copy of what a user follows has no such order, as
subscriptions also end, but is made of users without repetition (`FollHeldInv`), so that nobody's tribbles are
collected twice. What had been posted when the call began and
is not found, by an author whose list was read as storage has it, has its id among those left, or is
outnumbered: the tribbles newer than it, found or
still to be fetched, are at least `MaxTribs` (`Fetching`, `Covered`). Cutting a list at
`MaxTribs` keeps that; so does any arrangement newest first, and no sorted one has to be
exhibited, since `GetList` chooses among those there are.

### GotoProofs

`KeysAreUnique`, `SlavesAgree`, `KeysStayContiguous` and `NothingIsDropped`, for any requests, slaves,
queue, crashes and (`GotoAssumption`) a buffer size that is a number; `NothingIsDropped` until a restarted master appends
behind half a record (`~torn`). The first two are about what was
answered, so the invariant follows an answer from the map to the one who keeps it: a request
past `Set` has its key in the map (`SavingInv`), and so has what was acknowledged
(`AckedInv`), what is on its way to a connected slave (`AnsweredInv`) and what that slave has kept
(`CachedInv`). A crash empties the map, but then nobody is connected and nothing
acknowledged (`DownInv`). `KeysInv` says that the map is finite and, while it
has the first keys, that a request that has counted has one of them or the next. `FileInv` is about halves of records: file and buffer together
are whole records from the last start on, wherever a full buffer was cut, so that `Decoded`
finds what was flushed.

### LspProofs

`LspTypeCorrect`, and under one condition `LspStreamsInOrder` and `LspAckedMeansReceived`: for any
number of clients, payloads, losses, hasty epochs and closes, and (`LspAssumption`) any modulus of
the sequence numbers above 1. The condition, `OnceSpec`, is that the server enters no address
into `connMap` a second time; `met` is the history of the addresses it has entered. Without
it `StreamsInOrder` is false, as said below.

The invariant `Inv` is about one connection at a time. A payload is its own number in its
stream, CONNECT has number 0. `View(k)` collects what the streams of an end depend on, the
message included that `loopServe` waits with; `Pair(x, y, f, g)` says of the views of the two
ends, when `f` and `g` are the numbers at the front of their `sendBuf`:

* `Buffered`, `Sending`: `sendBuf`, `sendChan` and the message `loopServe` holds are consecutive, up to
  what was written; `nextSendSeqNum` is the number of the next one, modulo `SeqMod`;
* `Receiving`: what was read and `recvBuf` are 1, 2, ... and `nextRecvSeqNum` and `lastAck` go with
  their count `r`;
* `Linked`: `r <= f <= r + 1`, which is what stop and wait means;
* `DataFlow`: on the way to the receiver (socket, `loopServe`, `recvChan`) are copies of messages
  `r` and `f`, in this order. Without the order an old copy behind a new one
  would be taken for the message after it when the numbers wrap;
* `AckFlow`: an acknowledgement on the way that has the number of the front means `r = f`, and behind
  it are only such. This is why a repeated acknowledgement never removes the next message;
* `Unanswered`: until the server's end has sent its first acknowledgement nothing is on the way to
  the client.

`Met` says that an end of a client the server has not met is as it was made. A lemma `Pair...` or
`Flow...` per kind of step (a packet lost, posted, read or handed over; a message numbered,
acknowledged, received, read) shows that `Pair` is kept, a lemma `...Streams` that each
action is of such a kind. Numbers modulo 2 suffice because two consecutive ones differ (`NumFacts`).

`LspConnectionsKept` is about every behaviour of `Spec`, for any number of clients and payloads and any
`EpochLimit`. Until something disturbs the connection (`Disturbed`), `Kept` holds:

* `Talking`, for a client in `connMap`: both ends serve, have a `lastAck`, and have heard of each other
  (`HeardOf`). An end's silence is at most the number of packets lost plus one, and at its turn, with
  nothing `Coming` to it, at most that number: the peer's epoch, which came before, sent
  `lastAck`, so the packet was lost or has been received. An epoch in time finds all channels empty, so
  that nothing can be on the way for longer than one turn.
* `Greeting`, for the others: CONNECT is in `sendChan` or at the front of `sendBuf`, the server has sent
  nothing, and the first packet on the way to it is a CONNECT. Only the client's epochs repeat it, with
  `lastAck` behind it, and there is an epoch only when a CONNECT was lost. A second lost
  CONNECT would leave that `lastAck` in front, and the server would look up a connection that is
  not there.
* `LoopsRun`: no `loopServe` has stopped, closes or waits for an end that is gone.

### ProgramsProofs

`SearchOneResult`, `PollersOwnAlone`, `FeedClosesLast` and `FeedItemsOnce` (`FeedAssumption`: finitely
many subscriptions),
`ProxyOkMeansServed` and `ProxyCountsExact` (finitely many handlers). The counts are
those of a set of handlers, hence the finiteness; the invariants follow one resource, one
subscription, one call through its stations: `OwnerInv` (a resource that was started is with a
poller, asleep or awake, and no two of these), `CloseInv` (`Close` waits for as many errors as
goroutines have not sent theirs), `OnceInv` (what was read of a feed, what its loop still has and what
is handed on are different items, all of them seen, and until `Close` all that were seen; what a fetch
adds is new to `seen`, however its batch overlaps earlier ones), `OkInv` (whoever saw the override finds an answer for it until it
is off), `CountInv` (the counters, in the middle of a call and of a `Reset`).

The buffers: `BuffersAreQueues`, the refinement of `BufferSpec`, for any number of users and values
(`BufferAssumption`: 0, which stands for nil, is no user). `Holds(b, q)` relates the linked list to a
sequence: head, tail, count and links are those of `q`, without repetition; one lemma for each
operation of `bufi` says how it changes `q`, and `ContentsHolds` that `BufContents` is `q`. `BufInv` says who has
the token or gets the reply, that the deferred list has reads that wait without an answer,
and that a value on its way into the list is not there yet. Each step is then one operation
of the queue, or none.

### Only model-checked

* Liveness: `RestartedPrimaryLeavesView`, `CallsReturn`, `PutsReturn` (violated), `WritesDelivered` and the
  six of `programs_liveness`. The prover does not reason about fairness.
* The refinement of `LockSpec` and the three properties of `pb_service` with more failures than their
  theorems allow, and the streams of `Lsp` once an address is accepted again: there the
  properties are false, as said below (`ReplicasIdentical` with `kill` or plain restarts is not, but is not proved
  either), and the runs stay within the conditions.

Every invariant and action property of the passing runs, and both refinements, are thus
theorems. Where the code sorts or filters a sequence the model takes the set of the values it
may have (`Sorted` in `Tribbler`, `NewItems` in `FeedReader`), so that no proof needs an induction
over data; that these sets are never empty is not proved, and no safety property depends on it.

Induction over numbers is done by hand where it is needed: `LeastOfNat`, that a non-empty set of
naturals has a least element, applied to the set of counterexamples.

## What the models found

The violation runs are two disagreements between the code and its documentation or tests.
Two more have no run of their own:

* `viewservice/common.go:14` says that the primary is always the primary or the backup of the
  previous view. When both of an acknowledged view fall silent in one interval, `tick()`
  (`server.go:123`) fills the roles from all servers, so an idle one that knows the view's
  number becomes primary, with an empty store.
* `pbservice/test_test.go:707` and `:772` fail with "Get to old primary succeeded and produced
  stale value". `Get` (`server.go:35`) does not ask whether the server is the primary; with
  `Faults = {"slow"}` `GetsAreFresh` is violated by a replaced primary that answers a clerk with
  an old view.

A third is what the exception `overtaken` of `pb_service` is for. A primary sends a `Forward` of a Put and dies. The view
server promotes the backup, the clerk repeats its Put there, another Put of the same key follows, and both
return; only then the backup gets to the `Forward` that is still on the dead primary's connection
(`server.go:67`). `Forward` (`:80-97`) asks whether the server is the backup of its own view, which it learns of only
with its next `tick()`, and not of which view the caller was the primary: the first value replaces the second.
Crashes are enough for this. With `ReplicasIdentical` nothing of the kind happens: by the time a new backup
has the store the new primary knows its role and rejects the request.

Further ones seen with other values of `Faults` or `Failures` (`PBService` with two servers, two clerks, two Puts and
three views; `GetsAreFresh` and `PutsArePreserved` are violated with `kill`, with `restart` beside `crash`, with `slow`
and with `unreliable`; `ReplicasIdentical` is violated with `slow`, with `unreliable` and with `quick` restarts, and
holds with the others):

* `PBService` with `kill`: a killed primary still answers a Get it had accepted, after the promoted backup has taken
  a Put.
* with `crash`, `restart`, `quick` and `slow` (four views, one Put): two servers wait for each other for ever. A primary
  restarts, is told that it is primary of the old view and calls `Sync` with `pb.mu` held, while its ping has made the
  view server promote the backup; the new primary gets the restarted server as its backup and calls
  `Sync` there, with its own mutex held (`server.go:119-148`).
* `PBService` with `restart`: a clerk with an old view reads from a restarted, empty
  server (`GetsAreFresh`).
* with `restart` and `quick`: a primary that restarts before it is struck out is told it is
  primary and synchronises its empty store to the backup; and the retry loop in `tick()`
  acknowledges a view before the backup has the store (`PutsArePreserved`).
* with `unreliable`: a `Sync` or `Put` whose reply was discarded is executed late and
  overwrites newer values (`ReplicasIdentical`, and `GetsAreFresh` with two Puts).
* `ViewService`: a primary that falls silent while its view is unacknowledged keeps its
  idle flag and can become its own backup; `Sync` to itself then waits for its own mutex.

Modelled as the code has them and met in the traces, without a run of their own:

* `Lsp`: a client that writes before its first packet sends the payload with connection
  id 0 (`lsp_client.go:117`). An end that closes with nothing left to send waits on its own
  channel (`lsp_conn.go:159`), and a client's `Close` leaves `loopServe` waiting on a channel
  nobody receives from (`lsp_client.go:72`). A packet from an address that was removed
  panics the server (`lsp_server.go:149`). So does a client whose CONNECT was lost twice: its
  epoch repeats CONNECT and then sends `lastAck` (`lsp_conn.go:164-173`), and when only the second packet
  arrives the server looks up a connection it does not have. With `EpochLimit` up to 3 a second
  lost packet is beyond what epochs bridge anyway; from 4 on `ConnectionsKept` says it. `CloseAll` without connections never answers, and
  `Read` does not return nil for a lost connection as the interface says (`lsp.go:57`, `:83`).
  With `EpochLimit` = 2 and `MaxFaults` = 6 `StreamsInOrder` is violated: the server's end gives up and
  is removed while a CONNECT that an epoch repeated is still on its way; the server accepts
  it as a new connection (`lsp_server.go:139`) of a client that has already received payload 1 of the
  first one, and numbers what it writes from 1 again.
* `Storage`: a lease granted between `revokeLease` and the write serves the old value for
  its whole term; a renewed lease keeps its first `issueTime`, set in a copy
  (`storageimpl.go:108`), so it can be passed by when it should be revoked; two first
  leases of a key at once lose one holder (`:116`). `RevokedBeforeWrite` leaves these three out
  by requiring that the copy was live and on record when the revocation began. Two list
  updates at once lose one. A holder that has died takes the server down (`:148`), and
  `Grant` panics if the entry was evicted meanwhile (`cache.go:111`; needs two keys).
* `Tribbler`: a list that was read and kept between the reading and the writing of `AppendToList`
  (`storageimpl.go:230-249`) answers a reading that begins after the post returned OK, and the accepted tribble is
  left out; without the exemption of `old`, `TimelineComplete` is violated by this. A user who never followed, or never posted,
  has no list, and the answer is
  ENOSUCHUSER for a user that exists (`tribimpl.go:240`; `tribtest.go:439` and `:522` expect OK).
  Two calls of `CreateUser` for one name would both succeed (`:46`).
* `Goto`: requests enter the queue in another order than the map. After a crash a key can be
  missing below the last one; `Count` then names a key that is taken and `Put` loops for ever
  (`KeyTaken`). A crash also leaves half a record at the end of the file, and `load` stops there
  at every later start, whatever is appended behind it (`torn`). In versions 0 to 3 `Set` writes
  under the read lock, so two requests share a key; the slave of version 3 ends itself, its
  `saveLoop` cannot open the file "".
* `Buffers`: `List` of `dserver` hands out the live list, which the handler and gob read while
  the server changes it. gob drops the unexported `cnt`. `Contents` and `List` of the client
  assert the type of a reply before they look at the error (`rpclib.go:226`).
* `Chat`: in part 3 two managers take from one channel, so clients hear messages in
  different orders.

## Not modelled

In `Lsp`: time beyond the count of epochs, packets that are duplicated or overtake each
other, the parsing of packets, `lspnet`'s settings for dropping. In `Storage`: the values
themselves in the caches, a storage server that restarts, failing registration calls.
In `PBService`: failing pings and a killed view server; several keys (they do not interact
except in `Sync`, which replaces all); logging, flags and the accept loops' error
messages. In `Tribbler`: creating one name twice at a time; time and the protocol of the leases beneath (`Storage` has them:
here a copy may be used as long as its server lives, and an RPC of libstore does not fail). In `ProxyCounter`: `GetServers`
and the seconds of a lease. In `Goto`: the statistics,
files other than the store's own, and what a slave answers once its master has died: it redirects what is in its
cache and fails on everything else, as its one `rpc.Client` is never dialled again
(`store.go:151`). Not modelled at all: the lab skeletons (their handlers
are empty), the command line programs, the test drivers (`storagetest`, `libtest`, `tribtest`,
`goto/bench`), and the single-loop demonstrations (fan-in, daisy, ping-pong, part1). `PROJECT.json`
has the reason for each.

## Plan

The modules are done. What is left:

1. An abstract specification of an LSP connection, two FIFO streams, that `Lsp` implements.
2. Two keys in one cache, for `Grant`.
3. A run of its own for two p/b servers that wait for each other, and the proof that crashes alone
   do not lead there.
