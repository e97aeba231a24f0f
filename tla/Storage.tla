------------------------------ MODULE Storage ------------------------------
(***************************************************************************)
(* The storage of 15-440/P2-F11: storage servers that keep lists and       *)
(* values and lease them to caches (storageimpl), the client library that  *)
(* finds the server of a key (libstore) and its cache of leased values     *)
(* (cache).                                                                *)
(*                                                                         *)
(* A call is a goroutine of a process with a libstore; several calls run   *)
(* at once, in one process or in many, and the servers run the handlers    *)
(* concurrently.  A step of a call is what the code does under one lock,   *)
(* or one RPC arriving.  Time is counted in seconds.  What a cache holds   *)
(* is kept as the fact that it holds a copy and since when: the value a    *)
(* Get returns is never the subject of a step.                             *)
(***************************************************************************)
EXTENDS Integers, Sequences, FiniteSets, SequencesExt

CONSTANTS Servers,              \* NodeIDs of the storage servers, the lowest is the master's
          Keys, Hash,           \* keys and their StoreHash
          Items,                \* values and list items
          Libs,                 \* processes with a libstore
          Readers, Writers,     \* goroutines, <<lib, number>>, that get and that put
          LEASE_SECONDS, LEASE_GUARD_SECONDS, QUERY_CACHE_SECONDS, QUERY_CACHE_THRESH,
          MaxDelay,             \* seconds until the answer to a Get has arrived
          MaxTime,              \* bound: the clock
          MaxQueries,           \* bound: queries an entry remembers
          MaxWrites             \* bound: calls of Put, AppendToList and RemoveFromList

ASSUME StorageAssumption ==
    /\ Servers \subseteq Nat /\ Servers # {} /\ IsFiniteSet(Servers) /\ Hash \in [Keys -> Nat]
    /\ Readers \cup Writers \subseteq Libs \X Nat
    /\ {LEASE_SECONDS, LEASE_GUARD_SECONDS, QUERY_CACHE_SECONDS, QUERY_CACHE_THRESH,
        MaxDelay, MaxTime, MaxQueries, MaxWrites} \subseteq Nat
    /\ LEASE_GUARD_SECONDS > 0 /\ MaxDelay <= LEASE_GUARD_SECONDS /\ MaxDelay <= QUERY_CACHE_SECONDS

Calls == Readers \cup Writers

VARIABLES now,
          nodes,      \* the master's nodes: servers that have registered
          ring,       \* each libstore's nodes, which it keeps in order; empty before it is created
          crashed,    \* libstore processes that were killed
          panicked,   \* libstore processes and servers that died of a panic
          hashmap,    \* each server's hashmap
          leasePool,  \* each server's leasePool: the number of an entry, or 0
          entry,      \* leaseEntry objects
          cache,      \* the cache of each libstore
          call,       \* what each call is doing
          writes,
          duty        \* for each call: libstores whose copy it has to revoke (history)

vars == <<now, nodes, ring, crashed, panicked, hashmap, leasePool, entry, cache, call, writes, duty>>

Places == Servers \X Keys
Absent == <<"absent">>
Idle == [pc |-> "idle"]
NoCopy == [there |-> FALSE, granted |-> FALSE, leaseTime |-> 0, ll |-> <<>>]

Least(S) == CHOOSE s \in S : \A t \in S : s <= t

Master == Least(Servers)

Init ==
    /\ now = 0 /\ nodes = {Master} /\ ring = [l \in Libs |-> {}] /\ crashed = {} /\ panicked = {}
    /\ hashmap = [p \in Places |-> Absent] /\ leasePool = [p \in Places |-> 0] /\ entry = <<>>
    /\ cache = [l \in Libs |-> [k \in Keys |-> NoCopy]]
    /\ call = [c \in Calls |-> Idle] /\ writes = 0 /\ duty = [c \in Calls |-> {}]

storeVars == <<hashmap, leasePool, entry>>
ringVars == <<nodes, ring>>
deathVars == <<crashed, panicked>>

(***************************************************************************)
(* Start up.  A server registers with the master; a libstore is created    *)
(* once GetServers answers that all of them have.                          *)
(***************************************************************************)
RegisterServer(s) ==
    /\ s \notin nodes /\ nodes' = nodes \cup {s}
    /\ UNCHANGED <<now, ring, deathVars, storeVars, cache, call, writes, duty>>

\* Mutant: the answer is ready as soon as the master is.
ReadyAtOnce == nodes # {}

\* What RegisterServer and GetServers answer.
Ready == Cardinality(nodes) = Cardinality(Servers)

NewLibstore(l) ==
    /\ ring[l] = {} /\ Ready
    /\ ring' = [ring EXCEPT ![l] = nodes]
    /\ UNCHANGED <<now, nodes, deathVars, storeVars, cache, call, writes, duty>>

\* The first node whose id is not below the hash, else the first of all.
pickServer(l, k) ==
    LET above == {s \in ring[l] : s >= Hash[k]}
    IN Least(IF above = {} THEN ring[l] ELSE above)

(***************************************************************************)
(* The cache of a libstore: clean and evict, Get, Grant, Revoke.           *)
(***************************************************************************)
\* The queries from the first on that is not too old.
Clean(ll) ==
    LET recent == {i \in DOMAIN ll : now - ll[i] <= QUERY_CACHE_SECONDS}
    IN IF recent = {} THEN <<>> ELSE SubSeq(ll, Least(recent), Len(ll))

\* The leaseTime of an entry that is not granted is never read.
Ungranted(e) == [e EXCEPT !.granted = FALSE, !.leaseTime = 0]

Evicted(e) ==
    LET ll == Clean(e.ll)
    IN IF ~e.there \/ ll = <<>> THEN NoCopy
       ELSE IF e.granted /\ now - e.leaseTime > LEASE_SECONDS THEN [Ungranted(e) EXCEPT !.ll = ll]
       ELSE [e EXCEPT !.ll = ll]

Queried(e) == [e EXCEPT !.there = TRUE, !.ll = Append(@, now)]
Granted(e) == [e EXCEPT !.granted = TRUE, !.leaseTime = now]

Lib(c) == c[1]
Runs(l) == l \notin crashed \cup panicked
At(c, pc) == call[c].pc = pc
Goto(c, pc) == call' = [call EXCEPT ![c].pc = pc]
Return(c) == call' = [call EXCEPT ![c] = Idle]

(***************************************************************************)
(* iGet and iGetList: the cache, then the server's Get with addLeasePool,  *)
(* then Grant.                                                             *)
(***************************************************************************)
Get(c, k) ==
    /\ c \in Readers /\ At(c, "idle") /\ Runs(Lib(c)) /\ ring[Lib(c)] # {}
    /\ LET kept == [j \in Keys |-> Evicted(cache[Lib(c)][j])]
           e == kept[k]
       IN IF e.granted
          THEN cache' = [cache EXCEPT ![Lib(c)] = kept] /\ UNCHANGED call
          ELSE /\ Len(e.ll) < MaxQueries
               /\ cache' = [cache EXCEPT ![Lib(c)] = [kept EXCEPT ![k] = Queried(e)]]
               /\ call' = [call EXCEPT ![c] =
                     [pc |-> "read", place |-> <<pickServer(Lib(c), k), k>>, since |-> now,
                      wantLease |-> Len(e.ll) + 1 > QUERY_CACHE_THRESH]]
    /\ UNCHANGED <<now, ringVars, deathVars, storeVars, writes, duty>>

ServerUp(c) == call[c].place[1] \notin panicked

\* StorageServer.Get reads the hashmap; an absent key is an error.
ReadValue(c) ==
    /\ At(c, "read") /\ ServerUp(c)
    /\ IF hashmap[call[c].place] = Absent THEN Return(c)
       ELSE call' = [call EXCEPT ![c] = [pc |-> IF @.wantLease THEN "addLease" ELSE "reply",
                        place |-> @.place, since |-> @.since, granted |-> FALSE, entry |-> 0]]
    /\ UNCHANGED <<now, ringVars, deathVars, storeVars, cache, writes, duty>>

Holds(e, l) == \E i \in DOMAIN e.holders : e.holders[i].address = l
\* Mutant: the holder is dated by the end of its lease.
AddHolderUntil(e, l) == [e EXCEPT !.holders = Append(@, [address |-> l, issueTime |-> now + LEASE_SECONDS])]

AddHolder(e, l) == [e EXCEPT !.holders = Append(@, [address |-> l, issueTime |-> now])]

\* addLeasePool with an entry in the pool.  A second lease of the same holder
\* keeps the old issueTime: the loop sets it in a copy of the holder.
AddLease(c) ==
    /\ At(c, "addLease") /\ ServerUp(c) /\ leasePool[call[c].place] # 0
    /\ LET n == leasePool[call[c].place]
       IN /\ entry' = IF entry[n].pending \/ Holds(entry[n], Lib(c)) THEN entry
                      ELSE [entry EXCEPT ![n] = AddHolder(@, Lib(c))]
          /\ call' = [call EXCEPT ![c].pc = "reply", ![c].granted = ~entry[n].pending]
    /\ UNCHANGED <<now, ringVars, deathVars, hashmap, leasePool, cache, writes, duty>>

\* addLeasePool without one: it puts a new entry into the pool, whatever another
\* call has put there since, and then adds the holder.
LeaseMissing(c) ==
    /\ At(c, "addLease") /\ ServerUp(c) /\ leasePool[call[c].place] = 0
    /\ Goto(c, "newEntry")
    /\ UNCHANGED <<now, ringVars, deathVars, storeVars, cache, writes, duty>>

NewEntry(c) ==
    /\ At(c, "newEntry") /\ ServerUp(c)
    /\ entry' = Append(entry, [pending |-> FALSE, holders |-> <<>>])
    /\ leasePool' = [leasePool EXCEPT ![call[c].place] = Len(entry')]
    /\ call' = [call EXCEPT ![c].pc = "addHolder", ![c].entry = Len(entry')]
    /\ UNCHANGED <<now, ringVars, deathVars, hashmap, cache, writes, duty>>

AddFirstHolder(c) ==
    /\ At(c, "addHolder") /\ ServerUp(c)
    /\ entry' = [entry EXCEPT ![call[c].entry] = AddHolder(@, Lib(c))]
    /\ call' = [call EXCEPT ![c].pc = "reply", ![c].granted = TRUE]
    /\ UNCHANGED <<now, ringVars, deathVars, hashmap, leasePool, cache, writes, duty>>

\* The answer arrives; Cache.Grant panics if the entry was evicted meanwhile.
GetReply(c) ==
    /\ At(c, "reply") /\ Runs(Lib(c)) /\ ServerUp(c)
    /\ LET k == call[c].place[2]
           l == Lib(c)
       IN \/ ~call[c].granted /\ UNCHANGED <<cache, panicked, duty>>
          \/ /\ call[c].granted /\ cache[l][k].there
             /\ cache' = [cache EXCEPT ![l][k] = Granted(@)]
             /\ duty' = [d \in Calls |-> IF call[d].pc # "idle" /\ call[d].place[2] = k THEN duty[d] \ {l} ELSE duty[d]]
             /\ UNCHANGED panicked
          \/ /\ call[c].granted /\ ~cache[l][k].there
             /\ panicked' = panicked \cup {l} /\ UNCHANGED <<cache, duty>>
    /\ Return(c)
    /\ UNCHANGED <<now, ringVars, crashed, storeVars, writes>>

(***************************************************************************)
(* Put, AppendToList and RemoveFromList: revokeLease, then the hashmap.    *)
(* RemoveFromList has read the list before it revokes, AppendToList reads  *)
(* it afterwards, in a lock of its own.                                    *)
(***************************************************************************)
BeginWrite(c, op, k, x) ==
    /\ c \in Writers /\ At(c, "idle") /\ Runs(Lib(c)) /\ ring[Lib(c)] # {} /\ writes < MaxWrites
    /\ LET p == <<pickServer(Lib(c), k), k>>
       IN /\ p[1] \notin panicked
          /\ op = "Remove" => hashmap[p] # Absent
          /\ call' = [call EXCEPT ![c] =
                [pc |-> "revokeLease", op |-> op, place |-> p, item |-> x, entry |-> 0, todo |-> <<>>,
                 since |-> 0, val |-> IF op = "Remove" THEN hashmap[p] ELSE <<>>]]
    /\ writes' = writes + 1
    /\ UNCHANGED <<now, ringVars, deathVars, storeVars, cache, duty>>

Live(l, k) == Runs(l) /\ cache[l][k].granted /\ now - cache[l][k].leaseTime <= LEASE_SECONDS

\* The server's entry has this lease of l: the issueTime there is that of the copy in l's cache.
OnRecord(l, n, k) ==
    \E i \in DOMAIN entry[n].holders :
        /\ entry[n].holders[i].address = l
        /\ cache[l][k].leaseTime - entry[n].holders[i].issueTime <= MaxDelay

\* revokeLease marks the entry and goes through the holders it has now.
revokeLease(c) ==
    /\ At(c, "revokeLease") /\ ServerUp(c)
    /\ LET n == leasePool[call[c].place]
           k == call[c].place[2]
       IN \/ n = 0 /\ Goto(c, "write") /\ UNCHANGED <<entry, duty>>
          \/ /\ n # 0
             /\ entry' = [entry EXCEPT ![n].pending = TRUE]
             /\ call' = [call EXCEPT ![c].pc = "revoking", ![c].entry = n, ![c].todo = entry[n].holders]
             /\ duty' = [duty EXCEPT ![c] = {l \in Libs : Live(l, k) /\ OnRecord(l, n, k)}]
    /\ UNCHANGED <<now, ringVars, deathVars, hashmap, leasePool, cache, writes>>

\* Mutant: no guard seconds.
LeaseOverNoGuard(h) == now - h.issueTime > LEASE_SECONDS

\* How long after its issueTime a lease is still revoked.
LeaseOver(h) == now - h.issueTime > LEASE_SECONDS + LEASE_GUARD_SECONDS

RevokeNext(c) ==
    /\ At(c, "revoking") /\ ServerUp(c) /\ call[c].todo # <<>>
    /\ LET h == Head(call[c].todo)
       IN \/ LeaseOver(h) /\ call' = [call EXCEPT ![c].todo = Tail(@)] /\ UNCHANGED panicked
          \/ /\ ~LeaseOver(h) /\ Runs(h.address)
             /\ call' = [call EXCEPT ![c].pc = "calling", ![c].since = now] /\ UNCHANGED panicked
          \* DialHTTP fails: the deferred cli.Close() is a call on nil
          \/ /\ ~LeaseOver(h) /\ ~Runs(h.address)
             /\ panicked' = panicked \cup {call[c].place[1]} /\ UNCHANGED call
    /\ UNCHANGED <<now, ringVars, crashed, storeVars, cache, writes, duty>>

Called(c) == call' = [call EXCEPT ![c].pc = "revoking", ![c].todo = Tail(@)]

\* CacheRPC.RevokeLease at the holder (or its error, when it has died).
RevokeLease(c) ==
    /\ At(c, "calling") /\ ServerUp(c) /\ Called(c)
    /\ LET l == Head(call[c].todo).address
       IN cache' = IF Runs(l) THEN [cache EXCEPT ![l][call[c].place[2]] = Ungranted(@)] ELSE cache
    /\ UNCHANGED <<now, ringVars, deathVars, storeVars, writes, duty>>

\* The holder does not answer for as long as a lease lasts; its handler does no more than revoke.
RevokeTimeout(c) ==
    /\ At(c, "calling") /\ ServerUp(c) /\ now - call[c].since >= LEASE_SECONDS + LEASE_GUARD_SECONDS
    /\ Called(c)
    /\ UNCHANGED <<now, ringVars, deathVars, storeVars, cache, writes, duty>>

RevokeDone(c) ==
    /\ At(c, "revoking") /\ ServerUp(c) /\ call[c].todo = <<>>
    /\ entry' = [entry EXCEPT ![call[c].entry].pending = FALSE]
    /\ Goto(c, "write")
    /\ UNCHANGED <<now, ringVars, deathVars, hashmap, leasePool, cache, writes, duty>>

Written(c, v) ==
    /\ hashmap' = [hashmap EXCEPT ![call[c].place] = v] /\ Return(c)
    /\ duty' = [duty EXCEPT ![c] = {}]

Put(c) == call[c].op = "Put" /\ Written(c, <<call[c].item>>)

\* json.Unmarshal of a missing value leaves the list empty.
ReadList(c) ==
    /\ call[c].op = "Append"
    /\ LET l == IF hashmap[call[c].place] = Absent THEN <<>> ELSE hashmap[call[c].place]
       IN IF Contains(l, call[c].item) THEN Return(c) /\ duty' = [duty EXCEPT ![c] = {}]
          ELSE call' = [call EXCEPT ![c].pc = "append", ![c].val = l] /\ UNCHANGED duty
    /\ UNCHANGED hashmap

RemoveFromList(c) ==
    /\ call[c].op = "Remove"
    /\ IF Contains(call[c].val, call[c].item) THEN Written(c, RemoveFirst(call[c].val, call[c].item))
       ELSE Return(c) /\ duty' = [duty EXCEPT ![c] = {}] /\ UNCHANGED hashmap

Write(c) ==
    /\ \/ At(c, "write") /\ ServerUp(c) /\ (Put(c) \/ ReadList(c) \/ RemoveFromList(c))
       \/ At(c, "append") /\ ServerUp(c) /\ Written(c, Append(call[c].val, call[c].item))
    /\ UNCHANGED <<now, ringVars, deathVars, leasePool, entry, cache, writes>>

\* A second passes.  The answer to a Get takes MaxDelay at most.
Getting(c) == call[c].pc \in {"read", "addLease", "newEntry", "addHolder", "reply"}
Tick ==
    /\ now < MaxTime /\ now' = now + 1
    /\ \A c \in Calls : Getting(c) /\ Runs(Lib(c)) /\ ServerUp(c) => now < call[c].since + MaxDelay
    /\ UNCHANGED <<ringVars, deathVars, storeVars, cache, call, writes, duty>>

Crash(l) ==
    /\ Runs(l) /\ ring[l] # {} /\ crashed = {} /\ crashed' = {l}
    /\ cache' = [cache EXCEPT ![l] = [k \in Keys |-> NoCopy]]
    /\ UNCHANGED <<now, ringVars, panicked, storeVars, call, writes, duty>>

Handler(c) ==
    \/ ReadValue(c) \/ AddLease(c) \/ LeaseMissing(c) \/ NewEntry(c) \/ AddFirstHolder(c)
    \/ revokeLease(c) \/ RevokeNext(c) \/ RevokeLease(c) \/ RevokeTimeout(c) \/ RevokeDone(c) \/ Write(c)

Next ==
    \/ \E s \in Servers : RegisterServer(s)
    \/ \E l \in Libs : NewLibstore(l) \/ Crash(l)
    \/ \E c \in Calls : \/ Handler(c) \/ GetReply(c)
                        \/ \E k \in Keys : \/ Get(c, k)
                                           \/ \E op \in {"Put", "Append", "Remove"}, x \in Items : BeginWrite(c, op, k, x)
    \/ Tick

Spec == Init /\ [][Next]_vars

(***************************************************************************)
(* Properties                                                              *)
(***************************************************************************)
\* Type invariant of the servers, the caches and the calls.
TypeOK ==
    /\ now \in 0 .. MaxTime /\ nodes \subseteq Servers /\ writes \in 0 .. MaxWrites
    /\ \A l \in Libs : ring[l] \subseteq Servers /\ \A k \in Keys : Len(cache[l][k].ll) <= MaxQueries
    /\ crashed \subseteq Libs /\ panicked \subseteq Libs \cup Servers
    /\ \A p \in Places : leasePool[p] \in 0 .. Len(entry) /\ hashmap[p] \in Seq(Items) \cup {Absent}
    /\ \A n \in DOMAIN entry : \A i \in DOMAIN entry[n].holders :
          entry[n].holders[i].address \in Libs /\ entry[n].holders[i].issueTime \in 0 .. now
    /\ \A c \in Calls : duty[c] \subseteq Libs

\* When a Put, AppendToList or RemoveFromList is about to write, no cache still
\* serves a copy that it held when revokeLease began, provided the server's
\* holders date that lease: the holder was called back, or it did not answer
\* until its lease was over, or the server passed it by because
\* LEASE_SECONDS + LEASE_GUARD_SECONDS had gone, which is enough although the
\* holder counts from the arrival of the answer and the server from issueTime.
RevokedBeforeWrite ==
    \A c \in Calls : call[c].pc \in {"write", "append"} =>
        \A l \in duty[c] : ~Live(l, call[c].place[2])

\* No two servers hold the same key: every libstore starts with the complete
\* list of servers (GetServers), so pickServer sends all of them to one server.
KeysHaveOneServer ==
    \A k \in Keys : \A s, t \in Servers : hashmap[<<s, k>>] # Absent /\ hashmap[<<t, k>>] # Absent => s = t
=============================================================================
