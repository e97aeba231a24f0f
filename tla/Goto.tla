-------------------------------- MODULE Goto --------------------------------
(***************************************************************************)
(* The URL shortener goto: a master with a URLStore, and slaves whose      *)
(* ProxyStore keeps what it has seen.  version selects the program: 0 to 3 *)
(* are the steps under goto/code, 4 is the final one.                      *)
(*                                                                         *)
(*   0  the map only                                                       *)
(*   1  Put writes a record to the file                                    *)
(*   2  Put queues the record, saveLoop writes it                          *)
(*   3  slaves                                                             *)
(*   4  Set under a write lock; saveLoop writes through a buffer           *)
(*                                                                         *)
(* A call is an HTTP request, handled by a goroutine of the master or of a *)
(* slave, which calls the master.  Every call adds a URL of its own, its   *)
(* number.  Requests that change nothing (the form, Redirect of a key the  *)
(* store has, errors) are no steps.                                        *)
(***************************************************************************)
EXTENDS Integers, Sequences, FiniteSets

CONSTANTS Versions,          \* the versions to look at
          Calls, Slaves,
          Base,              \* len(keyChar), 62 in the code
          SaveQueueLength,   \* 1000 in the code
          BufferSize,        \* of the bufio.Writer, in half records
          MaxPuts,           \* bound: URLs that are added
          MaxCrashes         \* bound: times the master dies

ASSUME GotoAssumption == BufferSize \in Nat

VARIABLES version,
          up,        \* the master runs
          urls,      \* its map
          queue,     \* the channel save
          buffer,    \* of the bufio.Writer
          file,      \* the data file, in halves of records
          call,      \* what each request is doing
          cached,    \* each slave's map
          link,      \* slaves whose rpc.Client is connected
          puts,
          acked,     \* history: records whose Put returned since the master started
          crashes,
          holed,     \* history: the map was loaded with a key missing
          torn       \* history: the file was appended to behind half a record

gotoVars == <<version, up, urls, queue, buffer, file, call, cached, link, puts, acked, crashes, holed, torn>>
storeVars == <<up, queue, buffer, file>>
slaveVars == <<cached, link>>
pastVars == <<version, crashes, holed, torn>>

GotoNodes == {"master"} \cup Slaves
NoUrls == [k \in {} |-> 0]
Record(k, u) == [key |-> k, url |-> u]
NoCall == [pc |-> "idle", node |-> "master", key |-> <<>>, url |-> 0]

\* The digits of n, most significant first.
genKey[n \in Nat] == IF n < Base THEN <<n>> ELSE Append(genKey[(n - (n % Base)) \div Base], n % Base)

Stored(map, k, u) == [x \in DOMAIN map \cup {k} |-> IF x = k THEN u ELSE map[x]]
SetIfAbsent(map, k, u) == IF k \in DOMAIN map THEN map ELSE Stored(map, k, u)

(***************************************************************************)
(* The file.  Encode makes one Write of a record; the bufio.Writer hands   *)
(* on whole buffers, so that a record may be cut in two.                   *)
(***************************************************************************)
Halves(r) == <<<<r, 1>>, <<r, 2>>>>

\* load: records up to the first that does not decode.
Good(f, i) == 2 * i <= Len(f) /\ f[2 * i - 1][2] = 1 /\ f[2 * i] = <<f[2 * i - 1][1], 2>>
Decoded(f) ==
    LET n == CHOOSE i \in 0 .. Len(f) : (\A j \in 1 .. i : Good(f, j)) /\ ~Good(f, i + 1)
    IN [i \in 1 .. n |-> f[2 * i - 1][1]]

\* The map after s.Set of each record in turn: the first one of a key stays.
Loaded(records) ==
    LET keys == {records[i].key : i \in DOMAIN records}
        first(k) == CHOOSE i \in DOMAIN records : records[i].key = k /\ \A j \in 1 .. i - 1 : records[j].key # k
    IN [k \in keys |-> records[first(k)].url]

Contiguous(map) == DOMAIN map = {genKey[i] : i \in 0 .. Cardinality(DOMAIN map) - 1}

GotoInit ==
    /\ version \in Versions
    /\ up = TRUE /\ urls = NoUrls /\ queue = <<>> /\ buffer = <<>> /\ file = <<>>
    /\ call = [c \in Calls |-> NoCall]
    /\ cached = [s \in Slaves |-> NoUrls] /\ link = Slaves
    /\ puts = 0 /\ acked = {} /\ crashes = 0 /\ holed = FALSE /\ torn = FALSE

(***************************************************************************)
(* Add and URLStore.Put.                                                   *)
(***************************************************************************)
CallAt(c, pc) == call[c].pc = pc
AtMaster(c) == call[c].pc \in {"count", "set", "write", "save"}
GoOn(c, pc) == call' = [call EXCEPT ![c].pc = pc]

Add(c, n) ==
    /\ CallAt(c, "idle") /\ up /\ puts < MaxPuts
    /\ n # "master" => version >= 3 /\ n \in link
    /\ puts' = puts + 1
    /\ call' = [call EXCEPT ![c] = [pc |-> "count", node |-> n, key |-> <<>>, url |-> puts + 1]]
    /\ UNCHANGED <<storeVars, urls, slaveVars, acked, pastVars>>

\* Mutant: one too many is counted.
CountOneMore(c) ==
    /\ CallAt(c, "count")
    /\ call' = [call EXCEPT ![c].pc = "set", ![c].key = genKey[Cardinality(DOMAIN urls) + 1]]
    /\ UNCHANGED <<storeVars, urls, slaveVars, puts, acked, pastVars>>

\* Mutant: the field count is used, which nothing updates.
CountField(c) ==
    /\ CallAt(c, "count")
    /\ call' = [call EXCEPT ![c].pc = "set", ![c].key = genKey[0]]
    /\ UNCHANGED <<storeVars, urls, slaveVars, puts, acked, pastVars>>

Count(c) ==
    /\ CallAt(c, "count")
    /\ call' = [call EXCEPT ![c] = [pc |-> "set", node |-> @.node, key |-> genKey[Cardinality(DOMAIN urls)], url |-> @.url]]
    /\ UNCHANGED <<storeVars, urls, slaveVars, puts, acked, pastVars>>

\* Mutant: a key that is present is overwritten.
SetAnyway(c) ==
    /\ CallAt(c, "set") /\ version = 4
    /\ urls' = Stored(urls, call[c].key, call[c].url) /\ GoOn(c, "save")
    /\ UNCHANGED <<storeVars, slaveVars, puts, acked, pastVars>>

\* Set under mu.Lock; Put tries again when the key is present.
Set(c) ==
    /\ CallAt(c, "set") /\ version = 4
    /\ urls' = SetIfAbsent(urls, call[c].key, call[c].url)
    /\ GoOn(c, IF call[c].key \in DOMAIN urls THEN "count" ELSE "save")
    /\ UNCHANGED <<storeVars, slaveVars, puts, acked, pastVars>>

\* Set under mu.RLock: others may be in it between the look and the write.
SetLook(c) ==
    /\ CallAt(c, "set") /\ version < 4
    /\ GoOn(c, IF call[c].key \in DOMAIN urls THEN "count" ELSE "write")
    /\ UNCHANGED <<storeVars, urls, slaveVars, puts, acked, pastVars>>

SetWrite(c) ==
    /\ CallAt(c, "write")
    /\ urls' = Stored(urls, call[c].key, call[c].url) /\ GoOn(c, "save")
    /\ UNCHANGED <<storeVars, slaveVars, puts, acked, pastVars>>

\* Put returns: the master answers its client, or the slave that called.
Answer(c) ==
    /\ acked' = acked \cup {Record(call[c].key, call[c].url)}
    /\ IF call[c].node = "master" THEN call' = [call EXCEPT ![c] = NoCall] ELSE GoOn(c, "added")

NoSave(c) ==
    /\ CallAt(c, "save") /\ version = 0 /\ Answer(c)
    /\ UNCHANGED <<storeVars, urls, slaveVars, puts, pastVars>>

SaveToFile(c) ==
    /\ CallAt(c, "save") /\ version = 1 /\ Answer(c)
    /\ file' = file \o Halves(Record(call[c].key, call[c].url))
    /\ UNCHANGED <<up, queue, buffer, urls, slaveVars, puts, pastVars>>

Enqueue(c) ==
    /\ CallAt(c, "save") /\ version >= 2 /\ Len(queue) < SaveQueueLength /\ Answer(c)
    /\ queue' = Append(queue, Record(call[c].key, call[c].url))
    /\ UNCHANGED <<up, buffer, file, urls, slaveVars, puts, pastVars>>

(***************************************************************************)
(* saveLoop.                                                               *)
(***************************************************************************)
SaveUnbuffered ==
    /\ up /\ version \in {2, 3} /\ queue # <<>>
    /\ queue' = Tail(queue) /\ file' = file \o Halves(Head(queue))
    /\ UNCHANGED <<up, buffer, urls, call, slaveVars, puts, acked, pastVars>>

\* Mutant: what does not fit into the buffer is left out.
SaveTruncated ==
    /\ up /\ version = 4 /\ queue # <<>>
    /\ queue' = Tail(queue)
    /\ LET all == buffer \o Halves(Head(queue))
       IN IF Len(all) <= BufferSize THEN buffer' = all /\ UNCHANGED file
          ELSE file' = file \o SubSeq(all, 1, BufferSize) /\ buffer' = <<>>
    /\ UNCHANGED <<up, urls, call, slaveVars, puts, acked, pastVars>>

Save ==
    /\ up /\ version = 4 /\ queue # <<>>
    /\ queue' = Tail(queue)
    /\ LET all == buffer \o Halves(Head(queue))
       IN IF Len(all) <= BufferSize THEN buffer' = all /\ UNCHANGED file
          ELSE /\ file' = file \o SubSeq(all, 1, BufferSize)
               /\ buffer' = SubSeq(all, BufferSize + 1, Len(all))
    /\ UNCHANGED <<up, urls, call, slaveVars, puts, acked, pastVars>>

\* Mutant: the ticker is never read.
FlushNever == FALSE /\ UNCHANGED gotoVars

FlushBuffer ==
    /\ up /\ buffer # <<>>
    /\ file' = file \o buffer /\ buffer' = <<>>
    /\ UNCHANGED <<up, queue, urls, call, slaveVars, puts, acked, pastVars>>

(***************************************************************************)
(* The slaves: ProxyStore.Get and Put.                                     *)
(***************************************************************************)
\* Redirect at a slave that does not have the key: it asks the master.
ProxyGet(c, s, k) ==
    /\ CallAt(c, "idle") /\ up /\ version >= 3 /\ s \in link
    /\ k \in DOMAIN urls /\ k \notin DOMAIN cached[s]
    /\ call' = [call EXCEPT ![c] = [pc |-> "got", node |-> s, key |-> k, url |-> urls[k]]]
    /\ UNCHANGED <<storeVars, urls, slaveVars, puts, acked, pastVars>>

\* Mutant: the slave keeps the URL under the next key.
ProxySetNext(c) ==
    /\ call[c].pc \in {"added", "got"}
    /\ cached' = [cached EXCEPT ![call[c].node] = SetIfAbsent(@, genKey[Cardinality(DOMAIN @)], call[c].url)]
    /\ call' = [call EXCEPT ![c] = NoCall]
    /\ UNCHANGED <<storeVars, urls, link, puts, acked, pastVars>>

\* s.urls.Set(key, url), whose error is ignored, and the answer to the client.
ProxySet(c) ==
    /\ call[c].pc \in {"added", "got"}
    /\ cached' = [cached EXCEPT ![call[c].node] = SetIfAbsent(@, call[c].key, call[c].url)]
    /\ call' = [call EXCEPT ![c] = NoCall]
    /\ UNCHANGED <<storeVars, urls, link, puts, acked, pastVars>>

\* A slave starts again: NewProxyStore dials the master once.
NewProxyStore(s) ==
    /\ version >= 3 /\ s \notin link /\ up
    /\ \A c \in Calls : call[c].node # s
    /\ link' = link \cup {s} /\ cached' = [cached EXCEPT ![s] = NoUrls]
    /\ UNCHANGED <<storeVars, urls, call, puts, acked, pastVars>>

\* In version 3 the slave's own URLStore has a saveLoop too, which cannot open
\* the file "" and ends the process; what it asked of the master goes on there.
SlaveExits(s) ==
    /\ version = 3 /\ s \in link
    /\ link' = link \ {s} /\ cached' = [cached EXCEPT ![s] = NoUrls]
    /\ call' = [c \in Calls |-> IF call[c].node # s THEN call[c]
                               ELSE IF AtMaster(c) THEN [call[c] EXCEPT !.node = "master"] ELSE NoCall]
    /\ UNCHANGED <<storeVars, urls, puts, acked, pastVars>>

(***************************************************************************)
(* The master dies, and starts again with NewURLStore.                     *)
(***************************************************************************)
MasterDies ==
    /\ up /\ crashes < MaxCrashes
    /\ crashes' = crashes + 1 /\ up' = FALSE
    /\ urls' = NoUrls /\ queue' = <<>> /\ buffer' = <<>>
    /\ call' = [c \in Calls |-> IF AtMaster(c) THEN NoCall ELSE call[c]]
    /\ link' = {} /\ acked' = {}
    /\ UNCHANGED <<version, file, cached, puts, holed, torn>>

NewURLStore ==
    /\ ~up /\ up' = TRUE
    /\ urls' = Loaded(Decoded(file))
    /\ holed' = ~Contiguous(urls')
    /\ torn' = (2 * Len(Decoded(file)) # Len(file))
    /\ UNCHANGED <<version, queue, buffer, file, call, slaveVars, puts, acked, crashes>>

PutStep(c) ==
    \/ Count(c) \/ Set(c) \/ SetLook(c) \/ SetWrite(c)
    \/ NoSave(c) \/ SaveToFile(c) \/ Enqueue(c) \/ ProxySet(c)
SaveLoop == SaveUnbuffered \/ Save

GotoNext ==
    \/ \E c \in Calls : \/ PutStep(c) \/ \E n \in GotoNodes : Add(c, n)
                        \/ \E s \in Slaves, k \in DOMAIN urls : ProxyGet(c, s, k)
    \/ SaveLoop \/ FlushBuffer
    \/ \E s \in Slaves : NewProxyStore(s) \/ SlaveExits(s)
    \/ MasterDies \/ NewURLStore

GotoSpec == GotoInit /\ [][GotoNext]_gotoVars

(***************************************************************************)
(* Properties                                                              *)
(***************************************************************************)
\* A key that Put gave out redirects to the URL it was given out for, and to
\* no other, while the master runs: two requests that counted the same map
\* never share a key (Put's loop over Count and Set).  Only since Set takes
\* the write lock.
KeysUnique ==
    up /\ version = 4 => \A r \in acked : r.key \in DOMAIN urls /\ urls[r.key] = r.url

\* A record whose Put returned is in the queue, in the buffer or where load
\* will find it, in every version with a file, until the master dies; also
\* when the buffer hands on half of it (Put, saveLoop, load).  Not so once the
\* file has been appended to behind half a record.
NothingDropped ==
    up /\ version > 0 /\ ~torn =>
        \A r \in acked : \/ \E i \in DOMAIN queue : queue[i] = r
                         \/ \E i \in DOMAIN buffer : buffer[i][1] = r
                         \/ \E i \in DOMAIN Decoded(file) : Decoded(file)[i] = r

\* A connected slave redirects as the master does (ProxyStore.Get and Put,
\* which ignore the error of Set).  Without a connection it goes on with
\* what it has, and with it versions before 4 can differ.
CachesAgree ==
    version = 4 => \A s \in link : \A k \in DOMAIN cached[s] : k \in DOMAIN urls /\ urls[k] = cached[s][k]

\* The keys in the map are the first ones genKey makes, or Put's next key may
\* be taken, except after load has found a later record without an earlier
\* one: requests enter the queue in another order than they enter the map.
KeysContiguous == up /\ ~holed => Contiguous(urls)

\* Count's next key is in the map: Set fails, and Count finds the same again.
KeyTaken == up /\ genKey[Cardinality(DOMAIN urls)] \in DOMAIN urls

\* Put returns (its loop over Count and Set, the queue that may be full), unless
\* load left such a gap that the next key is taken, or the master dies.
PutsEnd == \A c \in Calls : AtMaster(c) ~> (~AtMaster(c) \/ KeyTaken)

\* The ticker brings every record whose Put returned into the file, unless the
\* master dies first.
AckedGetsSaved ==
    (up /\ version > 0 /\ acked # {}) ~>
        (~up \/ \A r \in acked : \E i \in DOMAIN file : file[i] = <<r, 2>>)
=============================================================================
