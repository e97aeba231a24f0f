--------------------------- MODULE StorageProofs ---------------------------
(* Theorems about the storage servers, the libstores and their caches, for  *)
(* any number of servers, keys, libstores and calls and any lengths of the  *)
(* leases, the guard and the delays that StorageAssumption admits.          *)
EXTENDS Storage, SequenceTheorems, FiniteSetTheorems, WellFoundedInduction, TLAPS

Value == Seq(Items) \cup {Absent}
Holder == [address : Libs, issueTime : 0 .. MaxTime]
LeaseEntry == [pending : BOOLEAN, holders : Seq(Holder)]
Copy == [there : BOOLEAN, granted : BOOLEAN, leaseTime : 0 .. MaxTime, ll : Seq(0 .. MaxTime)]

\* What a Get is doing, before and after it has read the value, and what the
\* calls that write are doing.
AskPcs == {"addLease", "newEntry", "addHolder", "reply"}
WritePcs == {"revokeLease", "revoking", "calling", "write", "append"}
ReadCall == [pc : {"read"}, place : Places, since : 0 .. MaxTime, wantLease : BOOLEAN]
AskCall == [pc : AskPcs, place : Places, since : 0 .. MaxTime, granted : BOOLEAN, entry : Nat]
WriteCall == [pc : WritePcs, op : {"Put", "Append", "Remove"}, place : Places, item : Items,
              entry : Nat, todo : Seq(Holder), since : 0 .. MaxTime, val : Seq(Items)]

\* The values the variables range over.
Shape ==
    /\ now \in 0 .. MaxTime /\ writes \in 0 .. MaxWrites
    /\ nodes \in SUBSET Servers /\ crashed \in SUBSET Libs /\ panicked \in SUBSET (Libs \cup Servers)
    /\ ring \in [Libs -> SUBSET Servers]
    /\ hashmap \in [Places -> Value] /\ leasePool \in [Places -> Nat]
    /\ entry \in Seq(LeaseEntry)
    /\ cache \in [Libs -> [Keys -> Copy]]
    /\ call \in [Calls -> {Idle} \cup ReadCall \cup AskCall \cup WriteCall]
    /\ duty \in [Calls -> SUBSET Libs]

\* An entry of a pool is there, and nothing is dated in the future.
DateInv ==
    /\ \A p \in Places : leasePool[p] <= Len(entry)
    /\ \A n \in DOMAIN entry : \A i \in DOMAIN entry[n].holders : entry[n].holders[i].issueTime <= now
    /\ \A l \in Libs, k \in Keys : Len(cache[l][k].ll) <= MaxQueries /\ cache[l][k].leaseTime <= now

\* The server of a key for a libstore that knows all of them.
Home(k) ==
    LET above == {s \in Servers : s >= Hash[k]}
    IN Least(IF above = {} THEN Servers ELSE above)

\* A libstore that is there knows all servers, so that every call goes to the
\* key's own server, and the key is nowhere else.
HomeInv ==
    /\ \A l \in Libs : ring[l] \in {{}, Servers}
    /\ \A c \in Calls : call[c] # Idle => call[c].place[1] = Home(call[c].place[2])
    /\ \A p \in Places : hashmap[p] # Absent => p[1] = Home(p[2])

\* One of the holders a call still has to go through is that of l's copy.
Listed(c, l) ==
    \E i \in DOMAIN call[c].todo :
        /\ call[c].todo[i].address = l
        /\ cache[l][call[c].place[2]].leaseTime - call[c].todo[i].issueTime <= MaxDelay

\* A copy a call has to revoke is dead already or still on the call's list; while
\* the call waits for a holder, no copy is newer than the wait.
CallDuty(c) ==
    /\ call[c].pc \notin {"revoking", "calling", "write", "append"} => duty[c] = {}
    /\ call[c].pc \in {"revoking", "calling"} =>
          \A l \in duty[c] : Live(l, call[c].place[2]) => Listed(c, l)
    /\ call[c].pc = "calling" =>
          /\ call[c].todo # <<>> /\ call[c].since <= now
          /\ \A l \in duty[c] : Live(l, call[c].place[2]) =>
                cache[l][call[c].place[2]].leaseTime <= call[c].since
    /\ call[c].pc \in {"write", "append"} =>
          \A l \in duty[c] : ~Live(l, call[c].place[2])

DutyInv == \A c \in Calls : CallDuty(c)

IInv == Shape /\ DateInv /\ HomeInv /\ DutyInv
-----------------------------------------------------------------------------
(* Facts about the operators of the model.                                 *)

\* A set of numbers has a least one.
LEMMA LeastOfNat ==
  ASSUME NEW T \in SUBSET Nat, T # {}
  PROVE  \E m \in T : \A n \in T : m <= n
  <1>1. IsWellFoundedOn(OpToRel(<, Nat), Nat)
    BY NatLessThanWellFounded
  <1>2. PICK m \in T : \A n \in T : ~ (<<n, m>> \in OpToRel(<, Nat))
    BY <1>1, WFMin
  <1>3. \A n \in T : <<n, m>> \in OpToRel(<, Nat) <=> n < m
    BY DEF OpToRel
  <1>4. \A n \in T : ~ (n < m)
    BY <1>2, <1>3, Zenon
  <1>5. m \in Nat /\ \A n \in T : n \in Nat
    OBVIOUS
  <1>6. \A n \in T : m <= n
    BY <1>4, <1>5
  <1> QED BY <1>6

\* Least finds it.
LEMMA LeastIsLeast ==
  ASSUME NEW T \in SUBSET Nat, T # {}
  PROVE  Least(T) \in T /\ \A n \in T : Least(T) <= n
  BY LeastOfNat DEF Least

\* pickServer chooses a server of the ring.
LEMMA PickedServer ==
  ASSUME Shape, NEW l \in Libs, NEW k \in Keys, ring[l] # {}
  PROVE  <<pickServer(l, k), k>> \in Places
  <1> DEFINE above == {s \in ring[l] : s >= Hash[k]}
             from == IF above = {} THEN ring[l] ELSE above
  <1>1. ring[l] \subseteq Servers /\ Servers \subseteq Nat
    BY StorageAssumption DEF Shape
  <1>2. from \subseteq Servers /\ from # {}
    BY <1>1
  <1>3. Least(from) \in from
    BY <1>1, <1>2, LeastIsLeast
  <1>4. pickServer(l, k) = Least(from)
    BY DEF pickServer
  <1> QED BY <1>2, <1>3, <1>4 DEF Places

\* The end of a sequence.
LEMMA EndOfSeq ==
  ASSUME NEW S, NEW s \in Seq(S), NEW m \in 1 .. Len(s)
  PROVE  SubSeq(s, m, Len(s)) \in Seq(S) /\ Len(SubSeq(s, m, Len(s))) = Len(s) - m + 1
  <1>1. m \in Int /\ Len(s) \in Int /\ m <= Len(s)
    OBVIOUS
  <1>2. \A i \in m .. Len(s) : s[i] \in S
    OBVIOUS
  <1> QED BY <1>1, <1>2, SubSeqProperties

\* clean() leaves the end of the queue.
LEMMA CleanKeepsTheEnd ==
  ASSUME Shape, NEW ll \in Seq(0 .. MaxTime)
  PROVE  Clean(ll) \in Seq(0 .. MaxTime) /\ Len(Clean(ll)) <= Len(ll)
  <1> DEFINE recent == {i \in DOMAIN ll : now - ll[i] <= QUERY_CACHE_SECONDS}
  <1>1. CASE recent = {}
    BY <1>1 DEF Clean
  <1>2. CASE recent # {}
    <2>1. recent \subseteq 1 .. Len(ll) /\ recent \in SUBSET Nat
      OBVIOUS
    <2>2. Least(recent) \in recent
      BY <1>2, <2>1, LeastIsLeast
    <2>4. Least(recent) \in 1 .. Len(ll)
      BY <2>1, <2>2
    <2>3. Clean(ll) = SubSeq(ll, Least(recent), Len(ll))
      BY <1>2 DEF Clean
    <2> HIDE DEF recent
    <2>5. SubSeq(ll, Least(recent), Len(ll)) \in Seq(0 .. MaxTime)
      BY <2>4, EndOfSeq
    <2>6. Len(SubSeq(ll, Least(recent), Len(ll))) = Len(ll) - Least(recent) + 1
      BY <2>4, EndOfSeq
    <2> QED BY <2>3, <2>4, <2>5, <2>6
  <1> QED BY <1>1, <1>2

\* evict() never makes a copy newer or grants one.
LEMMA EvictedCopy ==
  ASSUME Shape, NEW e \in Copy
  PROVE  /\ Evicted(e) \in Copy
         /\ Len(Evicted(e).ll) <= Len(e.ll)
         /\ Evicted(e).leaseTime \in {0, e.leaseTime}
         /\ Evicted(e).granted => e.granted /\ Evicted(e).leaseTime = e.leaseTime
  <1>1. Clean(e.ll) \in Seq(0 .. MaxTime) /\ Len(Clean(e.ll)) <= Len(e.ll) /\ Len(Clean(e.ll)) \in Nat
    BY CleanKeepsTheEnd DEF Copy
  <1>2. 0 \in 0 .. MaxTime /\ Len(e.ll) \in Nat
    BY StorageAssumption DEF Copy
  <1>3. NoCopy \in Copy /\ NoCopy.leaseTime = 0 /\ ~NoCopy.granted /\ Len(NoCopy.ll) = 0
    BY <1>2 DEF NoCopy, Copy
  <1> DEFINE ll == Clean(e.ll)
             kept == [e EXCEPT !.ll = ll]
             over == [Ungranted(e) EXCEPT !.ll = ll]
  <1>4. /\ kept \in Copy /\ kept.ll = ll
        /\ kept.leaseTime = e.leaseTime /\ kept.granted = e.granted
    BY <1>1 DEF Copy
  <1>5. /\ Ungranted(e) \in Copy
        /\ Ungranted(e).leaseTime = 0 /\ ~Ungranted(e).granted
    BY <1>2 DEF Ungranted, Copy
  <1>6. over \in Copy /\ over.ll = ll /\ over.leaseTime = 0 /\ ~over.granted
    BY <1>1, <1>5 DEF Copy
  <1>7. Evicted(e) \in {NoCopy, over, kept}
    BY DEF Evicted
  <1> HIDE DEF kept, over
  <1> QED BY <1>1, <1>2, <1>3, <1>4, <1>6, <1>7

\* So does a query, which is put at the end of the queue.
LEMMA QueriedCopy ==
  ASSUME Shape, NEW e \in Copy
  PROVE  /\ Queried(e) \in Copy
         /\ Len(Queried(e).ll) = Len(e.ll) + 1
         /\ Queried(e).leaseTime = e.leaseTime /\ Queried(e).granted = e.granted
  <1> DEFINE ll == Append(e.ll, now)
             q == [e EXCEPT !.there = TRUE, !.ll = ll]
  <1>1. ll \in Seq(0 .. MaxTime) /\ Len(ll) = Len(e.ll) + 1
    BY DEF Copy, Shape
  <1>2. Queried(e) = q
    BY DEF Queried, Copy
  <1> HIDE DEF ll
  <1>3. /\ q \in Copy /\ q.ll = ll
        /\ q.leaseTime = e.leaseTime /\ q.granted = e.granted
    BY <1>1 DEF Copy
  <1> QED BY <1>1, <1>2, <1>3

\* Grant and Revoke change whether a copy is granted, and since when.
LEMMA GrantedCopy ==
  ASSUME Shape, NEW e \in Copy
  PROVE  /\ Granted(e) \in Copy /\ Granted(e).ll = e.ll /\ Granted(e).leaseTime = now
         /\ Ungranted(e) \in Copy /\ Ungranted(e).ll = e.ll
         /\ Ungranted(e).leaseTime = 0 /\ ~Ungranted(e).granted
  <1>1. now \in 0 .. MaxTime /\ 0 \in 0 .. MaxTime
    BY StorageAssumption DEF Shape
  <1> QED BY <1>1 DEF Granted, Ungranted, Copy

\* A change of one copy of a cache.
LEMMA CopySet ==
  ASSUME Shape, NEW l \in Libs, NEW k \in Keys, NEW v \in Copy
  PROVE  [cache EXCEPT ![l][k] = v] \in [Libs -> [Keys -> Copy]]
  BY DEF Shape

\* The entries of the pools.
LEMMA EntryForm ==
  ASSUME Shape, NEW n \in DOMAIN entry
  PROVE  /\ entry[n] \in LeaseEntry
         /\ entry[n].pending \in BOOLEAN
         /\ entry[n].holders \in Seq(Holder)
  <1>1. entry[n] \in LeaseEntry
    BY DEF Shape
  <1> QED BY <1>1 DEF LeaseEntry

\* A change of an entry.
LEMMA EntrySet ==
  ASSUME Shape, NEW n, NEW v, n \in DOMAIN entry => v \in LeaseEntry
  PROVE  /\ [entry EXCEPT ![n] = v] \in Seq(LeaseEntry)
         /\ Len([entry EXCEPT ![n] = v]) = Len(entry)
  <1> DEFINE new == [entry EXCEPT ![n] = v]
  <1>1. entry \in Seq(LeaseEntry)
    BY DEF Shape
  <1>2. Len(entry) \in Nat /\ entry \in [1 .. Len(entry) -> LeaseEntry]
    BY <1>1
  <1>3. new \in [1 .. Len(entry) -> LeaseEntry]
    BY <1>2
  <1> QED BY <1>2, <1>3

\* An entry with another holder.
LEMMA HolderAdded ==
  ASSUME Shape, NEW e \in LeaseEntry, NEW l \in Libs
  PROVE  /\ AddHolder(e, l) \in LeaseEntry
         /\ AddHolder(e, l).holders = Append(e.holders, [address |-> l, issueTime |-> now])
  <1> DEFINE h == [address |-> l, issueTime |-> now]
             hs == Append(e.holders, h)
  <1>1. h \in Holder
    BY DEF Holder, Shape
  <1> HIDE DEF h
  <1>2. e.holders \in Seq(Holder) /\ hs \in Seq(Holder)
    BY <1>1 DEF LeaseEntry
  <1>3. AddHolder(e, l) = [e EXCEPT !.holders = hs]
    BY DEF AddHolder, h
  <1> HIDE DEF hs
  <1> QED BY <1>2, <1>3 DEF LeaseEntry, hs, h

\* Removing an item leaves a list of items.
LEMMA RemovedFirst ==
  ASSUME NEW s \in Seq(Items), NEW x \in Items
  PROVE  RemoveFirst(s, x) \in Seq(Items)
  <1>1. CASE ~ \E i \in 1 .. Len(s) : s[i] = x
    BY <1>1 DEF RemoveFirst
  <1>2. CASE \E i \in 1 .. Len(s) : s[i] = x
    <2> DEFINE at == {i \in 1 .. Len(s) : s[i] = x}
    <2>1. at # {} /\ at \in SUBSET Nat
      BY <1>2
    <2>2. \E m \in at : \A n \in at : m <= n
      BY <2>1, LeastOfNat
    <2>3. Min(at) \in at
      BY <2>2 DEF Min
    <2>4. RemoveFirst(s, x) = RemoveAt(s, Min(at))
      BY <1>2, <2>1 DEF RemoveFirst, SelectInSeq
    <2>5. Min(at) \in 1 .. Len(s)
      BY <2>3
    <2> HIDE DEF at
    <2> DEFINE m == Min(at)
    <2>6. m \in Nat /\ Len(s) \in Nat /\ 1 <= m /\ m <= Len(s)
      BY <2>5
    <2> HIDE DEF m
    <2>7. \A i \in 1 .. m - 1 : s[i] \in Items
      BY <2>6
    <2>8. \A i \in m + 1 .. Len(s) : s[i] \in Items
      BY <2>6
    <2>9. SubSeq(s, 1, m - 1) \in Seq(Items)
      BY <2>6, <2>7, SubSeqProperties
    <2>10. SubSeq(s, m + 1, Len(s)) \in Seq(Items)
      BY <2>6, <2>8, SubSeqProperties
    <2>11. SubSeq(s, 1, m - 1) \o SubSeq(s, m + 1, Len(s)) \in Seq(Items)
      BY <2>9, <2>10
    <2> QED BY <2>4, <2>11 DEF RemoveAt, m
  <1> QED BY <1>1, <1>2

\* The pc of a call tells its form.
LEMMA CallForms ==
  ASSUME Shape, NEW c \in Calls
  PROVE  /\ call[c].pc = "idle" <=> call[c] = Idle
         /\ call[c].pc = "read" => call[c] \in ReadCall
         /\ call[c].pc \in AskPcs => call[c] \in AskCall
         /\ call[c].pc \in WritePcs => call[c] \in WriteCall
         /\ call[c] = Idle \/ call[c] \in ReadCall \/ call[c] \in AskCall \/ call[c] \in WriteCall
         /\ call[c] # Idle => call[c].place \in Places
         /\ Lib(c) \in Libs
  <1>1. call[c] \in {Idle} \cup ReadCall \cup AskCall \cup WriteCall
    BY DEF Shape
  <1>2. Lib(c) \in Libs
    BY StorageAssumption DEF Calls, Lib
  <1> QED BY <1>1, <1>2 DEF Idle, ReadCall, AskCall, WriteCall, AskPcs, WritePcs
-----------------------------------------------------------------------------
(* The values of the variables.                                            *)

\* What a call can be doing.
CallStates == {Idle} \cup ReadCall \cup AskCall \cup WriteCall

\* NewStorageserver establishes the invariant.
LEMMA InitIInv == Init => IInv
  <1> SUFFICES ASSUME Init PROVE IInv
    OBVIOUS
  <1>0. {MaxTime, MaxWrites, MaxQueries} \subseteq Nat /\ Servers \in SUBSET Nat /\ Servers # {}
    BY StorageAssumption
  <1>1. Master \in Servers
    BY <1>0, LeastIsLeast DEF Master
  <1>2. NoCopy \in Copy /\ NoCopy.leaseTime = 0 /\ Len(NoCopy.ll) = 0
    BY <1>0 DEF NoCopy, Copy
  <1>3. Shape
    BY <1>0, <1>1, <1>2 DEF Init, Shape, Value
  <1>4. \A l \in Libs, k \in Keys : cache[l][k] = NoCopy
    BY DEF Init
  <1>5. DateInv
    BY <1>0, <1>2, <1>4 DEF Init, DateInv
  <1>6. HomeInv
    BY DEF Init, HomeInv
  <1>7. DutyInv
    BY DEF Init, DutyInv, CallDuty, Idle
  <1> QED BY <1>3, <1>5, <1>6, <1>7 DEF IInv

\* Every step keeps them.
LEMMA ShapeNext ==
  ASSUME IInv, Next
  PROVE  Shape'
  <1> USE DEF IInv
  <1>0. {MaxTime, MaxWrites, MaxQueries} \subseteq Nat /\ 0 \in 0 .. MaxTime
    BY StorageAssumption
  <1>a. ASSUME NEW c \in Calls, NEW v \in CallStates, call' = [call EXCEPT ![c] = v]
        PROVE  call' \in [Calls -> CallStates]
    BY <1>a DEF Shape, CallStates
  <1>1. ASSUME NEW s \in Servers, RegisterServer(s) PROVE Shape'
    BY <1>1 DEF RegisterServer, Shape, ringVars, deathVars, storeVars, Copy
  <1>2. ASSUME NEW l \in Libs, NewLibstore(l) PROVE Shape'
    BY <1>2 DEF NewLibstore, Shape, ringVars, deathVars, storeVars
  <1>3. ASSUME NEW l \in Libs, Crash(l) PROVE Shape'
    <2>1. NoCopy \in Copy
      BY <1>0 DEF NoCopy, Copy
    <2>2. cache' \in [Libs -> [Keys -> Copy]]
      BY <1>3, <2>1 DEF Crash, Shape
    <2> QED BY <1>3, <2>2 DEF Crash, Shape, ringVars, deathVars, storeVars
  <1>4. ASSUME NEW c \in Calls, NEW k \in Keys, Get(c, k) PROVE Shape'
    <2> DEFINE kept == [j \in Keys |-> Evicted(cache[Lib(c)][j])]
               e == kept[k]
    <2>1. Lib(c) \in Libs /\ cache[Lib(c)] \in [Keys -> Copy]
      BY CallForms DEF Shape
    <2>2. kept \in [Keys -> Copy]
      BY <2>1, EvictedCopy
    <2>3. Queried(e) \in Copy
      BY <2>2, QueriedCopy
    <2>7. cache' \in {[cache EXCEPT ![Lib(c)] = kept],
                     [cache EXCEPT ![Lib(c)] = [kept EXCEPT ![k] = Queried(e)]]}
      BY <1>4 DEF Get
    <2>8. [kept EXCEPT ![k] = Queried(e)] \in [Keys -> Copy]
      BY <2>2, <2>3
    <2>4. cache' \in [Libs -> [Keys -> Copy]]
      BY <2>2, <2>7, <2>8 DEF Shape
    <2>5. <<pickServer(Lib(c), k), k>> \in Places
      BY <1>4, <2>1, PickedServer DEF Get
    <2>6. call' \in [Calls -> CallStates]
      <3>1. [pc |-> "read", place |-> <<pickServer(Lib(c), k), k>>, since |-> now,
             wantLease |-> Len(e.ll) + 1 > QUERY_CACHE_THRESH] \in CallStates
        BY <2>5 DEF ReadCall, CallStates, Shape
      <3>2. call \in [Calls -> CallStates]
        BY DEF Shape, CallStates
      <3> QED BY <1>4, <1>a, <3>1, <3>2 DEF Get
    <2> HIDE DEF kept, e
    <2> QED BY <1>4, <2>4, <2>6 DEF Get, Shape, CallStates, ringVars, deathVars, storeVars
  <1>5. ASSUME NEW c \in Calls, ReadValue(c) PROVE Shape'
    <2>1. call[c] \in ReadCall
      BY <1>5, CallForms DEF ReadValue, At
    <2>2. [pc |-> IF call[c].wantLease THEN "addLease" ELSE "reply", place |-> call[c].place,
           since |-> call[c].since, granted |-> FALSE, entry |-> 0] \in CallStates
      BY <2>1 DEF ReadCall, AskCall, AskPcs, CallStates
    <2>3. Idle \in CallStates
      BY DEF CallStates
    <2>4. call' \in [Calls -> CallStates]
      BY <1>5, <1>a, <2>2, <2>3 DEF ReadValue, Return
    <2> QED BY <1>5, <2>4 DEF ReadValue, Shape, CallStates, ringVars, deathVars, storeVars
  <1>6. ASSUME NEW c \in Calls, AddLease(c) PROVE Shape'
    <2> DEFINE n == leasePool[call[c].place]
    <2>1. call[c] \in AskCall /\ Lib(c) \in Libs
      BY <1>6, CallForms DEF AddLease, At, AskPcs
    <2>2. n \in DOMAIN entry
      BY <1>6, <2>1 DEF AddLease, AskCall, Shape, DateInv
    <2>3. entry[n] \in LeaseEntry /\ entry[n].pending \in BOOLEAN
      BY <2>2, EntryForm
    <2>4. AddHolder(entry[n], Lib(c)) \in LeaseEntry
      BY <2>1, <2>3, HolderAdded
    <2>5. entry' \in Seq(LeaseEntry)
      BY <1>6, <2>4, EntrySet DEF AddLease, Shape
    <2>6. [call[c] EXCEPT !.pc = "reply", !.granted = ~entry[n].pending] \in CallStates
      BY <2>1, <2>3 DEF AskCall, AskPcs, CallStates
    <2>7. call' = [call EXCEPT ![c] = [call[c] EXCEPT !.pc = "reply", !.granted = ~entry[n].pending]]
      BY <1>6, <2>1 DEF AddLease, AskCall, Shape
    <2>8. call' \in [Calls -> CallStates]
      BY <1>a, <2>6, <2>7
    <2> QED BY <1>6, <2>5, <2>8 DEF AddLease, Shape, CallStates, ringVars, deathVars
  <1>7. ASSUME NEW c \in Calls, LeaseMissing(c) PROVE Shape'
    <2>1. call[c] \in AskCall
      BY <1>7, CallForms DEF LeaseMissing, At, AskPcs
    <2>2. [call[c] EXCEPT !.pc = "newEntry"] \in CallStates
      BY <2>1 DEF AskCall, AskPcs, CallStates
    <2>3. call' \in [Calls -> CallStates]
      BY <1>7, <1>a, <2>2 DEF LeaseMissing, Goto
    <2> QED BY <1>7, <2>3 DEF LeaseMissing, Shape, CallStates, ringVars, deathVars, storeVars
  <1>8. ASSUME NEW c \in Calls, NewEntry(c) PROVE Shape'
    <2>1. call[c] \in AskCall
      BY <1>8, CallForms DEF NewEntry, At, AskPcs
    <2>2. [pending |-> FALSE, holders |-> <<>>] \in LeaseEntry
      BY DEF LeaseEntry
    <2>3. entry' \in Seq(LeaseEntry) /\ Len(entry') \in Nat
      BY <1>8, <2>2 DEF NewEntry, Shape
    <2>4. leasePool' \in [Places -> Nat]
      BY <1>8, <2>3 DEF NewEntry, Shape
    <2>5. [call[c] EXCEPT !.pc = "addHolder", !.entry = Len(entry')] \in CallStates
      BY <2>1, <2>3 DEF AskCall, AskPcs, CallStates
    <2>6. call' = [call EXCEPT ![c] = [call[c] EXCEPT !.pc = "addHolder", !.entry = Len(entry')]]
      BY <1>8, <2>1 DEF NewEntry, AskCall, Shape
    <2>7. call' \in [Calls -> CallStates]
      BY <1>a, <2>5, <2>6
    <2> QED BY <1>8, <2>3, <2>4, <2>7 DEF NewEntry, Shape, CallStates, ringVars, deathVars
  <1>9. ASSUME NEW c \in Calls, AddFirstHolder(c) PROVE Shape'
    <2> DEFINE n == call[c].entry
    <2>1. call[c] \in AskCall /\ Lib(c) \in Libs
      BY <1>9, CallForms DEF AddFirstHolder, At, AskPcs
    <2>2. n \in DOMAIN entry => AddHolder(entry[n], Lib(c)) \in LeaseEntry
      BY <2>1, EntryForm, HolderAdded
    <2>3. entry' \in Seq(LeaseEntry)
      BY <1>9, <2>2, EntrySet DEF AddFirstHolder
    <2>4. [call[c] EXCEPT !.pc = "reply", !.granted = TRUE] \in CallStates
      BY <2>1 DEF AskCall, AskPcs, CallStates
    <2>5. call' = [call EXCEPT ![c] = [call[c] EXCEPT !.pc = "reply", !.granted = TRUE]]
      BY <1>9, <2>1 DEF AddFirstHolder, AskCall, Shape
    <2>6. call' \in [Calls -> CallStates]
      BY <1>a, <2>4, <2>5
    <2> QED BY <1>9, <2>3, <2>6 DEF AddFirstHolder, Shape, CallStates, ringVars, deathVars
  <1>10. ASSUME NEW c \in Calls, GetReply(c) PROVE Shape'
    <2>1. call[c] \in AskCall /\ Lib(c) \in Libs /\ call[c].place[2] \in Keys
      BY <1>10, CallForms DEF GetReply, At, AskPcs, AskCall, Places
    <2>2. cache[Lib(c)][call[c].place[2]] \in Copy
      BY <2>1 DEF Shape
    <2>3. Granted(cache[Lib(c)][call[c].place[2]]) \in Copy
      BY <2>2, GrantedCopy
    <2>7. \/ UNCHANGED cache
          \/ cache' = [cache EXCEPT ![Lib(c)][call[c].place[2]] = Granted(cache[Lib(c)][call[c].place[2]])]
      BY <1>10 DEF GetReply
    <2>4. cache' \in [Libs -> [Keys -> Copy]]
      <3> DEFINE v == Granted(cache[Lib(c)][call[c].place[2]])
      <3>1. [cache EXCEPT ![Lib(c)][call[c].place[2]] = v] \in [Libs -> [Keys -> Copy]]
        BY <2>1, <2>3, CopySet
      <3>2. cache \in [Libs -> [Keys -> Copy]]
        BY DEF Shape
      <3> HIDE DEF v
      <3> QED BY <2>7, <3>1, <3>2 DEF v
    <2>5. call' \in [Calls -> CallStates]
      BY <1>10, <1>a DEF GetReply, Return, CallStates
    <2>6. panicked' \in SUBSET (Libs \cup Servers)
      BY <1>10, <2>1 DEF GetReply, Shape
    <2>8. duty' \in [Calls -> SUBSET Libs]
      <3>1. duty \in [Calls -> SUBSET Libs]
        BY DEF Shape
      <3>2. \/ duty' = duty
            \/ duty' = [d \in Calls |-> IF call[d].pc # "idle" /\ call[d].place[2] = call[c].place[2]
                                       THEN duty[d] \ {Lib(c)} ELSE duty[d]]
        BY <1>10 DEF GetReply
      <3> QED BY <3>1, <3>2
    <2> QED BY <1>10, <2>4, <2>5, <2>6, <2>8 DEF GetReply, Shape, CallStates, ringVars, storeVars
  <1>11. ASSUME NEW c \in Calls, NEW k \in Keys, NEW op \in {"Put", "Append", "Remove"}, NEW x \in Items,
                BeginWrite(c, op, k, x)
         PROVE  Shape'
    <2> DEFINE p == <<pickServer(Lib(c), k), k>>
               val == IF op = "Remove" THEN hashmap[p] ELSE <<>>
               w == [pc |-> "revokeLease", op |-> op, place |-> p, item |-> x, entry |-> 0, todo |-> <<>>,
                     since |-> 0, val |-> val]
    <2>1. p \in Places
      BY <1>11, CallForms, PickedServer DEF BeginWrite
    <2>2. val \in Seq(Items)
      <3>1. hashmap[p] \in Seq(Items) \/ hashmap[p] = Absent
        BY <2>1 DEF Shape, Value
      <3> QED BY <1>11, <3>1 DEF BeginWrite
    <2>3. call' = [call EXCEPT ![c] = w] /\ writes' = writes + 1 /\ writes < MaxWrites
      BY <1>11 DEF BeginWrite
    <2> HIDE DEF p, val
    <2>4. w \in CallStates
      BY <1>0, <2>1, <2>2 DEF WriteCall, WritePcs, CallStates
    <2> HIDE DEF w
    <2>5. call' \in [Calls -> CallStates]
      BY <1>a, <2>3, <2>4
    <2>6. writes' \in 0 .. MaxWrites
      BY <1>0, <2>3 DEF Shape
    <2> QED BY <1>11, <2>5, <2>6 DEF BeginWrite, Shape, CallStates, ringVars, deathVars, storeVars
  <1>12. ASSUME NEW c \in Calls, revokeLease(c) PROVE Shape'
    <2> DEFINE n == leasePool[call[c].place]
               v == [entry[n] EXCEPT !.pending = TRUE]
               w == [call[c] EXCEPT !.pc = "revoking", !.entry = n, !.todo = entry[n].holders]
    <2>1. call[c] \in WriteCall /\ n \in Nat
      BY <1>12, CallForms DEF revokeLease, At, WritePcs, WriteCall, Shape
    <2>2. CASE n = 0
      <3>1. [call[c] EXCEPT !.pc = "write"] \in CallStates
        BY <2>1 DEF WriteCall, WritePcs, CallStates
      <3>2. call' \in [Calls -> CallStates]
        BY <1>12, <1>a, <2>2, <3>1 DEF revokeLease, Goto
      <3>3. UNCHANGED <<entry, duty>>
        BY <1>12, <2>2 DEF revokeLease
      <3> QED BY <1>12, <3>2, <3>3 DEF revokeLease, Shape, CallStates, ringVars, deathVars
    <2>3. CASE n # 0
      <3>1. n \in DOMAIN entry
        BY <2>1, <2>3 DEF WriteCall, Shape, DateInv
      <3>2. entry[n] \in LeaseEntry /\ entry[n].holders \in Seq(Holder)
        BY <3>1, EntryForm
      <3>3. v \in LeaseEntry
        BY <3>2 DEF LeaseEntry
      <3>4. w \in CallStates
        BY <2>1, <3>2 DEF WriteCall, WritePcs, CallStates
      <3>5. /\ entry' = [entry EXCEPT ![n] = v]
            /\ call' = [call EXCEPT ![c] = w]
            /\ duty' \in [Calls -> SUBSET Libs]
        BY <1>12, <2>1, <2>3, <3>1 DEF revokeLease, WriteCall, Shape
      <3> HIDE DEF v, w
      <3>6. entry' \in Seq(LeaseEntry) /\ call' \in [Calls -> CallStates]
        BY <1>a, <3>3, <3>4, <3>5, EntrySet
      <3> QED BY <1>12, <3>5, <3>6 DEF revokeLease, Shape, CallStates, ringVars, deathVars
    <2> QED BY <2>2, <2>3
  <1>13. ASSUME NEW c \in Calls, RevokeNext(c) PROVE Shape'
    <2>1. call[c] \in WriteCall /\ call[c].todo \in Seq(Holder) /\ call[c].todo # <<>> /\ call[c].place[1] \in Servers
      BY <1>13, CallForms DEF RevokeNext, At, WritePcs, WriteCall, Places
    <2>2. Tail(call[c].todo) \in Seq(Holder)
      BY <2>1
    <2>3. [call[c] EXCEPT !.todo = Tail(@)] \in CallStates
      BY <2>1, <2>2 DEF WriteCall, WritePcs, CallStates
    <2>4. [call[c] EXCEPT !.pc = "calling", !.since = now] \in CallStates
      BY <2>1 DEF WriteCall, WritePcs, CallStates, Shape
    <2>5. call' \in {call, [call EXCEPT ![c] = [call[c] EXCEPT !.todo = Tail(@)]],
                     [call EXCEPT ![c] = [call[c] EXCEPT !.pc = "calling", !.since = now]]}
      BY <1>13, <2>1 DEF RevokeNext, WriteCall, Shape
    <2>6. call' \in [Calls -> CallStates]
      BY <1>a, <2>3, <2>4, <2>5 DEF Shape, CallStates
    <2>7. panicked' \in SUBSET (Libs \cup Servers)
      BY <1>13, <2>1 DEF RevokeNext, Shape
    <2> QED BY <1>13, <2>6, <2>7 DEF RevokeNext, Shape, CallStates, ringVars, storeVars
  <1>b. ASSUME NEW c \in Calls, At(c, "calling"), Called(c), Len(call[c].todo) \in Nat => call[c].todo # <<>>
        PROVE  call' \in [Calls -> CallStates]
    <2>1. call[c] \in WriteCall /\ call[c].todo \in Seq(Holder) /\ call[c].todo # <<>>
      BY <1>b, CallForms DEF At, WritePcs, WriteCall
    <2>2. Tail(call[c].todo) \in Seq(Holder)
      BY <2>1
    <2>3. [call[c] EXCEPT !.pc = "revoking", !.todo = Tail(@)] \in CallStates
      BY <2>1, <2>2 DEF WriteCall, WritePcs, CallStates
    <2>4. call' = [call EXCEPT ![c] = [call[c] EXCEPT !.pc = "revoking", !.todo = Tail(@)]]
      BY <1>b, <2>1 DEF Called, WriteCall, Shape
    <2> QED BY <1>a, <2>3, <2>4
  <1>c. ASSUME NEW c \in Calls, At(c, "calling") PROVE call[c] \in WriteCall /\ call[c].todo # <<>>
    BY <1>c, CallForms DEF At, WritePcs, DutyInv, CallDuty
  <1>14. ASSUME NEW c \in Calls, RevokeLease(c) PROVE Shape'
    <2>1. call' \in [Calls -> CallStates] /\ call[c] \in WriteCall /\ call[c].todo # <<>>
      BY <1>14, <1>b, <1>c DEF RevokeLease
    <2> DEFINE l == Head(call[c].todo).address
               k == call[c].place[2]
    <2>5. call[c].todo \in Seq(Holder) /\ k \in Keys
      BY <2>1 DEF WriteCall, Places
    <2>6. Head(call[c].todo) \in Holder
      BY <2>1, <2>5
    <2>2. l \in Libs
      BY <2>6 DEF Holder
    <2>3. Ungranted(cache[l][k]) \in Copy
      BY <2>2, <2>5, GrantedCopy DEF Shape
    <2>7. cache' \in {cache, [cache EXCEPT ![l][k] = Ungranted(cache[l][k])]}
      BY <1>14 DEF RevokeLease
    <2>4. cache' \in [Libs -> [Keys -> Copy]]
      <3> DEFINE v == Ungranted(cache[l][k])
      <3>1. [cache EXCEPT ![l][k] = v] \in [Libs -> [Keys -> Copy]]
        BY <2>2, <2>3, <2>5, CopySet
      <3>2. cache \in [Libs -> [Keys -> Copy]]
        BY DEF Shape
      <3> HIDE DEF v, l, k
      <3> QED BY <2>7, <3>1, <3>2 DEF v
    <2> QED BY <1>14, <2>1, <2>4 DEF RevokeLease, Shape, CallStates, ringVars, deathVars, storeVars
  <1>15. ASSUME NEW c \in Calls, RevokeTimeout(c) PROVE Shape'
    <2>1. call' \in [Calls -> CallStates]
      BY <1>15, <1>b, <1>c DEF RevokeTimeout
    <2> QED BY <1>15, <2>1 DEF RevokeTimeout, Shape, CallStates, ringVars, deathVars, storeVars
  <1>16. ASSUME NEW c \in Calls, RevokeDone(c) PROVE Shape'
    <2> DEFINE n == call[c].entry
               v == [entry[n] EXCEPT !.pending = FALSE]
    <2>1. call[c] \in WriteCall
      BY <1>16, CallForms DEF RevokeDone, At, WritePcs
    <2>2. [call[c] EXCEPT !.pc = "write"] \in CallStates
      BY <2>1 DEF WriteCall, WritePcs, CallStates
    <2>3. call' \in [Calls -> CallStates]
      BY <1>16, <1>a, <2>2 DEF RevokeDone, Goto
    <2>4. n \in DOMAIN entry => v \in LeaseEntry
      BY EntryForm DEF LeaseEntry
    <2>5. entry' = [entry EXCEPT ![n] = v]
      BY <1>16 DEF RevokeDone
    <2> HIDE DEF n, v
    <2>6. entry' \in Seq(LeaseEntry)
      BY <2>4, <2>5, EntrySet
    <2> QED BY <1>16, <2>3, <2>6 DEF RevokeDone, Shape, CallStates, ringVars, deathVars
  <1>17. ASSUME NEW c \in Calls, Write(c) PROVE Shape'
    <2>1. call[c] \in WriteCall /\ call[c].place \in Places
      BY <1>17, CallForms DEF Write, At, WritePcs, WriteCall
    <2>2. call[c].item \in Items /\ call[c].val \in Seq(Items) /\ hashmap[call[c].place] \in Seq(Items) \cup {Absent}
      BY <2>1 DEF WriteCall, Shape, Value
    <2>3. ASSUME NEW v \in Seq(Items), Written(c, v)
          PROVE  /\ hashmap' \in [Places -> Value]
                 /\ call' \in [Calls -> CallStates]
                 /\ duty' \in [Calls -> SUBSET Libs]
      BY <1>a, <2>3 DEF Written, Return, Shape, Value, CallStates
    <2>4. ASSUME ReadList(c)
          PROVE  /\ hashmap' = hashmap
                 /\ call' \in [Calls -> CallStates]
                 /\ duty' \in [Calls -> SUBSET Libs]
      <3> DEFINE l == IF hashmap[call[c].place] = Absent THEN <<>> ELSE hashmap[call[c].place]
                 w == [call[c] EXCEPT !.pc = "append", !.val = l]
      <3>1. l \in Seq(Items)
        BY <2>2
      <3>2. \/ Return(c) /\ duty' = [duty EXCEPT ![c] = {}]
            \/ call' = [call EXCEPT ![c] = w] /\ duty' = duty
        BY <2>1, <2>4 DEF ReadList, WriteCall, Shape
      <3>3. hashmap' = hashmap
        BY <2>4 DEF ReadList
      <3> HIDE DEF l
      <3>4. w \in CallStates /\ Idle \in CallStates
        BY <2>1, <3>1 DEF WriteCall, WritePcs, CallStates
      <3> HIDE DEF w
      <3> QED BY <1>a, <3>2, <3>3, <3>4 DEF Return, Shape
    <2>5. ASSUME RemoveFromList(c)
          PROVE  /\ hashmap' \in [Places -> Value]
                 /\ call' \in [Calls -> CallStates]
                 /\ duty' \in [Calls -> SUBSET Libs]
      <3>1. RemoveFirst(call[c].val, call[c].item) \in Seq(Items)
        BY <2>2, RemovedFirst
      <3>2. Idle \in CallStates
        BY DEF CallStates
      <3> QED BY <1>a, <2>3, <2>5, <3>1, <3>2 DEF RemoveFromList, Return, Shape
    <2>6. <<call[c].item>> \in Seq(Items) /\ Append(call[c].val, call[c].item) \in Seq(Items)
      BY <2>2
    <2>7. /\ hashmap' \in [Places -> Value]
          /\ call' \in [Calls -> CallStates]
          /\ duty' \in [Calls -> SUBSET Libs]
      <3>1. hashmap \in [Places -> Value]
        BY DEF Shape
      <3> QED BY <1>17, <2>3, <2>4, <2>5, <2>6, <3>1 DEF Write, Put
    <2> QED BY <1>17, <2>7 DEF Write, Shape, CallStates, ringVars, deathVars
  <1>18. ASSUME Tick PROVE Shape'
    <2>1. now' \in 0 .. MaxTime
      BY <1>0, <1>18 DEF Tick, Shape
    <2> QED BY <1>18, <2>1 DEF Tick, Shape, ringVars, deathVars, storeVars
  <1> QED BY <1>1, <1>2, <1>3, <1>4, <1>5, <1>6, <1>7, <1>8, <1>9, <1>10, <1>11, <1>12, <1>13, <1>14,
             <1>15, <1>16, <1>17, <1>18 DEF Next, Handler
-----------------------------------------------------------------------------
(* What a step leaves alone.                                               *)

\* A step of a call.
Step(c) ==
    \/ Handler(c) \/ GetReply(c)
    \/ \E k \in Keys : Get(c, k)
    \/ \E k \in Keys, op \in {"Put", "Append", "Remove"}, x \in Items : BeginWrite(c, op, k, x)

\* A step of the rest of the system.
Outside ==
    \/ \E s \in Servers : RegisterServer(s)
    \/ \E l \in Libs : NewLibstore(l) \/ Crash(l)
    \/ Tick

LEMMA StepOrOutside == Next => Outside \/ \E c \in Calls : Step(c)
  BY DEF Next, Outside, Step

\* What goes on outside of the calls leaves them alone.
LEMMA OutsideLeaves ==
  ASSUME Outside
  PROVE  UNCHANGED <<call, duty, storeVars>>
  BY DEF Outside, RegisterServer, NewLibstore, Crash, Tick, storeVars

\* A call changes no other, but may relieve it of a copy.
LEMMA OthersStay ==
  ASSUME Shape, NEW c \in Calls, Step(c), NEW d \in Calls, d # c
  PROVE  call'[d] = call[d] /\ duty'[d] \subseteq duty[d]
  <1> USE DEF Shape
  <1>1. CASE \/ ReadValue(c) \/ AddLease(c) \/ LeaseMissing(c) \/ NewEntry(c) \/ AddFirstHolder(c)
    BY <1>1 DEF ReadValue, AddLease, LeaseMissing, NewEntry, AddFirstHolder, Goto, Return
  <1>2. CASE revokeLease(c) \/ RevokeNext(c) \/ RevokeDone(c)
    BY <1>2 DEF revokeLease, RevokeNext, RevokeDone, Goto
  <1>3. CASE RevokeLease(c) \/ RevokeTimeout(c)
    BY <1>3 DEF RevokeLease, RevokeTimeout, Called
  <1>4. CASE Write(c)
    BY <1>4 DEF Write, Put, ReadList, RemoveFromList, Written, Return
  <1>5. CASE GetReply(c)
    BY <1>5 DEF GetReply, Return
  <1>6. CASE \E k \in Keys : Get(c, k)
    BY <1>6 DEF Get
  <1>7. CASE \E k \in Keys, op \in {"Put", "Append", "Remove"}, x \in Items : BeginWrite(c, op, k, x)
    BY <1>7 DEF BeginWrite
  <1> QED BY <1>1, <1>2, <1>3, <1>4, <1>5, <1>6, <1>7 DEF Step, Handler

\* What the steps of a call do not touch.
LEMMA StoreFrame ==
  ASSUME NEW c \in Calls
  PROVE  /\ Step(c) => UNCHANGED ring
         /\ ReadValue(c) => UNCHANGED <<hashmap, leasePool, entry>>
         /\ AddLease(c) => UNCHANGED <<hashmap, leasePool>>
         /\ LeaseMissing(c) => UNCHANGED <<hashmap, leasePool, entry>>
         /\ NewEntry(c) => UNCHANGED <<hashmap>>
         /\ AddFirstHolder(c) => UNCHANGED <<hashmap, leasePool>>
         /\ revokeLease(c) => UNCHANGED <<hashmap, leasePool>>
         /\ RevokeNext(c) => UNCHANGED <<hashmap, leasePool, entry>>
         /\ RevokeLease(c) => UNCHANGED <<hashmap, leasePool, entry>>
         /\ RevokeTimeout(c) => UNCHANGED <<hashmap, leasePool, entry>>
         /\ RevokeDone(c) => UNCHANGED <<hashmap, leasePool>>
         /\ Write(c) => UNCHANGED <<leasePool, entry>>
         /\ GetReply(c) => UNCHANGED <<hashmap, leasePool, entry>>
         /\ \A k \in Keys : Get(c, k) => UNCHANGED <<hashmap, leasePool, entry>>
         /\ \A k \in Keys, op \in {"Put", "Append", "Remove"}, x \in Items :
               BeginWrite(c, op, k, x) => UNCHANGED <<hashmap, leasePool, entry>>
  <1>1. ReadValue(c) => UNCHANGED <<ring, hashmap, leasePool, entry>>
    BY DEF ReadValue, ringVars, storeVars
  <1>2. AddLease(c) => UNCHANGED <<ring, hashmap, leasePool>>
    BY DEF AddLease, ringVars, storeVars
  <1>3. LeaseMissing(c) => UNCHANGED <<ring, hashmap, leasePool, entry>>
    BY DEF LeaseMissing, ringVars, storeVars
  <1>4. NewEntry(c) => UNCHANGED <<ring, hashmap>>
    BY DEF NewEntry, ringVars, storeVars
  <1>5. AddFirstHolder(c) => UNCHANGED <<ring, hashmap, leasePool>>
    BY DEF AddFirstHolder, ringVars, storeVars
  <1>6. revokeLease(c) => UNCHANGED <<ring, hashmap, leasePool>>
    BY DEF revokeLease, ringVars, storeVars
  <1>7. RevokeNext(c) => UNCHANGED <<ring, hashmap, leasePool, entry>>
    BY DEF RevokeNext, ringVars, storeVars
  <1>8. RevokeLease(c) => UNCHANGED <<ring, hashmap, leasePool, entry>>
    BY DEF RevokeLease, ringVars, storeVars
  <1>9. RevokeTimeout(c) => UNCHANGED <<ring, hashmap, leasePool, entry>>
    BY DEF RevokeTimeout, ringVars, storeVars
  <1>10. RevokeDone(c) => UNCHANGED <<ring, hashmap, leasePool>>
    BY DEF RevokeDone, ringVars, storeVars
  <1>11. Write(c) => UNCHANGED <<ring, leasePool, entry>>
    BY DEF Write, ringVars, storeVars
  <1>12. GetReply(c) => UNCHANGED <<ring, hashmap, leasePool, entry>>
    BY DEF GetReply, ringVars, storeVars
  <1>13. \A k \in Keys : Get(c, k) => UNCHANGED <<ring, hashmap, leasePool, entry>>
    BY DEF Get, ringVars, storeVars
  <1>14. \A k \in Keys, op \in {"Put", "Append", "Remove"}, x \in Items :
            BeginWrite(c, op, k, x) => UNCHANGED <<ring, hashmap, leasePool, entry>>
    BY DEF BeginWrite, ringVars, storeVars
  <1>15. Step(c) => UNCHANGED ring
    BY <1>1, <1>2, <1>3, <1>4, <1>5, <1>6, <1>7, <1>8, <1>9, <1>10, <1>11, <1>12, <1>13, <1>14 DEF Step, Handler
  <1> QED BY <1>1, <1>2, <1>3, <1>4, <1>5, <1>6, <1>7, <1>8, <1>9, <1>10, <1>11, <1>12, <1>13, <1>14, <1>15

\* Time does not run backwards, and the dead stay dead.
LEMMA TimeGoesOn ==
  ASSUME Shape, Next
  PROVE  /\ now' \in Nat /\ now' >= now
         /\ \A l \in Libs : Runs(l)' => Runs(l)
  <1>1. now \in Nat
    BY StorageAssumption DEF Shape
  <1>2. CASE Outside
    BY <1>1, <1>2 DEF Outside, RegisterServer, NewLibstore, Crash, Tick, Runs, deathVars
  <1>3. CASE \E c \in Calls : Step(c)
    <2>1. PICK c \in Calls : Step(c)
      BY <1>3
    <2>2. now' = now /\ crashed' = crashed
      BY <2>1 DEF Step, Handler, ReadValue, AddLease, LeaseMissing, NewEntry, AddFirstHolder, revokeLease,
                  RevokeNext, RevokeLease, RevokeTimeout, RevokeDone, Write, GetReply, Get, BeginWrite, deathVars
    <2>3. panicked \subseteq panicked'
      BY <2>1 DEF Step, Handler, ReadValue, AddLease, LeaseMissing, NewEntry, AddFirstHolder, revokeLease,
                  RevokeNext, RevokeLease, RevokeTimeout, RevokeDone, Write, GetReply, Get, BeginWrite, deathVars
    <2> QED BY <1>1, <2>2, <2>3 DEF Runs
  <1> QED BY <1>2, <1>3, StepOrOutside

\* The copy is one that was not there before the step.
Renewed(l, k) ==
    /\ cache'[l][k].granted
    /\ ~ (cache[l][k].granted /\ cache'[l][k].leaseTime = cache[l][k].leaseTime)

\* What a step does to a copy; if it is a new one, no call has to revoke it.
LEMMA CopyStep ==
  ASSUME IInv, Next, NEW l \in Libs, NEW k \in Keys
  PROVE  /\ Len(cache'[l][k].ll) <= MaxQueries
         /\ cache'[l][k].leaseTime <= now
         /\ Renewed(l, k) => \A d \in Calls : call[d] # Idle /\ call[d].place[2] = k => l \notin duty'[d]
  <1> USE DEF IInv
  <1>0. {MaxTime, MaxWrites, MaxQueries} \subseteq Nat /\ now \in Nat
    BY StorageAssumption DEF Shape
  <1>1. /\ cache[l][k] \in Copy /\ cache[l] \in [Keys -> Copy]
        /\ Len(cache[l][k].ll) <= MaxQueries /\ cache[l][k].leaseTime <= now
    BY DEF Shape, DateInv
  <1>2. Len(cache[l][k].ll) \in Nat /\ cache[l][k].leaseTime \in Nat
    BY <1>0, <1>1 DEF Copy
  <1>a. CASE cache'[l][k] = cache[l][k]
    BY <1>a, <1>1 DEF Renewed
  <1>b. CASE cache'[l][k] = NoCopy
    BY <1>0, <1>b DEF NoCopy, Renewed
  <1>3. CASE Outside
    <2>1. \/ UNCHANGED cache
          \/ \E i \in Libs : cache' = [cache EXCEPT ![i] = [j \in Keys |-> NoCopy]]
      BY <1>3 DEF Outside, RegisterServer, NewLibstore, Crash, Tick
    <2>2. cache'[l][k] \in {cache[l][k], NoCopy}
      BY <2>1 DEF Shape
    <2> QED BY <2>2, <1>a, <1>b
  <1>4. ASSUME NEW c \in Calls, Handler(c), ~RevokeLease(c)
        PROVE  cache'[l][k] = cache[l][k]
    BY <1>4 DEF Handler, ReadValue, AddLease, LeaseMissing, NewEntry, AddFirstHolder, revokeLease,
                RevokeNext, RevokeTimeout, RevokeDone, Write
  <1>5. ASSUME NEW c \in Calls, RevokeLease(c)
        PROVE  cache'[l][k] \in {cache[l][k], Ungranted(cache[l][k])}
    BY <1>5 DEF RevokeLease, Shape
  <1>6. CASE cache'[l][k] = Ungranted(cache[l][k])
    BY <1>0, <1>1, <1>6, GrantedCopy DEF Renewed
  <1>7. ASSUME NEW c \in Calls, NEW j \in Keys, Get(c, j)
        PROVE  /\ Len(cache'[l][k].ll) <= MaxQueries
               /\ cache'[l][k].leaseTime <= now
               /\ ~Renewed(l, k)
    <2> DEFINE kept == [i \in Keys |-> Evicted(cache[l][i])]
    <2>1. /\ kept[k] \in Copy /\ Len(kept[k].ll) <= Len(cache[l][k].ll)
          /\ kept[k].leaseTime \in {0, cache[l][k].leaseTime}
          /\ kept[k].granted => cache[l][k].granted /\ kept[k].leaseTime = cache[l][k].leaseTime
      BY <1>1, EvictedCopy
    <2>2. Len(kept[k].ll) \in Nat
      BY <2>1 DEF Copy
    <2>3. CASE cache'[l][k] = kept[k]
      BY <1>0, <1>1, <1>2, <2>1, <2>2, <2>3 DEF Renewed
    <2>4. CASE cache'[l][k] = Queried(kept[k]) /\ Len(kept[k].ll) < MaxQueries
      <3>1. /\ Len(cache'[l][k].ll) = Len(kept[k].ll) + 1
            /\ cache'[l][k].leaseTime = kept[k].leaseTime /\ cache'[l][k].granted = kept[k].granted
        BY <2>1, <2>4, QueriedCopy
      <3> QED BY <1>0, <1>1, <1>2, <2>1, <2>2, <2>4, <3>1 DEF Renewed
    <2>5. CASE Lib(c) # l
      BY <1>1, <1>7, <2>5 DEF Get, Shape, Renewed
    <2>6. CASE Lib(c) = l
      <3>1. \/ cache' = [cache EXCEPT ![l] = kept]
            \/ /\ Len(kept[j].ll) < MaxQueries
               /\ cache' = [cache EXCEPT ![l] = [kept EXCEPT ![j] = Queried(kept[j])]]
        BY <1>7, <2>6 DEF Get
      <3> HIDE DEF kept
      <3>2. DOMAIN kept = Keys /\ DOMAIN cache = Libs
        BY DEF kept, Shape
      <3> QED BY <2>3, <2>4, <3>1, <3>2
    <2> QED BY <2>5, <2>6
  <1>8. ASSUME NEW c \in Calls, GetReply(c)
        PROVE  /\ Len(cache'[l][k].ll) <= MaxQueries
               /\ cache'[l][k].leaseTime <= now
               /\ Renewed(l, k) => \A d \in Calls : call[d] # Idle /\ call[d].place[2] = k => l \notin duty'[d]
    <2>1. CASE cache' = cache
      BY <1>1, <2>1 DEF Renewed
    <2>2. CASE ~ (Lib(c) = l /\ call[c].place[2] = k)
      <3>1. cache'[l][k] = cache[l][k]
        BY <1>8, <2>2 DEF GetReply, Shape
      <3> QED BY <1>a, <3>1
    <2>3. CASE Lib(c) = l /\ call[c].place[2] = k /\ cache' # cache
      <3>1. /\ cache' = [cache EXCEPT ![l][k] = Granted(cache[l][k])]
            /\ duty' = [d \in Calls |-> IF call[d].pc # "idle" /\ call[d].place[2] = k THEN duty[d] \ {l} ELSE duty[d]]
        BY <1>8, <2>3 DEF GetReply
      <3>2. cache'[l][k] = Granted(cache[l][k])
        BY <3>1 DEF Shape
      <3>3. cache'[l][k].ll = cache[l][k].ll /\ cache'[l][k].leaseTime = now
        BY <1>1, <3>2, GrantedCopy
      <3>4. \A d \in Calls : call[d] # Idle => call[d].pc # "idle"
        BY CallForms
      <3> QED BY <1>0, <1>1, <3>1, <3>3, <3>4
    <2> QED BY <2>1, <2>2, <2>3
  <1>9. ASSUME NEW c \in Calls, NEW j \in Keys, NEW op \in {"Put", "Append", "Remove"}, NEW x \in Items,
               BeginWrite(c, op, j, x)
        PROVE  cache'[l][k] = cache[l][k]
    BY <1>9 DEF BeginWrite
  <1>10. CASE \E c \in Calls : Step(c)
    BY <1>a, <1>4, <1>5, <1>6, <1>7, <1>8, <1>9, <1>10 DEF Step
  <1> QED BY <1>3, <1>10, StepOrOutside
-----------------------------------------------------------------------------
(* The dates, the places and the duties.                                   *)

\* Nothing is dated in the future.
LEMMA DateNext ==
  ASSUME IInv, Next, Shape'
  PROVE  DateInv'
  <1> USE DEF IInv
  <1>0. {MaxTime, MaxWrites, MaxQueries} \subseteq Nat /\ now \in Nat /\ now' \in Nat /\ now' >= now
    BY StorageAssumption, TimeGoesOn DEF Shape
  <1>1. \A l \in Libs, k \in Keys : Len(cache'[l][k].ll) <= MaxQueries /\ cache'[l][k].leaseTime <= now'
    <2> SUFFICES ASSUME NEW l \in Libs, NEW k \in Keys
                 PROVE  Len(cache'[l][k].ll) <= MaxQueries /\ cache'[l][k].leaseTime <= now'
      OBVIOUS
    <2>1. cache'[l][k] \in Copy
      BY DEF Shape
    <2>2. cache'[l][k].leaseTime \in Nat
      BY <1>0, <2>1 DEF Copy
    <2> QED BY <1>0, <2>2, CopyStep
  <1> DEFINE Dated(e) == \A i \in DOMAIN e.holders : e.holders[i].issueTime <= now
             Entries == Len(entry') >= Len(entry) /\ \A n \in DOMAIN entry' : Dated(entry'[n])
  <1>2. Len(entry) \in Nat /\ Len(entry') \in Nat /\ DOMAIN entry = 1 .. Len(entry) /\ DOMAIN entry' = 1 .. Len(entry')
    BY DEF Shape
  <1>3. \A n \in DOMAIN entry : Dated(entry[n])
    BY DEF DateInv
  <1>4. ASSUME NEW n, NEW v, n \in DOMAIN entry => Dated(v), entry' = [entry EXCEPT ![n] = v]
        PROVE  Entries
    <2>1. Len(entry') = Len(entry) /\ DOMAIN entry' = DOMAIN entry
      BY <1>2, <1>4
    <2> HIDE DEF Dated
    <2> QED BY <1>2, <1>3, <1>4, <2>1
  <1>5. ASSUME NEW e \in LeaseEntry, NEW l \in Libs, Dated(e) PROVE Dated(AddHolder(e, l))
    <2>1. AddHolder(e, l).holders = Append(e.holders, [address |-> l, issueTime |-> now])
      BY HolderAdded
    <2>2. e.holders \in Seq(Holder)
      BY DEF LeaseEntry
    <2> QED BY <1>0, <1>5, <2>1, <2>2
  <1>6. ASSUME UNCHANGED entry PROVE Entries
    BY <1>2, <1>3, <1>6
  <1>7. ASSUME NEW c \in Calls, AddLease(c) PROVE Entries
    <2> DEFINE n == leasePool[call[c].place]
    <2>1. \/ entry' = entry
          \/ entry' = [entry EXCEPT ![n] = AddHolder(entry[n], Lib(c))]
      BY <1>7 DEF AddLease
    <2>2. n \in DOMAIN entry => Dated(AddHolder(entry[n], Lib(c)))
      BY <1>3, <1>5, EntryForm, CallForms
    <2> HIDE DEF Dated, Entries, n
    <2> QED BY <1>4, <1>6, <2>1, <2>2
  <1>8. ASSUME NEW c \in Calls, NewEntry(c) PROVE Entries
    <2>1. entry' = Append(entry, [pending |-> FALSE, holders |-> <<>>])
      BY <1>8 DEF NewEntry
    <2>2. Dated([pending |-> FALSE, holders |-> <<>>])
      OBVIOUS
    <2>3. entry \in Seq(LeaseEntry)
      BY DEF Shape
    <2> HIDE DEF Dated
    <2> QED BY <1>2, <1>3, <2>1, <2>2, <2>3
  <1>9. ASSUME NEW c \in Calls, AddFirstHolder(c) PROVE Entries
    <2> DEFINE n == call[c].entry
    <2>1. entry' = [entry EXCEPT ![n] = AddHolder(entry[n], Lib(c))]
      BY <1>9 DEF AddFirstHolder
    <2>2. n \in DOMAIN entry => Dated(AddHolder(entry[n], Lib(c)))
      BY <1>3, <1>5, EntryForm, CallForms
    <2> HIDE DEF Dated, Entries, n
    <2> QED BY <1>4, <2>1, <2>2
  <1>10. ASSUME NEW n, NEW b, entry' = [entry EXCEPT ![n] = [entry[n] EXCEPT !.pending = b]] PROVE Entries
    <2> DEFINE v == [entry[n] EXCEPT !.pending = b]
    <2>1. n \in DOMAIN entry => v.holders = entry[n].holders
      BY EntryForm DEF LeaseEntry
    <2>2. n \in DOMAIN entry => Dated(v)
      BY <1>3, <2>1
    <2> HIDE DEF Dated, Entries, v
    <2> QED BY <1>4, <1>10, <2>2 DEF v
  <1>11. ASSUME NEW c \in Calls, revokeLease(c) PROVE Entries
    <2>1. \/ entry' = entry
          \/ \E n : entry' = [entry EXCEPT ![n] = [entry[n] EXCEPT !.pending = TRUE]]
      BY <1>11 DEF revokeLease
    <2> HIDE DEF Entries
    <2> QED BY <1>6, <1>10, <2>1
  <1>12. ASSUME NEW c \in Calls, RevokeDone(c) PROVE Entries
    <2>1. \E n : entry' = [entry EXCEPT ![n] = [entry[n] EXCEPT !.pending = FALSE]]
      BY <1>12 DEF RevokeDone
    <2> HIDE DEF Entries
    <2> QED BY <1>10, <2>1
  <1>13. ASSUME Outside \/ \E c \in Calls : Step(c) /\ ~AddLease(c) /\ ~NewEntry(c) /\ ~AddFirstHolder(c)
                                            /\ ~revokeLease(c) /\ ~RevokeDone(c)
         PROVE  UNCHANGED entry
    BY <1>13, OutsideLeaves, StoreFrame DEF Step, Handler, storeVars
  <1>14. Entries
    <2> HIDE DEF Entries
    <2> QED BY <1>6, <1>7, <1>8, <1>9, <1>11, <1>12, <1>13, StepOrOutside
  <1>15. \A p \in Places : leasePool'[p] <= Len(entry')
    <2>1. ASSUME NEW c \in Calls, NewEntry(c), NEW p \in Places PROVE leasePool'[p] <= Len(entry')
      <3>1. leasePool'[p] \in {leasePool[p], Len(entry')}
        BY <2>1 DEF NewEntry, Shape
      <3> QED BY <1>2, <1>14, <3>1 DEF DateInv, Shape
    <2>2. ASSUME Outside \/ \E c \in Calls : Step(c) /\ ~NewEntry(c) PROVE UNCHANGED leasePool
      BY <2>2, OutsideLeaves, StoreFrame DEF Step, Handler, storeVars
    <2>3. ASSUME UNCHANGED leasePool, NEW p \in Places PROVE leasePool'[p] <= Len(entry')
      BY <1>2, <1>14, <2>3 DEF DateInv, Shape
    <2> QED BY <2>1, <2>2, <2>3, StepOrOutside
  <1>16. \A n \in DOMAIN entry' : \A i \in DOMAIN entry'[n].holders : entry'[n].holders[i].issueTime <= now'
    <2> SUFFICES ASSUME NEW n \in DOMAIN entry', NEW i \in DOMAIN entry'[n].holders
                 PROVE  entry'[n].holders[i].issueTime <= now'
      OBVIOUS
    <2>1. entry'[n].holders \in Seq(Holder)
      <3>1. entry'[n] \in LeaseEntry
        BY DEF Shape
      <3> QED BY <3>1 DEF LeaseEntry
    <2>2. entry'[n].holders[i].issueTime \in Nat
      <3>1. entry'[n].holders[i] \in Holder
        BY <2>1
      <3> QED BY <1>0, <3>1 DEF Holder
    <2>3. entry'[n].holders[i].issueTime <= now
      BY <1>14
    <2> QED BY <1>0, <2>2, <2>3
  <1> QED BY <1>1, <1>15, <1>16 DEF DateInv

\* Once all servers have registered, a libstore that starts knows them all, and
\* calls go to the key's own server.
LEMMA HomeNext ==
  ASSUME IInv, Next
  PROVE  HomeInv'
  <1> USE DEF IInv
  <1>1. \A l \in Libs : ring'[l] \in {{}, Servers}
    <2>1. CASE UNCHANGED ring
      BY <2>1 DEF HomeInv
    <2>2. ASSUME NEW l \in Libs, NewLibstore(l) PROVE \A i \in Libs : ring'[i] \in {{}, Servers}
      <3>1. nodes = Servers
        BY <2>2, StorageAssumption, FS_Subset DEF NewLibstore, Ready, Shape
      <3> QED BY <2>2, <3>1 DEF NewLibstore, HomeInv, Shape
    <2>3. ASSUME ~ \E l \in Libs : NewLibstore(l) PROVE UNCHANGED ring
      BY <2>3, StepOrOutside, StoreFrame DEF Outside, RegisterServer, Crash, Tick, ringVars
    <2> QED BY <2>1, <2>2, <2>3
  <1>2. ASSUME NEW c \in Calls, Step(c)
        PROVE  call'[c] # Idle => call'[c].place[1] = Home(call'[c].place[2])
    <2> DEFINE Kept == call'[c] = Idle \/ (call[c] # Idle /\ call'[c].place = call[c].place)
    <2>0. ASSUME Kept PROVE call'[c] # Idle => call'[c].place[1] = Home(call'[c].place[2])
      BY <2>0 DEF HomeInv
    <2>a. call \in [Calls -> CallStates] /\ c \in DOMAIN call
      BY DEF Shape, CallStates
    <2>b. ASSUME NEW k \in Keys, ring[Lib(c)] # {} PROVE pickServer(Lib(c), k) = Home(k)
      <3>1. ring[Lib(c)] = Servers
        BY <2>b, CallForms DEF HomeInv
      <3> QED BY <3>1 DEF pickServer, Home
    <2>1. CASE ReadValue(c)
      <3>1. call[c] \in ReadCall
        BY <2>1, CallForms DEF ReadValue, At
      <3>2. Kept
        BY <2>1, <2>a, <3>1 DEF ReadValue, Return, ReadCall, Idle
      <3> QED BY <2>0, <3>2
    <2>2. CASE AddLease(c) \/ LeaseMissing(c) \/ NewEntry(c) \/ AddFirstHolder(c) \/ GetReply(c)
      <3>1. call[c] \in AskCall
        BY <2>2, CallForms DEF AddLease, LeaseMissing, NewEntry, AddFirstHolder, GetReply, At, AskPcs
      <3>2. Kept
        BY <2>2, <2>a, <3>1 DEF AddLease, LeaseMissing, NewEntry, AddFirstHolder, GetReply, Goto, Return, AskCall, Idle
      <3> QED BY <2>0, <3>2
    <2>3. CASE revokeLease(c) \/ RevokeNext(c) \/ RevokeLease(c) \/ RevokeTimeout(c) \/ RevokeDone(c)
      <3>1. call[c] \in WriteCall
        BY <2>3, CallForms DEF revokeLease, RevokeNext, RevokeLease, RevokeTimeout, RevokeDone, At, WritePcs
      <3>2. call[c] # Idle
        BY <3>1 DEF WriteCall, WritePcs, Idle
      <3>3. ASSUME Called(c) PROVE call'[c].place = call[c].place
        BY <2>a, <3>1, <3>3 DEF Called, WriteCall
      <3>4. ASSUME revokeLease(c) \/ RevokeNext(c) \/ RevokeDone(c) PROVE call'[c].place = call[c].place
        BY <2>a, <3>1, <3>4 DEF revokeLease, RevokeNext, RevokeDone, Goto, WriteCall
      <3>5. Kept
        BY <2>3, <3>2, <3>3, <3>4 DEF RevokeLease, RevokeTimeout
      <3> QED BY <2>0, <3>5
    <2>4. CASE Write(c)
      <3>1. call[c] \in WriteCall
        BY <2>4, CallForms DEF Write, At, WritePcs
      <3>2. call[c] # Idle
        BY <3>1 DEF WriteCall, WritePcs, Idle
      <3>3. ASSUME ReadList(c) PROVE call'[c] = Idle \/ call'[c].place = call[c].place
        BY <2>a, <3>1, <3>3 DEF ReadList, Return, WriteCall
      <3>4. ASSUME ~ReadList(c) PROVE call'[c] = Idle
        BY <2>4, <2>a, <3>4 DEF Write, Put, RemoveFromList, Written, Return
      <3>5. Kept
        BY <3>2, <3>3, <3>4
      <3> QED BY <2>0, <3>5
    <2>5. ASSUME NEW k \in Keys, Get(c, k)
          PROVE  call'[c] # Idle => call'[c].place[1] = Home(call'[c].place[2])
      <3>1. \/ call'[c] = call[c]
            \/ call'[c].place = <<pickServer(Lib(c), k), k>>
        BY <2>5, <2>a DEF Get
      <3> QED BY <2>0, <2>5, <2>b, <3>1 DEF Get
    <2>6. ASSUME NEW k \in Keys, NEW op \in {"Put", "Append", "Remove"}, NEW x \in Items, BeginWrite(c, op, k, x)
          PROVE  call'[c] # Idle => call'[c].place[1] = Home(call'[c].place[2])
      <3>1. call'[c].place = <<pickServer(Lib(c), k), k>>
        BY <2>6, <2>a DEF BeginWrite
      <3> QED BY <2>6, <2>b, <3>1 DEF BeginWrite
    <2> QED BY <1>2, <2>1, <2>2, <2>3, <2>4, <2>5, <2>6 DEF Step, Handler
  <1>3. \A c \in Calls : call'[c] # Idle => call'[c].place[1] = Home(call'[c].place[2])
    <2>1. CASE Outside
      BY <2>1, OutsideLeaves DEF HomeInv
    <2>2. ASSUME NEW c \in Calls, Step(c), NEW d \in Calls
          PROVE  call'[d] # Idle => call'[d].place[1] = Home(call'[d].place[2])
      BY <1>2, <2>2, OthersStay DEF HomeInv
    <2> QED BY <2>1, <2>2, StepOrOutside
  <1>4. \A p \in Places : hashmap'[p] # Absent => p[1] = Home(p[2])
    <2>1. CASE UNCHANGED hashmap
      BY <2>1 DEF HomeInv
    <2>2. ASSUME NEW c \in Calls, Write(c) PROVE \A p \in Places : hashmap'[p] # Absent => p[1] = Home(p[2])
      <3>1. call[c] # Idle
        BY <2>2 DEF Write, At, Idle
      <3>2. UNCHANGED hashmap \/ \E v : hashmap' = [hashmap EXCEPT ![call[c].place] = v]
        BY <2>2 DEF Write, Put, ReadList, RemoveFromList, Written
      <3>3. call[c].place[1] = Home(call[c].place[2])
        BY <3>1 DEF HomeInv
      <3>4. ASSUME NEW v, hashmap' = [hashmap EXCEPT ![call[c].place] = v], NEW p \in Places
            PROVE  p = call[c].place \/ hashmap'[p] = hashmap[p]
        BY <3>4 DEF Shape
      <3> QED BY <3>2, <3>3, <3>4, <2>1 DEF HomeInv
    <2>3. ASSUME ~ \E c \in Calls : Write(c) PROVE UNCHANGED hashmap
      BY <2>3, StepOrOutside, OutsideLeaves, StoreFrame DEF Step, Handler, storeVars
    <2> QED BY <2>1, <2>2, <2>3
  <1> QED BY <1>1, <1>3, <1>4 DEF HomeInv, Home

\* What happens to a copy that another call still has to revoke: it lives on as
\* it is, or it dies.
LEMMA DutyKept ==
  ASSUME IInv, Next, Shape', NEW d \in Calls, call[d] # Idle, NEW l \in duty'[d],
         NEW k, k = call[d].place[2], Live(l, k)'
  PROVE  Live(l, k) /\ cache'[l][k].leaseTime = cache[l][k].leaseTime
  <1>0. LEASE_SECONDS \in Nat /\ now \in Nat /\ now' \in Nat /\ now' >= now
    BY StorageAssumption, TimeGoesOn DEF IInv, Shape
  <1>1. l \in Libs /\ k \in Keys
    BY CallForms DEF IInv, Shape, Places
  <1>2. cache[l][k] \in Copy /\ cache'[l][k] \in Copy
    BY <1>1 DEF IInv, Shape
  <1>3. cache[l][k].leaseTime \in Nat /\ cache'[l][k].leaseTime \in Nat
    BY <1>2, StorageAssumption, SMTT(30) DEF Copy
  <1>4. ~Renewed(l, k)
    BY <1>1, CopyStep
  <1>5. cache'[l][k].granted /\ now' - cache'[l][k].leaseTime <= LEASE_SECONDS /\ Runs(l)'
    BY DEF Live
  <1>6. cache[l][k].granted /\ cache'[l][k].leaseTime = cache[l][k].leaseTime
    BY <1>4, <1>5 DEF Renewed
  <1>7. Runs(l)
    BY <1>1, <1>5, TimeGoesOn DEF IInv
  <1>8. now - cache[l][k].leaseTime <= LEASE_SECONDS
    BY <1>0, <1>3, <1>5, <1>6
  <1> QED BY <1>6, <1>7, <1>8 DEF Live

\* A step that is not the call's own keeps what is known of its duty.
LEMMA DutyFrame ==
  ASSUME IInv, Next, Shape', NEW d \in Calls, call'[d] = call[d], duty'[d] \subseteq duty[d]
  PROVE  CallDuty(d)'
  <1> PICK k : k = call[d].place[2]
    OBVIOUS
  <1>0. CallDuty(d)
    BY DEF IInv, DutyInv
  <1>1. CASE call[d].pc \notin {"revoking", "calling", "write", "append"}
    BY <1>0, <1>1 DEF CallDuty
  <1>2. CASE call[d].pc \in {"revoking", "calling", "write", "append"}
    <2>1. call[d] # Idle /\ call[d] \in WriteCall
      BY <1>2, CallForms DEF IInv, Idle, WritePcs
    <2>2. ASSUME NEW l \in duty'[d], Live(l, k)'
          PROVE  /\ l \in duty[d] /\ Live(l, k)
                 /\ cache'[l][k].leaseTime = cache[l][k].leaseTime
      BY <2>1, <2>2, DutyKept
    <2>3. call'[d].pc \in {"revoking", "calling"} =>
             \A l \in duty'[d] : Live(l, k)' => Listed(d, l)'
      BY <1>0, <2>2 DEF CallDuty, Listed
    <2>4. call'[d].pc = "calling" =>
             /\ call'[d].todo # <<>> /\ call'[d].since <= now'
             /\ \A l \in duty'[d] : Live(l, k)' => cache'[l][k].leaseTime <= call'[d].since
      <3>1. /\ call[d].since \in 0 .. MaxTime /\ MaxTime \in Nat
            /\ now \in 0 .. MaxTime /\ now' \in Nat /\ now' >= now
        BY <2>1, StorageAssumption, TimeGoesOn DEF WriteCall, IInv, Shape
      <3> QED BY <1>0, <2>2, <3>1 DEF CallDuty
    <2>5. call'[d].pc \in {"write", "append"} =>
             \A l \in duty'[d] : ~Live(l, k)'
      BY <1>0, <2>2 DEF CallDuty
    <2> QED BY <1>2, <2>3, <2>4, <2>5 DEF CallDuty
  <1> QED BY <1>1, <1>2

\* A call goes on to its next holder only when the copy of this one is dead.
LEMMA NextHolder ==
  ASSUME IInv, Next, Shape', NEW c \in Calls, call[c] \in WriteCall, call[c].todo # <<>>,
         call'[c] = [call[c] EXCEPT !.pc = "revoking", !.todo = Tail(@)],
         duty'[c] = duty[c], call[c].pc \in {"revoking", "calling"},
         NEW k, k = call[c].place[2],
         \A l \in duty[c] : Live(l, k) /\ Live(l, k)' =>
             ~ (/\ Head(call[c].todo).address = l
                /\ cache[l][k].leaseTime - Head(call[c].todo).issueTime <= MaxDelay)
  PROVE  CallDuty(c)'
  <1>1. /\ call'[c].pc = "revoking" /\ call'[c].place = call[c].place
        /\ call'[c].todo = Tail(call[c].todo) /\ call[c].todo \in Seq(Holder)
    BY DEF WriteCall
  <1>2. call[c] # Idle
    BY DEF Idle
  <1>3. ASSUME NEW l \in duty'[c], Live(l, k)' PROVE Listed(c, l)'
    <2>1. Live(l, k) /\ cache'[l][k].leaseTime = cache[l][k].leaseTime
      BY <1>2, <1>3, DutyKept
    <2>2. Listed(c, l)
      BY <2>1 DEF IInv, DutyInv, CallDuty
    <2>3. PICK i \in DOMAIN call[c].todo :
             /\ call[c].todo[i].address = l
             /\ cache[l][k].leaseTime - call[c].todo[i].issueTime <= MaxDelay
      BY <2>2 DEF Listed
    <2>4. i # 1
      BY <1>3, <2>1, <2>3, <1>1
    <2>5. i - 1 \in DOMAIN Tail(call[c].todo) /\ Tail(call[c].todo)[i - 1] = call[c].todo[i]
      BY <1>1, <2>3, <2>4
    <2> QED BY <1>1, <2>1, <2>3, <2>5 DEF Listed
  <1> QED BY <1>1, <1>3 DEF CallDuty

\* A copy is dated by the server before it is by its cache, but for the delay of
\* the answer, so that it is over when the server says so.
LEMMA OverIsOver ==
  ASSUME Shape, NEW l \in Libs, NEW k \in Keys, NEW h \in Holder,
         cache[l][k].leaseTime - h.issueTime <= MaxDelay, LeaseOver(h)
  PROVE  ~Live(l, k)
  <1>1. cache[l][k].leaseTime \in Nat /\ h.issueTime \in Nat /\ now \in Nat
    <2>1. cache[l][k] \in Copy
      BY DEF Shape
    <2> QED BY <2>1, StorageAssumption DEF Copy, Holder, Shape
  <1>2. {LEASE_SECONDS, LEASE_GUARD_SECONDS, MaxDelay} \subseteq Nat /\ MaxDelay <= LEASE_GUARD_SECONDS
    BY StorageAssumption
  <1> QED BY <1>1, <1>2 DEF LeaseOver, Live

\* A write waits for every copy it has to revoke.
LEMMA DutyNext ==
  ASSUME IInv, Next, Shape'
  PROVE  DutyInv'
  <1> USE DEF IInv
  <1>1. CASE Outside
    BY <1>1, OutsideLeaves, DutyFrame DEF DutyInv
  <1>2. ASSUME NEW c \in Calls, Step(c) PROVE CallDuty(c)'
    <2> PICK k : k = call[c].place[2]
      OBVIOUS
    <2> DEFINE Early == call'[c].pc \notin {"revoking", "calling", "write", "append"} /\ duty'[c] = {}
    <2>0. CallDuty(c) /\ call \in [Calls -> CallStates] /\ duty \in [Calls -> SUBSET Libs]
      BY DEF DutyInv, Shape, CallStates
    <2>a. Early => CallDuty(c)'
      BY DEF CallDuty
    <2>1. CASE ReadValue(c)
      <3>1. call[c] \in ReadCall /\ call[c].pc = "read"
        BY <2>1, CallForms DEF ReadValue, At
      <3>2. Early
        BY <2>0, <2>1, <3>1 DEF ReadValue, Return, Idle, CallDuty
      <3> QED BY <2>a, <3>2
    <2>2. CASE AddLease(c) \/ LeaseMissing(c) \/ NewEntry(c) \/ AddFirstHolder(c)
      <3>1. call[c] \in AskCall /\ call[c].pc \in AskPcs
        BY <2>2, CallForms DEF AddLease, LeaseMissing, NewEntry, AddFirstHolder, At, AskPcs
      <3>2. call'[c].pc \in AskPcs
        BY <2>0, <2>2, <3>1 DEF AddLease, LeaseMissing, NewEntry, AddFirstHolder, Goto, AskPcs, AskCall
      <3>3. duty' = duty
        BY <2>2 DEF AddLease, LeaseMissing, NewEntry, AddFirstHolder
      <3>4. Early
        BY <2>0, <3>1, <3>2, <3>3 DEF CallDuty, AskPcs
      <3> QED BY <2>a, <3>4
    <2>3. CASE GetReply(c)
      <3>1. call[c].pc = "reply" /\ call'[c] = Idle
        BY <2>0, <2>3 DEF GetReply, At, Return
      <3>2. duty[c] = {}
        BY <2>0, <3>1 DEF CallDuty
      <3>3. duty'[c] \subseteq duty[c]
        BY <2>3 DEF GetReply
      <3>4. Early
        BY <3>1, <3>2, <3>3 DEF Idle
      <3> QED BY <2>a, <3>4
    <2>4. ASSUME NEW j \in Keys, Get(c, j) PROVE CallDuty(c)'
      <3>1. call[c].pc = "idle" /\ duty' = duty
        BY <2>4 DEF Get, At
      <3>2. call'[c].pc \in {"idle", "read"}
        BY <2>0, <2>4, <3>1 DEF Get
      <3>3. Early
        BY <2>0, <3>1, <3>2 DEF CallDuty
      <3> QED BY <2>a, <3>3
    <2>5. ASSUME NEW j \in Keys, NEW op \in {"Put", "Append", "Remove"}, NEW x \in Items, BeginWrite(c, op, j, x)
          PROVE  CallDuty(c)'
      <3>1. call[c].pc = "idle" /\ duty' = duty /\ call'[c].pc = "revokeLease"
        BY <2>0, <2>5 DEF BeginWrite, At
      <3>2. Early
        BY <2>0, <3>1 DEF CallDuty
      <3> QED BY <2>a, <3>2
    <2>6. CASE revokeLease(c)
      <3> DEFINE n == leasePool[call[c].place]
      <3>1. call[c] \in WriteCall /\ call[c].pc = "revokeLease" /\ duty[c] = {}
        BY <2>0, <2>6, CallForms DEF revokeLease, At, WritePcs, CallDuty
      <3>2. CASE n = 0
        <4>1. duty' = duty /\ call'[c].pc = "write"
          BY <2>0, <2>6, <3>1, <3>2 DEF revokeLease, Goto, WriteCall
        <4> QED BY <3>1, <4>1 DEF CallDuty
      <3>3. CASE n # 0
        <4>1. /\ call'[c].pc = "revoking" /\ call'[c].place = call[c].place
              /\ call'[c].todo = entry[n].holders
              /\ cache' = cache
          BY <2>0, <2>6, <3>1, <3>3 DEF revokeLease, WriteCall
        <4>2. duty'[c] = {l \in Libs : Live(l, k) /\ OnRecord(l, n, k)}
          BY <2>0, <2>6, <3>3 DEF revokeLease
        <4>3. \A l \in duty'[c] : Listed(c, l)'
          BY <4>1, <4>2 DEF OnRecord, Listed
        <4> QED BY <4>1, <4>3 DEF CallDuty
      <3> QED BY <3>2, <3>3
    <2>b. ASSUME call[c].pc \in {"revoking", "calling"}
          PROVE  /\ call[c] \in WriteCall /\ call[c].todo \in Seq(Holder)
                 /\ call[c].todo # <<>> => Head(call[c].todo) \in Holder
                 /\ \A l \in duty[c] : l \in Libs
                 /\ k \in Keys
      <3>1. call[c] \in WriteCall
        BY <2>b, CallForms DEF WritePcs
      <3>2. call[c].todo \in Seq(Holder) /\ k \in Keys
        BY <3>1 DEF WriteCall, Places
      <3> QED BY <2>0, <3>1, <3>2
    <2>7. CASE RevokeNext(c)
      <3> DEFINE h == Head(call[c].todo)
      <3>1. /\ call[c].pc = "revoking" /\ call[c] \in WriteCall /\ call[c].todo # <<>> /\ h \in Holder
            /\ duty' = duty /\ cache' = cache /\ now' = now
        BY <2>7, <2>b DEF RevokeNext, At
      <3>2. CASE LeaseOver(h) /\ call' = [call EXCEPT ![c].todo = Tail(@)]
        <4>1. call'[c] = [call[c] EXCEPT !.pc = "revoking", !.todo = Tail(@)]
          BY <2>0, <3>1, <3>2 DEF WriteCall
        <4>2. \A l \in duty[c] : Live(l, k) => ~ (h.address = l /\ cache[l][k].leaseTime - h.issueTime <= MaxDelay)
          BY <2>b, <3>1, <3>2, OverIsOver
        <4> QED BY <3>1, <4>1, <4>2, NextHolder
      <3>3. CASE call' = [call EXCEPT ![c].pc = "calling", ![c].since = now]
        <4>1. /\ call'[c].pc = "calling" /\ call'[c].place = call[c].place
              /\ call'[c].todo = call[c].todo /\ call'[c].since = now
          BY <2>0, <3>1, <3>3 DEF WriteCall
        <4>2. ASSUME NEW l \in duty'[c], Live(l, k)'
              PROVE  Listed(c, l)' /\ cache'[l][k].leaseTime <= now
          <5>1. Live(l, k)
            BY <3>1, <4>2, DutyKept DEF Idle
          <5>2. Listed(c, l)
            BY <2>0, <3>1, <5>1 DEF CallDuty
          <5>3. cache[l][k].leaseTime <= now
            BY <2>b, <3>1 DEF DateInv
          <5> QED BY <3>1, <4>1, <5>2, <5>3 DEF Listed
        <4>3. now \in Nat
          BY StorageAssumption DEF Shape
        <4> QED BY <3>1, <4>1, <4>2, <4>3 DEF CallDuty
      <3>4. CASE UNCHANGED call
        BY <3>1, <3>4, DutyFrame
      <3> QED BY <2>7, <3>2, <3>3, <3>4 DEF RevokeNext
    <2>c. ASSUME call[c].pc = "calling", Called(c)
          PROVE  /\ call[c].todo # <<>>
                 /\ call'[c] = [call[c] EXCEPT !.pc = "revoking", !.todo = Tail(@)]
      BY <2>0, <2>b, <2>c DEF Called, CallDuty, WriteCall
    <2>8. CASE RevokeLease(c)
      <3> DEFINE h == Head(call[c].todo)
      <3>1. call[c].pc = "calling" /\ call[c] \in WriteCall /\ call[c].todo # <<>> /\ h \in Holder /\ duty' = duty
        BY <2>8, <2>b, <2>c DEF RevokeLease, At
      <3>2. ASSUME NEW l \in duty[c], Live(l, k)' PROVE h.address # l
        <4>1. l \in Libs /\ k \in Keys /\ UNCHANGED deathVars
          BY <2>8, <2>b, <3>1 DEF RevokeLease
        <4>2. Runs(l)
          BY <3>2, <4>1 DEF Live, Runs, deathVars
        <4>3. CASE h.address = l
          <5>1. cache' = [cache EXCEPT ![l][k] = Ungranted(cache[l][k])]
            BY <2>8, <4>2, <4>3 DEF RevokeLease
          <5>2. cache'[l][k] = Ungranted(cache[l][k])
            BY <4>1, <5>1 DEF Shape
          <5>3. ~cache'[l][k].granted
            BY <4>1, <5>2, GrantedCopy DEF Shape
          <5> QED BY <3>2, <5>3 DEF Live
        <4> QED BY <4>3
      <3>3. Called(c)
        BY <2>8 DEF RevokeLease
      <3> QED BY <2>c, <3>1, <3>2, <3>3, NextHolder
    <2>9. CASE RevokeTimeout(c)
      <3> DEFINE h == Head(call[c].todo)
      <3>1. /\ call[c].pc = "calling" /\ call[c] \in WriteCall /\ call[c].todo # <<>> /\ duty' = duty
            /\ Called(c) /\ now - call[c].since >= LEASE_SECONDS + LEASE_GUARD_SECONDS
        BY <2>9, <2>b, <2>c DEF RevokeTimeout, At
      <3>2. ASSUME NEW l \in duty[c] PROVE ~Live(l, k)
        <4>1. l \in Libs /\ k \in Keys
          BY <2>b, <3>1
        <4>2. cache[l][k].leaseTime \in Nat /\ call[c].since \in Nat /\ now \in Nat
          <5>1. cache[l][k] \in Copy
            BY <4>1 DEF Shape
          <5>2. /\ cache[l][k].leaseTime \in 0 .. MaxTime /\ call[c].since \in 0 .. MaxTime
                /\ now \in 0 .. MaxTime /\ MaxTime \in Nat
            BY <3>1, <5>1, StorageAssumption DEF Copy, WriteCall, Shape
          <5> QED BY <5>2
        <4>3. Live(l, k) => cache[l][k].leaseTime <= call[c].since
          BY <2>0, <3>1 DEF CallDuty
        <4>4. LEASE_SECONDS \in Nat /\ LEASE_GUARD_SECONDS \in Nat /\ LEASE_GUARD_SECONDS > 0
          BY StorageAssumption
        <4> QED BY <3>1, <4>2, <4>3, <4>4, SMTT(30) DEF Live
      <3> QED BY <2>c, <3>1, <3>2, NextHolder
    <2>10. CASE RevokeDone(c)
      <3>1. /\ call[c].pc = "revoking" /\ call[c] \in WriteCall /\ call[c].todo = <<>>
            /\ duty' = duty /\ Goto(c, "write")
        BY <2>10, <2>b DEF RevokeDone, At
      <3>2. call'[c].pc = "write" /\ call'[c].place = call[c].place
        BY <2>0, <3>1 DEF Goto, WriteCall
      <3>3. \A l \in duty[c] : ~Live(l, k)
        BY <2>0, <3>1 DEF CallDuty, Listed
      <3>4. \A l \in duty'[c] : ~Live(l, k)'
        BY <3>1, <3>3, DutyKept DEF Idle
      <3> QED BY <3>2, <3>4 DEF CallDuty
    <2>11. CASE Write(c)
      <3>1. call[c] \in WriteCall /\ call[c].pc \in {"write", "append"}
        BY <2>11, CallForms DEF Write, At, WritePcs
      <3>2. CASE duty' = [duty EXCEPT ![c] = {}] /\ Return(c)
        <4>1. Early
          BY <2>0, <3>2 DEF Return, Idle
        <4> QED BY <2>a, <4>1
      <3>3. CASE UNCHANGED duty /\ \E v : call' = [call EXCEPT ![c].pc = "append", ![c].val = v]
        <4>1. call'[c].pc = "append" /\ call'[c].place = call[c].place
          BY <2>0, <3>1, <3>3 DEF WriteCall
        <4>2. \A l \in duty[c] : ~Live(l, k)
          BY <2>0, <3>1 DEF CallDuty
        <4>3. \A l \in duty'[c] : ~Live(l, k)'
          BY <3>1, <3>3, <4>2, DutyKept DEF Idle
        <4> QED BY <4>1, <4>3 DEF CallDuty
      <3> QED BY <2>11, <3>2, <3>3 DEF Write, Put, ReadList, RemoveFromList, Written
    <2> QED BY <1>2, <2>1, <2>2, <2>3, <2>4, <2>5, <2>6, <2>7, <2>8, <2>9, <2>10, <2>11 DEF Step, Handler
  <1>3. ASSUME NEW c \in Calls, Step(c), NEW d \in Calls PROVE CallDuty(d)'
    BY <1>2, <1>3, OthersStay, DutyFrame
  <1> QED BY <1>1, <1>3, StepOrOutside DEF DutyInv
-----------------------------------------------------------------------------
\* The invariant of the storage: values and dates, places and duties.
THEOREM Invariance == Spec => []IInv
  <1>1. IInv /\ Next => IInv'
    BY ShapeNext, DateNext, HomeNext, DutyNext DEF IInv
  <1>2. IInv /\ UNCHANGED vars => IInv'
    BY SMTT(30) DEF IInv, vars, Shape, DateInv, HomeInv, DutyInv, CallDuty, Live, Listed, Runs
  <1> QED BY InitIInv, <1>1, <1>2, PTL DEF Spec

\* The servers' tables, the caches and the calls only ever hold what the type
\* invariant says: pools refer to entries that are there, holders are libstores
\* and are not dated in the future, a queue of queries stays below its bound.
THEOREM StorageTypeCorrect == Spec => []TypeOK
  <1>1. IInv => TypeOK
    <2> SUFFICES ASSUME IInv PROVE TypeOK
      OBVIOUS
    <2> USE DEF IInv
    <2>1. \A p \in Places : leasePool[p] \in 0 .. Len(entry) /\ hashmap[p] \in Seq(Items) \cup {Absent}
      BY DEF Shape, DateInv, Value
    <2>2. \A n \in DOMAIN entry : \A i \in DOMAIN entry[n].holders :
            entry[n].holders[i].address \in Libs /\ entry[n].holders[i].issueTime \in 0 .. now
      <3> SUFFICES ASSUME NEW n \in DOMAIN entry, NEW i \in DOMAIN entry[n].holders
                   PROVE  entry[n].holders[i].address \in Libs /\ entry[n].holders[i].issueTime \in 0 .. now
        OBVIOUS
      <3>1. entry[n].holders[i] \in Holder
        BY EntryForm
      <3>2. entry[n].holders[i].issueTime <= now /\ now \in Nat /\ MaxTime \in Nat
        BY StorageAssumption DEF DateInv, Shape
      <3> QED BY <3>1, <3>2 DEF Holder
    <2>3. \A l \in Libs : ring[l] \subseteq Servers /\ \A k \in Keys : Len(cache[l][k].ll) <= MaxQueries
      BY DEF Shape, DateInv
    <2> QED BY <2>1, <2>2, <2>3 DEF TypeOK, Shape
  <1> QED BY Invariance, <1>1, PTL

\* When Put, AppendToList or RemoveFromList is about to write, revokeLease has
\* seen to every copy that was live and on the server's record when it began:
\* called back, timed out, or passed by because the lease and its guard were over.
THEOREM WritesWaitForLeases == Spec => []RevokedBeforeWrite
  <1>1. IInv => RevokedBeforeWrite
    BY DEF IInv, DutyInv, CallDuty, RevokedBeforeWrite
  <1> QED BY Invariance, <1>1, PTL

\* pickServer sends every libstore's calls for a key to one and the same server,
\* because GetServers makes them wait until all servers have registered.
THEOREM OneServerPerKey == Spec => []KeysHaveOneServer
  <1>1. IInv => KeysHaveOneServer
    BY DEF IInv, HomeInv, KeysHaveOneServer, Places
  <1> QED BY Invariance, <1>1, PTL
=============================================================================
