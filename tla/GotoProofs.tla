----------------------------- MODULE GotoProofs -----------------------------
(***************************************************************************)
(* Proofs about the URL shortener, for any requests, slaves, queue, buffer *)
(* and crashes: in the final version no key is given out twice and         *)
(* connected slaves redirect as the master does; in every version the keys *)
(* in the map have no gap but one that load brings, and what was answered  *)
(* is in the queue, the buffer or where load will find it.                 *)
(***************************************************************************)
EXTENDS Goto, FiniteSetTheorems, FunctionTheorems, SequenceTheorems, WellFoundedInduction, TLAPS

\* What the map holds under a key.
Maps(k, u) == k \in DOMAIN urls /\ urls[k] = u

CallShape ==
    /\ call = [c \in Calls |-> call[c]]
    /\ \A c \in Calls : call[c] = [pc |-> call[c].pc, node |-> call[c].node, key |-> call[c].key, url |-> call[c].url]
CacheShape == cached = [s \in Slaves |-> cached[s]] /\ link \subseteq Slaves

\* Without a master nobody is connected, nothing acknowledged and no call there.
DownInv == ~up => link = {} /\ acked = {} /\ \A c \in Calls : ~AtMaster(c)

\* What was or is about to be answered is in the map.
AckedInv == \A r \in acked : Maps(r.key, r.url)
SavingInv == \A c \in Calls : call[c].pc # "write" /\ (call[c].pc = "save" => Maps(call[c].key, call[c].url))

\* So is what a connected slave has, or is about to keep.
AnsweredInv == \A c \in Calls : call[c].pc \in {"added", "got"} /\ call[c].node \in link => Maps(call[c].key, call[c].url)
CachedInv == \A s \in link : \A k \in DOMAIN cached[s] : Maps(k, cached[s][k])

IInv == /\ CallShape /\ CacheShape /\ DownInv
        /\ version = 4 => AckedInv /\ SavingInv /\ AnsweredInv /\ CachedInv

(***************************************************************************)
(* What Set does to a map.                                                 *)
(***************************************************************************)
\* SetIfAbsent keeps what a map holds, and afterwards the map holds the key;
\* with the new URL if it was absent (URLStore.Set).
LEMMA SetKeeps ==
    ASSUME NEW map, NEW k, NEW u
    PROVE  /\ \A x \in DOMAIN map : x \in DOMAIN SetIfAbsent(map, k, u) /\ SetIfAbsent(map, k, u)[x] = map[x]
           /\ k \in DOMAIN SetIfAbsent(map, k, u)
           /\ k \notin DOMAIN map => SetIfAbsent(map, k, u)[k] = u
           /\ \A x \in DOMAIN SetIfAbsent(map, k, u) : x \in DOMAIN map \/ (x = k /\ SetIfAbsent(map, k, u)[x] = u)
  BY DEF SetIfAbsent, Stored

LEMMA InitIInv == GotoInit => IInv
  BY DEF GotoInit, IInv, CallShape, CacheShape, DownInv, AckedInv, SavingInv, AnsweredInv, CachedInv, NoCall, AtMaster, NoUrls

LEMMA NextIInv == IInv /\ [GotoNext]_gotoVars => IInv'
  <1> SUFFICES ASSUME IInv, [GotoNext]_gotoVars PROVE IInv'
    OBVIOUS
  <1> USE DEF IInv, CallShape, CacheShape, DownInv, AckedInv, SavingInv, AnsweredInv, CachedInv, Maps,
              AtMaster, CallAt, GoOn, storeVars, slaveVars, pastVars
  <1>1. ASSUME NEW c \in Calls, NEW n \in GotoNodes, Add(c, n) PROVE IInv'
    BY <1>1 DEF Add
  <1>2. ASSUME NEW c \in Calls, Count(c) PROVE IInv'
    <2> DEFINE k == genKey[Cardinality(DOMAIN urls)]
    <2>1. /\ CallAt(c, "count") /\ UNCHANGED <<version, up, urls, cached, link, acked>>
          /\ call' = [call EXCEPT ![c] = [pc |-> "set", node |-> call[c].node, key |-> k, url |-> call[c].url]]
      BY <1>2 DEF Count
    <2> HIDE DEF k
    <2>2. CallShape'
      BY <2>1
    <2>3. DownInv' /\ (version = 4 => SavingInv' /\ AnsweredInv')
      BY <2>1
    <2> QED
      BY <2>1, <2>2, <2>3, ZenonT(60)
  <1>3. ASSUME NEW c \in Calls, Set(c) PROVE IInv'
    <2> DEFINE k == call[c].key  u == call[c].url
    <2>1. /\ version = 4 /\ version' = 4 /\ up /\ up' /\ CallAt(c, "set")
          /\ urls' = SetIfAbsent(urls, k, u)
          /\ UNCHANGED <<cached, link, acked>>
      BY <1>3 DEF Set
    <2>2. \A x, y : Maps(x, y) => Maps(x, y)'
      BY <2>1, SetKeeps
    <2>3. k \notin DOMAIN urls => k \in DOMAIN urls' /\ urls'[k] = u
      BY <2>1, SetKeeps
    <2>4. /\ call' = [call EXCEPT ![c].pc = IF k \in DOMAIN urls THEN "count" ELSE "save"]
      BY <1>3 DEF Set
    <2>5. CallShape'
      BY <2>4
    <2>6. \A d \in Calls : d # c => call'[d] = call[d]
      BY <2>4
    <2>7. call'[c].pc = (IF k \in DOMAIN urls THEN "count" ELSE "save") /\ call'[c].key = k /\ call'[c].url = u
      BY <2>4
    <2>8. SavingInv'
      BY <2>1, <2>2, <2>3, <2>6, <2>7
    <2>9. AnsweredInv'
      BY <2>1, <2>2, <2>6, <2>7
    <2>10. AckedInv' /\ CachedInv'
      BY <2>1, <2>2, SMTT(30)
    <2> QED
      BY <2>1, <2>5, <2>8, <2>9, <2>10
  <1>4. ASSUME NEW c \in Calls, SetLook(c) PROVE IInv'
    BY <1>4 DEF SetLook
  <1>5. ASSUME NEW c \in Calls, SetWrite(c) PROVE IInv'
    BY <1>5 DEF SetWrite
  <1>6. ASSUME NEW c \in Calls, Answer(c), call[c].pc = "save", UNCHANGED <<version, up, urls, slaveVars>>
        PROVE  IInv'
    <2> DEFINE r == Record(call[c].key, call[c].url)
    <2>1. acked' = acked \cup {r} /\ r.key = call[c].key /\ r.url = call[c].url
      BY <1>6 DEF Answer, Record
    <2>2. DownInv' /\ (version = 4 => AckedInv')
      BY <1>6, <2>1
    <2>3. call' = [call EXCEPT ![c] = NoCall] \/ call' = [call EXCEPT ![c] = [call[c] EXCEPT !.pc = "added"]]
      BY <1>6 DEF Answer
    <2>4. [call[c] EXCEPT !.pc = "added"] = [pc |-> "added", node |-> call[c].node, key |-> call[c].key, url |-> call[c].url]
      OBVIOUS
    <2>5. CallShape'
      BY <2>3, <2>4 DEF NoCall
    <2>6. version = 4 => SavingInv' /\ AnsweredInv'
      <3>1. CASE call' = [call EXCEPT ![c] = NoCall]
        BY <1>6, <3>1 DEF NoCall
      <3>2. CASE call' = [call EXCEPT ![c] = [call[c] EXCEPT !.pc = "added"]]
        BY <1>6, <2>4, <3>2
      <3> QED
        BY <2>3, <3>1, <3>2
    <2> QED
      BY <1>6, <2>2, <2>5, <2>6
  <1>7. ASSUME NEW c \in Calls, NoSave(c) \/ SaveToFile(c) \/ Enqueue(c) PROVE IInv'
    BY <1>6, <1>7 DEF NoSave, SaveToFile, Enqueue
  <1>8. ASSUME NEW c \in Calls, ProxySet(c) PROVE IInv'
    <2> DEFINE s == call[c].node  k == call[c].key  u == call[c].url
    <2>1. /\ UNCHANGED <<version, up, urls, link, acked>>
          /\ call[c].pc \in {"added", "got"}
          /\ cached' = [cached EXCEPT ![s] = SetIfAbsent(cached[s], k, u)]
          /\ call' = [call EXCEPT ![c] = NoCall]
      BY <1>8 DEF ProxySet
    <2>2. CallShape' /\ CacheShape' /\ DownInv'
      BY <2>1 DEF NoCall
    <2>3. ASSUME version = 4 PROVE AckedInv' /\ SavingInv' /\ AnsweredInv'
      BY <2>1, <2>3 DEF NoCall
    <2>4. ASSUME version = 4, NEW t \in link', NEW x \in DOMAIN cached'[t]
          PROVE  x \in DOMAIN urls /\ urls[x] = cached'[t][x]
      <3>1. CASE t # s
        BY <2>1, <2>4, <3>1
      <3>2. CASE t = s
        <4>1. cached'[s] = SetIfAbsent(cached[s], k, u)
          BY <2>1, <2>4, <3>2
        <4>2. Maps(k, u)
          BY <2>1, <2>4, <3>2
        <4>3. x \in DOMAIN cached[s] \/ (x = k /\ cached'[s][x] = u)
          BY <2>4, <3>2, <4>1, SetKeeps
        <4>4. x \in DOMAIN cached[s] => cached'[s][x] = cached[s][x]
          BY <4>1, SetKeeps
        <4>5. x \in DOMAIN cached[s] => x \in DOMAIN urls /\ urls[x] = cached[s][x]
          BY <2>1, <2>4, <3>2
        <4> QED
          BY <3>2, <4>2, <4>3, <4>4, <4>5
      <3> QED
        BY <3>1, <3>2
    <2> QED
      BY <2>1, <2>2, <2>3, <2>4
  <1>9. ASSUME NEW c \in Calls, NEW s \in Slaves, NEW k \in DOMAIN urls, ProxyGet(c, s, k) PROVE IInv'
    BY <1>9 DEF ProxyGet
  <1>10. ASSUME SaveLoop \/ FlushBuffer PROVE IInv'
    <2>1. UNCHANGED <<version, up, urls, call, cached, link, acked>>
      BY <1>10 DEF SaveLoop, SaveUnbuffered, Save, FlushBuffer
    <2> QED
      BY <2>1
  <1>11. ASSUME NEW s \in Slaves, NewProxyStore(s) PROVE IInv'
    BY <1>11 DEF NewProxyStore, NoUrls
  <1>12. ASSUME NEW s \in Slaves, SlaveExits(s) PROVE IInv'
    BY <1>12, SMTT(30) DEF SlaveExits, NoCall
  <1>13. CASE MasterDies
    BY <1>13 DEF MasterDies, NoCall
  <1>14. CASE NewURLStore
    BY <1>14 DEF NewURLStore
  <1>15. CASE UNCHANGED gotoVars
    BY <1>15 DEF gotoVars
  <1> QED
    BY <1>1, <1>2, <1>3, <1>4, <1>5, <1>7, <1>8, <1>9, <1>10, <1>11, <1>12, <1>13, <1>14, <1>15 DEF GotoNext, PutStep

(***************************************************************************)
(* Theorems                                                                *)
(***************************************************************************)
LEMMA Invariance == GotoSpec => []IInv
  BY InitIInv, NextIInv, PTL DEF GotoSpec

\* In the final version a key that Put gave out leads to the URL it was given
\* out for, for any number of concurrent requests (URLStore.Put and Set).
THEOREM KeysAreUnique == GotoSpec => []KeysUnique
  <1>1. IInv => KeysUnique
    BY DEF IInv, AckedInv, KeysUnique, Maps
  <1> QED
    BY <1>1, Invariance, PTL

\* In the final version connected slaves redirect as the master does, for any
\* number of slaves, requests and crashes (ProxyStore.Get and Put).
THEOREM SlavesAgree == GotoSpec => []CachesAgree
  <1>1. IInv => CachesAgree
    BY DEF IInv, CachedInv, CachesAgree, Maps
  <1> QED
    BY <1>1, Invariance, PTL

(***************************************************************************)
(* The keys in the map.                                                    *)
(***************************************************************************)
KeyCount == Cardinality(DOMAIN urls)

\* The map is finite; while it has the first keys genKey makes, a request that
\* has counted has one of them, or the next.
KeysInv ==
    /\ IsFiniteSet(DOMAIN urls)
    /\ up /\ ~holed => /\ Contiguous(urls)
                       /\ \A c \in Calls : call[c].pc \in {"set", "write"} => \E n \in 0 .. KeyCount : call[c].key = genKey[n]

\* A set of natural numbers that is not empty has a least one.
LEMMA LeastOfNat ==
  ASSUME NEW T \in SUBSET Nat, T # {}
  PROVE  \E m \in T : \A n \in T : m <= n
  <1>1. IsWellFoundedOn(OpToRel(<, Nat), Nat)
    BY NatLessThanWellFounded
  <1>2. PICK m \in T : \A n \in T : ~ (<<n, m>> \in OpToRel(<, Nat))
    BY <1>1, WFMin
  <1>3. \A n \in T : <<n, m>> \in OpToRel(<, Nat) <=> n < m
    BY DEF OpToRel
  <1>4. \A n \in T : ~ (n < m)
    BY <1>2, <1>3, Zenon
  <1>5. m \in Nat /\ \A n \in T : n \in Nat
    OBVIOUS
  <1>6. \A n \in T : m <= n
    BY <1>4, <1>5
  <1> QED BY <1>6

\* load finds the whole records up to the first that does not decode.
LEMMA DecodedIsPrefix ==
  ASSUME NEW f, Len(f) \in Nat
  PROVE  \E n \in 0 .. Len(f) : /\ DOMAIN Decoded(f) = 1 .. n
                                /\ \A j \in 1 .. n : Good(f, j) /\ Decoded(f)[j] = f[2 * j - 1][1]
                                /\ ~Good(f, n + 1)
                                /\ Decoded(f) = [i \in 1 .. n |-> f[2 * i - 1][1]]
  <1> DEFINE Bad == {i \in Nat : ~Good(f, i + 1)}
             IsEnd(i) == (\A j \in 1 .. i : Good(f, j)) /\ ~Good(f, i + 1)
             end == CHOOSE i \in 0 .. Len(f) : IsEnd(i)
  <1>1. Len(f) \in Bad
    BY DEF Good
  <1>2. PICK m \in Bad : \A i \in Bad : m <= i
    BY <1>1, LeastOfNat
  <1>3. m \in 0 .. Len(f)
    BY <1>1, <1>2
  <1>4. ASSUME NEW j \in 1 .. m PROVE Good(f, j)
    <2>1. j - 1 \in Nat /\ ~(m <= j - 1) /\ j - 1 + 1 = j
      BY <1>3
    <2>2. j - 1 \notin Bad
      BY <1>2, <2>1
    <2> QED BY <2>1, <2>2
  <1>5. IsEnd(m)
    BY <1>2, <1>4
  <1>6. end \in 0 .. Len(f) /\ IsEnd(end)
    BY <1>3, <1>5
  <1>7. Decoded(f) = [i \in 1 .. end |-> f[2 * i - 1][1]]
    BY DEF Decoded
  <1> HIDE DEF end
  <1> QED BY <1>6, <1>7

\* Count's key is in the map already, or setting it keeps the keys contiguous.
LEMMA NextKey ==
  ASSUME NEW map, NEW u, IsFiniteSet(DOMAIN map), NEW n, NEW k, k = genKey[n]
  PROVE  /\ IsFiniteSet(DOMAIN Stored(map, k, u))
         /\ Cardinality(DOMAIN map) \in Nat
         /\ Cardinality(DOMAIN map) <= Cardinality(DOMAIN Stored(map, k, u))
         /\ Contiguous(map) /\ n \in 0 .. Cardinality(DOMAIN map) => Contiguous(Stored(map, k, u))
  <1> DEFINE card == Cardinality(DOMAIN map)
  <1>0. DOMAIN Stored(map, k, u) = DOMAIN map \cup {k}
    BY DEF Stored
  <1>1. card \in Nat
    BY FS_CardinalityType
  <1>2. CASE k \in DOMAIN map
    <2>1. DOMAIN Stored(map, k, u) = DOMAIN map
      BY <1>0, <1>2
    <2> QED BY <1>1, <2>1 DEF Contiguous
  <1>3. CASE k \notin DOMAIN map
    <2>1. IsFiniteSet(DOMAIN Stored(map, k, u)) /\ Cardinality(DOMAIN Stored(map, k, u)) = card + 1
      BY <1>0, <1>3, FS_AddElement
    <2>2. ASSUME Contiguous(map), n \in 0 .. card PROVE Contiguous(Stored(map, k, u))
      <3>1. DOMAIN map = {genKey[i] : i \in 0 .. card - 1}
        BY <2>2 DEF Contiguous
      <3>2. n \notin 0 .. card - 1
        BY <1>3, <3>1
      <3>3. n = card
        BY <1>1, <2>2, <3>2
      <3>4. 0 .. (card + 1) - 1 = (0 .. card - 1) \cup {card}
        BY <1>1
      <3>5. {genKey[i] : i \in 0 .. (card + 1) - 1} = DOMAIN map \cup {k}
        BY <3>1, <3>3, <3>4
      <3> QED BY <1>0, <2>1, <3>5 DEF Contiguous
    <2> QED BY <1>1, <2>1, <2>2
  <1> QED BY <1>2, <1>3

\* The map that load makes is finite.
LEMMA LoadedIsFinite ==
  ASSUME NEW f, Len(f) \in Nat PROVE IsFiniteSet(DOMAIN Loaded(Decoded(f)))
  <1>1. PICK n \in 0 .. Len(f) : DOMAIN Decoded(f) = 1 .. n
    BY DecodedIsPrefix
  <1>2. IsFiniteSet(1 .. n)
    BY FS_Interval
  <1> DEFINE keys == {Decoded(f)[i].key : i \in 1 .. n}
             keyOf == [i \in 1 .. n |-> Decoded(f)[i].key]
  <1>3. IsFiniteSet(keys)
    <2>1. keyOf \in [1 .. n -> keys] /\ \A k \in keys : \E i \in 1 .. n : keyOf[i] = k
      OBVIOUS
    <2>2. keyOf \in Surjection(1 .. n, keys)
      BY <2>1, Fun_IsSurj
    <2> QED BY <1>2, <2>2, FS_Surjection
  <1>4. DOMAIN Loaded(Decoded(f)) = {Decoded(f)[i].key : i \in 1 .. n}
    BY <1>1 DEF Loaded
  <1> QED BY <1>3, <1>4

\* A step that leaves the map alone and lets no request count.
LEMMA KeysFrame ==
  ASSUME KeysInv, UNCHANGED <<up, urls, holed>>,
         \A c \in Calls : call'[c].pc \in {"set", "write"} => call[c].pc \in {"set", "write"} /\ call'[c].key = call[c].key
  PROVE  KeysInv'
  <1>1. KeyCount' = KeyCount
    BY DEF KeyCount
  <1> QED BY <1>1 DEF KeysInv

\* A step of a request that sets its key, or finds it set.
LEMMA KeysSet ==
  ASSUME IInv, KeysInv, up, UNCHANGED <<up, holed>>, NEW c \in Calls, call[c].pc \in {"set", "write"},
         urls' = Stored(urls, call[c].key, call[c].url),
         call'[c].pc \notin {"set", "write"}, \A d \in Calls : d # c => call'[d] = call[d]
  PROVE  KeysInv'
  <1>1. CASE ~holed
    <2>1. PICK n \in 0 .. KeyCount : call[c].key = genKey[n]
      BY <1>1 DEF KeysInv
    <2>2. /\ IsFiniteSet(DOMAIN urls') /\ KeyCount \in Nat /\ KeyCount <= KeyCount' /\ Contiguous(urls')
      BY <1>1, <2>1, NextKey DEF KeysInv, KeyCount
    <2>3. KeyCount' \in Nat
      BY <2>2, FS_CardinalityType DEF KeyCount
    <2>4. 0 .. KeyCount \subseteq 0 .. KeyCount'
      BY <2>2, <2>3
    <2> QED BY <1>1, <2>2, <2>4 DEF KeysInv
  <1>2. CASE holed
    <2>1. DOMAIN urls' = DOMAIN urls \cup {call[c].key}
      BY DEF Stored
    <2>2. IsFiniteSet(DOMAIN urls')
      BY <2>1, FS_AddElement DEF KeysInv
    <2> QED BY <1>2, <2>2 DEF KeysInv
  <1> QED BY <1>1, <1>2

LEMMA NextKeysInv == IInv /\ Len(file) \in Nat /\ KeysInv /\ [GotoNext]_gotoVars => KeysInv'
  <1> SUFFICES ASSUME IInv, Len(file) \in Nat, KeysInv, [GotoNext]_gotoVars PROVE KeysInv'
    OBVIOUS
  <1> USE DEF storeVars, slaveVars, pastVars, CallAt
  <1>0. CallShape /\ (~up => \A c \in Calls : ~AtMaster(c))
    BY DEF IInv, DownInv
  <1>1. ASSUME NEW c \in Calls, NEW n \in GotoNodes, Add(c, n) PROVE KeysInv'
    <2>1. \A d \in Calls : d # c => call'[d] = call[d]
      BY <1>0, <1>1 DEF Add, CallShape
    <2>2. call'[c].pc = "count"
      BY <1>0, <1>1 DEF Add, CallShape
    <2>3. UNCHANGED <<up, urls, holed>>
      BY <1>1 DEF Add
    <2> QED BY <2>1, <2>2, <2>3, KeysFrame
  <1>2. ASSUME NEW c \in Calls, Count(c) PROVE KeysInv'
    <2>1. /\ call'[c].key = genKey[KeyCount] /\ \A d \in Calls : d # c => call'[d] = call[d]
      BY <1>0, <1>2 DEF Count, CallShape, KeyCount
    <2>2. UNCHANGED <<up, urls, holed>> /\ KeyCount' = KeyCount
      BY <1>2 DEF Count, KeyCount
    <2>3. KeyCount \in Nat
      BY FS_CardinalityType DEF KeysInv, KeyCount
    <2>4. KeyCount \in 0 .. KeyCount
      BY <2>3
    <2> QED BY <2>1, <2>2, <2>4 DEF KeysInv
  <1>3. ASSUME NEW c \in Calls, Set(c) PROVE KeysInv'
    <2>1. /\ \A d \in Calls : d # c => call'[d] = call[d]
          /\ call'[c].pc = IF call[c].key \in DOMAIN urls THEN "count" ELSE "save"
      BY <1>0, <1>3 DEF Set, GoOn, CallShape
    <2>2. call[c].pc = "set" /\ UNCHANGED <<up, holed>> /\ urls' = SetIfAbsent(urls, call[c].key, call[c].url)
      BY <1>3 DEF Set
    <2>3. up
      BY <1>0, <2>2 DEF AtMaster
    <2>4. CASE call[c].key \in DOMAIN urls
      <3>1. urls' = urls
        BY <2>2, <2>4 DEF SetIfAbsent
      <3> QED BY <2>1, <2>2, <2>4, <3>1, KeysFrame
    <2>5. CASE call[c].key \notin DOMAIN urls
      <3>1. urls' = Stored(urls, call[c].key, call[c].url)
        BY <2>2, <2>5 DEF SetIfAbsent
      <3> QED BY <2>1, <2>2, <2>3, <2>5, <3>1, KeysSet
    <2> QED BY <2>4, <2>5
  <1>4. ASSUME NEW c \in Calls, SetLook(c) PROVE KeysInv'
    <2>1. /\ \A d \in Calls : d # c => call'[d] = call[d]
          /\ call'[c].key = call[c].key /\ call[c].pc = "set"
      BY <1>0, <1>4 DEF SetLook, GoOn, CallShape
    <2>2. UNCHANGED <<up, urls, holed>>
      BY <1>4 DEF SetLook
    <2> QED BY <2>1, <2>2, KeysFrame
  <1>5. ASSUME NEW c \in Calls, SetWrite(c) PROVE KeysInv'
    <2>1. /\ \A d \in Calls : d # c => call'[d] = call[d]
          /\ call'[c].pc = "save"
      BY <1>0, <1>5 DEF SetWrite, GoOn, CallShape
    <2>2. call[c].pc = "write" /\ UNCHANGED <<up, holed>> /\ urls' = Stored(urls, call[c].key, call[c].url)
      BY <1>5 DEF SetWrite
    <2>3. up
      BY <1>0, <2>2 DEF AtMaster
    <2> QED BY <2>1, <2>2, <2>3, KeysSet
  <1>6. ASSUME NEW c \in Calls, NoSave(c) \/ SaveToFile(c) \/ Enqueue(c) PROVE KeysInv'
    <2>1. Answer(c) /\ UNCHANGED <<up, urls, holed>>
      BY <1>6 DEF NoSave, SaveToFile, Enqueue
    <2>2. /\ \A d \in Calls : d # c => call'[d] = call[d]
          /\ call'[c].pc \in {"idle", "added"}
      BY <1>0, <2>1 DEF Answer, GoOn, NoCall, CallShape
    <2> QED BY <2>1, <2>2, KeysFrame
  <1>7. ASSUME NEW c \in Calls, ProxySet(c) PROVE KeysInv'
    <2>1. /\ \A d \in Calls : d # c => call'[d] = call[d]
          /\ call'[c].pc = "idle"
      BY <1>0, <1>7 DEF ProxySet, NoCall, CallShape
    <2>2. UNCHANGED <<up, urls, holed>>
      BY <1>7 DEF ProxySet
    <2> QED BY <2>1, <2>2, KeysFrame
  <1>8. ASSUME NEW c \in Calls, NEW s \in Slaves, NEW k \in DOMAIN urls, ProxyGet(c, s, k) PROVE KeysInv'
    <2>1. /\ \A d \in Calls : d # c => call'[d] = call[d]
          /\ call'[c].pc = "got"
      BY <1>0, <1>8 DEF ProxyGet, CallShape
    <2>2. UNCHANGED <<up, urls, holed>>
      BY <1>8 DEF ProxyGet
    <2> QED BY <2>1, <2>2, KeysFrame
  <1>9. CASE SaveLoop \/ FlushBuffer
    <2>1. UNCHANGED <<up, urls, holed, call>>
      BY <1>9 DEF SaveLoop, SaveUnbuffered, Save, FlushBuffer
    <2> QED BY <2>1, KeysFrame
  <1>10. ASSUME NEW s \in Slaves, NewProxyStore(s) \/ SlaveExits(s) PROVE KeysInv'
    <2>1. UNCHANGED <<up, urls, holed>>
      BY <1>10 DEF NewProxyStore, SlaveExits
    <2>2. \A c \in Calls : call'[c].pc \in {"set", "write"} => call[c].pc \in {"set", "write"} /\ call'[c].key = call[c].key
      <3>1. CASE NewProxyStore(s)
        BY <3>1 DEF NewProxyStore
      <3>2. CASE SlaveExits(s)
        BY <1>0, <3>2 DEF SlaveExits, NoCall, CallShape
      <3> QED BY <1>10, <3>1, <3>2
    <2> QED BY <2>1, <2>2, KeysFrame
  <1>11. CASE MasterDies
    <2>1. ~up' /\ DOMAIN urls' = {}
      BY <1>11 DEF MasterDies, NoUrls
    <2> QED BY <2>1, FS_EmptySet DEF KeysInv
  <1>12. CASE NewURLStore
    <2>1. ~up /\ urls' = Loaded(Decoded(file)) /\ holed' = ~Contiguous(urls') /\ call' = call
      BY <1>12 DEF NewURLStore
    <2>2. IsFiniteSet(DOMAIN urls')
      BY <2>1, LoadedIsFinite
    <2>3. \A c \in Calls : call'[c].pc \notin {"set", "write"}
      BY <1>0, <2>1 DEF AtMaster
    <2> QED BY <2>1, <2>2, <2>3 DEF KeysInv
  <1>13. CASE UNCHANGED gotoVars
    BY <1>13, KeysFrame DEF gotoVars
  <1> QED
    BY <1>1, <1>2, <1>3, <1>4, <1>5, <1>6, <1>7, <1>8, <1>9, <1>10, <1>11, <1>12, <1>13 DEF GotoNext, PutStep

(***************************************************************************)
(* The data file.                                                          *)
(***************************************************************************)
Keys == {genKey[n] : n \in Nat}
Records == [key : Keys, url : Nat]
HalfRecords == Records \X {1, 2}

\* Halves of records, each first one followed by its second.
Whole(f) == \A i \in 1 .. Len(f) : IF i % 2 = 1 THEN f[i][2] = 1 ELSE f[i] = <<f[i - 1][1], 2>>
Written == file \o buffer
Kept(r) == (\E i \in DOMAIN queue : queue[i] = r) \/ (\E i \in DOMAIN Written : Written[i] = <<r, 2>>)

\* What is in the file, or will be with the next Write of the buffer, are whole
\* records, whatever of them is in the one or in the other; and the second half
\* of a record that was acknowledged is there, unless the record is in the queue.
FileInv ==
    /\ queue \in Seq(Records) /\ buffer \in Seq(HalfRecords) /\ file \in Seq(HalfRecords)
    /\ puts \in Nat /\ urls = [k \in DOMAIN urls |-> urls[k]] /\ IsFiniteSet(DOMAIN urls)
    /\ \A c \in Calls : /\ AtMaster(c) => call[c].url \in Nat
                        /\ call[c].pc \in {"set", "write", "save"} => call[c].key \in Keys
    /\ version # 4 \/ ~up => buffer = <<>>
    /\ ~up => acked = {}
    /\ up /\ ~torn => /\ Len(Written) % 2 = 0 /\ Whole(Written)
                      /\ version > 0 => \A r \in acked : Kept(r)

\* A record is encoded as its two halves.
LEMMA HalvesOf ==
  ASSUME NEW r \in Records
  PROVE  /\ Halves(r) \in Seq(HalfRecords) /\ Len(Halves(r)) = 2
         /\ Halves(r)[1] = <<r, 1>> /\ Halves(r)[2] = <<r, 2>>
  BY DEF Halves, HalfRecords

\* Appending a record to the buffer and the buffer to the file, in either order.
LEMMA HalvesAssociate ==
  ASSUME NEW f \in Seq(HalfRecords), NEW b \in Seq(HalfRecords), NEW h \in Seq(HalfRecords)
  PROVE  (f \o b) \o h = f \o (b \o h)
  <1>1. f \o b \in Seq(HalfRecords) /\ b \o h \in Seq(HalfRecords)
    BY ConcatProperties
  <1>2. (f \o b) \o h \in Seq(HalfRecords) /\ f \o (b \o h) \in Seq(HalfRecords)
    BY <1>1, ConcatProperties
  <1>3. Len((f \o b) \o h) = Len(f \o (b \o h))
    BY <1>1, ConcatProperties
  <1>4. \A i \in 1 .. Len((f \o b) \o h) : ((f \o b) \o h)[i] = (f \o (b \o h))[i]
    BY <1>1, ConcatProperties
  <1> QED BY <1>2, <1>3, <1>4, SeqEqual

\* Remainders modulo two, of a number and the next ones.
LEMMA Parity ==
  ASSUME NEW n \in Nat
  PROVE  /\ n % 2 \in {0, 1} /\ 1 % 2 = 1
         /\ n % 2 = 0 => (n + 1) % 2 = 1 /\ (n + 2) % 2 = 0
  OBVIOUS

\* A record that is appended to whole records, and its second half is there.
LEMMA WholeAppend ==
  ASSUME NEW f \in Seq(HalfRecords), Len(f) % 2 = 0, Whole(f), NEW r \in Records
  PROVE  /\ f \o Halves(r) \in Seq(HalfRecords)
         /\ Len(f \o Halves(r)) % 2 = 0 /\ Whole(f \o Halves(r))
         /\ \A i \in DOMAIN f : (f \o Halves(r))[i] = f[i] /\ i \in DOMAIN (f \o Halves(r))
         /\ Len(f) + 2 \in DOMAIN (f \o Halves(r)) /\ (f \o Halves(r))[Len(f) + 2] = <<r, 2>>
  <1> PICK g : g = f \o Halves(r)
    OBVIOUS
  <1>1. /\ g \in Seq(HalfRecords) /\ Len(g) = Len(f) + 2 /\ Len(f) \in Nat /\ DOMAIN f = 1 .. Len(f) /\ DOMAIN g = 1 .. Len(g)
        /\ \A i \in 1 .. Len(f) : g[i] = f[i]
        /\ g[Len(f) + 1] = <<r, 1>> /\ g[Len(f) + 2] = <<r, 2>>
    <2>1. PICK h \in Seq(HalfRecords) : h = Halves(r) /\ Len(h) = 2 /\ h[1] = <<r, 1>> /\ h[2] = <<r, 2>>
      BY HalvesOf
    <2>2. g = f \o h
      BY <2>1
    <2>3. g \in Seq(HalfRecords) /\ Len(g) = Len(f) + Len(h) /\ Len(f) \in Nat
      BY <2>2
    <2>4. \A i \in 1 .. Len(g) : g[i] = IF i <= Len(f) THEN f[i] ELSE h[i - Len(f)]
      BY <2>1, <2>2, <2>3, ConcatProperties
    <2>5. (Len(f) + 1) - Len(f) = 1 /\ (Len(f) + 2) - Len(f) = 2
      BY <2>3
    <2>6. g[Len(f) + 1] = h[1] /\ g[Len(f) + 2] = h[2]
      BY <2>1, <2>3, <2>4, <2>5
    <2> QED BY <2>1, <2>3, <2>4, <2>6
  <1>2. Len(g) % 2 = 0 /\ (Len(f) + 1) % 2 = 1 /\ (Len(f) + 2) % 2 = 0
    BY <1>1, Parity
  <1>3. ASSUME NEW i \in 1 .. Len(g) PROVE IF i % 2 = 1 THEN g[i][2] = 1 ELSE g[i] = <<g[i - 1][1], 2>>
    <2>1. CASE i \in 1 .. Len(f) /\ i % 2 = 1
      BY <1>1, <2>1 DEF Whole
    <2>2. CASE i \in 1 .. Len(f) /\ i % 2 # 1
      <3>0. i # 1
        BY <2>2, Parity
      <3>1. i - 1 \in 1 .. Len(f)
        BY <1>1, <2>2, <3>0
      <3>2. g[i] = f[i] /\ g[i - 1] = f[i - 1]
        BY <1>1, <2>2, <3>1
      <3> QED BY <2>2, <3>2 DEF Whole
    <2>3. CASE i = Len(f) + 1
      BY <1>1, <1>2, <2>3
    <2>4. CASE i = Len(f) + 2
      <3>1. i - 1 = Len(f) + 1 /\ i % 2 # 1
        BY <1>1, <1>2, <2>4
      <3> QED BY <1>1, <2>4, <3>1
    <2>5. i \in 1 .. Len(f) \/ i = Len(f) + 1 \/ i = Len(f) + 2
      BY <1>1
    <2> QED BY <2>1, <2>2, <2>3, <2>4, <2>5
  <1> QED BY <1>1, <1>2, <1>3 DEF Whole

\* Of whole records, load finds every one whose second half is in the file.
LEMMA WholeIsDecoded ==
  ASSUME NEW f, Len(f) \in Nat, Whole(f), NEW j \in Nat, j > 0, 2 * j <= Len(f)
  PROVE  j \in DOMAIN Decoded(f) /\ Decoded(f)[j] = f[2 * j][1]
  <1>1. ASSUME NEW i \in Nat, i > 0, 2 * i <= Len(f) PROVE Good(f, i) /\ f[2 * i] = <<f[2 * i - 1][1], 2>>
    <2>1. 2 * i \in 1 .. Len(f) /\ 2 * i - 1 \in 1 .. Len(f) /\ (2 * i) % 2 # 1 /\ (2 * i - 1) % 2 = 1
      BY <1>1
    <2>2. f[2 * i - 1][2] = 1 /\ f[2 * i] = <<f[2 * i - 1][1], 2>>
      BY <2>1 DEF Whole
    <2> QED BY <1>1, <2>2 DEF Good
  <1>2. PICK n \in 0 .. Len(f) : /\ DOMAIN Decoded(f) = 1 .. n /\ ~Good(f, n + 1)
                                 /\ \A i \in 1 .. n : Decoded(f)[i] = f[2 * i - 1][1]
    BY DecodedIsPrefix
  <1>3. ~ (2 * (n + 1) <= Len(f))
    BY <1>1, <1>2
  <1>4. j \in 1 .. n
    BY <1>3
  <1>5. f[2 * j] = <<f[2 * j - 1][1], 2>>
    BY <1>1
  <1> QED BY <1>2, <1>4, <1>5

\* A file that load reads to its end consists of whole records.
LEMMA DecodedIsWhole ==
  ASSUME NEW f, Len(f) \in Nat, 2 * Len(Decoded(f)) = Len(f)
  PROVE  Len(f) % 2 = 0 /\ Whole(f)
  <1>1. PICK n \in 0 .. Len(f) : /\ \A i \in 1 .. n : Good(f, i)
                                 /\ Decoded(f) = [i \in 1 .. n |-> f[2 * i - 1][1]]
    BY DecodedIsPrefix
  <1>2. Len(Decoded(f)) = n
    BY <1>1
  <1>3. 2 * n = Len(f)
    BY <1>2
  <1>4. ASSUME NEW i \in 1 .. Len(f) PROVE IF i % 2 = 1 THEN f[i][2] = 1 ELSE f[i] = <<f[i - 1][1], 2>>
    <2>1. \E j \in 1 .. n : i = 2 * j - 1 \/ i = 2 * j
      <3>1. (i + 1) \div 2 \in 1 .. n /\ (i = 2 * ((i + 1) \div 2) - 1 \/ i = 2 * ((i + 1) \div 2))
        BY <1>3
      <3> QED BY <3>1
    <2>2. PICK j \in 1 .. n : i = 2 * j - 1 \/ i = 2 * j
      BY <2>1
    <2>3. f[2 * j - 1][2] = 1 /\ f[2 * j] = <<f[2 * j - 1][1], 2>>
      BY <1>1 DEF Good
    <2>4. CASE i = 2 * j - 1
      BY <2>3, <2>4
    <2>5. CASE i = 2 * j
      <3>1. i % 2 # 1 /\ i - 1 = 2 * j - 1
        BY <2>5
      <3> QED BY <2>3, <2>5, <3>1
    <2> QED BY <2>2, <2>4, <2>5
  <1> QED BY <1>3, <1>4, SMTT(30) DEF Whole

\* A step that leaves the file, its buffer and the queue alone, and answers none.
LEMMA FileFrame ==
  ASSUME FileInv, UNCHANGED <<up, queue, buffer, file, version, torn, acked>>,
         puts' \in Nat, urls' = [k \in DOMAIN urls' |-> urls'[k]], IsFiniteSet(DOMAIN urls'),
         \A c \in Calls : /\ AtMaster(c)' => call'[c].url \in Nat
                          /\ call'[c].pc \in {"set", "write", "save"} => call'[c].key \in Keys
  PROVE  FileInv'
  <1>1. Written' = Written
    BY DEF Written
  <1>2. \A r : Kept(r)' <=> Kept(r)
    BY <1>1 DEF Kept
  <1> QED BY <1>1, <1>2 DEF FileInv

\* A step that moves what is queued towards the file, and what is written stays.
LEMMA FileMoves ==
  ASSUME FileInv, UNCHANGED <<up, version, torn, acked, puts, urls, call>>, up,
         queue' \in Seq(Records), buffer' \in Seq(HalfRecords), file' \in Seq(HalfRecords),
         version # 4 => buffer' = <<>>,
         ~torn => Len(Written') % 2 = 0 /\ Whole(Written'),
         ~torn => \A r : Kept(r) => Kept(r)'
  PROVE  FileInv'
  <1>1. \A c \in Calls : AtMaster(c)' <=> AtMaster(c)
    BY DEF AtMaster
  <1>2. up' /\ torn' = torn /\ version' = version /\ acked' = acked /\ puts' = puts /\ urls' = urls /\ call' = call
    OBVIOUS
  <1> QED BY <1>1, <1>2 DEF FileInv

\* saveLoop takes the first record from the queue and writes it.
LEMMA FileSaves ==
  ASSUME FileInv, UNCHANGED <<up, version, torn, acked, puts, urls, call>>, up,
         queue # <<>>, queue' = Tail(queue), buffer' \in Seq(HalfRecords), file' \in Seq(HalfRecords),
         version # 4 => buffer' = <<>>, Written' = Written \o Halves(Head(queue))
  PROVE  FileInv'
  <1>1. /\ queue \in Seq(Records) /\ Written \in Seq(HalfRecords)
        /\ ~torn => Len(Written) % 2 = 0 /\ Whole(Written)
    BY DEF FileInv, Written
  <1>2. PICK r \in Records : r = Head(queue)
    BY <1>1, HeadTailProperties
  <1>3. /\ queue' \in Seq(Records)
        /\ \A i \in DOMAIN queue : queue[i] = r \/ \E j \in DOMAIN queue' : queue'[j] = queue[i]
    <2>1. /\ queue' \in Seq(Records) /\ Len(queue') = Len(queue) - 1 /\ DOMAIN queue = 1 .. Len(queue)
          /\ \A j \in 1 .. Len(queue') : queue'[j] = queue[j + 1]
      BY <1>1, HeadTailProperties
    <2>2. queue[1] = r /\ DOMAIN queue' = 1 .. Len(queue')
      BY <1>1, <1>2, <2>1
    <2>3. ASSUME NEW i \in DOMAIN queue, i # 1 PROVE \E j \in DOMAIN queue' : queue'[j] = queue[i]
      <3>1. i - 1 \in 1 .. Len(queue') /\ (i - 1) + 1 = i
        BY <1>1, <2>1, <2>3
      <3> QED BY <2>1, <2>2, <3>1
    <2> QED BY <2>1, <2>2, <2>3
  <1>4. ASSUME ~torn
        PROVE  /\ Len(Written') % 2 = 0 /\ Whole(Written')
               /\ \A q : Kept(q) => Kept(q)'
    <2>1. PICK w \in Seq(HalfRecords) : w = Written
      BY <1>1
    <2>2. PICK v : v = w \o Halves(r)
      OBVIOUS
    <2>3. Written' = v
      BY <1>2, <2>1, <2>2
    <2>4. /\ Len(v) % 2 = 0 /\ Whole(v)
          /\ \A i \in DOMAIN w : v[i] = w[i] /\ i \in DOMAIN v
          /\ Len(w) + 2 \in DOMAIN v /\ v[Len(w) + 2] = <<r, 2>>
      BY <1>1, <1>4, <2>1, <2>2, WholeAppend
    <2>5. ASSUME NEW q, Kept(q) PROVE Kept(q)'
      <3>1. CASE \E i \in DOMAIN queue : queue[i] = q
        BY <1>3, <2>3, <2>4, <3>1 DEF Kept
      <3>2. CASE \E i \in DOMAIN Written : Written[i] = <<q, 2>>
        BY <2>1, <2>3, <2>4, <3>2 DEF Kept
      <3> QED BY <2>5, <3>1, <3>2 DEF Kept
    <2> QED BY <2>3, <2>4, <2>5
  <1> QED BY <1>3, <1>4, FileMoves

LEMMA NextFileInv == IInv /\ KeysInv' /\ FileInv /\ [GotoNext]_gotoVars => FileInv'
  <1> SUFFICES ASSUME IInv, KeysInv', FileInv, [GotoNext]_gotoVars PROVE FileInv'
    OBVIOUS
  <1> USE DEF storeVars, slaveVars, pastVars, CallAt
  <1>0. /\ CallShape /\ (~up => \A c \in Calls : ~AtMaster(c)) /\ IsFiniteSet(DOMAIN urls')
        /\ IsFiniteSet(DOMAIN urls) /\ puts \in Nat /\ urls = [k \in DOMAIN urls |-> urls[k]]
        /\ \A c \in Calls : /\ AtMaster(c) => call[c].url \in Nat
                            /\ call[c].pc \in {"set", "write", "save"} => call[c].key \in Keys
    BY DEF IInv, DownInv, KeysInv, FileInv
  <1>1. ASSUME NEW c \in Calls, NEW n \in GotoNodes, Add(c, n) PROVE FileInv'
    <2>1. \A d \in Calls : d # c => call'[d] = call[d]
      BY <1>0, <1>1 DEF Add, CallShape
    <2>2. call'[c].pc = "count" /\ call'[c].url = puts + 1
      BY <1>0, <1>1 DEF Add, CallShape
    <2>3. UNCHANGED <<up, queue, buffer, file, version, torn, acked, urls>> /\ puts' = puts + 1
      BY <1>1 DEF Add
    <2>4. \A d \in Calls : /\ AtMaster(d)' => call'[d].url \in Nat
                           /\ call'[d].pc \in {"set", "write", "save"} => call'[d].key \in Keys
      BY <1>0, <2>1, <2>2 DEF AtMaster
    <2> QED BY <1>0, <2>3, <2>4, FileFrame
  <1>2. ASSUME NEW c \in Calls, Count(c) PROVE FileInv'
    <2>1. /\ call'[c].key = genKey[Cardinality(DOMAIN urls)] /\ call'[c].url = call[c].url /\ call[c].pc = "count"
          /\ \A d \in Calls : d # c => call'[d] = call[d]
      BY <1>0, <1>2 DEF Count, CallShape
    <2>2. UNCHANGED <<up, queue, buffer, file, version, torn, acked, urls, puts>>
      BY <1>2 DEF Count
    <2>3. Cardinality(DOMAIN urls) \in Nat
      BY <1>0, FS_CardinalityType
    <2>4. call'[c].key \in Keys /\ call'[c].url \in Nat
      BY <1>0, <2>1, <2>3 DEF Keys, AtMaster
    <2>5. \A d \in Calls : /\ AtMaster(d)' => call'[d].url \in Nat
                           /\ call'[d].pc \in {"set", "write", "save"} => call'[d].key \in Keys
      BY <1>0, <2>1, <2>4 DEF AtMaster
    <2> QED BY <1>0, <2>2, <2>5, FileFrame
  <1>3. ASSUME NEW c \in Calls, Set(c) \/ SetLook(c) \/ SetWrite(c) PROVE FileInv'
    <2>1. /\ \A d \in Calls : d # c => call'[d] = call[d]
          /\ call'[c].key = call[c].key /\ call'[c].url = call[c].url /\ call[c].pc \in {"set", "write"}
      <3>1. \E pc : call' = [call EXCEPT ![c] = [call[c] EXCEPT !.pc = pc]] /\ call[c].pc \in {"set", "write"}
        BY <1>3 DEF Set, SetLook, SetWrite, GoOn
      <3> QED BY <1>0, <3>1 DEF CallShape
    <2>2. UNCHANGED <<up, queue, buffer, file, version, torn, acked, puts>>
      BY <1>3 DEF Set, SetLook, SetWrite
    <2>3. urls' = [k \in DOMAIN urls' |-> urls'[k]]
      <3>1. urls' = urls \/ urls' = Stored(urls, call[c].key, call[c].url)
        BY <1>3 DEF Set, SetLook, SetWrite, SetIfAbsent
      <3> QED BY <1>0, <3>1 DEF Stored
    <2>4. \A d \in Calls : /\ AtMaster(d)' => call'[d].url \in Nat
                           /\ call'[d].pc \in {"set", "write", "save"} => call'[d].key \in Keys
      BY <1>0, <2>1 DEF AtMaster
    <2> QED BY <1>0, <2>2, <2>3, <2>4, FileFrame
  <1>4. ASSUME NEW c \in Calls, NoSave(c) \/ SaveToFile(c) \/ Enqueue(c) PROVE FileInv'
    <2> PICK r : r = Record(call[c].key, call[c].url)
      OBVIOUS
    <2>1. /\ Answer(c) /\ call[c].pc = "save" /\ UNCHANGED <<up, buffer, urls, puts, version, torn>>
          /\ acked' = acked \cup {r}
      BY <1>4 DEF NoSave, SaveToFile, Enqueue, Answer
    <2>2. /\ \A d \in Calls : d # c => call'[d] = call[d]
          /\ call'[c].pc \in {"idle", "added"}
      BY <1>0, <2>1 DEF Answer, GoOn, NoCall, CallShape
    <2>3. \A d \in Calls : /\ AtMaster(d)' => call'[d].url \in Nat
                           /\ call'[d].pc \in {"set", "write", "save"} => call'[d].key \in Keys
      BY <1>0, <2>2 DEF AtMaster
    <2>4. r \in Records
      BY <1>0, <2>1 DEF Records, Record, AtMaster
    <2>5. up
      BY <1>0, <2>1 DEF AtMaster
    <2>6. CASE NoSave(c)
      <3>1. version = 0 /\ UNCHANGED <<queue, file>>
        BY <2>6 DEF NoSave
      <3>2. Written' = Written
        BY <2>1, <3>1 DEF Written
      <3> QED BY <1>0, <2>1, <2>3, <2>5, <3>1, <3>2 DEF FileInv
    <2>7. CASE SaveToFile(c)
      <3>1. version = 1 /\ queue' = queue /\ file' = file \o Halves(r)
        BY <2>7 DEF SaveToFile
      <3>2. buffer = <<>> /\ file \in Seq(HalfRecords) /\ Written = file /\ Written' = file'
        <4>1. buffer = <<>> /\ buffer' = <<>> /\ file \in Seq(HalfRecords)
          BY <2>1, <3>1 DEF FileInv
        <4>2. Halves(r) \in Seq(HalfRecords)
          BY <2>4, HalvesOf
        <4>3. file' \in Seq(HalfRecords)
          BY <3>1, <4>1, <4>2
        <4> QED BY <4>1, <4>3 DEF Written
      <3>3. file' \in Seq(HalfRecords)
        BY <2>4, <3>1, <3>2, HalvesOf
      <3>4. ASSUME ~torn
            PROVE  /\ Len(Written') % 2 = 0 /\ Whole(Written')
                   /\ \A q \in acked' : Kept(q)'
        <4>1. Len(file) % 2 = 0 /\ Whole(file) /\ \A q \in acked : Kept(q)
          BY <2>5, <3>1, <3>2, <3>4 DEF FileInv
        <4>2. /\ Len(file') % 2 = 0 /\ Whole(file')
              /\ \A i \in DOMAIN file : file'[i] = file[i] /\ i \in DOMAIN file'
              /\ Len(file) + 2 \in DOMAIN file' /\ file'[Len(file) + 2] = <<r, 2>>
          BY <2>4, <3>1, <3>2, <4>1, WholeAppend
        <4>3. \A q \in acked : Kept(q)'
          BY <3>1, <3>2, <4>1, <4>2 DEF Kept
        <4>4. Kept(r)'
          BY <3>2, <4>2 DEF Kept
        <4> QED BY <2>1, <3>2, <4>2, <4>3, <4>4
      <3> QED BY <1>0, <2>1, <2>3, <2>5, <3>1, <3>2, <3>3, <3>4 DEF FileInv
    <2>8. CASE Enqueue(c)
      <3>1. version >= 2 /\ file' = file /\ queue' = Append(queue, r) /\ queue \in Seq(Records)
        BY <2>8 DEF Enqueue, FileInv
      <3>2. /\ queue' \in Seq(Records) /\ Len(queue) + 1 \in DOMAIN queue' /\ queue'[Len(queue) + 1] = r
            /\ \A i \in DOMAIN queue : i \in DOMAIN queue' /\ queue'[i] = queue[i]
        BY <2>4, <3>1
      <3>3. Written' = Written
        BY <2>1, <3>1 DEF Written
      <3>4. \A q : Kept(q) => Kept(q)'
        BY <3>2, <3>3 DEF Kept
      <3>5. Kept(r)'
        BY <3>2 DEF Kept
      <3>6. version > 0 /\ up /\ ~torn => \A q \in acked' : Kept(q)'
        BY <2>1, <3>4, <3>5 DEF FileInv
      <3> QED BY <1>0, <2>1, <2>3, <2>5, <3>1, <3>2, <3>3, <3>6 DEF FileInv
    <2> QED BY <1>4, <2>6, <2>7, <2>8
  <1>5. ASSUME NEW c \in Calls, ProxySet(c) PROVE FileInv'
    <2>1. /\ \A d \in Calls : d # c => call'[d] = call[d]
          /\ call'[c].pc = "idle"
      BY <1>0, <1>5 DEF ProxySet, NoCall, CallShape
    <2>2. UNCHANGED <<up, queue, buffer, file, version, torn, acked, urls, puts>>
      BY <1>5 DEF ProxySet
    <2>3. \A d \in Calls : /\ AtMaster(d)' => call'[d].url \in Nat
                           /\ call'[d].pc \in {"set", "write", "save"} => call'[d].key \in Keys
      BY <1>0, <2>1 DEF AtMaster
    <2> QED BY <1>0, <2>2, <2>3, FileFrame
  <1>6. ASSUME NEW c \in Calls, NEW s \in Slaves, NEW k \in DOMAIN urls, ProxyGet(c, s, k) PROVE FileInv'
    <2>1. /\ \A d \in Calls : d # c => call'[d] = call[d]
          /\ call'[c].pc = "got"
      BY <1>0, <1>6 DEF ProxyGet, CallShape
    <2>2. UNCHANGED <<up, queue, buffer, file, version, torn, acked, urls, puts>>
      BY <1>6 DEF ProxyGet
    <2>3. \A d \in Calls : /\ AtMaster(d)' => call'[d].url \in Nat
                           /\ call'[d].pc \in {"set", "write", "save"} => call'[d].key \in Keys
      BY <1>0, <2>1 DEF AtMaster
    <2> QED BY <1>0, <2>2, <2>3, FileFrame
  <1>7. ASSUME SaveLoop, NEW h, h = Halves(Head(queue)) PROVE FileInv'
    <2>1. /\ UNCHANGED <<up, version, torn, acked, puts, urls, call>> /\ up /\ queue # <<>> /\ queue' = Tail(queue)
      BY <1>7 DEF SaveLoop, SaveUnbuffered, Save
    <2>2. queue \in Seq(Records) /\ buffer \in Seq(HalfRecords) /\ file \in Seq(HalfRecords)
      BY DEF FileInv
    <2>3. h \in Seq(HalfRecords)
      BY <1>7, <2>1, <2>2, HeadTailProperties, HalvesOf
    <2>4. CASE SaveUnbuffered
      <3>1. version # 4 /\ buffer = <<>> /\ buffer' = <<>> /\ file' = file \o h
        BY <1>7, <2>4 DEF SaveUnbuffered, FileInv
      <3>2. file' \in Seq(HalfRecords) /\ buffer' \in Seq(HalfRecords)
        BY <2>2, <2>3, <3>1, ConcatProperties
      <3>3. Written = file /\ Written' = file'
        BY <2>2, <3>1, <3>2, ConcatEmptySeq DEF Written
      <3> QED BY <1>7, <2>1, <3>1, <3>2, <3>3, FileSaves
    <2>5. CASE Save
      <3>1. PICK all \in Seq(HalfRecords) : all = buffer \o h
        BY <2>2, <2>3, ConcatProperties
      <3>2. version = 4 /\ IF Len(all) <= BufferSize THEN buffer' = all /\ file' = file
                           ELSE /\ file' = file \o SubSeq(all, 1, BufferSize)
                                /\ buffer' = SubSeq(all, BufferSize + 1, Len(all))
        BY <1>7, <2>5, <3>1 DEF Save
      <3>3. /\ buffer' \in Seq(HalfRecords) /\ file' \in Seq(HalfRecords)
            /\ file' \o buffer' = file \o all
        <4>1. CASE Len(all) <= BufferSize
          BY <2>2, <3>1, <3>2, <4>1
        <4>2. CASE ~(Len(all) <= BufferSize)
          <5>0. Len(all) \in Nat /\ BufferSize \in Nat /\ BufferSize <= Len(all)
            BY <3>1, <4>2, GotoAssumption
          <5>1. PICK s1, s2 : s1 = SubSeq(all, 1, BufferSize) /\ s2 = SubSeq(all, BufferSize + 1, Len(all))
            OBVIOUS
          <5>2. \A i \in 1 .. Len(all) : all[i] \in HalfRecords
            BY <3>1, ElementOfSeq
          <5>3. s1 \in Seq(HalfRecords) /\ s2 \in Seq(HalfRecords)
            <6>1. \A i \in 1 .. BufferSize : all[i] \in HalfRecords
              BY <5>0, <5>2
            <6>2. \A i \in BufferSize + 1 .. Len(all) : all[i] \in HalfRecords
              BY <5>0, <5>2
            <6> QED BY <5>0, <5>1, <6>1, <6>2, SubSeqProperties
          <5>4. s1 \o s2 = all
            <6>1. 1 \in 1 .. Len(all) + 1 /\ BufferSize \in 1 - 1 .. Len(all) /\ Len(all) \in BufferSize .. Len(all)
              BY <5>0
            <6>2. s1 \o s2 = SubSeq(all, 1, Len(all))
              BY <3>1, <5>1, <6>1, ConcatAdjacentSubSeq
            <6> QED BY <3>1, <6>2, SubSeqFull
          <5>5. file' = file \o s1 /\ buffer' = s2
            BY <3>2, <4>2, <5>1
          <5>6. (file \o s1) \o s2 = file \o (s1 \o s2)
            BY <2>2, <5>3, HalvesAssociate
          <5>7. file \o s1 \in Seq(HalfRecords)
            BY <2>2, <5>3, ConcatProperties
          <5> QED BY <5>3, <5>4, <5>5, <5>6, <5>7
        <4> QED BY <4>1, <4>2
      <3>4. file \o all = (file \o buffer) \o h
        BY <2>2, <2>3, <3>1, HalvesAssociate
      <3>5. Written' = Written \o Halves(Head(queue))
        BY <1>7, <3>3, <3>4 DEF Written
      <3> QED BY <2>1, <3>2, <3>3, <3>5, FileSaves
    <2> QED BY <1>7, <2>4, <2>5 DEF SaveLoop
  <1>8. CASE FlushBuffer
    <2>1. /\ up /\ file' = file \o buffer /\ buffer' = <<>> /\ queue' = queue
          /\ UNCHANGED <<up, version, torn, acked, puts, urls, call>>
      BY <1>8 DEF FlushBuffer
    <2>2. queue \in Seq(Records) /\ buffer \in Seq(HalfRecords) /\ file \in Seq(HalfRecords)
      BY DEF FileInv
    <2>3. file' \in Seq(HalfRecords) /\ buffer' \in Seq(HalfRecords)
      BY <2>1, <2>2, ConcatProperties
    <2>4. Written' = Written
      BY <2>1, <2>3, ConcatEmptySeq DEF Written
    <2>5. \A q : Kept(q) => Kept(q)'
      BY <2>1, <2>4 DEF Kept
    <2>6. ~torn => Len(Written') % 2 = 0 /\ Whole(Written')
      BY <2>1, <2>4 DEF FileInv
    <2> QED BY <2>1, <2>2, <2>3, <2>5, <2>6, FileMoves
  <1>9. ASSUME NEW s \in Slaves, NewProxyStore(s) \/ SlaveExits(s) PROVE FileInv'
    <2>1. UNCHANGED <<up, queue, buffer, file, version, torn, acked, urls, puts>>
      BY <1>9 DEF NewProxyStore, SlaveExits
    <2>2. \A d \in Calls : call'[d].pc = "idle" \/ (/\ call'[d].pc = call[d].pc
                                                    /\ call'[d].url = call[d].url /\ call'[d].key = call[d].key)
      <3>1. CASE NewProxyStore(s)
        BY <3>1 DEF NewProxyStore
      <3>2. CASE SlaveExits(s)
        BY <1>0, <3>2 DEF SlaveExits, NoCall, CallShape
      <3> QED BY <1>9, <3>1, <3>2
    <2>3. \A d \in Calls : /\ AtMaster(d)' => call'[d].url \in Nat
                           /\ call'[d].pc \in {"set", "write", "save"} => call'[d].key \in Keys
      BY <1>0, <2>2 DEF AtMaster
    <2> QED BY <1>0, <2>1, <2>3, FileFrame
  <1>10. CASE MasterDies
    <2>1. /\ ~up' /\ queue' = <<>> /\ buffer' = <<>> /\ acked' = {} /\ urls' = NoUrls
          /\ UNCHANGED <<version, file, puts>>
          /\ call' = [c \in Calls |-> IF AtMaster(c) THEN NoCall ELSE call[c]]
      BY <1>10 DEF MasterDies
    <2>2. \A c \in Calls : ~AtMaster(c)'
      BY <1>0, <2>1 DEF AtMaster, NoCall
    <2>3. urls' = [k \in DOMAIN urls' |-> urls'[k]]
      BY <2>1 DEF NoUrls
    <2>4. /\ queue' \in Seq(Records) /\ buffer' \in Seq(HalfRecords) /\ file' \in Seq(HalfRecords)
      BY <2>1 DEF FileInv
    <2>5. \A c \in Calls : call'[c].pc \notin {"set", "write", "save"}
      BY <2>2 DEF AtMaster
    <2> QED BY <1>0, <2>1, <2>2, <2>3, <2>4, <2>5 DEF FileInv
  <1>11. CASE NewURLStore
    <2>1. /\ ~up /\ up' /\ urls' = Loaded(Decoded(file)) /\ torn' = (2 * Len(Decoded(file)) # Len(file))
          /\ UNCHANGED <<version, queue, buffer, file, call, puts, acked>>
      BY <1>11 DEF NewURLStore
    <2>2. /\ buffer = <<>> /\ acked = {} /\ file \in Seq(HalfRecords)
      BY <2>1 DEF FileInv
    <2>3. Written' = file
      BY <2>1, <2>2, ConcatEmptySeq DEF Written
    <2>4. ~torn' => Len(Written') % 2 = 0 /\ Whole(Written')
      <3>1. SUFFICES ASSUME ~torn' PROVE Len(file) % 2 = 0 /\ Whole(file)
        BY <2>3
      <3>2. 2 * Len(Decoded(file)) = Len(file)
        <4>1. torn' = (2 * Len(Decoded(file)) # Len(file))
          BY <2>1
        <4> QED BY ONLY <3>1, <4>1
      <3>3. Len(file) \in Nat
        BY <2>2
      <3> QED BY <3>2, <3>3, DecodedIsWhole
    <2>5. urls' = [k \in DOMAIN urls' |-> urls'[k]]
      BY <2>1 DEF Loaded
    <2>6. \A c \in Calls : /\ AtMaster(c)' => call'[c].url \in Nat
                           /\ call'[c].pc \in {"set", "write", "save"} => call'[c].key \in Keys
      BY <1>0, <2>1 DEF AtMaster
    <2>7. /\ queue' \in Seq(Records) /\ buffer' \in Seq(HalfRecords) /\ file' \in Seq(HalfRecords)
          /\ buffer' = <<>> /\ acked' = {} /\ puts' \in Nat
      BY <2>1, <2>2 DEF FileInv
    <2> QED BY <1>0, <2>1, <2>4, <2>5, <2>6, <2>7 DEF FileInv
  <1>12. CASE UNCHANGED gotoVars
    <2>1. UNCHANGED <<up, queue, buffer, file, version, torn, acked, puts, urls, call>>
      BY <1>12 DEF gotoVars
    <2>2. \A c \in Calls : AtMaster(c)' <=> AtMaster(c)
      BY <2>1 DEF AtMaster
    <2> QED BY <1>0, <2>1, <2>2, FileFrame
  <1> QED
    BY <1>1, <1>2, <1>3, <1>4, <1>5, <1>6, <1>7, <1>8, <1>9, <1>10, <1>11, <1>12 DEF GotoNext, PutStep

LEMMA InitFileInv == GotoInit => KeysInv /\ FileInv
  <1> SUFFICES ASSUME GotoInit PROVE KeysInv /\ FileInv
    OBVIOUS
  <1>1. DOMAIN urls = {} /\ urls = [k \in DOMAIN urls |-> urls[k]]
    BY DEF GotoInit, NoUrls
  <1>2. IsFiniteSet(DOMAIN urls) /\ Cardinality(DOMAIN urls) = 0
    BY <1>1, FS_EmptySet
  <1>3. \A c \in Calls : call[c].pc = "idle"
    BY DEF GotoInit, NoCall
  <1>4. Written = <<>> /\ Len(Written) = 0 /\ Whole(Written)
    BY DEF GotoInit, Written, Whole
  <1>5. FileInv
    BY <1>1, <1>2, <1>3, <1>4, Parity DEF GotoInit, FileInv, AtMaster
  <1>6. KeysInv
    BY <1>1, <1>2, <1>3 DEF GotoInit, KeysInv, Contiguous
  <1> QED BY <1>5, <1>6

\* What holds of the calls, of the keys and of the file holds always.
LEMMA StoreInvariance == GotoSpec => [](IInv /\ KeysInv /\ FileInv)
  <1>1. FileInv => Len(file) \in Nat
    BY DEF FileInv
  <1>2. IInv /\ KeysInv /\ FileInv /\ [GotoNext]_gotoVars => (IInv /\ KeysInv /\ FileInv)'
    <2> SUFFICES ASSUME IInv, KeysInv, FileInv, [GotoNext]_gotoVars PROVE IInv' /\ KeysInv' /\ FileInv'
      OBVIOUS
    <2>1. IInv'
      BY NextIInv
    <2>2. KeysInv'
      BY <1>1, NextKeysInv
    <2>3. FileInv'
      BY <2>2, NextFileInv
    <2> QED BY <2>1, <2>2, <2>3
  <1> QED
    BY <1>2, InitIInv, InitFileInv, PTL DEF GotoSpec

\* In every version the map has the first keys that genKey makes, so that the
\* next key Put counts is free, for any interleaving of requests between Count
\* and Set, and after any crash whose file was loaded without a gap.
THEOREM KeysStayContiguous == GotoSpec => []KeysContiguous
  <1>1. KeysInv => KeysContiguous
    BY DEF KeysInv, KeysContiguous
  <1> QED
    BY <1>1, StoreInvariance, PTL

\* A record whose Put returned is in the channel save, in the buffer of the
\* bufio.Writer, or where load finds it, for any size of the buffer, however it
\* cuts the records, in every version with a file (Put, saveLoop, load), until
\* a master appends to a file that ends in half a record.
THEOREM NothingIsDropped == GotoSpec => []NothingDropped
  <1>1. FileInv => NothingDropped
    <2> SUFFICES ASSUME FileInv, up, version > 0, ~torn, NEW r \in acked
                 PROVE  \/ \E i \in DOMAIN queue : queue[i] = r
                        \/ \E i \in DOMAIN buffer : buffer[i][1] = r
                        \/ \E i \in DOMAIN Decoded(file) : Decoded(file)[i] = r
      BY DEF NothingDropped
    <2>1. /\ buffer \in Seq(HalfRecords) /\ file \in Seq(HalfRecords)
          /\ Len(Written) % 2 = 0 /\ Whole(Written) /\ Kept(r)
      BY DEF FileInv
    <2>2. /\ Len(file) \in Nat /\ DOMAIN file = 1 .. Len(file) /\ Len(buffer) \in Nat /\ DOMAIN buffer = 1 .. Len(buffer)
          /\ Len(Written) = Len(file) + Len(buffer) /\ DOMAIN Written = 1 .. Len(file) + Len(buffer)
          /\ \A i \in 1 .. Len(file) + Len(buffer) :
               Written[i] = IF i <= Len(file) THEN file[i] ELSE buffer[i - Len(file)]
      BY <2>1, ConcatProperties DEF Written
    <2>3. CASE \E i \in DOMAIN queue : queue[i] = r
      BY <2>3
    <2>4. ASSUME NEW i \in DOMAIN Written, Written[i] = <<r, 2>>
          PROVE  \/ \E j \in DOMAIN buffer : buffer[j][1] = r
                 \/ \E j \in DOMAIN Decoded(file) : Decoded(file)[j] = r
      <3>1. CASE i > Len(file)
        <4>1. i - Len(file) \in DOMAIN buffer /\ buffer[i - Len(file)] = <<r, 2>>
          BY <2>2, <2>4, <3>1
        <4> QED BY <4>1
      <3>2. CASE i <= Len(file)
        <4>1. Whole(file)
          <5> SUFFICES ASSUME NEW k \in 1 .. Len(file)
                       PROVE  IF k % 2 = 1 THEN file[k][2] = 1 ELSE file[k] = <<file[k - 1][1], 2>>
            BY DEF Whole
          <5>1. k \in 1 .. Len(Written) /\ Written[k] = file[k]
            BY <2>2
          <5>2. CASE k % 2 = 1
            BY <2>1, <5>1, <5>2 DEF Whole
          <5>3. CASE k % 2 # 1
            <6>1. k - 1 \in 1 .. Len(file)
              BY <2>2, <5>3, Parity
            <6>2. Written[k - 1] = file[k - 1]
              BY <2>2, <6>1
            <6> QED BY <2>1, <5>1, <5>3, <6>2 DEF Whole
          <5> QED BY <5>2, <5>3
        <4>2. i \in 1 .. Len(file) /\ file[i] = <<r, 2>>
          BY <2>2, <2>4, <3>2
        <4>3. i % 2 # 1
          BY <4>1, <4>2 DEF Whole
        <4>4. PICK j \in Nat : i = 2 * j
          <5>1. i \div 2 \in Nat /\ i = 2 * (i \div 2)
            <6>1. i \in Nat
              BY <2>2, <4>2
            <6>2. i % 2 = 0
              BY <4>3, <6>1, Parity
            <6> QED BY <6>1, <6>2
          <5> QED BY <5>1
        <4>5. j > 0 /\ 2 * j <= Len(file)
          BY <4>2, <4>4
        <4>6. j \in DOMAIN Decoded(file) /\ Decoded(file)[j] = file[2 * j][1]
          BY <2>2, <4>1, <4>5, WholeIsDecoded
        <4> QED BY <4>2, <4>4, <4>6
      <3> QED BY <2>2, <2>4, <3>1, <3>2
    <2> QED BY <2>1, <2>3, <2>4 DEF Kept
  <1> QED
    BY <1>1, StoreInvariance, PTL
=============================================================================
