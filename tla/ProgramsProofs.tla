-------------------------- MODULE ProgramsProofs --------------------------
(***************************************************************************)
(* Theorems about the small concurrent programs: the search, the pollers,  *)
(* the feed reader, the proxy of the storage tests and the buffers, each   *)
(* for any number of its goroutines, resources, subscriptions, calls and   *)
(* elements.                                                               *)
(***************************************************************************)
EXTENDS Search, Pollers, FeedReader, ProxyCounter, Buffers,
        FiniteSetTheorems, SequenceTheorems, WellFoundedInduction, TLAPS

(***************************************************************************)
(* The search.                                                             *)
(***************************************************************************)
SearchSpec == SearchInit /\ [][SearchNext]_searchVars

\* A kind that has a result in Google's hands has sent it, and sends no other.
SearchInv ==
    /\ google \in [pc : {"select", "returned"}, results : Seq(Kinds)]
    /\ first \in [Kinds -> {"none", "got", "sent"}]
    /\ \A i \in DOMAIN google.results : first[google.results[i]] = "sent"
    /\ OneResultPerKind

\* Google returns one result of a kind at most, for any number of replicas of
\* each, however they race (First receives once, Google once from it).
THEOREM SearchOneResult == SearchSpec => []OneResultPerKind
  <1>1. SearchInit => SearchInv
    BY DEF SearchInit, SearchInv, OneResultPerKind
  <1>2. SearchInv /\ [SearchNext]_searchVars => SearchInv'
    <2> SUFFICES ASSUME SearchInv, [SearchNext]_searchVars PROVE SearchInv'
      OBVIOUS
    <2> USE DEF SearchInv, OneResultPerKind
    <2>1. ASSUME NEW k \in Kinds, NEW i \in Replicas, Searched(k, i) PROVE SearchInv'
      BY <2>1 DEF Searched
    <2>2. ASSUME NEW k \in Kinds, NEW i \in Replicas, First(k, i) PROVE SearchInv'
      BY <2>2 DEF First
    <2>3. ASSUME NEW k \in Kinds, Result(k) PROVE SearchInv'
      <3> DEFINE res == google.results
                 new == Append(res, k)
      <3>1. /\ first[k] = "got" /\ first' = [first EXCEPT ![k] = "sent"]
            /\ google'.results = new /\ google'.pc \in {"select", "returned"}
            /\ google' = [results |-> google'.results, pc |-> google'.pc]
        BY <2>3 DEF Result
      <3>2. res \in Seq(Kinds) /\ new \in Seq(Kinds) /\ Len(new) = Len(res) + 1
            /\ new[Len(new)] = k /\ \A i \in DOMAIN res : new[i] = res[i]
        OBVIOUS
      <3>3. \A i \in DOMAIN new : i \in DOMAIN res \/ i = Len(new)
        BY <3>2
      <3>4. \A i \in DOMAIN res : res[i] # k
        BY <3>1
      <3> HIDE DEF new, res
      <3>5. \A i \in DOMAIN new : first'[new[i]] = "sent"
        BY <3>1, <3>2, <3>3, <3>4 DEF res
      <3>6. \A i, j \in DOMAIN new : i # j => new[i] # new[j]
        BY <3>2, <3>3, <3>4 DEF res
      <3>7. google' \in [pc : {"select", "returned"}, results : Seq(Kinds)]
        BY <3>1, <3>2
      <3> QED BY <3>1, <3>5, <3>6, <3>7
    <2>4. CASE timeout
      BY <2>4 DEF timeout
    <2>5. CASE UNCHANGED searchVars
      BY <2>5 DEF searchVars
    <2> QED BY <2>1, <2>2, <2>3, <2>4, <2>5 DEF SearchNext
  <1>3. SearchInv => OneResultPerKind
    BY DEF SearchInv
  <1> QED BY <1>1, <1>2, <1>3, PTL DEF SearchSpec

(***************************************************************************)
(* The pollers.                                                            *)
(***************************************************************************)
PollSpec == PollInit /\ [][PollNext]_pollVars

Polled(r) == \E p \in PollerIds : Has(p, r)

\* A resource that has been started is with a Poller, asleep or awake, and no
\* two of these.
OwnerInv ==
    /\ starting \in 1 .. Urls + 1
    /\ poller \in [PollerIds -> [pc : {"range", "poll", "failed", "ok", "out"}, has : {0} \cup Resources]]
    /\ \A p \in PollerIds : poller[p].pc = "range" <=> poller[p].has = 0
    /\ sleeping \subseteq Resources /\ awake \subseteq Resources /\ sleeping \cap awake = {}
    /\ \A r \in Resources : r < starting <=> r \in sleeping \cup awake \/ Polled(r)
    /\ \A p, q \in PollerIds : poller[p].has = poller[q].has /\ poller[p].has # 0 => p = q
    /\ \A p \in PollerIds : poller[p].has \notin sleeping \cup awake

\* The number of goroutines of a kind that own a resource.
LEMMA SetsOfOne ==
  /\ Cardinality({}) = 0
  /\ \A x : Cardinality({x}) = 1
  BY FS_EmptySet, FS_Singleton

\* However many Pollers there are and whatever fails, a resource is with one
\* goroutine at a time: with its Poller, in its Sleep or still to be started.
THEOREM PollersOwnAlone == PollSpec => []OneOwner
  <1> USE PollersAssumption DEF PollersAssumption
  <1>1. PollInit => OwnerInv
    BY DEF PollInit, OwnerInv, Ranging, Polled, Has, Resources
  <1>2. OwnerInv /\ [PollNext]_pollVars => OwnerInv'
    <2> SUFFICES ASSUME OwnerInv, [PollNext]_pollVars PROVE OwnerInv'
      OBVIOUS
    <2> USE DEF OwnerInv, Polled, Has, Resources
    <2>1. ASSUME NEW p \in PollerIds, TakeFirst(p) PROVE OwnerInv'
      <3>1. /\ starting \in Resources /\ starting' = starting + 1 /\ UNCHANGED <<sleeping, awake>>
            /\ poller[p].pc = "range" /\ poller' = [poller EXCEPT ![p] = [pc |-> "poll", has |-> starting]]
        BY <2>1 DEF TakeFirst, TakeInto
      <3>2. starting \notin sleeping \cup awake /\ \A q \in PollerIds : poller[q].has # starting
        BY <3>1
      <3>3. \A q \in PollerIds : poller'[q] = IF q = p THEN [pc |-> "poll", has |-> starting] ELSE poller[q]
        BY <3>1
      <3>4. \A r \in Resources : Polled(r)' <=> Polled(r) \/ r = starting
        BY <3>1, <3>3
      <3>5. \A r \in Resources : r < starting' <=> r < starting \/ r = starting
        BY <3>1
      <3>6. \A r \in Resources : r < starting' <=> r \in sleeping' \cup awake' \/ Polled(r)'
        BY <3>1, <3>4, <3>5
      <3>7. poller' \in [PollerIds -> [pc : {"range", "poll", "failed", "ok", "out"}, has : {0} \cup Resources]]
        BY <3>1
      <3> QED BY <3>1, <3>2, <3>3, <3>6, <3>7
    <2>2. ASSUME NEW p \in PollerIds, NEW r \in Resources, TakeAgain(p, r) PROVE OwnerInv'
      BY <2>2 DEF TakeAgain, TakeInto
    <2>3. ASSUME NEW p \in PollerIds, Poll(p) PROVE OwnerInv'
      BY <2>3 DEF Poll
    <2>4. ASSUME NEW p \in PollerIds, StateMonitor(p) PROVE OwnerInv'
      BY <2>4 DEF StateMonitor
    <2>5. ASSUME NEW p \in PollerIds, Complete(p) PROVE OwnerInv'
      <3> PICK s : s = poller[p].has
        OBVIOUS
      <3>1. /\ poller[p].pc = "out" /\ sleeping' = sleeping \cup {s} /\ UNCHANGED <<starting, awake>>
            /\ poller' = [poller EXCEPT ![p] = Ranging]
        BY <2>5 DEF Complete
      <3>2. s \in Resources /\ s \notin sleeping \cup awake
        BY <3>1
      <3>3. \A q \in PollerIds : /\ q # p => poller'[q] = poller[q] /\ poller[q].has # s
                                 /\ q = p => poller'[q] = Ranging
        BY <3>1, <3>2
      <3>4. \A r \in Resources : r # s => (Polled(r)' <=> Polled(r))
        BY <3>1, <3>3 DEF Ranging
      <3>5. Polled(s) /\ ~Polled(s)'
        BY <3>1, <3>2, <3>3 DEF Ranging
      <3>6. \A r \in Resources : r < starting' <=> r \in sleeping' \cup awake' \/ Polled(r)'
        BY <3>1, <3>2, <3>4, <3>5
      <3>7. poller' \in [PollerIds -> [pc : {"range", "poll", "failed", "ok", "out"}, has : {0} \cup Resources]]
        BY <3>1 DEF Ranging
      <3>8. \A q \in PollerIds : poller'[q].has \notin sleeping' \cup awake'
        BY <3>1, <3>2, <3>3 DEF Ranging
      <3>9. \A q, t \in PollerIds : poller'[q].has = poller'[t].has /\ poller'[q].has # 0 => q = t
        BY <3>3 DEF Ranging
      <3>10. \A q \in PollerIds : poller'[q].pc = "range" <=> poller'[q].has = 0
        BY <3>3 DEF Ranging
      <3>11. sleeping' \subseteq Resources /\ awake' \subseteq Resources /\ sleeping' \cap awake' = {}
        BY <3>1, <3>2
      <3> QED BY <3>1, <3>6, <3>7, <3>8, <3>9, <3>10, <3>11
    <2>6. ASSUME NEW r \in Resources, Wake(r) PROVE OwnerInv'
      BY <2>6 DEF Wake
    <2>7. CASE UNCHANGED pollVars
      BY <2>7 DEF pollVars
    <2> QED BY <2>1, <2>2, <2>3, <2>4, <2>5, <2>6, <2>7 DEF PollNext, PollerStep
  <1>3. OwnerInv => OneOwner
    <2> SUFFICES ASSUME OwnerInv PROVE OneOwner
      OBVIOUS
    <2> SUFFICES ASSUME NEW r \in Resources PROVE Owners(r) = 1
      BY DEF OneOwner
    <2>0. r \in Nat /\ r # 0 /\ starting \in Nat
      BY DEF OwnerInv, Resources
    <2>1. (Holders(r) = {} /\ ~Polled(r)) \/ (Polled(r) /\ \E p \in PollerIds : Holders(r) = {p})
      BY <2>0 DEF OwnerInv, Has, Polled, Holders
    <2>2. Cardinality(Holders(r)) = IF Polled(r) THEN 1 ELSE 0
      BY <2>1, SetsOfOne
    <2>5. Polled(r) => r \notin sleeping \cup awake
      BY DEF OwnerInv, Polled, Has
    <2>6. r \in sleeping => r \notin awake
      BY DEF OwnerInv
    <2>7. r >= starting <=> ~ (r \in sleeping \cup awake \/ Polled(r))
      BY <2>0 DEF OwnerInv
    <2>8. CASE Polled(r)
      BY <2>0, <2>2, <2>5, <2>7, <2>8 DEF Owners
    <2>9. CASE ~Polled(r) /\ r \in sleeping
      BY <2>0, <2>2, <2>6, <2>7, <2>9 DEF Owners
    <2>10. CASE ~Polled(r) /\ r \in awake
      BY <2>0, <2>2, <2>6, <2>7, <2>10 DEF Owners
    <2>11. CASE ~Polled(r) /\ r \notin sleeping \cup awake
      BY <2>0, <2>2, <2>7, <2>11 DEF Owners
    <2> QED BY <2>8, <2>9, <2>10, <2>11
  <1> QED BY <1>1, <1>2, <1>3, PTL DEF PollSpec

(***************************************************************************)
(* The feed reader.                                                        *)
(***************************************************************************)
FeedSpec == FeedInit /\ [][FeedNext]_feedVars

SubShape(r) == r = [f \in {"pc", "fetching", "fetched", "failed", "pending", "seen", "err"} |-> r[f]]
MergerShape(r) == r = [f \in {"pc", "item", "err"} |-> r[f]]
CloserShape(r) == r = [f \in {"pc", "left", "err"} |-> r[f]]

FeedShape ==
    /\ sub = [s \in Subs |-> sub[s]] /\ \A s \in Subs : SubShape(sub[s])
    /\ merger = [s \in Subs |-> merger[s]] /\ \A s \in Subs : MergerShape(merger[s])
    /\ CloserShape(closer)

Unreported == {s \in Subs : merger[s].pc # "done"}

\* merge.Close still waits for as many errors as goroutines of Merge have not
\* sent theirs, and such a goroutine is as far with its loop as its loop with it.
CloseInv ==
    /\ closer.left = Cardinality(Unreported)
    /\ closer.pc = "closed" => closer.left = 0
    /\ \A s \in Subs : merger[s].pc \in {"report", "done"} => sub[s].pc = "ended"

FeedInv == FeedShape /\ CloseInv

\* What a step that lets every goroutine of Merge be as it is, or moves one
\* that still has to report, does not change.
LEMMA StillToReport ==
  ASSUME FeedInv, FeedShape', closer' = closer,
         \A s \in Subs : merger[s].pc = "done" <=> merger'[s].pc = "done",
         \A s \in Subs : merger'[s].pc \in {"report", "done"} => sub'[s].pc = "ended"
  PROVE  FeedInv'
  <1>1. Unreported' = Unreported
    BY DEF Unreported
  <1> QED BY <1>1 DEF FeedInv, CloseInv

\* The merged channel is closed after every loop has ended and every goroutine
\* of Merge has reported, for any number of subscriptions (merge.Close receives
\* from m.errs once for each of them; which error it returns is not said).
THEOREM FeedClosesLast == FeedSpec => []ClosedAfterAll
  <1> USE FeedAssumption DEF FeedAssumption
  <1>0. IsFiniteSet(Unreported)
    BY FS_Subset DEF Unreported
  <1>1. FeedInit => FeedInv
    <2> SUFFICES ASSUME FeedInit PROVE FeedInv
      OBVIOUS
    <2>1. Unreported = Subs
      BY DEF FeedInit, Unreported
    <2> QED BY <2>1 DEF FeedInit, FeedInv, FeedShape, CloseInv, SubShape, MergerShape, CloserShape
  <1>2. FeedInv /\ [FeedNext]_feedVars => FeedInv'
    <2> SUFFICES ASSUME FeedInv, [FeedNext]_feedVars PROVE FeedInv'
      OBVIOUS
    <2> USE DEF FeedShape, SubShape, MergerShape, CloserShape
    <2>1. ASSUME NEW s \in Subs, LoopStep(s) PROVE FeedInv'
      <3>1. FeedShape' /\ closer' = closer /\ merger' = merger /\ sub'[s].pc = sub[s].pc
        <4>1. CASE startFetch(s)
          BY <4>1 DEF startFetch, FeedInv
        <4>2. CASE fetchDone(s)
          <5>1. merger' = merger /\ closer' = closer
            BY <4>2 DEF fetchDone
          <5>a. PICK new \in NewItems(sub[s].fetched, sub[s].seen) :
                   sub' = [sub EXCEPT ![s].fetching = "no", ![s].fetched = <<>>, ![s].err = sub[s].failed,
                                      ![s].failed = FALSE, ![s].pending = @ \o new,
                                      ![s].seen = @ \cup ToSet(sub[s].fetched)]
            BY <4>2 DEF fetchDone
          <5> PICK x, y, z : /\ x = sub[s].failed /\ z = sub[s].seen \cup ToSet(sub[s].fetched)
                             /\ y = sub[s].pending \o new
            OBVIOUS
          <5>2. sub' = [sub EXCEPT ![s] = [sub[s] EXCEPT !.fetching = "no", !.fetched = <<>>,
                                    !.err = x, !.failed = FALSE, !.pending = y, !.seen = z]]
            BY <5>a DEF FeedInv
          <5>3. PICK r : r = [sub[s] EXCEPT !.fetching = "no", !.fetched = <<>>,
                                    !.err = x, !.failed = FALSE, !.pending = y, !.seen = z]
            OBVIOUS
          <5>4. SubShape(r) /\ r.pc = sub[s].pc
            BY <5>3, ZenonT(60) DEF FeedInv
          <5>5. sub' = [sub EXCEPT ![s] = r]
            BY <5>2, <5>3
          <5> HIDE DEF SubShape
          <5> QED BY <5>1, <5>4, <5>5 DEF FeedInv
        <4> QED BY <2>1, <4>1, <4>2 DEF LoopStep
      <3>2. \A t \in Subs : sub'[t].pc = sub[t].pc
        BY <2>1, <3>1 DEF LoopStep, startFetch, fetchDone, FeedInv
      <3> QED BY <3>1, <3>2, StillToReport DEF FeedInv, CloseInv
    <2>2. ASSUME NEW s \in Subs, Fetched(s) PROVE FeedInv'
      <3>1. FeedShape' /\ closer' = closer /\ merger' = merger /\ \A t \in Subs : sub'[t].pc = sub[t].pc
        <4>1. merger' = merger /\ closer' = closer
          BY <2>2 DEF Fetched
        <4>2. \E r : SubShape(r) /\ r.pc = sub[s].pc /\ sub' = [sub EXCEPT ![s] = r]
          <5> DEFINE Done(items) == [sub[s] EXCEPT !.fetching = "done", !.failed = FALSE, !.fetched = items]
                     Failed == [sub[s] EXCEPT !.fetching = "done", !.failed = TRUE]
          <5>1. SubShape(Failed) /\ Failed.pc = sub[s].pc
            BY DEF FeedInv
          <5>2. \A items : SubShape(Done(items)) /\ Done(items).pc = sub[s].pc
            BY DEF FeedInv
          <5>3. \/ sub' = [sub EXCEPT ![s] = Failed]
                \/ \E items : sub' = [sub EXCEPT ![s] = Done(items)]
            BY <2>2 DEF Fetched, FeedInv
          <5> HIDE DEF Done, Failed, SubShape
          <5> QED BY <5>1, <5>2, <5>3
        <4>3. sub' = [t \in Subs |-> sub'[t]] /\ \A t \in Subs : SubShape(sub'[t]) /\ sub'[t].pc = sub[t].pc
          <5> HIDE DEF SubShape
          <5> QED BY <4>2 DEF FeedInv
        <4> QED BY <4>1, <4>3 DEF FeedInv
      <3> QED BY <3>1, StillToReport DEF FeedInv, CloseInv
    <2>3. ASSUME NEW s \in Subs, TakeUpdate(s) \/ PutUpdate(s) \/ Quit(s) \/ AskClose(s) PROVE FeedInv'
      <3>1. FeedShape' /\ closer' = closer
        <4>1. CASE TakeUpdate(s)
          BY <4>1 DEF TakeUpdate, FeedInv
        <4>2. CASE PutUpdate(s)
          BY <4>2 DEF PutUpdate, FeedInv
        <4>3. CASE Quit(s)
          BY <4>3 DEF Quit, FeedInv
        <4>4. CASE AskClose(s)
          BY <4>4 DEF AskClose, FeedInv
        <4> QED BY <2>3, <4>1, <4>2, <4>3, <4>4
      <3>2. /\ merger[s].pc \notin {"report", "done"} /\ merger'[s].pc \notin {"report", "done"}
            /\ \A t \in Subs \ {s} : merger'[t] = merger[t] /\ sub'[t] = sub[t]
        BY <2>3 DEF TakeUpdate, PutUpdate, Quit, AskClose, FeedInv
      <3> QED BY <3>1, <3>2, StillToReport DEF FeedInv, CloseInv
    <2>4. ASSUME NEW s \in Subs, AnswerClose(s) PROVE FeedInv'
      <3>1. FeedShape' /\ closer' = closer
        BY <2>4 DEF AnswerClose, FeedInv
      <3>2. /\ merger[s].pc = "errc" /\ merger'[s].pc = "report" /\ sub'[s].pc = "ended"
            /\ \A t \in Subs \ {s} : merger'[t] = merger[t] /\ sub'[t] = sub[t]
        BY <2>4 DEF AnswerClose, FeedInv
      <3> QED BY <3>1, <3>2, StillToReport DEF FeedInv, CloseInv
    <2>5. ASSUME NEW s \in Subs, Collect(s) PROVE FeedInv'
      <3>1. /\ FeedShape' /\ sub' = sub /\ closer.pc = "collect" /\ closer'.pc = "collect"
            /\ closer'.left = closer.left - 1 /\ merger[s].pc = "report" /\ merger'[s].pc = "done"
        <4>1. /\ sub' = sub /\ merger[s].pc = "report" /\ merger' = [merger EXCEPT ![s].pc = "done"]
              /\ closer.pc = "collect" /\ closer' = [closer EXCEPT !.left = @ - 1, !.err = @ \/ merger[s].err]
          BY <2>5 DEF Collect
        <4>2. CloserShape(closer') /\ closer'.pc = closer.pc /\ closer'.left = closer.left - 1
          BY <4>1 DEF FeedInv
        <4>3. merger' = [t \in Subs |-> merger'[t]] /\ (\A t \in Subs : MergerShape(merger'[t])) /\ merger'[s].pc = "done"
          BY <4>1 DEF FeedInv
        <4>4. FeedShape'
          <5> HIDE DEF SubShape, MergerShape, CloserShape
          <5> QED BY <4>1, <4>2, <4>3 DEF FeedInv
        <4> HIDE DEF FeedShape
        <4> QED BY <4>1, <4>2, <4>3, <4>4
      <3>2. \A t \in Subs \ {s} : merger'[t] = merger[t]
        BY <2>5 DEF Collect, FeedInv
      <3>3. Unreported' = Unreported \ {s} /\ s \in Unreported
        BY <3>1, <3>2 DEF Unreported
      <3>4. Cardinality(Unreported') = Cardinality(Unreported) - 1
        BY <1>0, <3>3, FS_RemoveElement
      <3> QED BY <3>1, <3>2, <3>4 DEF FeedInv, CloseInv
    <2>6. CASE Close
      BY <2>6 DEF Close, FeedInv, CloseInv, Unreported
    <2>7. CASE CloseUpdates
      BY <2>7 DEF CloseUpdates, FeedInv, CloseInv, Unreported
    <2>8. CASE MainReturns
      BY <2>8 DEF MainReturns, FeedInv, CloseInv, Unreported
    <2>9. CASE UNCHANGED feedVars
      BY <2>9 DEF feedVars, FeedInv, CloseInv, Unreported
    <2> QED BY <2>1, <2>2, <2>3, <2>4, <2>5, <2>6, <2>7, <2>8, <2>9 DEF FeedNext, MergeStep
  <1>3. FeedInv => ClosedAfterAll
    <2> SUFFICES ASSUME FeedInv, closer.pc = "closed" PROVE \A s \in Subs : merger[s].pc = "done" /\ sub[s].pc = "ended"
      BY DEF ClosedAfterAll
    <2>1. Cardinality(Unreported) = 0
      BY DEF FeedInv, CloseInv
    <2>2. Unreported = {}
      BY <1>0, <2>1, FS_EmptySet
    <2> QED BY <2>2 DEF Unreported, FeedInv, CloseInv
  <1> QED BY <1>1, <1>2, <1>3, PTL DEF FeedSpec

\* No item is in q twice.
Distinct(q) == \A i, j \in DOMAIN q : i # j => q[i] # q[j]
InHand(m) == IF m.pc = "put" THEN {m.item} ELSE {}

SubType == [pc : {"select", "closing", "ended"}, fetching : {"no", "running", "done"}, fetched : Seq(Int),
            failed : BOOLEAN, pending : Seq(Int), seen : SUBSET Int, err : BOOLEAN]
MergerType == [pc : {"get", "put", "close", "errc", "report", "done"}, item : Int, err : BOOLEAN]

FeedType ==
    /\ sub \in [Subs -> SubType] /\ merger \in [Subs -> MergerType]
    /\ quit \in BOOLEAN /\ reader \in [pc : {"range", "ended"}, got : [Subs -> Seq(Int)]]
    /\ \A s \in Subs : merger[s].pc \in {"get", "put"} \/ quit

\* What was read of a subscription, what its loop still has and what is handed
\* on are different items, all of them seen; until Close they are all of them.
OnceOf(x, m, got, closing) ==
    /\ Distinct(got) /\ Distinct(x.pending) /\ ToSet(got) \cap ToSet(x.pending) = {}
    /\ InHand(m) \cap (ToSet(got) \cup ToSet(x.pending)) = {}
    /\ ToSet(got) \cup ToSet(x.pending) \cup InHand(m) \subseteq x.seen
    /\ closing \/ x.seen = ToSet(got) \cup ToSet(x.pending) \cup InHand(m)

OnceInv == \A s \in Subs : OnceOf(sub[s], merger[s], reader.got[s], quit)

\* The items of a sequence, and how many they are.
LEMMA DistinctCount ==
  ASSUME NEW S, NEW q \in Seq(S)
  PROVE  /\ IsFiniteSet(ToSet(q))
         /\ Distinct(q) => Cardinality(ToSet(q)) = Len(q)
  <1>1. Len(q) \in Nat /\ q \in [1 .. Len(q) -> S] /\ DOMAIN q = 1 .. Len(q)
    BY LenProperties
  <1>2. q \in Surjection(1 .. Len(q), ToSet(q))
    BY <1>1 DEF Surjection, ToSet
  <1>3. IsFiniteSet(1 .. Len(q)) /\ Cardinality(1 .. Len(q)) = Len(q)
    BY <1>1, FS_Interval
  <1>4. Distinct(q) => q \in Injection(1 .. Len(q), ToSet(q))
    BY <1>1, <1>2 DEF Distinct, Injection, IsInjective, Surjection
  <1> QED BY <1>2, <1>3, <1>4, FS_Surjection

\* The loop over fetched leaves exactly the items that are new, each once.
LEMMA NewItemsAre ==
  ASSUME NEW fetched \in Seq(Int), NEW seen \in SUBSET Int, NEW new \in NewItems(fetched, seen)
  PROVE  new \in Seq(Int) /\ Distinct(new) /\ ToSet(new) = ToSet(fetched) \ seen
  <1> DEFINE S == ToSet(fetched) \ seen
             n == Cardinality(S)
  <1>1. IsFiniteSet(S) /\ S \subseteq Int
    <2>1. IsFiniteSet(ToSet(fetched))
      BY DistinctCount
    <2>2. ToSet(fetched) \subseteq Int
      BY DEF ToSet
    <2> QED BY <2>1, <2>2, FS_Subset
  <1>2. n \in Nat
    BY <1>1, FS_CardinalityType
  <1>3. new \in [1 .. n -> S] /\ \A i, j \in DOMAIN new : i < j => new[i] < new[j]
    BY DEF NewItems
  <1>4. IsFiniteSet(1 .. n) /\ Cardinality(1 .. n) = n
    BY <1>2, FS_Interval
  <1> HIDE DEF n, S
  <1>5. Distinct(new)
    <2> SUFFICES ASSUME NEW i \in DOMAIN new, NEW j \in DOMAIN new, i # j PROVE new[i] # new[j]
      BY DEF Distinct
    <2>1. i \in 1 .. n /\ j \in 1 .. n /\ new[i] \in Int /\ new[j] \in Int
      BY <1>1, <1>3
    <2>2. i < j \/ j < i
      BY <2>1, <1>2
    <2> QED BY <1>3, <2>1, <2>2
  <1>6. new \in Injection(1 .. n, S)
    BY <1>3, <1>5 DEF Distinct, Injection, IsInjective
  <1>7. new \in Surjection(1 .. n, S)
    BY <1>1, <1>4, <1>6, FS_Injection DEF n
  <1>8. ToSet(new) = S
    BY <1>3, <1>7 DEF ToSet, Surjection
  <1>9. new \in Seq(Int)
    <2>1. new \in [1 .. n -> Int]
      BY <1>1, <1>3
    <2> QED BY <1>2, <2>1, SeqDef
  <1> QED BY <1>5, <1>8, <1>9 DEF S

\* Sequences of different items with no item in common, one after the other.
LEMMA DistinctConcat ==
  ASSUME NEW p \in Seq(Int), NEW q \in Seq(Int)
  PROVE  /\ p \o q \in Seq(Int) /\ ToSet(p \o q) = ToSet(p) \cup ToSet(q)
         /\ Distinct(p) /\ Distinct(q) /\ ToSet(p) \cap ToSet(q) = {} => Distinct(p \o q)
  <1> DEFINE r == p \o q
  <1>1. /\ r \in Seq(Int) /\ DOMAIN r = 1 .. Len(p) + Len(q) /\ DOMAIN p = 1 .. Len(p) /\ DOMAIN q = 1 .. Len(q)
        /\ \A i \in 1 .. Len(p) + Len(q) : r[i] = IF i <= Len(p) THEN p[i] ELSE q[i - Len(p)]
        /\ Len(p) \in Nat /\ Len(q) \in Nat
    BY ConcatProperties, LenProperties
  <1> PICK m, n \in Nat : m = Len(p) /\ n = Len(q)
    BY <1>1
  <1>2. /\ DOMAIN r = 1 .. m + n /\ DOMAIN p = 1 .. m /\ DOMAIN q = 1 .. n
        /\ \A i \in 1 .. m + n : r[i] = IF i <= m THEN p[i] ELSE q[i - m]
    BY <1>1
  <1> HIDE DEF r
  <1>3. \A i \in 1 .. m : i \in 1 .. m + n /\ r[i] = p[i]
    BY <1>2
  <1>4. \A i \in 1 .. n : i + m \in 1 .. m + n /\ ~(i + m <= m) /\ (i + m) - m = i
    OBVIOUS
  <1>5. \A i \in 1 .. n : r[i + m] = q[i]
    BY <1>2, <1>4
  <1>6. \A i \in 1 .. m + n : i \in 1 .. m \/ (i - m \in 1 .. n /\ r[i] = q[i - m])
    BY <1>2
  <1>7. ToSet(r) = ToSet(p) \cup ToSet(q)
    <2>1. ToSet(r) \subseteq ToSet(p) \cup ToSet(q)
      <3> SUFFICES ASSUME NEW i \in 1 .. m + n PROVE r[i] \in ToSet(p) \cup ToSet(q)
        BY <1>2 DEF ToSet
      <3> QED BY <1>2, <1>3, <1>6 DEF ToSet
    <2>2. ToSet(p) \subseteq ToSet(r)
      BY <1>2, <1>3 DEF ToSet
    <2>3. ToSet(q) \subseteq ToSet(r)
      <3> SUFFICES ASSUME NEW i \in 1 .. n PROVE q[i] \in ToSet(r)
        BY <1>2 DEF ToSet
      <3>1. i + m \in DOMAIN r /\ r[i + m] = q[i]
        BY <1>2, <1>4, <1>5
      <3> QED BY <3>1 DEF ToSet
    <2> QED BY <2>1, <2>2, <2>3
  <1>8. ASSUME Distinct(p), Distinct(q), ToSet(p) \cap ToSet(q) = {} PROVE Distinct(r)
    <2> SUFFICES ASSUME NEW i \in 1 .. m + n, NEW j \in 1 .. m + n, i # j PROVE r[i] # r[j]
      BY <1>2 DEF Distinct
    <2>0. \A k \in 1 .. m, l \in 1 .. n : p[k] # q[l]
      BY <1>2, <1>8 DEF ToSet
    <2>1. CASE i \in 1 .. m /\ j \in 1 .. m
      BY <1>2, <1>3, <1>8, <2>1 DEF Distinct
    <2>2. CASE i \in 1 .. m /\ j \notin 1 .. m
      BY <1>3, <1>6, <2>0, <2>2
    <2>3. CASE i \notin 1 .. m /\ j \in 1 .. m
      BY <1>3, <1>6, <2>0, <2>3
    <2>4. CASE i \notin 1 .. m /\ j \notin 1 .. m
      <3>1. i - m \in 1 .. n /\ j - m \in 1 .. n /\ r[i] = q[i - m] /\ r[j] = q[j - m]
        BY <1>6, <2>4
      <3>2. i - m # j - m
        OBVIOUS
      <3> QED BY <1>2, <1>8, <3>1, <3>2 DEF Distinct
    <2> QED BY <2>1, <2>2, <2>3, <2>4
  <1> QED BY <1>1, <1>7, <1>8 DEF r

\* The first item leaves a sequence.
LEMMA DistinctTail ==
  ASSUME NEW q \in Seq(Int), q # <<>>
  PROVE  /\ Tail(q) \in Seq(Int) /\ Head(q) \in Int /\ ToSet(q) = ToSet(Tail(q)) \cup {Head(q)}
         /\ Distinct(q) => Distinct(Tail(q)) /\ Head(q) \notin ToSet(Tail(q))
  <1>1. /\ Tail(q) \in Seq(Int) /\ Head(q) \in Int /\ Head(q) = q[1] /\ DOMAIN q = 1 .. Len(q) /\ Len(q) \in Nat
        /\ Len(q) >= 1 /\ DOMAIN Tail(q) = 1 .. Len(q) - 1 /\ \A i \in 1 .. Len(q) - 1 : Tail(q)[i] = q[i + 1]
    BY HeadTailProperties, LenProperties, EmptySeq
  <1> PICK n \in Nat : n = Len(q)
    BY <1>1
  <1> PICK t : t = Tail(q)
    OBVIOUS
  <1>2. /\ DOMAIN q = 1 .. n /\ n >= 1 /\ DOMAIN t = 1 .. n - 1 /\ \A i \in 1 .. n - 1 : t[i] = q[i + 1]
    BY <1>1
  <1>3. \A i \in 1 .. n - 1 : i + 1 \in 1 .. n /\ i + 1 # 1
    OBVIOUS
  <1>4. \A i \in 1 .. n : i = 1 \/ (i - 1 \in 1 .. n - 1 /\ t[i - 1] = q[i])
    BY <1>2
  <1>5. ToSet(q) = ToSet(t) \cup {q[1]}
    <2>1. ToSet(q) \subseteq ToSet(t) \cup {q[1]}
      <3> SUFFICES ASSUME NEW i \in 1 .. n PROVE q[i] \in ToSet(t) \cup {q[1]}
        BY <1>2 DEF ToSet
      <3> QED BY <1>2, <1>4 DEF ToSet
    <2>2. ToSet(t) \subseteq ToSet(q)
      BY <1>2, <1>3 DEF ToSet
    <2>3. q[1] \in ToSet(q)
      BY <1>2 DEF ToSet
    <2> QED BY <2>1, <2>2, <2>3
  <1>6. ASSUME Distinct(q) PROVE Distinct(t) /\ q[1] \notin ToSet(t)
    <2>1. \A i, j \in 1 .. n - 1 : i # j => i + 1 # j + 1
      OBVIOUS
    <2>2. Distinct(t)
      <3> SUFFICES ASSUME NEW i \in 1 .. n - 1, NEW j \in 1 .. n - 1, i # j PROVE t[i] # t[j]
        BY <1>2 DEF Distinct
      <3>1. i + 1 \in DOMAIN q /\ j + 1 \in DOMAIN q /\ i + 1 # j + 1
        BY <1>2, <1>3, <2>1
      <3> QED BY <1>2, <1>6, <3>1 DEF Distinct
    <2>3. q[1] \notin ToSet(t)
      BY <1>2, <1>3, <1>6 DEF Distinct, ToSet
    <2> QED BY <2>2, <2>3
  <1> QED BY <1>1, <1>5, <1>6

\* Fetched items that were not seen join those the loop has.
LEMMA OnceFetched ==
  ASSUME NEW x, NEW y, NEW m, NEW got \in Seq(Int), NEW closing \in BOOLEAN, NEW fetched \in Seq(Int),
         OnceOf(x, m, got, closing), x.pending \in Seq(Int), x.seen \in SUBSET Int,
         NEW new \in NewItems(fetched, x.seen),
         y.pending = x.pending \o new, y.seen = x.seen \cup ToSet(fetched)
  PROVE  OnceOf(y, m, got, closing)
  <1>1. new \in Seq(Int) /\ Distinct(new) /\ ToSet(new) = ToSet(fetched) \ x.seen
    BY NewItemsAre
  <1>2. ToSet(x.pending) \cap ToSet(new) = {}
    BY <1>1 DEF OnceOf
  <1>3. Distinct(y.pending) /\ ToSet(y.pending) = ToSet(x.pending) \cup ToSet(new)
    BY <1>1, <1>2, DistinctConcat DEF OnceOf
  <1> QED BY <1>1, <1>3 DEF OnceOf

\* The first item the loop has goes into the hands of the goroutine of Merge.
LEMMA OnceTaken ==
  ASSUME NEW x, NEW y, NEW m, NEW l, NEW got, NEW closing, OnceOf(x, m, got, closing),
         x.pending \in Seq(Int), x.pending # <<>>, m.pc # "put",
         y.pending = Tail(x.pending), y.seen = x.seen, l.pc = "put", l.item = Head(x.pending)
  PROVE  OnceOf(y, l, got, closing)
  <1>1. /\ Distinct(y.pending) /\ ToSet(x.pending) = ToSet(y.pending) \cup {l.item}
        /\ l.item \notin ToSet(y.pending)
    BY DistinctTail DEF OnceOf
  <1>2. InHand(m) = {} /\ InHand(l) = {l.item}
    BY DEF InHand
  <1> QED BY <1>1, <1>2 DEF OnceOf

\* The item in hand is read.
LEMMA OnceRead ==
  ASSUME NEW x, NEW m, NEW l, NEW got \in Seq(Int), NEW closing, OnceOf(x, m, got, closing),
         m.pc = "put", m.item \in Int, l.pc # "put"
  PROVE  OnceOf(x, l, Append(got, m.item), closing)
  <1>1. Append(got, m.item) = got \o <<m.item>> /\ <<m.item>> \in Seq(Int)
    BY AppendIsConcat
  <1>2. Distinct(<<m.item>>) /\ ToSet(<<m.item>>) = {m.item}
    BY DEF Distinct, ToSet
  <1>3. InHand(l) = {} /\ InHand(m) = {m.item}
    BY DEF InHand
  <1>4. /\ Distinct(Append(got, m.item))
        /\ ToSet(Append(got, m.item)) = ToSet(got) \cup {m.item}
    <2>1. Distinct(got) /\ ToSet(got) \cap ToSet(<<m.item>>) = {}
      BY <1>2, <1>3 DEF OnceOf
    <2>2. /\ Distinct(got \o <<m.item>>)
          /\ ToSet(got \o <<m.item>>) = ToSet(got) \cup ToSet(<<m.item>>)
      BY <1>1, <1>2, <2>1, DistinctConcat
    <2> QED BY <1>1, <1>2, <2>2
  <1> QED BY <1>3, <1>4 DEF OnceOf

\* What the loop does to its record keeps its type.
LEMMA SubChanges ==
  ASSUME NEW r \in SubType, NEW items \in Seq(Int), NEW more \in Seq(Int), NEW seen \in SUBSET Int, NEW b \in BOOLEAN
  PROVE  /\ [r EXCEPT !.fetching = "done", !.failed = FALSE, !.fetched = items] \in SubType
         /\ [r EXCEPT !.fetching = "done", !.failed = TRUE] \in SubType
         /\ [r EXCEPT !.fetching = "no", !.fetched = items, !.err = b, !.failed = FALSE,
                      !.pending = more, !.seen = seen] \in SubType
         /\ [r EXCEPT !.pc = "ended", !.pending = items] \in SubType
  <1>1. TRUE \in BOOLEAN /\ FALSE \in BOOLEAN 
    OBVIOUS
  <1>2. [r EXCEPT !.fetching = "done", !.failed = TRUE] \in SubType
    BY <1>1, Zenon DEF SubType
  <1>3. [r EXCEPT !.fetching = "done", !.failed = FALSE, !.fetched = items] \in SubType
    BY <1>1, ZenonT(60) DEF SubType
  <1>4. [r EXCEPT !.pc = "ended", !.pending = items] \in SubType
    BY <1>1, Zenon DEF SubType
  <1>5. [r EXCEPT !.fetching = "no", !.fetched = items, !.err = b, !.failed = FALSE,
                      !.pending = more, !.seen = seen] \in SubType
    <2>1. PICK q \in SubType : q = [r EXCEPT !.fetching = "no", !.fetched = items]
      BY Zenon DEF SubType
    <2>2. PICK t \in SubType : t = [q EXCEPT !.err = b, !.failed = FALSE]
      BY <1>1, Zenon DEF SubType
    <2>3. PICK u \in SubType : u = [t EXCEPT !.pending = more, !.seen = seen]
      BY Zenon DEF SubType
    <2>4. u = [r EXCEPT !.fetching = "no", !.fetched = items, !.err = b, !.failed = FALSE, !.pending = more, !.seen = seen]
      BY <2>1, <2>2, <2>3
    <2> QED BY <2>4
  <1> QED BY <1>2, <1>3, <1>4, <1>5

\* A fetch returns items, and items is all that is handed on.
LEMMA FeedTyped == FeedType /\ [FeedNext]_feedVars => FeedType'
  <1> SUFFICES ASSUME FeedType, [FeedNext]_feedVars PROVE FeedType'
    OBVIOUS
  <1>0. /\ TRUE \in BOOLEAN /\ FALSE \in BOOLEAN /\ 0 \in Int /\ <<>> \in Seq(Int)
        /\ sub \in [Subs -> SubType] /\ merger \in [Subs -> MergerType]
        /\ \A s \in Subs : merger[s].pc \in {"get", "put"} \/ quit
    BY DEF FeedType
  <1>a. ASSUME sub' \in [Subs -> SubType], UNCHANGED <<merger, quit, reader>> PROVE FeedType'
    BY <1>a DEF FeedType
  <1>1. ASSUME NEW s \in Subs, startFetch(s) PROVE FeedType'
    <2>1. sub' = [sub EXCEPT ![s].fetching = "running"] /\ UNCHANGED <<merger, quit, reader>>
      BY <1>1 DEF startFetch
    <2>2. sub' \in [Subs -> SubType]
      BY <1>0, <2>1, Zenon DEF SubType
    <2> QED BY <1>a, <2>1, <2>2
  <1>2. ASSUME NEW s \in Subs, fetchDone(s) PROVE FeedType'
    <2>1. PICK new \in NewItems(sub[s].fetched, sub[s].seen) :
             sub' = [sub EXCEPT ![s].fetching = "no", ![s].fetched = <<>>, ![s].err = sub[s].failed, ![s].failed = FALSE,
                                ![s].pending = @ \o new, ![s].seen = @ \cup ToSet(sub[s].fetched)]
      BY <1>2 DEF fetchDone
    <2>2. sub[s].pending \in Seq(Int) /\ sub[s].fetched \in Seq(Int) /\ sub[s].seen \in SUBSET Int /\ sub[s].failed \in BOOLEAN
      BY <1>0 DEF SubType
    <2>3. sub[s].pending \o new \in Seq(Int)
      BY <2>2, NewItemsAre, ConcatProperties
    <2>4. sub[s].seen \cup ToSet(sub[s].fetched) \in SUBSET Int
      BY <2>2 DEF ToSet
    <2>5. sub' \in [Subs -> SubType]
      <3> PICK p, q : p = sub[s].pending \o new /\ q = sub[s].seen \cup ToSet(sub[s].fetched)
        OBVIOUS
      <3>1. /\ p \in Seq(Int) /\ q \in SUBSET Int
            /\ sub' = [sub EXCEPT ![s].fetching = "no", ![s].fetched = <<>>, ![s].err = sub[s].failed, ![s].failed = FALSE,
                                  ![s].pending = p, ![s].seen = q]
        BY <2>1, <2>3, <2>4
      <3>2. PICK r : r = [sub[s] EXCEPT !.fetching = "no", !.fetched = <<>>, !.err = sub[s].failed, !.failed = FALSE,
                                        !.pending = p, !.seen = q]
        OBVIOUS
      <3>3. r \in SubType
        BY <1>0, <2>2, <3>1, <3>2, SubChanges
      <3>4. sub' = [sub EXCEPT ![s] = r]
        BY <3>1, <3>2
      <3> QED BY <1>0, <3>3, <3>4
    <2>6. UNCHANGED <<merger, quit, reader>>
      BY <1>2 DEF fetchDone
    <2> QED BY <1>a, <2>5, <2>6
  <1>3. ASSUME NEW s \in Subs, Fetched(s) PROVE FeedType'
    <2>1. UNCHANGED <<merger, quit, reader>>
      BY <1>3 DEF Fetched
    <2>2. CASE sub' = [sub EXCEPT ![s].fetching = "done", ![s].failed = TRUE]
      <3>1. PICK r \in SubType : sub' = [sub EXCEPT ![s] = r]
        BY <1>0, <2>2, SubChanges
      <3>2. sub' \in [Subs -> SubType]
        BY <1>0, <3>1
      <3> QED BY <1>a, <2>1, <3>2
    <2>3. ASSUME NEW a \in 1 .. MaxItems, NEW b \in 1 .. MaxItems, a <= b,
                 sub' = [sub EXCEPT ![s].fetching = "done", ![s].failed = FALSE,
                                    ![s].fetched = [i \in 1 .. b - a + 1 |-> a + i - 1]]
          PROVE  FeedType'
      <3>1. b - a + 1 \in Nat /\ a \in Int
        BY <2>3, FeedAssumption
      <3>2. PICK p \in Seq(Int) : p = [i \in 1 .. b - a + 1 |-> a + i - 1]
        <4> PICK n \in Nat : n = b - a + 1
          BY <3>1
        <4>1. [i \in 1 .. n |-> a + i - 1] \in [1 .. n -> Int]
          BY <3>1
        <4>2. [i \in 1 .. n |-> a + i - 1] \in Seq(Int)
          BY <4>1, SeqDef
        <4> QED BY <4>2
      <3>3. sub' = [sub EXCEPT ![s].fetching = "done", ![s].failed = FALSE, ![s].fetched = p]
        BY <2>3, <3>2
      <3>4. PICK r \in SubType : sub' = [sub EXCEPT ![s] = r]
        BY <1>0, <3>2, <3>3, SubChanges
      <3>5. sub' \in [Subs -> SubType]
        BY <1>0, <3>4
      <3> QED BY <1>a, <2>1, <3>5
    <2> QED BY <1>3, <2>2, <2>3 DEF Fetched
  <1>4. ASSUME NEW s \in Subs, TakeUpdate(s) PROVE FeedType'
    <2>1. PICK p, x : p = Tail(sub[s].pending) /\ x = Head(sub[s].pending)
      OBVIOUS
    <2>2. p \in Seq(Int) /\ x \in Int
      BY <1>0, <1>4, <2>1, DistinctTail DEF TakeUpdate, SubType
    <2>3. /\ sub' = [sub EXCEPT ![s].pending = p]
          /\ merger' = [merger EXCEPT ![s].pc = "put", ![s].item = x] /\ UNCHANGED <<quit, reader>>
      BY <1>4, <2>1 DEF TakeUpdate
    <2>4. sub' \in [Subs -> SubType]
      BY <1>0, <2>2, <2>3, Zenon DEF SubType
    <2>5. merger' \in [Subs -> MergerType]
      BY <1>0, <2>2, <2>3, Zenon DEF MergerType
    <2>6. \A t \in Subs : merger'[t].pc \in {"get", "put"} \/ quit
      BY <1>0, <2>3 DEF MergerType
    <2> QED BY <2>3, <2>4, <2>5, <2>6 DEF FeedType
  <1>5. ASSUME NEW s \in Subs, PutUpdate(s) PROVE FeedType'
    <2>1. /\ reader' = [reader EXCEPT !.got[s] = Append(@, merger[s].item)]
          /\ merger' = [merger EXCEPT ![s].pc = "get", ![s].item = 0] /\ UNCHANGED <<sub, quit>>
      BY <1>5 DEF PutUpdate
    <2>2. merger' \in [Subs -> MergerType]
      BY <1>0, <2>1, Zenon DEF MergerType
    <2>3. \A t \in Subs : merger'[t].pc \in {"get", "put"} \/ quit
      BY <1>0, <2>1 DEF MergerType
    <2>4. PICK p \in Seq(Int) : p = Append(reader.got[s], merger[s].item)
      BY <1>0, AppendProperties DEF FeedType, MergerType
    <2>5. reader' = [reader EXCEPT !.got[s] = p] /\ reader \in [pc : {"range", "ended"}, got : [Subs -> Seq(Int)]]
      BY <2>1, <2>4 DEF FeedType
    <2>6. reader' \in [pc : {"range", "ended"}, got : [Subs -> Seq(Int)]]
      BY <2>4, <2>5, Zenon
    <2> QED BY <2>1, <2>2, <2>3, <2>6 DEF FeedType
  <1>6. ASSUME NEW s \in Subs, Quit(s) PROVE FeedType'
    <2>1. quit /\ merger' = [merger EXCEPT ![s].pc = "close", ![s].item = 0] /\ UNCHANGED <<sub, quit, reader>>
      BY <1>6 DEF Quit
    <2>2. merger' \in [Subs -> MergerType]
      BY <1>0, <2>1, Zenon DEF MergerType
    <2> QED BY <2>1, <2>2 DEF FeedType
  <1>7. ASSUME NEW s \in Subs, AskClose(s) PROVE FeedType'
    <2>1. /\ sub' = [sub EXCEPT ![s].pc = "closing"] /\ merger' = [merger EXCEPT ![s].pc = "errc"]
          /\ merger[s].pc = "close" /\ UNCHANGED <<quit, reader>>
      BY <1>7 DEF AskClose
    <2>2. sub' \in [Subs -> SubType]
      BY <1>0, <2>1, Zenon DEF SubType
    <2>3. merger' \in [Subs -> MergerType] /\ quit
      BY <1>0, <2>1, Zenon DEF MergerType
    <2> QED BY <2>1, <2>2, <2>3 DEF FeedType
  <1>8. ASSUME NEW s \in Subs, AnswerClose(s) PROVE FeedType'
    <2>1. /\ sub' = [sub EXCEPT ![s].pc = "ended", ![s].pending = <<>>] /\ merger[s].pc = "errc"
          /\ merger' = [merger EXCEPT ![s].pc = "report", ![s].err = sub[s].err] /\ UNCHANGED <<quit, reader>>
      BY <1>8 DEF AnswerClose
    <2>2. sub' \in [Subs -> SubType] /\ sub[s].err \in BOOLEAN
      <3>1. PICK r \in SubType : sub' = [sub EXCEPT ![s] = r]
        BY <1>0, <2>1, SubChanges
      <3>2. sub' \in [Subs -> SubType]
        BY <1>0, <3>1
      <3>3. sub[s].err \in BOOLEAN
        BY <1>0, Zenon DEF SubType
      <3> QED BY <3>2, <3>3
    <2>3. merger' \in [Subs -> MergerType] /\ quit
      BY <1>0, <2>1, <2>2, Zenon DEF MergerType
    <2> QED BY <2>1, <2>2, <2>3 DEF FeedType
  <1>9. ASSUME NEW s \in Subs, Collect(s) PROVE FeedType'
    <2>1. /\ merger' = [merger EXCEPT ![s].pc = "done"] /\ merger[s].pc = "report" /\ UNCHANGED <<sub, quit, reader>>
      BY <1>9 DEF Collect
    <2>2. merger' \in [Subs -> MergerType] /\ quit
      BY <1>0, <2>1, Zenon DEF MergerType
    <2> QED BY <2>1, <2>2 DEF FeedType
  <1>10. CASE Close
    BY <1>10 DEF Close, FeedType
  <1>11. CASE CloseUpdates
    BY <1>11 DEF CloseUpdates, FeedType
  <1>12. CASE MainReturns
    <2>1. reader' = [reader EXCEPT !.pc = "ended"] /\ UNCHANGED <<sub, merger, quit>>
      BY <1>12 DEF MainReturns
    <2>2. reader' \in [pc : {"range", "ended"}, got : [Subs -> Seq(Int)]]
      BY <2>1, Zenon DEF FeedType
    <2> QED BY <2>1, <2>2 DEF FeedType
  <1>13. CASE UNCHANGED feedVars
    BY <1>13 DEF feedVars, FeedType
  <1> QED BY <1>1, <1>2, <1>3, <1>4, <1>5, <1>6, <1>7, <1>8, <1>9, <1>10, <1>11, <1>12, <1>13
          DEF FeedNext, LoopStep, MergeStep

\* What a subscription has is only moved, and dropped after Close alone.
LEMMA OnceKept == FeedType /\ OnceInv /\ [FeedNext]_feedVars => OnceInv'
  <1> SUFFICES ASSUME FeedType, OnceInv, [FeedNext]_feedVars, NEW t \in Subs
               PROVE  OnceOf(sub'[t], merger'[t], reader'.got[t], quit')
    BY DEF OnceInv
  <1> DEFINE Kept == OnceOf(sub'[t], merger'[t], reader'.got[t], quit')
  <1> USE DEF FeedType, SubType, MergerType
  <1>0. OnceOf(sub[t], merger[t], reader.got[t], quit)
    BY DEF OnceInv
  <1>a. ASSUME sub'[t].pending = sub[t].pending, sub'[t].seen = sub[t].seen, InHand(merger'[t]) = InHand(merger[t]),
               reader'.got[t] = reader.got[t], quit => quit'
        PROVE  Kept
    BY <1>0, <1>a DEF OnceOf
  <1>b. ASSUME sub' = sub, merger' = merger, reader'.got = reader.got, quit => quit' PROVE Kept
    <2> HIDE DEF Kept
    <2>1. reader'.got[t] = reader.got[t] /\ InHand(merger'[t]) = InHand(merger[t]) /\ sub'[t] = sub[t]
      BY <1>b, Zenon
    <2> QED BY <1>a, <1>b, <2>1
  <1> HIDE DEF Kept
  <1>c. ASSUME NEW s \in Subs, t # s, LoopStep(s) \/ Fetched(s) \/ TakeUpdate(s) \/ PutUpdate(s) \/ MergeStep(s)
        PROVE  Kept
    <2>1. sub'[t] = sub[t]
      BY <1>c DEF LoopStep, startFetch, fetchDone, Fetched, TakeUpdate, PutUpdate, MergeStep, Quit, AskClose, AnswerClose,
                  Collect
    <2>2. merger'[t] = merger[t]
      BY <1>c DEF LoopStep, startFetch, fetchDone, Fetched, TakeUpdate, PutUpdate, MergeStep, Quit, AskClose, AnswerClose,
                  Collect
    <2>3. quit' = quit /\ reader'.got[t] = reader.got[t]
      <3>1. quit' = quit
        BY <1>c DEF LoopStep, startFetch, fetchDone, Fetched, TakeUpdate, PutUpdate, MergeStep, Quit, AskClose, AnswerClose,
                    Collect
      <3>2. CASE PutUpdate(s)
        BY <1>c, <3>2 DEF PutUpdate
      <3>3. CASE ~PutUpdate(s)
        BY <1>c, <3>3 DEF LoopStep, startFetch, fetchDone, Fetched, TakeUpdate, MergeStep, Quit, AskClose, AnswerClose, Collect
      <3> QED BY <3>1, <3>2, <3>3
    <2> QED BY <2>1, <2>2, <2>3, <1>a
  <1>1. ASSUME startFetch(t) PROVE Kept
    <2>1. sub'[t].pending = sub[t].pending /\ sub'[t].seen = sub[t].seen /\ UNCHANGED <<merger, reader, quit>>
      BY <1>1 DEF startFetch
    <2> QED BY <2>1, <1>a
  <1>2. ASSUME fetchDone(t) PROVE Kept
    <2>1. PICK new \in NewItems(sub[t].fetched, sub[t].seen) :
             sub' = [sub EXCEPT ![t].fetching = "no", ![t].fetched = <<>>, ![t].err = sub[t].failed, ![t].failed = FALSE,
                                ![t].pending = @ \o new, ![t].seen = @ \cup ToSet(sub[t].fetched)]
      BY <1>2 DEF fetchDone
    <2>2. sub'[t].pending = sub[t].pending \o new /\ sub'[t].seen = sub[t].seen \cup ToSet(sub[t].fetched)
      BY <2>1
    <2>3. UNCHANGED <<merger, reader, quit>>
      BY <1>2 DEF fetchDone
    <2>4. /\ sub[t].pending \in Seq(Int) /\ sub[t].fetched \in Seq(Int) /\ sub[t].seen \in SUBSET Int
          /\ reader.got[t] \in Seq(Int) /\ quit \in BOOLEAN
      OBVIOUS
    <2>5. OnceOf(sub'[t], merger[t], reader.got[t], quit)
      <3> HIDE DEF FeedType, SubType, MergerType
      <3> PICK x, y, m, got, f, b : /\ x = sub[t] /\ y = sub'[t] /\ m = merger[t] /\ got = reader.got[t]
                                    /\ f = sub[t].fetched /\ b = quit
        OBVIOUS
      <3>1. /\ got \in Seq(Int) /\ b \in BOOLEAN /\ f \in Seq(Int) /\ x.pending \in Seq(Int) /\ x.seen \in SUBSET Int
            /\ OnceOf(x, m, got, b) /\ new \in NewItems(f, x.seen)
            /\ y.pending = x.pending \o new /\ y.seen = x.seen \cup ToSet(f)
        BY <1>0, <2>2, <2>4
      <3>2. OnceOf(y, m, got, b)
        BY ONLY <3>1, OnceFetched
      <3> QED BY <3>2
    <2> QED BY <2>3, <2>5 DEF Kept
  <1>3. ASSUME Fetched(t) PROVE Kept
    <2>1. sub'[t].pending = sub[t].pending /\ sub'[t].seen = sub[t].seen
      BY <1>3 DEF Fetched
    <2>2. UNCHANGED <<merger, reader, quit>>
      BY <1>3 DEF Fetched
    <2> QED BY <2>1, <2>2, <1>a
  <1>4. ASSUME TakeUpdate(t) PROVE Kept
    <2>1. /\ sub'[t].pending = Tail(sub[t].pending) /\ sub'[t].seen = sub[t].seen /\ sub[t].pending # <<>>
          /\ merger'[t].pc = "put" /\ merger'[t].item = Head(sub[t].pending) /\ merger[t].pc # "put"
          /\ UNCHANGED <<reader, quit>>
      BY <1>4 DEF TakeUpdate
    <2> QED BY <1>0, <2>1, OnceTaken DEF Kept
  <1>5. ASSUME PutUpdate(t) PROVE Kept
    <2>1. /\ merger[t].pc = "put" /\ merger'[t].pc # "put" /\ merger[t].item \in Int
          /\ reader'.got[t] = Append(reader.got[t], merger[t].item) /\ UNCHANGED <<sub, quit>>
      BY <1>5 DEF PutUpdate
    <2> QED BY <1>0, <2>1, OnceRead DEF Kept
  <1>6. ASSUME Quit(t) PROVE Kept
    <2>1. quit /\ merger'[t].pc = "close" /\ UNCHANGED <<sub, reader, quit>>
      BY <1>6 DEF Quit
    <2> QED BY <1>0, <2>1 DEF OnceOf, InHand, Kept
  <1>7. ASSUME AskClose(t) PROVE Kept
    <2>1. /\ sub'[t].pending = sub[t].pending /\ sub'[t].seen = sub[t].seen /\ UNCHANGED <<reader, quit>>
          /\ merger[t].pc = "close" /\ merger'[t].pc = "errc"
      BY <1>7 DEF AskClose
    <2> QED BY <2>1, <1>a DEF InHand
  <1>8. ASSUME AnswerClose(t) PROVE Kept
    <2>1. /\ quit /\ sub'[t].pending = <<>> /\ sub'[t].seen = sub[t].seen /\ UNCHANGED <<reader, quit>>
          /\ merger[t].pc = "errc" /\ merger'[t].pc = "report"
      BY <1>8 DEF AnswerClose
    <2>2. Distinct(<<>>) /\ ToSet(<<>>) = {}
      BY DEF Distinct, ToSet
    <2> QED BY <1>0, <2>1, <2>2 DEF OnceOf, InHand, Kept
  <1>9. ASSUME Collect(t) PROVE Kept
    <2>1. UNCHANGED <<sub, reader, quit>> /\ merger[t].pc = "report" /\ merger'[t].pc = "done"
      BY <1>9 DEF Collect
    <2> QED BY <2>1, <1>a DEF InHand
  <1>10. ASSUME Close PROVE Kept
    BY <1>10, <1>b DEF Close
  <1>11. ASSUME CloseUpdates PROVE Kept
    BY <1>11, <1>b DEF CloseUpdates
  <1>12. ASSUME MainReturns PROVE Kept
    <2>1. UNCHANGED <<sub, merger, quit>> /\ reader'.got = reader.got
      BY <1>12 DEF MainReturns
    <2> QED BY <2>1, <1>b
  <1>13. ASSUME UNCHANGED feedVars PROVE Kept
    BY <1>13, <1>b DEF feedVars
  <1>14. ASSUME LoopStep(t) \/ Fetched(t) \/ TakeUpdate(t) \/ PutUpdate(t) \/ MergeStep(t) PROVE Kept
    BY <1>14, <1>1, <1>2, <1>3, <1>4, <1>5, <1>6, <1>7, <1>8, <1>9 DEF LoopStep, MergeStep
  <1>15. ASSUME FeedNext PROVE Kept
    BY <1>15, <1>c, <1>10, <1>11, <1>12, <1>14 DEF FeedNext
  <1> QED BY <1>13, <1>15 DEF Kept

\* No item of a feed is read twice, however often it is fetched, and until Close
\* every item a fetch returned is read or on its way, for any number of
\* subscriptions, items and fetches (seen and pending of loop, Merge).
THEOREM FeedItemsOnce == FeedSpec => []EachItemOnce
  <1>1. FeedInit => FeedType /\ OnceInv
    <2> SUFFICES ASSUME FeedInit PROVE FeedType /\ OnceInv
      OBVIOUS
    <2>1. FeedType
      <3>1. /\ 0 \in Int /\ <<>> \in Seq(Int) /\ {} \in SUBSET Int /\ quit = FALSE
            /\ sub = [s \in Subs |-> [pc |-> "select", fetching |-> "no", fetched |-> <<>>, failed |-> FALSE,
                                      pending |-> <<>>, seen |-> {}, err |-> FALSE]]
            /\ merger = [s \in Subs |-> [pc |-> "get", item |-> 0, err |-> FALSE]]
            /\ reader = [pc |-> "range", got |-> [s \in Subs |-> <<>>]]
        BY DEF FeedInit
      <3>2. sub \in [Subs -> SubType]
        BY <3>1, Zenon DEF SubType
      <3>3. merger \in [Subs -> MergerType]
        BY <3>1, Zenon DEF MergerType
      <3> QED BY <3>1, <3>2, <3>3 DEF FeedType
    <2>2. Distinct(<<>>) /\ ToSet(<<>>) = {}
      BY DEF Distinct, ToSet
    <2>3. ASSUME NEW s \in Subs
          PROVE  OnceOf(sub[s], merger[s], reader.got[s], quit)
      <3>1. sub[s].pending = <<>> /\ sub[s].seen = {} /\ merger[s].pc = "get" /\ reader.got[s] = <<>>
        BY DEF FeedInit
      <3> QED BY <2>2, <3>1 DEF OnceOf, InHand
    <2> QED BY <2>1, <2>3 DEF OnceInv
  <1>2. FeedType /\ OnceInv => EachItemOnce
    <2> SUFFICES ASSUME FeedType, OnceInv, NEW s \in Subs
                 PROVE  /\ Len(reader.got[s]) = Cardinality(ToSet(reader.got[s]))
                        /\ ~quit => /\ sub[s].seen = ToSet(reader.got[s]) \cup ToSet(UnderWay(s))
                                    /\ Cardinality(sub[s].seen) = Len(reader.got[s]) + Len(UnderWay(s))
      BY DEF EachItemOnce
    <2> DEFINE hand == IF merger[s].pc = "put" THEN <<merger[s].item>> ELSE <<>>
               pending == sub[s].pending
               got == reader.got[s]
    <2>1. pending \in Seq(Int) /\ got \in Seq(Int) /\ hand \in Seq(Int)
      BY DEF FeedType, SubType, MergerType
    <2>2. Distinct(hand) /\ ToSet(hand) = InHand(merger[s])
      BY DEF Distinct, ToSet, InHand
    <2>3. OnceOf(sub[s], merger[s], got, quit)
      BY DEF OnceInv
    <2>4. UnderWay(s) = pending \o hand
      BY DEF UnderWay
    <2> HIDE DEF hand, pending, got
    <2>5. Distinct(pending) /\ Distinct(got) /\ ToSet(pending) \cap ToSet(hand) = {}
      BY <2>2, <2>3 DEF OnceOf, pending
    <2>6. /\ UnderWay(s) \in Seq(Int) /\ Distinct(UnderWay(s))
          /\ ToSet(UnderWay(s)) = ToSet(pending) \cup InHand(merger[s])
      BY <2>1, <2>2, <2>4, <2>5, DistinctConcat
    <2>7. /\ Cardinality(ToSet(got)) = Len(got) /\ Cardinality(ToSet(UnderWay(s))) = Len(UnderWay(s))
          /\ IsFiniteSet(ToSet(got)) /\ IsFiniteSet(ToSet(UnderWay(s)))
      BY <2>1, <2>5, <2>6, DistinctCount
    <2>8. ToSet(got) \cap ToSet(UnderWay(s)) = {}
      BY <2>3, <2>6 DEF OnceOf, pending
    <2>9. Cardinality(ToSet(got) \cup ToSet(UnderWay(s))) = Len(got) + Len(UnderWay(s))
      <3>1. Len(got) \in Nat /\ Len(UnderWay(s)) \in Nat
        BY <2>1, <2>6, LenProperties
      <3>2. /\ Cardinality(ToSet(got) \cup ToSet(UnderWay(s)))
               = Cardinality(ToSet(got)) + Cardinality(ToSet(UnderWay(s))) - Cardinality(ToSet(got) \cap ToSet(UnderWay(s)))
            /\ Cardinality({}) = 0
        BY <2>7, FS_Union, FS_EmptySet, Zenon
      <3>3. Cardinality(ToSet(got) \cup ToSet(UnderWay(s))) = Len(got) + Len(UnderWay(s)) - 0
        BY <2>7, <2>8, <3>2
      <3> QED BY <3>1, <3>3
    <2>10. ~quit => sub[s].seen = ToSet(got) \cup ToSet(UnderWay(s))
      BY <2>3, <2>6 DEF OnceOf, pending
    <2> QED BY <2>7, <2>9, <2>10 DEF got
  <1> QED BY <1>1, <1>2, FeedTyped, OnceKept, PTL DEF FeedSpec

(***************************************************************************)
(* The proxy of the storage tests.                                         *)
(***************************************************************************)
ProxySpec == ProxyInit /\ [][ProxyNext]_proxyVars

\* What is left of the driver's calls once their first assignments are made.
ResetBytes == <<<<"byteCount", 0>>, <<"leaseRequestCount", 0>>, <<"leaseGrantedCount", 0>>>>
ResetRequests == <<<<"leaseRequestCount", 0>>, <<"leaseGrantedCount", 0>>>>
ResetGranted == <<<<"leaseGrantedCount", 0>>>>
SwitchOn == <<<<"override", TRUE>>>>
ClearErr == <<<<"overrideErr", FALSE>>, <<"overrideStatus", "OK">>>>
ClearStatus == <<<<"overrideStatus", "OK">>>>

ResetLefts == {Reset, ResetBytes, ResetRequests, ResetGranted}
Lefts == ResetLefts \cup {<<>>, OverrideErr, OverrideStatus, SwitchOn, OverrideOff, ClearErr, ClearStatus,
                          DisableLease, EnableLease}

PcType == [rpcCount : Nat, byteCount : Nat, leaseRequestCount : Nat, leaseGrantedCount : Nat,
           override : BOOLEAN, overrideErr : BOOLEAN, overrideStatus : {"OK", "failed"}, disableLease : BOOLEAN]
RpcType == [at : {"out", "overridden", "status", "request", "forward", "granted", "answered", "counted"},
            kind : {"get", "put"}, want : BOOLEAN, granted : BOOLEAN, bytes : Nat,
            ok : BOOLEAN, served : BOOLEAN, late : BOOLEAN]

ProxyType ==
    /\ pc \in PcType /\ rpc \in [Rpcs -> RpcType] /\ todo \in Lefts
    /\ returned \in [Counters -> Nat] /\ overlapped \in BOOLEAN

\* What one assignment of the driver does.
Set(f, v) == pc' = [pc EXCEPT ![f] = v]

LEMMA Heads ==
  /\ \A a : <<a>> # <<>> /\ Head(<<a>>) = a /\ Tail(<<a>>) = <<>>
  /\ \A a, b : <<a, b>> # <<>> /\ Head(<<a, b>>) = a /\ Tail(<<a, b>>) = <<b>>
  /\ \A a, b, c : <<a, b, c>> # <<>> /\ Head(<<a, b, c>>) = a /\ Tail(<<a, b, c>>) = <<b, c>>
  /\ \A a, b, c, d : <<a, b, c, d>> # <<>> /\ Head(<<a, b, c, d>>) = a /\ Tail(<<a, b, c, d>>) = <<b, c, d>>
  <1>1. \A a : <<a>> # <<>> /\ Head(<<a>>) = a /\ Tail(<<a>>) = <<>>
    OBVIOUS
  <1>2. \A a, b : <<a, b>> # <<>> /\ Head(<<a, b>>) = a /\ Tail(<<a, b>>) = <<b>>
    OBVIOUS
  <1>3. \A a, b, c : <<a, b, c>> # <<>> /\ Head(<<a, b, c>>) = a /\ Tail(<<a, b, c>>) = <<b, c>>
    OBVIOUS
  <1>4. \A a, b, c, d : <<a, b, c, d>> # <<>> /\ Head(<<a, b, c, d>>) = a /\ Tail(<<a, b, c, d>>) = <<b, c, d>>
    OBVIOUS
  <1> QED BY <1>1, <1>2, <1>3, <1>4

\* s has an assignment to make, of v to f, and then those of t.
Begins(s, f, v, t) == s # <<>> /\ Head(s) = <<f, v>> /\ Tail(s) = t

LEMMA OrdersBegin ==
  /\ Begins(Reset, "rpcCount", 0, ResetBytes)
  /\ Begins(ResetBytes, "byteCount", 0, ResetRequests)
  /\ Begins(ResetRequests, "leaseRequestCount", 0, ResetGranted)
  /\ Begins(ResetGranted, "leaseGrantedCount", 0, <<>>)
  /\ Begins(OverrideErr, "overrideErr", TRUE, SwitchOn)
  /\ Begins(OverrideStatus, "overrideStatus", "failed", SwitchOn)
  /\ Begins(SwitchOn, "override", TRUE, <<>>)
  /\ Begins(OverrideOff, "override", FALSE, ClearErr)
  /\ Begins(ClearErr, "overrideErr", FALSE, ClearStatus)
  /\ Begins(ClearStatus, "overrideStatus", "OK", <<>>)
  /\ Begins(DisableLease, "disableLease", TRUE, <<>>)
  /\ Begins(EnableLease, "disableLease", FALSE, <<>>)
  <1>1. Begins(Reset, "rpcCount", 0, ResetBytes)
    BY Heads DEF Begins, Reset, ResetBytes
  <1>2. Begins(ResetBytes, "byteCount", 0, ResetRequests)
    BY Heads DEF Begins, ResetBytes, ResetRequests
  <1>3. Begins(ResetRequests, "leaseRequestCount", 0, ResetGranted)
    BY Heads DEF Begins, ResetRequests, ResetGranted
  <1>4. Begins(ResetGranted, "leaseGrantedCount", 0, <<>>)
    BY Heads DEF Begins, ResetGranted
  <1>5. Begins(OverrideErr, "overrideErr", TRUE, SwitchOn)
    BY Heads DEF Begins, OverrideErr, SwitchOn
  <1>6. Begins(OverrideStatus, "overrideStatus", "failed", SwitchOn)
    BY Heads DEF Begins, OverrideStatus, SwitchOn
  <1>7. Begins(SwitchOn, "override", TRUE, <<>>)
    BY Heads DEF Begins, SwitchOn
  <1>8. Begins(OverrideOff, "override", FALSE, ClearErr)
    <2> PICK a, b, c : a = <<"override", FALSE>> /\ b = <<"overrideErr", FALSE>> /\ c = <<"overrideStatus", "OK">>
      OBVIOUS
    <2>1. OverrideOff = <<a, b, c>> /\ ClearErr = <<b, c>>
      BY DEF OverrideOff, ClearErr
    <2>2. <<a, b, c>> # <<>> /\ Head(<<a, b, c>>) = a /\ Tail(<<a, b, c>>) = <<b, c>>
      BY ONLY Heads
    <2>3. OverrideOff # <<>> /\ Head(OverrideOff) = a /\ Tail(OverrideOff) = ClearErr
      BY ONLY <2>1, <2>2
    <2> QED BY <2>3 DEF Begins
  <1>9. Begins(ClearErr, "overrideErr", FALSE, ClearStatus)
    BY ONLY Heads DEF Begins, ClearErr, ClearStatus
  <1>10. Begins(ClearStatus, "overrideStatus", "OK", <<>>)
    BY Heads DEF Begins, ClearStatus
  <1>11. Begins(DisableLease, "disableLease", TRUE, <<>>)
    BY Heads DEF Begins, DisableLease
  <1>12. Begins(EnableLease, "disableLease", FALSE, <<>>)
    BY Heads DEF Begins, EnableLease
  <1> QED BY <1>1, <1>2, <1>3, <1>4, <1>5, <1>6, <1>7, <1>8, <1>9, <1>10, <1>11, <1>12

LEMMA ResetsAreTheCounters ==
  ASSUME NEW s \in Lefts PROVE Resetting(s) <=> s \in ResetLefts
  <1>1. CASE s \in ResetLefts
    BY <1>1, OrdersBegin DEF ResetLefts, Resetting, Counters, Begins
  <1>2. CASE s \in Lefts \ ResetLefts
    BY <1>2, OrdersBegin, SMTT(30) DEF Lefts, Resetting, Counters, Begins
  <1> QED BY <1>1, <1>2

LEMMA Assigned ==
  ASSUME ProxyType, Assign
  PROVE  /\ todo = Reset => todo' = ResetBytes /\ Set("rpcCount", 0)
         /\ todo = ResetBytes => todo' = ResetRequests /\ Set("byteCount", 0)
         /\ todo = ResetRequests => todo' = ResetGranted /\ Set("leaseRequestCount", 0)
         /\ todo = ResetGranted => todo' = <<>> /\ Set("leaseGrantedCount", 0)
         /\ todo = OverrideErr => todo' = SwitchOn /\ Set("overrideErr", TRUE)
         /\ todo = OverrideStatus => todo' = SwitchOn /\ Set("overrideStatus", "failed")
         /\ todo = SwitchOn => todo' = <<>> /\ Set("override", TRUE)
         /\ todo = OverrideOff => todo' = ClearErr /\ Set("override", FALSE)
         /\ todo = ClearErr => todo' = ClearStatus /\ Set("overrideErr", FALSE)
         /\ todo = ClearStatus => todo' = <<>> /\ Set("overrideStatus", "OK")
         /\ todo = DisableLease => todo' = <<>> /\ Set("disableLease", TRUE)
         /\ todo = EnableLease => todo' = <<>> /\ Set("disableLease", FALSE)
  <1>1. ASSUME NEW f, NEW v, NEW t, Begins(todo, f, v, t) PROVE todo' = t /\ Set(f, v)
    <2>1. Head(todo)[1] = f /\ Head(todo)[2] = v /\ Tail(todo) = t
      BY <1>1 DEF Begins
    <2> QED BY <2>1 DEF Assign, Set
  <1>3. todo = Reset => todo' = ResetBytes /\ Set("rpcCount", 0)
    <2>1. Begins(Reset, "rpcCount", 0, ResetBytes)
      BY OrdersBegin
    <2> QED BY <1>1, <2>1
  <1>4. todo = ResetBytes => todo' = ResetRequests /\ Set("byteCount", 0)
    <2>1. Begins(ResetBytes, "byteCount", 0, ResetRequests)
      BY OrdersBegin
    <2> QED BY <1>1, <2>1
  <1>5. todo = ResetRequests => todo' = ResetGranted /\ Set("leaseRequestCount", 0)
    <2>1. Begins(ResetRequests, "leaseRequestCount", 0, ResetGranted)
      BY OrdersBegin
    <2> QED BY <1>1, <2>1
  <1>6. todo = ResetGranted => todo' = <<>> /\ Set("leaseGrantedCount", 0)
    <2>1. Begins(ResetGranted, "leaseGrantedCount", 0, <<>>)
      BY OrdersBegin
    <2> QED BY <1>1, <2>1
  <1>7. todo = OverrideErr => todo' = SwitchOn /\ Set("overrideErr", TRUE)
    <2>1. Begins(OverrideErr, "overrideErr", TRUE, SwitchOn)
      BY OrdersBegin
    <2> QED BY <1>1, <2>1
  <1>8. todo = OverrideStatus => todo' = SwitchOn /\ Set("overrideStatus", "failed")
    <2>1. Begins(OverrideStatus, "overrideStatus", "failed", SwitchOn)
      BY OrdersBegin
    <2> QED BY <1>1, <2>1
  <1>9. todo = SwitchOn => todo' = <<>> /\ Set("override", TRUE)
    <2>1. Begins(SwitchOn, "override", TRUE, <<>>)
      BY OrdersBegin
    <2> QED BY <1>1, <2>1
  <1>10. todo = OverrideOff => todo' = ClearErr /\ Set("override", FALSE)
    <2>1. Begins(OverrideOff, "override", FALSE, ClearErr)
      BY OrdersBegin
    <2> QED BY <1>1, <2>1
  <1>11. todo = ClearErr => todo' = ClearStatus /\ Set("overrideErr", FALSE)
    <2>1. Begins(ClearErr, "overrideErr", FALSE, ClearStatus)
      BY OrdersBegin
    <2> QED BY <1>1, <2>1
  <1>12. todo = ClearStatus => todo' = <<>> /\ Set("overrideStatus", "OK")
    <2>1. Begins(ClearStatus, "overrideStatus", "OK", <<>>)
      BY OrdersBegin
    <2> QED BY <1>1, <2>1
  <1>13. todo = DisableLease => todo' = <<>> /\ Set("disableLease", TRUE)
    <2>1. Begins(DisableLease, "disableLease", TRUE, <<>>)
      BY OrdersBegin
    <2> QED BY <1>1, <2>1
  <1>14. todo = EnableLease => todo' = <<>> /\ Set("disableLease", FALSE)
    <2>1. Begins(EnableLease, "disableLease", FALSE, <<>>)
      BY OrdersBegin
    <2> QED BY <1>1, <2>1
  <1> QED BY <1>3, <1>4, <1>5, <1>6, <1>7, <1>8, <1>9, <1>10, <1>11, <1>12, <1>13, <1>14

\* The orders and what is left of one are never mistaken for each other.
Orders == {Reset, OverrideErr, OverrideStatus, OverrideOff, DisableLease, EnableLease}

LEMMA LeftsDiffer ==
  /\ \A s \in Orders \cup {<<>>} : s \in Lefts /\ s \notin {SwitchOn, ClearErr, ClearStatus, ResetBytes, ResetRequests, ResetGranted}
  /\ SwitchOn \notin ResetLefts \cup {ClearErr, ClearStatus}
  /\ ClearErr \notin ResetLefts /\ ClearStatus \notin ResetLefts
  /\ ResetBytes \notin {SwitchOn, ClearErr, ClearStatus, Reset, ResetRequests, ResetGranted}
  /\ ResetRequests \notin {SwitchOn, ClearErr, ClearStatus, Reset, ResetGranted}
  /\ ResetGranted \notin {SwitchOn, ClearErr, ClearStatus, Reset}
  /\ \A s \in {<<>>, SwitchOn, ClearErr, ClearStatus, OverrideErr, OverrideStatus, OverrideOff, DisableLease, EnableLease} :
        s \notin ResetLefts
  <1> DEFINE Field(s) == Head(s)[1]
  <1>1. /\ Field(Reset) = "rpcCount" /\ Field(ResetBytes) = "byteCount" /\ Field(ResetRequests) = "leaseRequestCount"
        /\ Field(ResetGranted) = "leaseGrantedCount" /\ Field(OverrideErr) = "overrideErr" /\ Field(ClearErr) = "overrideErr"
        /\ Field(OverrideStatus) = "overrideStatus" /\ Field(ClearStatus) = "overrideStatus" /\ Field(SwitchOn) = "override"
        /\ Field(OverrideOff) = "override" /\ Field(DisableLease) = "disableLease" /\ Field(EnableLease) = "disableLease"
    BY OrdersBegin, SMTT(30) DEF Begins
  <1>2. Tail(OverrideErr) = SwitchOn /\ Tail(ClearErr) = ClearStatus /\ Tail(SwitchOn) = <<>> /\ Tail(OverrideOff) = ClearErr
    BY OrdersBegin DEF Begins
  <1>3. OverrideErr # ClearErr
    BY <1>1, <1>2
  <1>4. ClearErr # <<>>
    BY OrdersBegin DEF Begins
  <1>5. OverrideOff # SwitchOn
    BY <1>2, <1>4
  <1>6. OverrideStatus # ClearStatus
    <2>1. Head(OverrideStatus) = <<"overrideStatus", "failed">> /\ Head(ClearStatus) = <<"overrideStatus", "OK">>
      BY OrdersBegin DEF Begins
    <2> QED BY <2>1
  <1>8. <<>> \notin {SwitchOn, ClearErr, ClearStatus, Reset, ResetBytes, ResetRequests, ResetGranted}
    BY OrdersBegin DEF Begins
  <1> HIDE DEF Field
  <1> QED BY <1>1, <1>3, <1>5, <1>6, <1>8 DEF Orders, Lefts, ResetLefts

\* Whoever has seen the override on finds an answer for it, until it is off.
OkInv ==
    /\ \A h \in Rpcs :
          /\ rpc[h].at \in {"overridden", "request", "forward"} => ~rpc[h].ok
          /\ rpc[h].at \in {"granted", "answered", "counted"} /\ rpc[h].ok => rpc[h].served
          /\ rpc[h].at = "overridden" /\ ~rpc[h].late => pc.override
          /\ rpc[h].at = "status" /\ rpc[h].ok /\ ~rpc[h].late => pc.override /\ pc.overrideErr
    /\ pc.override \/ todo = SwitchOn => pc.overrideErr \/ pc.overrideStatus = "failed"
    /\ todo \in {ClearErr, ClearStatus} => ~pc.override
    /\ OkMeansServed

Counting == {h \in Rpcs : rpc[h].at = "counted"}
Wanting == {h \in Rpcs : rpc[h].want /\ rpc[h].at \in {"forward", "granted", "answered", "counted"}}
Granting == {h \in Rpcs : rpc[h].granted /\ rpc[h].at \in {"answered", "counted"}}

\* A lease that was granted was wanted, and is marked as granted once it is.
Leased ==
    \A h \in Rpcs :
        /\ rpc[h].at = "request" => rpc[h].want
        /\ rpc[h].at \in {"request", "forward"} => ~rpc[h].granted
        /\ rpc[h].at = "granted" => rpc[h].granted

\* The counters are ahead of the calls that returned by what the handlers under
\* way have added already ...
Ahead ==
    /\ pc.rpcCount = returned["rpcCount"] + Cardinality(Counting)
    /\ pc.byteCount = returned["byteCount"]
    /\ pc.leaseRequestCount = returned["leaseRequestCount"] + Cardinality(Wanting)
    /\ pc.leaseGrantedCount = returned["leaseGrantedCount"] + Cardinality(Granting)

\* ... and a Reset that overlaps none leaves zeros behind it.
ZerosBehind ==
    /\ \A h \in Rpcs : rpc[h].at = "out"
    /\ todo # Reset => pc.rpcCount = 0
    /\ todo \in {ResetRequests, ResetGranted} => pc.byteCount = 0
    /\ todo = ResetGranted => pc.leaseRequestCount = 0

CountInv ==
    /\ Leased
    /\ ~overlapped /\ todo \notin ResetLefts => Ahead
    /\ ~overlapped /\ todo \in ResetLefts => ZerosBehind

LEMMA ProxyTyped == ProxyType /\ [ProxyNext]_proxyVars => ProxyType'
  <1> SUFFICES ASSUME ProxyType, [ProxyNext]_proxyVars PROVE ProxyType'
    OBVIOUS
  <1>1. ASSUME NEW s \in Orders, Order(s) PROVE ProxyType'
    BY <1>1, LeftsDiffer DEF Order, ProxyType
  <1>2. CASE Assign
    <2>1. todo' \in Lefts
      BY <1>2, Assigned, LeftsDiffer DEF ProxyType, Lefts, ResetLefts, Assign
    <2>2. pc' \in PcType
      <3>1. \/ \E f \in {"rpcCount", "byteCount", "leaseRequestCount", "leaseGrantedCount"} : pc' = [pc EXCEPT ![f] = 0]
            \/ \E f \in {"override", "overrideErr", "disableLease"}, v \in BOOLEAN : pc' = [pc EXCEPT ![f] = v]
            \/ \E v \in {"OK", "failed"} : pc' = [pc EXCEPT !["overrideStatus"] = v]
        <4> HIDE DEF PcType
        <4>1. todo # <<>>
          BY <1>2 DEF Assign
        <4>2. CASE todo \in ResetLefts
          BY <1>2, <4>2, Assigned DEF ResetLefts, Set
        <4>3. CASE todo \in {OverrideErr, SwitchOn, OverrideOff, ClearErr, DisableLease, EnableLease}
          BY <1>2, <4>3, Assigned DEF Set
        <4>4. CASE todo \in {OverrideStatus, ClearStatus}
          BY <1>2, <4>4, Assigned DEF Set
        <4> QED BY <4>1, <4>2, <4>3, <4>4 DEF ProxyType, Lefts
      <3>2. ASSUME NEW f \in {"rpcCount", "byteCount", "leaseRequestCount", "leaseGrantedCount"}
            PROVE  [pc EXCEPT ![f] = 0] \in PcType
        BY DEF ProxyType, PcType
      <3>3. ASSUME NEW f \in {"override", "overrideErr", "disableLease"}, NEW v \in BOOLEAN
            PROVE  [pc EXCEPT ![f] = v] \in PcType
        BY DEF ProxyType, PcType
      <3>4. ASSUME NEW v \in {"OK", "failed"} PROVE [pc EXCEPT !["overrideStatus"] = v] \in PcType
        BY DEF ProxyType, PcType
      <3> QED BY <3>1, <3>2, <3>3, <3>4
    <2>3. rpc' \in [Rpcs -> RpcType]
      BY <1>2, ZenonT(60) DEF Assign, ProxyType, RpcType
    <2>4. returned' \in [Counters -> Nat] /\ overlapped' \in BOOLEAN
      BY <1>2 DEF Assign, ProxyType, Zero
    <2> QED BY <2>1, <2>2, <2>3, <2>4 DEF ProxyType
  <1>3. ASSUME NEW h \in Rpcs, NEW kind \in {"get", "put"}, NEW want \in BOOLEAN, Enter(h, kind, want) PROVE ProxyType'
    <2>1. PICK r \in RpcType : rpc' = [rpc EXCEPT ![h] = r]
      <3> DEFINE r == [NoRpc EXCEPT !.at = IF pc.override THEN "overridden" ELSE IF want THEN "request" ELSE "forward",
                                    !.kind = kind, !.want = want, !.bytes = IF kind = "get" THEN 1 ELSE 2]
      <3>1. r \in RpcType
        BY DEF NoRpc, RpcType
      <3>2. rpc' = [rpc EXCEPT ![h] = r]
        BY <1>3 DEF Enter
      <3> QED BY <3>1, <3>2
    <2>2. UNCHANGED <<pc, todo, returned>> /\ overlapped' \in BOOLEAN
      BY <1>3 DEF Enter, ProxyType
    <2> QED BY <2>1, <2>2 DEF ProxyType
  <1>4. ASSUME NEW h \in Rpcs, NEW ok \in BOOLEAN, NEW lease \in BOOLEAN, Forwarded(h, ok, lease) PROVE ProxyType'
    <2>0. PICK at, n : /\ at = IF lease THEN "granted" ELSE "answered"
                       /\ n = rpc[h].bytes + IF ok /\ rpc[h].kind = "get" THEN 1 ELSE 0
      OBVIOUS
    <2> DEFINE r == [rpc[h] EXCEPT !.at = at, !.ok = ok, !.served = ok, !.granted = lease, !.bytes = n]
    <2>1. r \in RpcType
      <3>1. rpc[h].bytes \in Nat
        BY DEF ProxyType, RpcType
      <3>2. at \in {"granted", "answered"} /\ n \in Nat
        BY <2>0, <3>1
      <3> QED BY <3>2 DEF ProxyType, RpcType
    <2>2. rpc' = [rpc EXCEPT ![h] = r] /\ UNCHANGED <<pc, todo, returned, overlapped>>
      BY <1>4, <2>0 DEF Forwarded, ProxyType
    <2> QED BY <2>1, <2>2 DEF ProxyType
  <1>5. ASSUME NEW h \in Rpcs, ReadOverrideStatus(h) PROVE ProxyType'
    <2> DEFINE r == [rpc[h] EXCEPT !.at = "status", !.ok = (pc.overrideStatus = "OK")]
    <2>1. r \in RpcType
      BY DEF ProxyType, RpcType
    <2>2. rpc' = [rpc EXCEPT ![h] = r] /\ UNCHANGED <<pc, todo, returned, overlapped>>
      BY <1>5 DEF ReadOverrideStatus, ProxyType
    <2> QED BY <2>1, <2>2 DEF ProxyType
  <1>6. ASSUME NEW h \in Rpcs, ReturnOverrideErr(h) PROVE ProxyType'
    BY <1>6 DEF ReturnOverrideErr, Return, NoRpc, ProxyType, RpcType, PcType
  <1>7. ASSUME NEW h \in Rpcs, CountRequest(h) \/ CountGranted(h) \/ CountRpc(h) PROVE ProxyType'
    BY <1>7 DEF CountRequest, CountGranted, CountRpc, Add1, To, ProxyType, RpcType, PcType
  <1>8. ASSUME NEW h \in Rpcs, CountBytes(h) PROVE ProxyType'
    <2> DEFINE r == [NoRpc EXCEPT !.ok = rpc[h].ok, !.served = rpc[h].served, !.late = rpc[h].late]
    <2>1. r \in RpcType
      BY DEF NoRpc, ProxyType, RpcType
    <2>2. rpc' = [rpc EXCEPT ![h] = r] /\ pc' = [pc EXCEPT !["byteCount"] = @ + rpc[h].bytes]
          /\ UNCHANGED <<todo, overlapped>>
      BY <1>8 DEF CountBytes, Return, Add1
    <2>3. pc' \in PcType
      BY <2>2 DEF ProxyType, PcType, RpcType
    <2>4. returned' \in [Counters -> Nat]
      BY <1>8 DEF CountBytes, ProxyType, RpcType, Counters
    <2> QED BY <2>1, <2>2, <2>3, <2>4 DEF ProxyType
  <1>9. CASE UNCHANGED proxyVars
    BY <1>9 DEF proxyVars, ProxyType
  <1> QED BY <1>1, <1>2, <1>3, <1>4, <1>5, <1>6, <1>7, <1>8, <1>9 DEF ProxyNext, Orders

LEMMA OkKept == ProxyType /\ OkInv /\ [ProxyNext]_proxyVars => OkInv'
  <1> SUFFICES ASSUME ProxyType, OkInv, [ProxyNext]_proxyVars PROVE OkInv'
    OBVIOUS
  <1> USE DEF OkInv, OkMeansServed, At
  <1>1. ASSUME NEW s \in Orders, Order(s) PROVE OkInv'
    BY <1>1, LeftsDiffer DEF Order, ProxyType
  <1>2. CASE Assign
    <2> DEFINE marked == [h \in Rpcs |-> [rpc[h] EXCEPT !.late = @ \/ rpc[h].at \in {"overridden", "status"}]]
    <2>1. rpc' = rpc \/ rpc' = marked
      BY <1>2 DEF Assign
    <2>2. \A h \in Rpcs : /\ rpc'[h].at = rpc[h].at /\ rpc'[h].ok = rpc[h].ok /\ rpc'[h].served = rpc[h].served
                          /\ rpc[h].late => rpc'[h].late
      BY <2>1 DEF ProxyType, RpcType
    <2>3. todo = OverrideOff => \A h \in Rpcs : rpc[h].at \in {"overridden", "status"} => rpc'[h].late
      <3>1. todo = OverrideOff => Head(todo) = <<"override", FALSE>>
        BY OrdersBegin DEF Begins
      <3> QED BY <1>2, <3>1 DEF Assign, ProxyType, RpcType
    <2>4. /\ todo \in ResetLefts \cup {DisableLease, EnableLease} =>
                 pc'.override = pc.override /\ pc'.overrideErr = pc.overrideErr /\ pc'.overrideStatus = pc.overrideStatus
                 /\ todo' \in ResetLefts \cup {<<>>}
          /\ todo = OverrideErr => pc'.override = pc.override /\ pc'.overrideErr /\ todo' = SwitchOn
          /\ todo = OverrideStatus => pc'.override = pc.override /\ pc'.overrideErr = pc.overrideErr
                                      /\ pc'.overrideStatus = "failed" /\ todo' = SwitchOn
          /\ todo = SwitchOn => pc'.override /\ pc'.overrideErr = pc.overrideErr
                                /\ pc'.overrideStatus = pc.overrideStatus /\ todo' = <<>>
          /\ todo = OverrideOff => ~pc'.override /\ todo' = ClearErr
          /\ todo = ClearErr => pc'.override = pc.override /\ todo' = ClearStatus
          /\ todo = ClearStatus => pc'.override = pc.override /\ todo' = <<>>
      BY <1>2, Assigned DEF Set, ProxyType, PcType, ResetLefts
    <2>5. todo # <<>>
      BY <1>2 DEF Assign
    <2> HIDE DEF marked
    <2>6. CASE todo \in ResetLefts \cup {DisableLease, EnableLease}
      BY <2>2, <2>4, <2>6, LeftsDiffer
    <2>7. CASE todo \in {OverrideErr, OverrideStatus, SwitchOn}
      BY <2>2, <2>4, <2>7, LeftsDiffer
    <2>8. CASE todo \in {OverrideOff, ClearErr, ClearStatus}
      BY <2>2, <2>3, <2>4, <2>8, LeftsDiffer
    <2> QED BY <2>5, <2>6, <2>7, <2>8 DEF ProxyType, Lefts
  <1>3. ASSUME NEW h \in Rpcs, NEW kind \in {"get", "put"}, NEW want \in BOOLEAN, Enter(h, kind, want) PROVE OkInv'
    BY <1>3 DEF Enter, NoRpc, ProxyType
  <1>4. ASSUME NEW h \in Rpcs, NEW ok \in BOOLEAN, NEW lease \in BOOLEAN, Forwarded(h, ok, lease) PROVE OkInv'
    BY <1>4 DEF Forwarded, ProxyType, RpcType
  <1>5. ASSUME NEW h \in Rpcs, ReadOverrideStatus(h) PROVE OkInv'
    BY <1>5 DEF ReadOverrideStatus, ProxyType, RpcType, PcType
  <1>6. ASSUME NEW h \in Rpcs, ReturnOverrideErr(h) PROVE OkInv'
    BY <1>6 DEF ReturnOverrideErr, Return, NoRpc, ProxyType, RpcType, PcType
  <1>7. ASSUME NEW h \in Rpcs, CountRequest(h) \/ CountGranted(h) \/ CountRpc(h) PROVE OkInv'
    BY <1>7 DEF CountRequest, CountGranted, CountRpc, Add1, To, ProxyType, RpcType, PcType
  <1>8. ASSUME NEW h \in Rpcs, CountBytes(h) PROVE OkInv'
    BY <1>8 DEF CountBytes, Add1, Return, NoRpc, ProxyType, RpcType, PcType
  <1>9. CASE UNCHANGED proxyVars
    BY <1>9 DEF proxyVars
  <1> QED BY <1>1, <1>2, <1>3, <1>4, <1>5, <1>6, <1>7, <1>8, <1>9 DEF ProxyNext, Orders

\* A step of one handler that counts as much as the sets of handlers change.
LEMMA HandlerCounts ==
  ASSUME CountInv, Leased', UNCHANGED <<todo, overlapped>>,
         ~overlapped => todo \notin ResetLefts, ~overlapped /\ Ahead => Ahead'
  PROVE  CountInv'
  BY DEF CountInv

LEMMA OthersCount ==
  ASSUME NEW S, NEW T, IsFiniteSet(S), NEW h
  PROVE  /\ T = S \cup {h} /\ h \notin S => Cardinality(T) = Cardinality(S) + 1
         /\ T = S \ {h} /\ h \in S => Cardinality(T) = Cardinality(S) - 1
         /\ Cardinality(S) \in Nat
  BY FS_AddElement, FS_RemoveElement, FS_CardinalityType

LEMMA CountKept == ProxyType /\ CountInv /\ [ProxyNext]_proxyVars => CountInv'
  <1> SUFFICES ASSUME ProxyType, CountInv, [ProxyNext]_proxyVars PROVE CountInv'
    OBVIOUS
  <1>0. /\ IsFiniteSet(Counting) /\ IsFiniteSet(Wanting) /\ IsFiniteSet(Granting)
        /\ Cardinality(Counting) \in Nat /\ Cardinality(Wanting) \in Nat /\ Cardinality(Granting) \in Nat
    <2>1. IsFiniteSet(Counting) /\ IsFiniteSet(Wanting) /\ IsFiniteSet(Granting)
      BY ProxyAssumption, FS_Subset DEF ProxyAssumption, Counting, Wanting, Granting
    <2> QED BY <2>1, FS_CardinalityType
  <1>1. ASSUME NEW s \in Orders, Order(s) PROVE CountInv'
    <2>1. /\ todo = <<>> /\ todo' = s /\ UNCHANGED <<pc, rpc, returned>>
          /\ overlapped' = IF Resetting(s) THEN \E h \in Rpcs : rpc[h].at # "out" ELSE overlapped
      BY <1>1 DEF Order
    <2>2. Counting' = Counting /\ Wanting' = Wanting /\ Granting' = Granting
      BY <2>1 DEF Counting, Wanting, Granting
    <2>3. (s \in ResetLefts <=> s = Reset) /\ s \in Lefts /\ s \notin {ResetRequests, ResetGranted} /\ <<>> \notin ResetLefts
      BY LeftsDiffer DEF ResetLefts, Orders
    <2>4. Resetting(s) <=> s \in ResetLefts
      BY <2>3, ResetsAreTheCounters
    <2>5. Leased' /\ (Ahead => Ahead')
      BY <2>1, <2>2 DEF CountInv, Leased, Ahead
    <2>6. s \in ResetLefts /\ ~overlapped' => ZerosBehind'
      BY <2>1, <2>3, <2>4 DEF ZerosBehind
    <2> QED BY <2>1, <2>3, <2>4, <2>5, <2>6 DEF CountInv
  <1>2. CASE Assign
    <2>1. \A h \in Rpcs : rpc'[h].at = rpc[h].at /\ rpc'[h].want = rpc[h].want /\ rpc'[h].granted = rpc[h].granted
      BY <1>2 DEF Assign, ProxyType, RpcType
    <2>2. Counting' = Counting /\ Wanting' = Wanting /\ Granting' = Granting
      BY <2>1 DEF Counting, Wanting, Granting
    <2>3. todo # <<>> /\ overlapped' = overlapped
          /\ returned' = IF Resetting(todo) /\ Len(todo) = 1 THEN Zero ELSE returned
      BY <1>2 DEF Assign
    <2>4. todo \in Lefts /\ (Resetting(todo) <=> todo \in ResetLefts)
      BY ResetsAreTheCounters DEF ProxyType
    <2>5. CASE todo = Reset
      <3>1. todo' = ResetBytes /\ pc'.rpcCount = 0
        BY <1>2, <2>5, Assigned DEF Set, ProxyType, PcType
      <3> QED BY <2>1, <2>3, <2>5, <3>1, LeftsDiffer DEF CountInv, ResetLefts, Leased, ZerosBehind
    <2>6. CASE todo = ResetBytes
      <3>1. todo' = ResetRequests /\ pc'.byteCount = 0 /\ pc'.rpcCount = pc.rpcCount
        BY <1>2, <2>6, Assigned DEF Set, ProxyType, PcType
      <3> QED BY <2>1, <2>3, <2>6, <3>1, LeftsDiffer DEF CountInv, ResetLefts, Leased, ZerosBehind
    <2>7. CASE todo = ResetRequests
      <3>1. todo' = ResetGranted /\ pc'.leaseRequestCount = 0 /\ pc'.byteCount = pc.byteCount /\ pc'.rpcCount = pc.rpcCount
        BY <1>2, <2>7, Assigned DEF Set, ProxyType, PcType
      <3> QED BY <2>1, <2>3, <2>7, <3>1, LeftsDiffer DEF CountInv, ResetLefts, Leased, ZerosBehind
    <2>8. CASE todo = ResetGranted
      <3>1. /\ todo' = <<>> /\ pc'.leaseGrantedCount = 0 /\ pc'.leaseRequestCount = pc.leaseRequestCount
            /\ pc'.byteCount = pc.byteCount /\ pc'.rpcCount = pc.rpcCount
        BY <1>2, <2>8, Assigned DEF Set, ProxyType, PcType
      <3>2. Len(todo) = 1
        BY <2>8 DEF ResetGranted
      <3>3. returned' = Zero /\ Zero["rpcCount"] = 0 /\ Zero["byteCount"] = 0 /\ Zero["leaseRequestCount"] = 0
            /\ Zero["leaseGrantedCount"] = 0
        BY <2>3, <2>4, <2>8, <3>2 DEF Zero, Counters, ResetLefts
      <3>4. todo' \notin ResetLefts
        BY <3>1, LeftsDiffer
      <3>5. ~overlapped => Counting = {} /\ Wanting = {} /\ Granting = {}
        BY <2>8 DEF CountInv, ZerosBehind, ResetLefts, Counting, Wanting, Granting
      <3>6. ~overlapped => pc.rpcCount = 0 /\ pc.byteCount = 0 /\ pc.leaseRequestCount = 0
        BY <2>8, LeftsDiffer DEF CountInv, ZerosBehind, ResetLefts
      <3>7. Leased'
        BY <2>1 DEF CountInv, Leased
      <3>8. ~overlapped => Ahead'
        <4>1. ~overlapped => Cardinality(Counting') = 0 /\ Cardinality(Wanting') = 0 /\ Cardinality(Granting') = 0
          BY <2>2, <3>5, FS_EmptySet
        <4>2. returned'["rpcCount"] = 0 /\ returned'["byteCount"] = 0 /\ returned'["leaseRequestCount"] = 0
              /\ returned'["leaseGrantedCount"] = 0
          BY <3>3
        <4> QED BY <3>1, <3>6, <4>1, <4>2 DEF Ahead
      <3> QED BY <2>3, <3>4, <3>7, <3>8 DEF CountInv
    <2>9. CASE todo \notin ResetLefts
      <3>1. todo' \notin ResetLefts
        BY <1>2, <2>3, <2>4, <2>9, Assigned, LeftsDiffer DEF Lefts, Orders
      <3>2. pc'.rpcCount = pc.rpcCount /\ pc'.byteCount = pc.byteCount /\ pc'.leaseRequestCount = pc.leaseRequestCount
            /\ pc'.leaseGrantedCount = pc.leaseGrantedCount
        BY <1>2, <2>3, <2>4, <2>9, Assigned DEF Lefts, Set, ProxyType, PcType
      <3>3. returned' = returned
        BY <2>3, <2>4, <2>9
      <3>4. Leased' /\ (Ahead => Ahead')
        BY <2>1, <2>2, <3>2, <3>3 DEF CountInv, Leased, Ahead
      <3> QED BY <2>3, <2>9, <3>1, <3>4 DEF CountInv
    <2> QED BY <2>5, <2>6, <2>7, <2>8, <2>9 DEF ResetLefts
  <1> USE DEF ProxyType
  <1>3. ASSUME NEW h \in Rpcs, NEW kind \in {"get", "put"}, NEW want \in BOOLEAN, Enter(h, kind, want) PROVE CountInv'
    <2>1. /\ UNCHANGED <<pc, todo, returned>> /\ overlapped' = (overlapped \/ Resetting(todo)) /\ rpc[h].at = "out"
          /\ \A g \in Rpcs : g # h => rpc'[g] = rpc[g]
      BY <1>3 DEF Enter, At
    <2>2. /\ rpc'[h].at \in {"overridden", "request", "forward"} /\ ~rpc'[h].granted
          /\ rpc'[h].at = "request" => rpc'[h].want
          /\ rpc'[h].at = "forward" => ~rpc'[h].want
      BY <1>3 DEF Enter, NoRpc
    <2>3. Counting' = Counting /\ Wanting' = Wanting /\ Granting' = Granting
      BY <2>1, <2>2 DEF Counting, Wanting, Granting
    <2>4. Resetting(todo) <=> todo \in ResetLefts
      BY ResetsAreTheCounters
    <2>5. Leased' /\ (Ahead => Ahead')
      BY <2>1, <2>2, <2>3 DEF CountInv, Leased, Ahead
    <2> QED BY <2>1, <2>4, <2>5 DEF CountInv
  <1>4. ASSUME NEW h \in Rpcs, NEW ok \in BOOLEAN, NEW lease \in BOOLEAN, Forwarded(h, ok, lease) PROVE CountInv'
    <2>1. /\ UNCHANGED <<pc, todo, returned, overlapped>> /\ rpc[h].at = "forward"
          /\ \A g \in Rpcs : g # h => rpc'[g] = rpc[g]
      BY <1>4 DEF Forwarded, At
    <2>2. /\ rpc'[h].at = (IF lease THEN "granted" ELSE "answered") /\ rpc'[h].granted = lease
          /\ rpc'[h].want = rpc[h].want
      BY <1>4 DEF Forwarded, RpcType
    <2>3. Counting' = Counting /\ Wanting' = Wanting /\ Granting' = Granting
      BY <2>1, <2>2 DEF Counting, Wanting, Granting
    <2>4. Leased' /\ (Ahead => Ahead')
      BY <2>1, <2>2, <2>3 DEF CountInv, Leased, Ahead
    <2>5. ~overlapped => todo \notin ResetLefts
      BY <2>1 DEF CountInv, ZerosBehind
    <2> QED BY <2>1, <2>4, <2>5, HandlerCounts
  <1>5. ASSUME NEW h \in Rpcs, ReadOverrideStatus(h) \/ ReturnOverrideErr(h) PROVE CountInv'
    <2>1. /\ UNCHANGED <<pc, todo, returned, overlapped>> /\ rpc[h].at \in {"overridden", "status"}
          /\ rpc'[h].at \in {"out", "status"} /\ \A g \in Rpcs : g # h => rpc'[g] = rpc[g]
      <3>1. CASE ReadOverrideStatus(h)
        BY <3>1 DEF ReadOverrideStatus, At, RpcType
      <3>2. CASE ReturnOverrideErr(h)
        BY <3>2 DEF ReturnOverrideErr, Return, NoRpc, At
      <3> QED BY <1>5, <3>1, <3>2
    <2>2. Counting' = Counting /\ Wanting' = Wanting /\ Granting' = Granting
      BY <2>1 DEF Counting, Wanting, Granting
    <2>3. Leased' /\ (Ahead => Ahead')
      BY <2>1, <2>2 DEF CountInv, Leased, Ahead
    <2>4. ~overlapped => todo \notin ResetLefts
      BY <2>1 DEF CountInv, ZerosBehind
    <2> QED BY <2>1, <2>3, <2>4, HandlerCounts
  <1>6. ASSUME NEW h \in Rpcs, CountRequest(h) PROVE CountInv'
    <2>1. /\ pc' = [pc EXCEPT !["leaseRequestCount"] = @ + 1] /\ UNCHANGED <<todo, returned, overlapped>>
          /\ rpc[h].at = "request" /\ rpc'[h].at = "forward" /\ rpc'[h].want = rpc[h].want /\ rpc'[h].granted = rpc[h].granted
          /\ \A g \in Rpcs : g # h => rpc'[g] = rpc[g]
      BY <1>6 DEF CountRequest, Add1, To, At, RpcType
    <2>2. Counting' = Counting /\ Granting' = Granting
      BY <2>1 DEF Counting, Granting
    <2>3. rpc[h].want
      BY <2>1 DEF CountInv, Leased
    <2>4. Wanting' = Wanting \cup {h} /\ h \notin Wanting
      BY <2>1, <2>3 DEF Wanting
    <2>5. Cardinality(Wanting') = Cardinality(Wanting) + 1
      BY <1>0, <2>4, OthersCount
    <2>6. ~overlapped => todo \notin ResetLefts
      BY <2>1 DEF CountInv, ZerosBehind
    <2>7. Leased'
      BY <2>1 DEF CountInv, Leased
    <2>8. Ahead => Ahead'
      BY <1>0, <2>1, <2>2, <2>5 DEF Ahead, PcType, Counters
    <2> QED BY <2>1, <2>6, <2>7, <2>8, HandlerCounts
  <1>7. ASSUME NEW h \in Rpcs, CountGranted(h) PROVE CountInv'
    <2>1. /\ pc' = [pc EXCEPT !["leaseGrantedCount"] = @ + 1] /\ UNCHANGED <<todo, returned, overlapped>>
          /\ rpc[h].at = "granted" /\ rpc'[h].at = "answered" /\ rpc'[h].want = rpc[h].want /\ rpc'[h].granted = rpc[h].granted
          /\ \A g \in Rpcs : g # h => rpc'[g] = rpc[g]
      BY <1>7 DEF CountGranted, Add1, To, At, RpcType
    <2>2. Counting' = Counting /\ Wanting' = Wanting
      BY <2>1 DEF Counting, Wanting
    <2>3. rpc[h].granted
      BY <2>1 DEF CountInv, Leased
    <2>4. Granting' = Granting \cup {h} /\ h \notin Granting
      BY <2>1, <2>3 DEF Granting
    <2>5. Cardinality(Granting') = Cardinality(Granting) + 1
      BY <1>0, <2>4, OthersCount
    <2>6. ~overlapped => todo \notin ResetLefts
      BY <2>1 DEF CountInv, ZerosBehind
    <2>7. Leased'
      BY <2>1 DEF CountInv, Leased
    <2>8. Ahead => Ahead'
      BY <1>0, <2>1, <2>2, <2>5 DEF Ahead, PcType, Counters
    <2> QED BY <2>1, <2>6, <2>7, <2>8, HandlerCounts
  <1>8. ASSUME NEW h \in Rpcs, CountRpc(h) PROVE CountInv'
    <2>1. /\ pc' = [pc EXCEPT !["rpcCount"] = @ + 1] /\ UNCHANGED <<todo, returned, overlapped>>
          /\ rpc[h].at = "answered" /\ rpc'[h].at = "counted" /\ rpc'[h].want = rpc[h].want /\ rpc'[h].granted = rpc[h].granted
          /\ \A g \in Rpcs : g # h => rpc'[g] = rpc[g]
      BY <1>8 DEF CountRpc, Add1, To, At, RpcType
    <2>2. Granting' = Granting /\ Wanting' = Wanting
      BY <2>1 DEF Granting, Wanting
    <2>4. Counting' = Counting \cup {h} /\ h \notin Counting
      BY <2>1 DEF Counting
    <2>5. Cardinality(Counting') = Cardinality(Counting) + 1
      BY <1>0, <2>4, OthersCount
    <2>6. ~overlapped => todo \notin ResetLefts
      BY <2>1 DEF CountInv, ZerosBehind
    <2>7. Leased'
      BY <2>1 DEF CountInv, Leased
    <2>8. Ahead => Ahead'
      BY <1>0, <2>1, <2>2, <2>5 DEF Ahead, PcType, Counters
    <2> QED BY <2>1, <2>6, <2>7, <2>8, HandlerCounts
  <1>9. ASSUME NEW h \in Rpcs, CountBytes(h) PROVE CountInv'
    <2>1. /\ pc' = [pc EXCEPT !["byteCount"] = @ + rpc[h].bytes] /\ UNCHANGED <<todo, overlapped>>
          /\ rpc[h].at = "counted" /\ rpc'[h].at = "out" /\ \A g \in Rpcs : g # h => rpc'[g] = rpc[g]
      BY <1>9 DEF CountBytes, Add1, Return, NoRpc, At
    <2>2. /\ returned'["rpcCount"] = returned["rpcCount"] + 1
          /\ returned'["byteCount"] = returned["byteCount"] + rpc[h].bytes
          /\ returned'["leaseRequestCount"] = returned["leaseRequestCount"] + IF rpc[h].want THEN 1 ELSE 0
          /\ returned'["leaseGrantedCount"] = returned["leaseGrantedCount"] + IF rpc[h].granted THEN 1 ELSE 0
      BY <1>9 DEF CountBytes
    <2>3. Counting' = Counting \ {h} /\ h \in Counting
      BY <2>1 DEF Counting
    <2>4. Wanting' = Wanting \ {h} /\ (h \in Wanting <=> rpc[h].want)
      BY <2>1 DEF Wanting
    <2>5. Granting' = Granting \ {h} /\ (h \in Granting <=> rpc[h].granted)
      BY <2>1 DEF Granting
    <2>6. /\ Cardinality(Counting') = Cardinality(Counting) - 1
          /\ Cardinality(Wanting') = Cardinality(Wanting) - IF rpc[h].want THEN 1 ELSE 0
          /\ Cardinality(Granting') = Cardinality(Granting) - IF rpc[h].granted THEN 1 ELSE 0
      <3>1. ASSUME NEW S, h \notin S PROVE S \ {h} = S
        BY <3>1
      <3>2. Cardinality(Counting') = Cardinality(Counting) - 1
        BY <1>0, <2>3, OthersCount
      <3>3. Cardinality(Wanting') = Cardinality(Wanting) - IF rpc[h].want THEN 1 ELSE 0
        <4>1. CASE rpc[h].want
          BY <1>0, <2>4, <4>1, OthersCount
        <4>2. CASE ~rpc[h].want
          <5>1. Wanting' = Wanting
            BY <2>4, <3>1, <4>2
          <5> QED BY <1>0, <4>2, <5>1
        <4> QED BY <4>1, <4>2
      <3>4. Cardinality(Granting') = Cardinality(Granting) - IF rpc[h].granted THEN 1 ELSE 0
        <4>1. CASE rpc[h].granted
          BY <1>0, <2>5, <4>1, OthersCount
        <4>2. CASE ~rpc[h].granted
          <5>1. Granting' = Granting
            BY <2>5, <3>1, <4>2
          <5> QED BY <1>0, <4>2, <5>1
        <4> QED BY <4>1, <4>2
      <3> QED BY <3>2, <3>3, <3>4
    <2>7. ~overlapped => todo \notin ResetLefts
      BY <2>1 DEF CountInv, ZerosBehind
    <2>8. rpc[h].bytes \in Nat /\ rpc[h].want \in BOOLEAN /\ rpc[h].granted \in BOOLEAN
      BY DEF RpcType
    <2>9. Leased'
      BY <2>1 DEF CountInv, Leased
    <2>10. Ahead => Ahead'
      <3> HIDE DEF ProxyType
      <3>1. pc.rpcCount \in Nat /\ pc.byteCount \in Nat /\ pc.leaseRequestCount \in Nat /\ pc.leaseGrantedCount \in Nat
            /\ \A f \in Counters : returned[f] \in Nat
        BY DEF ProxyType, PcType
      <3>2. pc'.rpcCount = pc.rpcCount /\ pc'.byteCount = pc.byteCount + rpc[h].bytes
            /\ pc'.leaseRequestCount = pc.leaseRequestCount /\ pc'.leaseGrantedCount = pc.leaseGrantedCount
        BY <2>1 DEF ProxyType, PcType
      <3>3. CASE rpc[h].want
        <4>1. CASE rpc[h].granted
          <5>1. /\ returned'["rpcCount"] = returned["rpcCount"] + 1
                /\ returned'["byteCount"] = returned["byteCount"] + rpc[h].bytes
                /\ returned'["leaseRequestCount"] = returned["leaseRequestCount"] + 1
                /\ returned'["leaseGrantedCount"] = returned["leaseGrantedCount"] + 1
            BY <2>2, <3>3, <4>1
          <5>2. /\ Cardinality(Counting') = Cardinality(Counting) - 1
                /\ Cardinality(Wanting') = Cardinality(Wanting) - 1
                /\ Cardinality(Granting') = Cardinality(Granting) - 1
            BY <2>6, <3>3, <4>1
          <5> QED BY <1>0, <3>1, <3>2, <5>1, <5>2 DEF Ahead, Counters
        <4>2. CASE ~rpc[h].granted
          BY <1>0, <2>2, <2>6, <2>8, <3>1, <3>2, <3>3, <4>2 DEF Ahead, Counters
        <4> QED BY <4>1, <4>2
      <3>4. CASE ~rpc[h].want
        <4>1. CASE rpc[h].granted
          BY <1>0, <2>2, <2>6, <2>8, <3>1, <3>2, <3>4, <4>1 DEF Ahead, Counters
        <4>2. CASE ~rpc[h].granted
          BY <1>0, <2>2, <2>6, <2>8, <3>1, <3>2, <3>4, <4>2 DEF Ahead, Counters
        <4> QED BY <4>1, <4>2
      <3> QED BY <3>3, <3>4
    <2> QED BY <2>1, <2>7, <2>9, <2>10, HandlerCounts
  <1>10. CASE UNCHANGED proxyVars
    BY <1>10 DEF proxyVars, CountInv, Leased, Ahead, ZerosBehind, Counting, Wanting, Granting
  <1> QED BY <1>1, <1>2, <1>3, <1>4, <1>5, <1>6, <1>7, <1>8, <1>9, <1>10 DEF ProxyNext, Orders

\* What each proxied call has still to do agrees with the counters and with
\* what its client was told (the handlers of proxycounter.go).
THEOREM ProxyInvariance == ProxySpec => [](ProxyType /\ OkInv /\ CountInv)
  <1>1. ProxyInit => ProxyType
    <2> SUFFICES ASSUME ProxyInit PROVE ProxyType
      OBVIOUS
    <2>1. NewProxyCounter \in PcType /\ NoRpc \in RpcType
      BY DEF NewProxyCounter, PcType, NoRpc, RpcType
    <2>2. Zero \in [Counters -> Nat] /\ <<>> \in Lefts
      BY LeftsDiffer DEF Zero
    <2> QED BY <2>1, <2>2 DEF ProxyInit, ProxyType
  <1>2. ProxyInit => OkInv
    BY LeftsDiffer DEF ProxyInit, OkInv, OkMeansServed, NoRpc, NewProxyCounter, At
  <1>3. ProxyInit => CountInv
    <2> SUFFICES ASSUME ProxyInit PROVE CountInv
      OBVIOUS
    <2>1. Counting = {} /\ Wanting = {} /\ Granting = {}
      BY DEF ProxyInit, NoRpc, Counting, Wanting, Granting
    <2>2. todo \notin ResetLefts
      BY LeftsDiffer DEF ProxyInit
    <2>3. Leased
      BY DEF ProxyInit, Leased, NoRpc
    <2>4. Ahead
      BY <2>1, FS_EmptySet DEF ProxyInit, Ahead, NewProxyCounter, Zero, Counters
    <2> QED BY <2>2, <2>3, <2>4 DEF CountInv
  <1> QED BY <1>1, <1>2, <1>3, ProxyTyped, OkKept, CountKept, PTL DEF ProxySpec

\* A call that returns OK without an error was performed by the storage server,
\* unless the answer was read after the override was switched off; for any number of handlers and of orders of the driver (ProxyCounter reads
\* override, overrideErr and overrideStatus one by one).
THEOREM ProxyOkMeansServed == ProxySpec => []OkMeansServed
  BY ProxyInvariance, PTL DEF OkInv

\* When nothing is under way the four counters are exact, for any number of
\* handlers and calls, unless a Reset overlapped one.
THEOREM ProxyCountsExact == ProxySpec => []CountsExact
  <1>1. ProxyType /\ CountInv => CountsExact
    <2> SUFFICES ASSUME ProxyType, CountInv, todo = <<>>, ~overlapped, \A h \in Rpcs : At(h, "out")
                 PROVE  \A f \in Counters : pc[f] = returned[f]
      BY DEF CountsExact
    <2>1. Counting = {} /\ Wanting = {} /\ Granting = {}
      BY DEF At, Counting, Wanting, Granting
    <2>2. todo \notin ResetLefts
      BY LeftsDiffer
    <2>3. Ahead
      BY <2>2 DEF CountInv
    <2>4. \A f \in Counters : returned[f] \in Nat
      BY DEF ProxyType
    <2>5. ASSUME NEW n \in Nat PROVE n + 0 = n
      OBVIOUS
    <2> QED BY <2>1, <2>3, <2>4, <2>5, FS_EmptySet DEF Ahead, Counters
  <1> QED BY <1>1, ProxyInvariance, PTL

(***************************************************************************)
(* The buffers implement BufferSpec.  The linked list is related to a      *)
(* sequence by Holds, which every operation of bufi keeps; BufInv says who *)
(* has the token, which requests are deferred, and which calls have an     *)
(* answer; and each step is then an operation of the queue, or none.       *)
(***************************************************************************)

(***************************************************************************)
(* The linked list of bufi.                                                *)
(***************************************************************************)
\* The list b holds the elements of q, in their order, each once.
Holds(b, q) ==
    /\ b = [head |-> b.head, tail |-> b.tail, cnt |-> b.cnt, next |-> b.next]
    /\ b.cnt = Len(q)
    /\ b.head = (IF q = <<>> THEN Nil ELSE q[1]) /\ b.tail = (IF q = <<>> THEN Nil ELSE q[Len(q)])
    /\ b.next = [x \in DOMAIN b.next |-> b.next[x]]
    /\ DOMAIN b.next = {q[i] : i \in 1 .. Len(q)}
    /\ \A i \in 1 .. Len(q) : /\ q[i] # Nil /\ b.next[q[i]] = (IF i = Len(q) THEN Nil ELSE q[i + 1])
                              /\ \A j \in 1 .. Len(q) : q[i] = q[j] => i = j

\* NewBuf makes an empty list.
LEMMA NewHolds == Holds(NewBuf, <<>>)
  BY DEF Holds, NewBuf

\* Empty and Front.
LEMMA FrontHolds ==
  ASSUME NEW S, NEW q \in Seq(S), NEW b, Holds(b, q)
  PROVE  /\ BufEmpty(b) <=> q = <<>>
         /\ q # <<>> => BufFront(b) = Head(q) /\ Head(q) \in S /\ Head(q) = q[1]
  BY HeadTailProperties DEF Holds, BufEmpty, BufFront

\* Insert puts an element that is not there at the end.
LEMMA InsertHolds ==
  ASSUME NEW S, NEW q \in Seq(S), NEW b, Holds(b, q), NEW e \in S, e # Nil, \A i \in 1 .. Len(q) : q[i] # e
  PROVE  Holds(BufInsert(b, e), Append(q, e))
  <1>1. PICK r \in Seq(S) : /\ r = Append(q, e) /\ Len(r) = Len(q) + 1 /\ r # <<>>
                            /\ \A i \in 1 .. Len(q) : r[i] = q[i]
                            /\ r[Len(q) + 1] = e
    BY AppendProperties
  <1>2. PICK c : c = BufInsert(b, e)
    OBVIOUS
  <1>3. PICK N : N = [x \in DOMAIN b.next \cup {e} |-> IF x = b.tail THEN e ELSE IF x = e THEN Nil ELSE b.next[x]]
    OBVIOUS
  <1>4. c = [head |-> IF BufEmpty(b) THEN e ELSE b.head, tail |-> e, cnt |-> b.cnt + 1, next |-> N]
    <2>1. b = [head |-> b.head, tail |-> b.tail, cnt |-> b.cnt, next |-> b.next]
      BY DEF Holds
    <2> QED BY <1>2, <1>3, <2>1 DEF BufInsert, Link
  <1>5. Len(q) \in Nat /\ 1 .. Len(r) = (1 .. Len(q)) \cup {Len(r)}
    BY <1>1
  <1>6. DOMAIN N = {r[i] : i \in 1 .. Len(r)}
    BY <1>1, <1>3, <1>5 DEF Holds
  <1>7. ASSUME NEW i \in 1 .. Len(r) PROVE r[i] # Nil /\ N[r[i]] = (IF i = Len(r) THEN Nil ELSE r[i + 1])
    <2>1. CASE i = Len(r)
      <3>1. r[i] = e /\ e \in DOMAIN N
        BY <1>1, <1>3, <2>1
      <3>2. b.tail # e
        BY <1>5 DEF Holds
      <3> QED BY <1>3, <2>1, <3>1, <3>2
    <2>2. CASE i = Len(q)
      <3>1. r[i] = b.tail /\ r[i] = q[i] /\ r[i] # Nil /\ r[i] \in DOMAIN b.next
        BY <1>1, <1>5, <1>7, <2>2 DEF Holds
      <3>2. N[r[i]] = e
        BY <1>3, <3>1
      <3> QED BY <1>1, <1>5, <2>2, <3>1, <3>2
    <2>3. CASE i \in 1 .. Len(q) /\ i # Len(q)
      <3>1. /\ r[i] = q[i] /\ r[i] # Nil /\ r[i] \in DOMAIN b.next /\ r[i] # e /\ b.next[r[i]] = q[i + 1]
            /\ i + 1 \in 1 .. Len(q)
        BY <1>1, <1>5, <2>3 DEF Holds
      <3>2. q[i] # q[Len(q)] /\ q # <<>>
        BY <1>5, <2>3 DEF Holds
      <3>3. r[i] # b.tail
        BY <3>1, <3>2 DEF Holds
      <3>4. N[r[i]] = q[i + 1]
        BY <1>3, <3>1, <3>3
      <3> QED BY <1>1, <1>5, <2>3, <3>1, <3>4
    <2> QED BY <1>5, <2>1, <2>2, <2>3
  <1>8. ASSUME NEW i \in 1 .. Len(r), NEW j \in 1 .. Len(r), r[i] = r[j] PROVE i = j
    BY <1>1, <1>5, <1>8 DEF Holds
  <1>9. c.head = (IF r = <<>> THEN Nil ELSE r[1]) /\ c.tail = (IF r = <<>> THEN Nil ELSE r[Len(r)])
    <2>1. c.tail = r[Len(r)]
      BY <1>1, <1>4
    <2>2. CASE q = <<>>
      <3>1. BufEmpty(b) /\ Len(r) = 1 /\ r[1] = e
        <4>1. BufEmpty(b)
          BY <2>2, FrontHolds
        <4>2. Len(q) = 0
          BY <2>2
        <4>3. Len(q) + 1 = 1
          BY <4>2
        <4> QED BY <1>1, <4>1, <4>3
      <3>2. c.head = e
        BY <1>4, <3>1
      <3> QED BY <1>1, <2>1, <3>1, <3>2
    <2>3. CASE q # <<>>
      <3>1. 1 \in 1 .. Len(q)
        BY <2>3
      <3> QED BY <1>1, <1>4, <2>3, <3>1, FrontHolds DEF Holds
    <2> QED BY <1>1, <2>1, <2>2, <2>3
  <1>10. Holds(c, r)
    <2>1. c = [head |-> c.head, tail |-> c.tail, cnt |-> c.cnt, next |-> c.next] /\ c.cnt = Len(r) /\ c.next = N
      BY <1>1, <1>4 DEF Holds
    <2>2. N = [x \in DOMAIN N |-> N[x]]
      BY <1>3
    <2> QED BY <1>6, <1>7, <1>8, <1>9, <2>1, <2>2 DEF Holds
  <1> QED BY <1>1, <1>2, <1>10

\* Remove takes the first.
LEMMA RemoveHolds ==
  ASSUME NEW S, NEW q \in Seq(S), NEW b, Holds(b, q), q # <<>>
  PROVE  Holds(BufRemove(b), Tail(q))
  <1>1. PICK r \in Seq(S) : r = Tail(q) /\ Len(r) = Len(q) - 1 /\ \A i \in 1 .. Len(r) : r[i] = q[i + 1]
    BY HeadTailProperties
  <1>2. /\ Len(q) \in Nat /\ Len(q) >= 1 /\ 1 \in 1 .. Len(q) /\ Len(r) \in Nat
        /\ \A i \in 1 .. Len(r) : i + 1 \in 1 .. Len(q)
        /\ \A i \in 1 .. Len(q) : i # 1 => i - 1 \in 1 .. Len(r) /\ (i - 1) + 1 = i
    BY <1>1
  <1>3. /\ b.head = q[1] /\ b.tail = q[Len(q)] /\ ~BufEmpty(b) /\ b.cnt = Len(q)
        /\ b.next[q[1]] = (IF 1 = Len(q) THEN Nil ELSE q[2]) /\ q[1] \in DOMAIN b.next
    <2>1. ~BufEmpty(b)
      BY FrontHolds
    <2>2. b.next[q[1]] = (IF 1 = Len(q) THEN Nil ELSE q[1 + 1]) /\ q[1] \in DOMAIN b.next
      BY <1>2 DEF Holds
    <2>3. b.head = q[1] /\ b.tail = q[Len(q)] /\ b.cnt = Len(q)
      BY DEF Holds
    <2> QED BY <2>1, <2>2, <2>3
  <1>4. PICK N : N = [x \in DOMAIN b.next \ {b.head} |-> b.next[x]]
    OBVIOUS
  <1>5. PICK c : c = BufRemove(b)
    OBVIOUS
  <1>6. c = [head |-> b.next[b.head], tail |-> IF b.tail = b.head THEN Nil ELSE b.tail, cnt |-> b.cnt - 1, next |-> N]
    <2>1. b = [head |-> b.head, tail |-> b.tail, cnt |-> b.cnt, next |-> b.next]
      BY DEF Holds
    <2> QED BY <1>3, <1>4, <1>5, <2>1 DEF BufRemove, Unlink
  <1>7. \A i, j \in 1 .. Len(q) : q[i] = q[j] => i = j
    BY DEF Holds
  <1>8. DOMAIN N = {r[i] : i \in 1 .. Len(r)}
    <2>1. DOMAIN N = {q[i] : i \in 1 .. Len(q)} \ {q[1]}
      BY <1>3, <1>4 DEF Holds
    <2>4. \A x \in DOMAIN N : \E i \in 1 .. Len(q) : x = q[i] /\ q[i] # q[1]
      BY <2>1
    <2>2. ASSUME NEW i \in 1 .. Len(q), q[i] # q[1] PROVE \E j \in 1 .. Len(r) : q[i] = r[j]
      BY <1>1, <1>2, <2>2
    <2>3. ASSUME NEW j \in 1 .. Len(r) PROVE \E i \in 1 .. Len(q) : q[i] # q[1] /\ q[i] = r[j]
      <3>1. j + 1 \in 1 .. Len(q) /\ j + 1 # 1
        BY <1>2
      <3> QED BY <1>1, <1>2, <1>7, <3>1
    <2>5. \A x \in DOMAIN N : \E j \in 1 .. Len(r) : x = r[j]
      BY <2>2, <2>4
    <2>6. \A j \in 1 .. Len(r) : r[j] \in DOMAIN N
      BY <2>1, <2>3
    <2> QED BY <2>5, <2>6
  <1>9. ASSUME NEW i \in 1 .. Len(r) PROVE r[i] # Nil /\ N[r[i]] = (IF i = Len(r) THEN Nil ELSE r[i + 1])
    <2>1. i + 1 \in 1 .. Len(q) /\ r[i] = q[i + 1] /\ r[i] \in DOMAIN N
      BY <1>1, <1>2, <1>8
    <2>2. q[i + 1] # Nil /\ b.next[q[i + 1]] = (IF i + 1 = Len(q) THEN Nil ELSE q[(i + 1) + 1])
      BY <2>1 DEF Holds
    <2>3. N[r[i]] = b.next[q[i + 1]]
      BY <1>4, <2>1
    <2>4. i # Len(r) => i + 1 \in 1 .. Len(r)
      BY <1>2
    <2> QED BY <1>1, <1>2, <2>1, <2>2, <2>3, <2>4
  <1>10. ASSUME NEW i \in 1 .. Len(r), NEW j \in 1 .. Len(r), r[i] = r[j] PROVE i = j
    BY <1>1, <1>2, <1>7, <1>10
  <1>11. c.head = (IF r = <<>> THEN Nil ELSE r[1]) /\ c.tail = (IF r = <<>> THEN Nil ELSE r[Len(r)])
    <2>1. CASE Len(q) = 1
      <3>1. r = <<>> /\ b.tail = b.head
        BY <1>1, <1>3, <2>1
      <3> QED BY <1>3, <1>6, <2>1, <3>1
    <2>2. CASE Len(q) # 1
      <3>1. r # <<>> /\ 1 \in 1 .. Len(r) /\ Len(r) \in 1 .. Len(r) /\ Len(q) \in 1 .. Len(q)
        BY <1>1, <1>2, <2>2
      <3>2. r[1] = q[2] /\ r[Len(r)] = q[Len(q)] /\ q[Len(q)] # q[1]
        BY <1>1, <1>2, <1>7, <2>2, <3>1
      <3> QED BY <1>3, <1>6, <2>2, <3>1, <3>2
    <2> QED BY <2>1, <2>2
  <1>12. Holds(c, r)
    <2>1. c = [head |-> c.head, tail |-> c.tail, cnt |-> c.cnt, next |-> c.next] /\ c.cnt = Len(r) /\ c.next = N
      BY <1>1, <1>3, <1>6
    <2>2. N = [x \in DOMAIN N |-> N[x]]
      BY <1>4
    <2> QED BY <1>8, <1>9, <1>10, <1>11, <2>1, <2>2 DEF Holds
  <1> QED BY <1>1, <1>5, <1>12

\* What is in the list after Insert, Remove and Flush.
LEMMA ElementsHold ==
  ASSUME NEW S, NEW q \in Seq(S), NEW b, Holds(b, q)
  PROVE  /\ \A e : DOMAIN BufInsert(b, e).next = DOMAIN b.next \cup {e}
         /\ DOMAIN BufRemove(b).next \subseteq DOMAIN b.next
         /\ DOMAIN NewBuf.next = {}
         /\ \A i \in 1 .. Len(q) : q[i] \in DOMAIN b.next
  <1>1. b = [head |-> b.head, tail |-> b.tail, cnt |-> b.cnt, next |-> b.next]
    BY DEF Holds
  <1>2. DOMAIN NewBuf.next = {}
    BY DEF NewBuf
  <1>3. ASSUME NEW e PROVE DOMAIN BufInsert(b, e).next = DOMAIN b.next \cup {e}
    BY <1>1 DEF BufInsert, Link
  <1>4. DOMAIN BufRemove(b).next \subseteq DOMAIN b.next
    BY <1>1 DEF BufRemove, Unlink
  <1>5. \A i \in 1 .. Len(q) : q[i] \in DOMAIN b.next
    BY DEF Holds
  <1> QED BY <1>2, <1>3, <1>4, <1>5

LEMMA LeastOfNat ==
  ASSUME NEW T \in SUBSET Nat, T # {}
  PROVE  \E m \in T : \A n \in T : m <= n
  <1>1. IsWellFoundedOn(OpToRel(<, Nat), Nat)
    BY NatLessThanWellFounded
  <1>2. PICK m \in T : \A n \in T : ~ (<<n, m>> \in OpToRel(<, Nat))
    BY <1>1, WFMin
  <1>3. \A n \in T : <<n, m>> \in OpToRel(<, Nat) <=> n < m
    BY DEF OpToRel
  <1>4. \A n \in T : ~ (n < m)
    BY <1>2, <1>3, Zenon
  <1>5. m \in Nat /\ \A n \in T : n \in Nat
    OBVIOUS
  <1>6. \A n \in T : m <= n
    BY <1>4, <1>5
  <1> QED BY <1>6

\* Contents, which goes from link to link, finds what the list holds: q is one
\* function with ele's equation, and there is no other.
LEMMA ContentsHolds ==
  ASSUME NEW S, NEW q \in Seq(S), NEW b, Holds(b, q)
  PROVE  BufContents(b) = q
  <1> DEFINE Eq(f) == f = [i \in 1 .. b.cnt |-> IF i = 1 THEN b.head ELSE b.next[f[i - 1]]]
             ele == CHOOSE f : Eq(f)
  <1>0. /\ Len(q) \in Nat /\ b.cnt = Len(q) /\ q = [i \in 1 .. Len(q) |-> q[i]]
        /\ \A i \in 1 .. Len(q) : b.next[q[i]] = (IF i = Len(q) THEN Nil ELSE q[i + 1])
    BY DEF Holds
  <1>1. ASSUME NEW i \in 1 .. Len(q) PROVE q[i] = (IF i = 1 THEN b.head ELSE b.next[q[i - 1]])
    <2>1. CASE i = 1
      BY <2>1 DEF Holds
    <2>2. CASE i # 1
      <3>1. i - 1 \in 1 .. Len(q) /\ i - 1 # Len(q) /\ (i - 1) + 1 = i
        BY <1>0, <2>2
      <3> QED BY <1>0, <2>2, <3>1
    <2> QED BY <2>1, <2>2
  <1>2. Eq(q)
    BY <1>0, <1>1
  <1>3. Eq(ele)
    BY <1>2
  <1>4. BufContents(b) = [i \in 1 .. b.cnt |-> ele[i]]
    BY DEF BufContents
  <1> HIDE DEF ele
  <1>5. \A i \in 1 .. Len(q) : ele[i] = q[i]
    <2> DEFINE Bad == {i \in 1 .. Len(q) : ele[i] # q[i]}
    <2> SUFFICES ASSUME Bad # {} PROVE FALSE
      OBVIOUS
    <2>1. PICK m \in Bad : \A i \in Bad : m <= i
      <3>1. Bad \in SUBSET Nat
        BY <1>0
      <3> HIDE DEF Bad
      <3> QED BY <3>1, LeastOfNat
    <2>2. m \in 1 .. Len(q) /\ ele[m] # q[m]
      OBVIOUS
    <2>3. ele[m] = (IF m = 1 THEN b.head ELSE b.next[ele[m - 1]])
      BY <1>0, <1>3, <2>2
    <2>4. m # 1 => m - 1 \in 1 .. Len(q) /\ ~(m <= m - 1)
      BY <1>0, <2>2
    <2>5. m # 1 => ele[m - 1] = q[m - 1]
      BY <2>1, <2>4
    <2> QED BY <1>1, <2>2, <2>3, <2>5
  <1> QED BY <1>0, <1>4, <1>5

(***************************************************************************)
(* The users and the server.                                               *)
(***************************************************************************)
UserPcs == {"out", "want", "work", "wait", "read", "gone"}
UserShape ==
    /\ user = [u \in Users |-> user[u]]
    /\ \A u \in Users : user[u] = [pc |-> user[u].pc, op |-> user[u].op, req |-> user[u].req, val |-> user[u].val,
                                   result |-> user[u].result, raced |-> user[u].raced]

Unserved(u) == user[u].result = <<>>

\* What a user's place says of its call.
CallInv(u) ==
    /\ user[u].pc \in UserPcs
    /\ user[u].pc \in {"out", "gone"} => user[u].op = "none" /\ Unserved(u) /\ user[u].val = 0
    /\ user[u].pc \notin {"out", "gone"} => user[u].op \in AllOps /\ user[u].val \in 0 .. MaxInserts
    /\ user[u].pc = "want" => IF Unserved(u) THEN user[u].req = user[u].op ELSE user[u].req = "string"
    /\ user[u].pc = "work" => user[u].req = user[u].op
    /\ user[u].pc = "wait" => IF Unserved(u) THEN user[u].req = user[u].op /\ user[u].op \in deferOnEmpty
                                             ELSE user[u].req \in {user[u].op, "string"}
    /\ user[u].pc = "read" => user[u].op = "list" /\ ~Unserved(u)
    /\ user[u].raced => user[u].pc = "read"

\* A value that is still to be inserted is new.
NewValInv ==
    \A u \in Users : user[u].op = "insert" /\ Unserved(u) =>
        /\ user[u].val \in 1 .. inserts /\ user[u].val \notin DOMAIN sb.next
        /\ \A v \in Users : user[v].op = "insert" /\ Unserved(v) /\ user[v].val = user[u].val => v = u

\* The lists are lists of what they are for.
ValuesInv == DOMAIN sb.next \subseteq 1 .. inserts /\ \E q \in Seq(0 .. MaxInserts) : Holds(sb, q)
Deferred(d) == \A i \in 1 .. Len(d) : Is(d[i], "wait") /\ Unserved(d[i])
DeferredInv == ~dead => \E d \in Seq(Users) : Holds(db, d) /\ Deferred(d)

\* abuf: the token is with the one who works, and he finds what he needs.
TokenInv ==
    server = "abuf" =>
        /\ ~dead
        /\ \A u \in Users : /\ user[u].pc \in {"out", "want", "work"} /\ (Is(u, "work") => serving = u)
                            /\ user[u].pc = "want" => Unserved(u)
                            /\ Is(u, "work") /\ Unserved(u) /\ user[u].op \in deferOnEmpty => ~BufEmpty(sb)
\* sserver and dserver: the reply is for one who waits for it.
ReplyInv ==
    server # "abuf" =>
        /\ \A u \in Users : user[u].pc # "work"
        /\ serving # Nil /\ ~dead => serving \in Users /\ Is(serving, "wait") /\ ~Unserved(serving)
        /\ \A u \in Users : Is(u, "wait") /\ ~Unserved(u) /\ ~dead => serving = u

QueueInv == ValuesInv /\ DeferredInv
BufInv == /\ inserts \in 0 .. MaxInserts /\ UserShape /\ (\A u \in Users : CallInv(u))
          /\ NewValInv /\ QueueInv /\ TokenInv /\ ReplyInv

LEMMA InitBufInv == BufferInit => BufInv
  <1> SUFFICES ASSUME BufferInit PROVE BufInv
    OBVIOUS
  <1>1. QueueInv
    <2>1. Holds(sb, <<>>) /\ Holds(db, <<>>) /\ DOMAIN sb.next = {}
      BY NewHolds DEF BufferInit, NewBuf
    <2>2. <<>> \in Seq(0 .. MaxInserts) /\ <<>> \in Seq(Users) /\ Deferred(<<>>)
      BY DEF Deferred
    <2> QED BY <2>1, <2>2 DEF QueueInv, ValuesInv, DeferredInv
  <1>2. \A u \in Users : user[u] = Out
    BY DEF BufferInit
  <1>3. UserShape /\ inserts \in 0 .. MaxInserts
    BY <1>2, BufferAssumption DEF BufferInit, UserShape, Out
  <1>4. (\A u \in Users : CallInv(u)) /\ NewValInv /\ TokenInv /\ ReplyInv
    BY <1>2 DEF BufferInit, CallInv, NewValInv, TokenInv, ReplyInv, Out, Unserved, UserPcs, Is
  <1> QED BY <1>1, <1>3, <1>4 DEF BufInv

\* A step that leaves the lists alone, and those who wait in one of them.
LEMMA QueueFrame ==
  ASSUME QueueInv, UNCHANGED <<sb, db>>, inserts \in Nat, inserts' \in Nat, inserts <= inserts', dead => dead',
         \A u \in Users : user[u].pc = "wait" /\ user[u].result = <<>> => user'[u].pc = "wait" /\ user'[u].result = <<>>
  PROVE  QueueInv'
  <1>1. DOMAIN sb.next \subseteq 1 .. inserts'
    BY DEF QueueInv, ValuesInv
  <1>2. ASSUME NEW d \in Seq(Users), Deferred(d) PROVE Deferred(d)'
    <2>1. \A i \in 1 .. Len(d) : d[i] \in Users
      BY ElementOfSeq
    <2> QED BY <1>2, <2>1 DEF Deferred, Is, Unserved
  <1> QED BY <1>1, <1>2 DEF QueueInv, ValuesInv, DeferredInv

\* The queue after the request of u.
QueueAfter(u, q) ==
    CASE user[u].req = "insert" -> Append(q, user[u].val)
      [] user[u].req = "remove" -> IF q = <<>> THEN q ELSE Tail(q)
      [] user[u].req = "flush" -> <<>>
      [] OTHER -> q

\* The switch in the server, or the operation with the token, does to the list
\* what it should.
LEMMA AfterOpHolds ==
  ASSUME BufInv, NEW u \in Users, user[u].req = "insert" => user[u].op = "insert" /\ Unserved(u),
         NEW q \in Seq(0 .. MaxInserts), Holds(sb, q)
  PROVE  /\ QueueAfter(u, q) \in Seq(0 .. MaxInserts) /\ Holds(AfterOp(u), QueueAfter(u, q))
         /\ DOMAIN AfterOp(u).next \subseteq DOMAIN sb.next \cup (IF user[u].req = "insert" THEN {user[u].val} ELSE {})
         /\ user[u].req \notin {"insert", "remove", "flush"} => AfterOp(u) = sb
  <1>1. CASE user[u].req = "insert"
    <2>1. user[u].val \in 0 .. MaxInserts /\ user[u].val # Nil /\ user[u].val \notin DOMAIN sb.next
      BY <1>1, BufferAssumption DEF BufInv, NewValInv, Nil
    <2>2. \A i \in 1 .. Len(q) : q[i] # user[u].val
      BY <2>1, ElementsHold
    <2>3. AfterOp(u) = BufInsert(sb, user[u].val) /\ QueueAfter(u, q) = Append(q, user[u].val)
      BY <1>1 DEF AfterOp, QueueAfter
    <2>4. Holds(BufInsert(sb, user[u].val), Append(q, user[u].val))
      BY <2>1, <2>2, InsertHolds
    <2>5. DOMAIN BufInsert(sb, user[u].val).next = DOMAIN sb.next \cup {user[u].val}
      BY ElementsHold
    <2>6. Append(q, user[u].val) \in Seq(0 .. MaxInserts)
      BY <2>1, AppendProperties
    <2> QED BY <1>1, <2>3, <2>4, <2>5, <2>6
  <1>2. CASE user[u].req = "remove"
    <2>1. AfterOp(u) = BufRemove(sb) /\ QueueAfter(u, q) = (IF q = <<>> THEN q ELSE Tail(q))
      BY <1>2 DEF AfterOp, QueueAfter
    <2>2. DOMAIN BufRemove(sb).next \subseteq DOMAIN sb.next
      BY ElementsHold
    <2>3. CASE q = <<>>
      <3>1. BufRemove(sb) = sb
        BY <2>3, FrontHolds DEF BufRemove
      <3> QED BY <1>2, <2>1, <2>2, <2>3, <3>1
    <2>4. CASE q # <<>>
      <3>1. Tail(q) \in Seq(0 .. MaxInserts) /\ Holds(BufRemove(sb), Tail(q))
        BY <2>4, HeadTailProperties, RemoveHolds
      <3> QED BY <1>2, <2>1, <2>2, <2>4, <3>1
    <2> QED BY <2>3, <2>4
  <1>3. CASE user[u].req = "flush"
    <2>1. AfterOp(u) = NewBuf /\ QueueAfter(u, q) = <<>>
      BY <1>3 DEF AfterOp, QueueAfter
    <2>2. DOMAIN NewBuf.next = {} /\ Holds(NewBuf, <<>>) /\ <<>> \in Seq(0 .. MaxInserts)
      BY ElementsHold, NewHolds
    <2> QED BY <1>3, <2>1, <2>2
  <1>4. CASE user[u].req \notin {"insert", "remove", "flush"}
    <2>1. AfterOp(u) = sb /\ QueueAfter(u, q) = q
      BY <1>4 DEF AfterOp, QueueAfter
    <2> QED BY <1>4, <2>1
  <1> QED BY <1>1, <1>2, <1>3, <1>4

\* The result of a request is there.
LEMMA Resulted ==
  ASSUME NEW u \in Users, user[u].req \in AllOps \/ (user[u].req = "string" /\ ~Unserved(u))
  PROVE  ResultOp(u) # <<>>
  BY DEF ResultOp, Unserved, AllOps

\* Executing u's insertion, or anything else, leaves the values to come new.
LEMMA NewValStep ==
  ASSUME NewValInv, NEW u \in Users, inserts' = inserts, user'[u].result # <<>>,
         \A v \in Users : v # u => /\ user'[v].op = user[v].op /\ user'[v].result = user[v].result
                                  /\ user'[v].val = user[v].val,
         \A x \in DOMAIN sb'.next : x \in DOMAIN sb.next \/ (user[u].op = "insert" /\ Unserved(u) /\ x = user[u].val)
  PROVE  NewValInv'
  <1> SUFFICES ASSUME NEW v \in Users, user'[v].op = "insert", user'[v].result = <<>>
               PROVE  /\ user'[v].val \in 1 .. inserts /\ user'[v].val \notin DOMAIN sb'.next
                      /\ \A w \in Users : user'[w].op = "insert" /\ user'[w].result = <<>> /\ user'[w].val = user'[v].val => w = v
    BY DEF NewValInv, Unserved
  <1>1. v # u /\ user[v].op = "insert" /\ Unserved(v) /\ user'[v].val = user[v].val
    BY DEF Unserved
  <1>2. user[v].val \in 1 .. inserts /\ user[v].val \notin DOMAIN sb.next
    BY <1>1 DEF NewValInv
  <1>3. ASSUME NEW w \in Users, user[w].op = "insert", Unserved(w), user[w].val = user[v].val PROVE w = v
    BY <1>1, <1>3 DEF NewValInv
  <1>4. user[v].val \notin DOMAIN sb'.next
    BY <1>1, <1>2, <1>3
  <1>5. ASSUME NEW w \in Users, user'[w].op = "insert", user'[w].result = <<>>, user'[w].val = user'[v].val PROVE w = v
    <2>1. w # u
      BY <1>5
    <2> QED BY <1>1, <1>3, <1>5, <2>1 DEF Unserved
  <1> QED BY <1>1, <1>2, <1>4, <1>5

\* The server executes a request: one that it received or one it had deferred.
LEMMA ExecuteInv ==
  ASSUME BufInv, NEW u \in Users, Execute(u), server # "abuf", ~dead, serving = Nil,
         UNCHANGED <<server, inserts, dead>>, DeferredInv',
         user[u].pc = "want" \/ (user[u].pc = "wait" /\ Unserved(u))
  PROVE  BufInv'
  <1>0. /\ UserShape /\ (\A v \in Users : CallInv(v)) /\ NewValInv /\ QueueInv /\ TokenInv /\ ReplyInv
        /\ inserts \in 0 .. MaxInserts /\ DOMAIN sb.next \subseteq 1 .. inserts /\ Nil \notin Users
    BY BufferAssumption DEF BufInv, QueueInv, ValuesInv, Nil
  <1>1. /\ serving' = u /\ sb' = AfterOp(u)
        /\ user' = [v \in Users |-> user'[v]]
        /\ user'[u] = [user[u] EXCEPT !.pc = "wait", !.result = ResultOp(u)]
        /\ \A v \in Users : v # u => \E raced : user'[v] = [user[v] EXCEPT !.raced = raced] /\ (raced => user[v].raced \/ user[v].pc = "read")
    BY DEF Execute, Is
  <1>2. /\ user'[u].pc = "wait" /\ user'[u].op = user[u].op /\ user'[u].req = user[u].req /\ user'[u].val = user[u].val
        /\ user'[u].result = ResultOp(u) /\ user'[u].raced = user[u].raced
        /\ user'[u] = [pc |-> user'[u].pc, op |-> user'[u].op, req |-> user'[u].req, val |-> user'[u].val,
                       result |-> user'[u].result, raced |-> user'[u].raced]
    BY <1>0, <1>1 DEF UserShape
  <1>3. \A v \in Users : v # u =>
          /\ user'[v].pc = user[v].pc /\ user'[v].op = user[v].op /\ user'[v].req = user[v].req /\ user'[v].val = user[v].val
          /\ user'[v].result = user[v].result /\ (user'[v].raced => user[v].raced \/ user[v].pc = "read")
          /\ user'[v] = [pc |-> user'[v].pc, op |-> user'[v].op, req |-> user'[v].req, val |-> user'[v].val,
                         result |-> user'[v].result, raced |-> user'[v].raced]
    BY <1>0, <1>1 DEF UserShape
  <1>4. /\ user[u].op \in AllOps /\ user[u].val \in 0 .. MaxInserts /\ user[u].pc # "read"
        /\ IF Unserved(u) THEN user[u].req = user[u].op ELSE user[u].req = "string"
    BY <1>0 DEF CallInv
  <1>5. ResultOp(u) # <<>>
    BY <1>4, Resulted
  <1>6. UserShape'
    BY <1>1, <1>2, <1>3 DEF UserShape
  <1>7. ASSUME NEW v \in Users PROVE CallInv(v)'
    <2>1. CASE v = u
      BY <1>0, <1>2, <1>4, <1>5, <2>1 DEF CallInv, UserPcs, Unserved
    <2>2. CASE v # u
      <3>1. /\ user'[v].pc = user[v].pc /\ user'[v].op = user[v].op /\ user'[v].req = user[v].req
            /\ user'[v].val = user[v].val /\ user'[v].result = user[v].result
            /\ user'[v].raced => user[v].raced \/ user[v].pc = "read"
        BY <1>3, <2>2
      <3>2. CallInv(v)
        BY <1>0
      <3> QED BY <3>1, <3>2 DEF CallInv, Unserved
    <2> QED BY <2>1, <2>2
  <1>8. PICK q \in Seq(0 .. MaxInserts) : Holds(sb, q)
    BY <1>0 DEF QueueInv, ValuesInv
  <1>9. /\ QueueAfter(u, q) \in Seq(0 .. MaxInserts) /\ Holds(sb', QueueAfter(u, q))
        /\ DOMAIN sb'.next \subseteq DOMAIN sb.next \cup (IF user[u].req = "insert" THEN {user[u].val} ELSE {})
    BY <1>1, <1>4, <1>8, AfterOpHolds DEF AllOps
  <1>10. DOMAIN sb'.next \subseteq 1 .. inserts'
    <2>1. user[u].req = "insert" => user[u].val \in 1 .. inserts
      BY <1>0, <1>4 DEF NewValInv
    <2> QED BY <1>0, <1>9, <2>1
  <1>11. QueueInv'
    BY <1>9, <1>10 DEF QueueInv, ValuesInv
  <1>12. NewValInv'
    <2>1. \A x \in DOMAIN sb'.next : x \in DOMAIN sb.next \/ (user[u].op = "insert" /\ Unserved(u) /\ x = user[u].val)
      BY <1>4, <1>9
    <2>2. user'[u].result # <<>> /\ inserts' = inserts
      BY <1>2, <1>5
    <2>3. \A v \in Users : v # u => /\ user'[v].op = user[v].op /\ user'[v].result = user[v].result
                                    /\ user'[v].val = user[v].val
      BY <1>3
    <2> QED BY <1>0, <2>1, <2>2, <2>3, NewValStep
  <1>13. TokenInv' /\ ReplyInv'
    BY <1>0, <1>1, <1>2, <1>3, <1>5 DEF TokenInv, ReplyInv, Unserved, Is
  <1> QED BY <1>0, <1>6, <1>7, <1>11, <1>12, <1>13 DEF BufInv

LEMMA NextBufInv == BufInv /\ [BufferNext]_bufferVars => BufInv'
  <1> SUFFICES ASSUME BufInv, [BufferNext]_bufferVars PROVE BufInv'
    OBVIOUS
  <1>0. /\ UserShape /\ (\A u \in Users : CallInv(u)) /\ NewValInv /\ QueueInv /\ TokenInv /\ ReplyInv
        /\ inserts \in Nat /\ inserts <= MaxInserts /\ Nil \notin Users /\ MaxInserts \in Nat
        /\ DOMAIN sb.next \subseteq 1 .. inserts
    BY BufferAssumption DEF BufInv, QueueInv, ValuesInv, Nil
  <1> USE DEF Is
  <1>1. ASSUME NEW u \in Users, NEW op \in AllOps, CallOp(u, op) PROVE BufInv'
    <2>1. /\ user[u].pc = "out" /\ UNCHANGED <<server, sb, db, serving, dead>>
          /\ inserts' = (IF op = "insert" THEN inserts + 1 ELSE inserts)
          /\ op = "insert" => inserts < MaxInserts
          /\ user'[u] = [pc |-> "want", op |-> op, req |-> op, val |-> IF op = "insert" THEN inserts + 1 ELSE 0,
                         result |-> <<>>, raced |-> FALSE]
          /\ \A v \in Users : v # u => user'[v] = user[v]
          /\ user' = [v \in Users |-> user'[v]]
      BY <1>0, <1>1 DEF CallOp, UserShape
    <2>2. QueueInv'
      <3>1. \A v \in Users : user[v].pc = "wait" /\ user[v].result = <<>> => user'[v].pc = "wait" /\ user'[v].result = <<>>
        BY <2>1
      <3> QED BY <1>0, <2>1, <3>1, QueueFrame
    <2>3. UserShape' /\ (\A v \in Users : CallInv(v)')
      BY <1>0, <2>1 DEF UserShape, CallInv, UserPcs, Unserved
    <2>4. NewValInv'
      BY <1>0, <2>1 DEF NewValInv, Unserved
    <2>5. TokenInv' /\ ReplyInv'
      BY <1>0, <2>1 DEF TokenInv, ReplyInv, Unserved
    <2> QED BY <1>0, <2>1, <2>2, <2>3, <2>4, <2>5 DEF BufInv
  <1>2. ASSUME NEW u \in Users, Director(u), BufEmpty(sb) => user[u].op \notin deferOnEmpty PROVE BufInv'
    <2>1. /\ user[u].pc = "want" /\ server = "abuf" /\ serving = Nil /\ serving' = u /\ UNCHANGED <<server, sb, db, inserts, dead>>
          /\ user'[u] = [user[u] EXCEPT !.pc = "work"]
          /\ \A v \in Users : v # u => user'[v] = user[v]
          /\ user' = [v \in Users |-> user'[v]]
      BY <1>0, <1>2 DEF Director, UserShape
    <2>2. QueueInv'
      <3>1. \A v \in Users : user[v].pc = "wait" /\ user[v].result = <<>> => user'[v].pc = "wait" /\ user'[v].result = <<>>
        BY <2>1
      <3> QED BY <1>0, <2>1, <3>1, QueueFrame
    <2>3. UserShape' /\ (\A v \in Users : CallInv(v)')
      BY <1>0, <2>1 DEF UserShape, CallInv, UserPcs, Unserved, TokenInv
    <2>4. NewValInv'
      BY <1>0, <2>1 DEF NewValInv, Unserved, UserShape
    <2>5. TokenInv' /\ ReplyInv'
      BY <1>0, <1>2, <2>1 DEF TokenInv, ReplyInv, Unserved, UserShape, BufEmpty
    <2> QED BY <1>0, <2>1, <2>2, <2>3, <2>4, <2>5 DEF BufInv
  <1>3. ASSUME NEW u \in Users, finish(u) PROVE BufInv'
    <2>1. /\ user[u].pc = "work" /\ ~Unserved(u) /\ serving' = Nil /\ UNCHANGED <<server, sb, db, inserts, dead>>
          /\ user'[u] = Out
          /\ \A v \in Users : v # u => user'[v] = user[v]
          /\ user' = [v \in Users |-> user'[v]]
      BY <1>0, <1>3 DEF finish, UserShape, Unserved
    <2>2. QueueInv'
      <3>1. \A v \in Users : user[v].pc = "wait" /\ user[v].result = <<>> => user'[v].pc = "wait" /\ user'[v].result = <<>>
        BY <2>1
      <3> QED BY <1>0, <2>1, <3>1, QueueFrame
    <2>3. UserShape' /\ (\A v \in Users : CallInv(v)')
      BY <1>0, <2>1 DEF UserShape, CallInv, UserPcs, Unserved, Out
    <2>4. NewValInv'
      BY <1>0, <2>1 DEF NewValInv, Unserved, Out
    <2>5. TokenInv' /\ ReplyInv'
      BY <1>0, <2>1 DEF TokenInv, ReplyInv, Unserved, Out
    <2> QED BY <1>0, <2>1, <2>2, <2>3, <2>4, <2>5 DEF BufInv
  <1>4. ASSUME NEW u \in Users, Operate(u) PROVE BufInv'
    <2>1. /\ user[u].pc = "work" /\ Unserved(u) /\ sb' = AfterOp(u) /\ UNCHANGED <<server, db, serving, inserts, dead>>
          /\ user'[u] = [user[u] EXCEPT !.result = ResultOp(u)]
          /\ \A v \in Users : v # u => user'[v] = user[v]
          /\ user' = [v \in Users |-> user'[v]]
      BY <1>0, <1>4 DEF Operate, UserShape, Unserved
    <2>2. server = "abuf" /\ user[u].req = user[u].op /\ user[u].op \in AllOps
      BY <1>0, <2>1 DEF CallInv, ReplyInv
    <2>3. ResultOp(u) # <<>>
      BY <2>2, Resulted
    <2>4. /\ user'[u].pc = "work" /\ user'[u].op = user[u].op /\ user'[u].req = user[u].req /\ user'[u].val = user[u].val
          /\ user'[u].result # <<>> /\ user'[u].raced = user[u].raced
          /\ user'[u] = [pc |-> user'[u].pc, op |-> user'[u].op, req |-> user'[u].req, val |-> user'[u].val,
                         result |-> user'[u].result, raced |-> user'[u].raced]
      BY <1>0, <2>1, <2>3 DEF UserShape
    <2>5. PICK q \in Seq(0 .. MaxInserts) : Holds(sb, q)
      BY <1>0 DEF QueueInv, ValuesInv
    <2>6. /\ QueueAfter(u, q) \in Seq(0 .. MaxInserts) /\ Holds(sb', QueueAfter(u, q))
          /\ DOMAIN sb'.next \subseteq DOMAIN sb.next \cup (IF user[u].req = "insert" THEN {user[u].val} ELSE {})
      BY <2>1, <2>2, <2>5, AfterOpHolds
    <2>7. DOMAIN sb'.next \subseteq 1 .. inserts'
      <3>1. user[u].req = "insert" => user[u].val \in 1 .. inserts
        BY <1>0, <2>1, <2>2 DEF NewValInv
      <3> QED BY <1>0, <2>1, <2>6, <3>1
    <2>8. DeferredInv'
      <3>1. \A v \in Users : user[v].pc = "wait" => user'[v] = user[v]
        BY <2>1
      <3>2. ~dead
        BY <1>0, <2>2 DEF TokenInv
      <3>3. PICK d \in Seq(Users) : Holds(db, d) /\ Deferred(d)
        BY <1>0, <3>2 DEF QueueInv, DeferredInv
      <3>4. \A i \in 1 .. Len(d) : d[i] \in Users
        BY ElementOfSeq
      <3>5. Deferred(d)'
        BY <3>1, <3>3, <3>4 DEF Deferred, Unserved
      <3> QED BY <2>1, <3>3, <3>5 DEF DeferredInv
    <2>9. QueueInv'
      BY <2>6, <2>7, <2>8 DEF QueueInv, ValuesInv
    <2>10. UserShape' /\ (\A v \in Users : CallInv(v)')
      BY <1>0, <2>1, <2>4 DEF UserShape, CallInv, UserPcs, Unserved
    <2>11. NewValInv'
      <3>1. \A x \in DOMAIN sb'.next : x \in DOMAIN sb.next \/ (user[u].op = "insert" /\ Unserved(u) /\ x = user[u].val)
        BY <2>1, <2>2, <2>6
      <3>2. \A v \in Users : v # u => /\ user'[v].op = user[v].op /\ user'[v].result = user[v].result
                                      /\ user'[v].val = user[v].val
        BY <2>1
      <3> QED BY <1>0, <2>1, <2>4, <3>1, <3>2, NewValStep
    <2>12. TokenInv' /\ ReplyInv'
      BY <1>0, <2>1, <2>2, <2>4 DEF TokenInv, ReplyInv, Unserved
    <2> QED BY <1>0, <2>1, <2>9, <2>10, <2>11, <2>12 DEF BufInv
  <1>5. CASE ServeDeferred
    <2>1. /\ server # "abuf" /\ ~dead /\ serving = Nil /\ ~BufEmpty(db) /\ Execute(BufFront(db)) /\ db' = BufRemove(db)
          /\ UNCHANGED <<server, inserts, dead>>
      BY <1>5 DEF ServeDeferred
    <2>2. PICK d \in Seq(Users) : Holds(db, d) /\ Deferred(d)
      BY <1>0, <2>1 DEF QueueInv, DeferredInv
    <2>3. d # <<>>
      BY <2>1, <2>2, FrontHolds
    <2>4. PICK u \in Users : u = BufFront(db) /\ u = d[1]
      BY <2>2, <2>3, FrontHolds
    <2>5. user[u].pc = "wait" /\ Unserved(u)
      BY <2>2, <2>3, <2>4 DEF Deferred
    <2>6. PICK r \in Seq(Users) : r = Tail(d) /\ Len(r) = Len(d) - 1 /\ \A i \in 1 .. Len(r) : r[i] = d[i + 1]
      BY <2>3, HeadTailProperties
    <2>7. Holds(db', r)
      BY <2>1, <2>2, <2>3, <2>6, RemoveHolds
    <2>8. ASSUME NEW i \in 1 .. Len(r) PROVE user'[r[i]].pc = "wait" /\ user'[r[i]].result = <<>>
      <3>1. i + 1 \in 1 .. Len(d) /\ r[i] = d[i + 1] /\ 1 \in 1 .. Len(d) /\ i + 1 # 1 /\ r[i] \in Users
        BY <2>3, <2>6, ElementOfSeq
      <3>2. r[i] # u
        BY <2>2, <2>4, <3>1 DEF Holds
      <3>3. user[r[i]].pc = "wait" /\ user[r[i]].result = <<>>
        BY <2>2, <3>1 DEF Deferred, Unserved
      <3>4. \E raced : user'[r[i]] = [user[r[i]] EXCEPT !.raced = raced]
        BY <2>1, <2>4, <3>1, <3>2 DEF Execute
      <3> QED BY <1>0, <3>1, <3>3, <3>4 DEF UserShape
    <2>9. DeferredInv'
      BY <2>7, <2>8 DEF DeferredInv, Deferred, Unserved
    <2> QED BY <2>1, <2>4, <2>5, <2>9, ExecuteInv
  <1>6. ASSUME NEW u \in Users, Receive(u) PROVE BufInv'
    <2>1. /\ server # "abuf" /\ ~dead /\ serving = Nil /\ user[u].pc = "want" /\ Execute(u)
          /\ UNCHANGED <<server, db, inserts, dead>>
      BY <1>6 DEF Receive, Receives
    <2>2. PICK d \in Seq(Users) : Holds(db, d) /\ Deferred(d)
      BY <1>0, <2>1 DEF QueueInv, DeferredInv
    <2>3. ASSUME NEW i \in 1 .. Len(d) PROVE user'[d[i]].pc = "wait" /\ user'[d[i]].result = <<>>
      <3>1. user[d[i]].pc = "wait" /\ user[d[i]].result = <<>> /\ d[i] \in Users
        BY <2>2, ElementOfSeq DEF Deferred, Unserved
      <3>2. \E raced : user'[d[i]] = [user[d[i]] EXCEPT !.raced = raced]
        BY <2>1, <3>1 DEF Execute
      <3> QED BY <1>0, <3>1, <3>2 DEF UserShape
    <2>4. DeferredInv'
      BY <2>1, <2>2, <2>3 DEF DeferredInv, Deferred, Unserved
    <2> QED BY <2>1, <2>4, ExecuteInv
  <1>7. ASSUME NEW u \in Users, Defer(u) PROVE BufInv'
    <2>1. /\ server # "abuf" /\ ~dead /\ serving = Nil /\ user[u].pc = "want" /\ user[u].req \in deferOnEmpty
          /\ db' = BufInsert(db, u) /\ UNCHANGED <<server, sb, serving, inserts, dead>>
          /\ user'[u] = [user[u] EXCEPT !.pc = "wait"]
          /\ \A v \in Users : v # u => user'[v] = user[v]
          /\ user' = [v \in Users |-> user'[v]]
      BY <1>0, <1>7 DEF Defer, Receives, UserShape
    <2>2. Unserved(u) /\ user[u].req = user[u].op
      BY <1>0, <2>1 DEF CallInv, deferOnEmpty
    <2>3. /\ user'[u].pc = "wait" /\ user'[u].op = user[u].op /\ user'[u].req = user[u].req /\ user'[u].val = user[u].val
          /\ user'[u].result = <<>> /\ user'[u].raced = user[u].raced
          /\ user'[u] = [pc |-> user'[u].pc, op |-> user'[u].op, req |-> user'[u].req, val |-> user'[u].val,
                         result |-> user'[u].result, raced |-> user'[u].raced]
      BY <1>0, <2>1, <2>2 DEF UserShape, Unserved
    <2>4. PICK d \in Seq(Users) : Holds(db, d) /\ Deferred(d)
      BY <1>0, <2>1 DEF QueueInv, DeferredInv
    <2>5. PICK r \in Seq(Users) : /\ r = Append(d, u) /\ Len(r) = Len(d) + 1
                                  /\ \A i \in 1 .. Len(d) : r[i] = d[i]
                                  /\ r[Len(d) + 1] = u
      BY AppendProperties
    <2>6. \A i \in 1 .. Len(d) : d[i] # u
      BY <2>1, <2>4 DEF Deferred
    <2>7. Holds(db', r)
      BY <1>0, <2>1, <2>4, <2>5, <2>6, InsertHolds
    <2>8. ASSUME NEW i \in 1 .. Len(r) PROVE user'[r[i]].pc = "wait" /\ user'[r[i]].result = <<>>
      <3>1. CASE i = Len(d) + 1
        BY <2>3, <2>5, <3>1
      <3>2. CASE i \in 1 .. Len(d)
        <4>1. r[i] = d[i] /\ d[i] \in Users /\ d[i] # u
          BY <2>5, <2>6, <3>2, ElementOfSeq
        <4>2. user[d[i]].pc = "wait" /\ user[d[i]].result = <<>>
          BY <2>4, <3>2 DEF Deferred, Unserved
        <4> QED BY <2>1, <4>1, <4>2
      <3>3. i = Len(d) + 1 \/ i \in 1 .. Len(d)
        BY <2>5
      <3> QED BY <3>1, <3>2, <3>3
    <2>9. DeferredInv'
      BY <2>7, <2>8 DEF DeferredInv, Deferred, Unserved
    <2>10. QueueInv'
      BY <1>0, <2>1, <2>9 DEF QueueInv, ValuesInv
    <2>11. UserShape' /\ (\A v \in Users : CallInv(v)')
      BY <1>0, <2>1, <2>2, <2>3 DEF UserShape, CallInv, UserPcs, Unserved
    <2>12. NewValInv'
      BY <1>0, <2>1, <2>2, <2>3 DEF NewValInv, Unserved
    <2>13. TokenInv' /\ ReplyInv'
      BY <1>0, <2>1, <2>2, <2>3 DEF TokenInv, ReplyInv, Unserved
    <2> QED BY <1>0, <2>1, <2>10, <2>11, <2>12, <2>13 DEF BufInv
  <1>8. ASSUME NEW u \in Users, Reply(u) PROVE BufInv'
    <2>1. /\ serving = u /\ user[u].pc = "wait" /\ ~dead /\ serving' = Nil /\ UNCHANGED <<server, sb, db, inserts, dead>>
          /\ user'[u] = (IF server = "sserver" \/ user[u].req \in {"contents", "string"} THEN Out
                         ELSE IF user[u].req = "list" THEN [user[u] EXCEPT !.pc = "read"]
                         ELSE [user[u] EXCEPT !.pc = "want", !.req = "string"])
          /\ \A v \in Users : v # u => user'[v] = user[v]
          /\ user' = [v \in Users |-> user'[v]]
      BY <1>0, <1>8 DEF Reply, UserShape
    <2>2. server # "abuf" /\ ~Unserved(u) /\ user[u].req \in {user[u].op, "string"} /\ ~user[u].raced /\ user[u].op \in AllOps
      BY <1>0, <2>1 DEF CallInv, TokenInv, ReplyInv
    <2>3. QueueInv'
      BY <1>0, <2>1, <2>2, QueueFrame DEF Unserved
    <2>4. /\ user'[u] = [pc |-> user'[u].pc, op |-> user'[u].op, req |-> user'[u].req, val |-> user'[u].val,
                         result |-> user'[u].result, raced |-> user'[u].raced]
          /\ user'[u] = Out \/ (/\ user'[u].op = user[u].op /\ user'[u].val = user[u].val /\ user'[u].result = user[u].result
                                /\ user'[u].raced = user[u].raced
                                /\ \/ user'[u].pc = "read" /\ user[u].op = "list"
                                   \/ user'[u].pc = "want" /\ user'[u].req = "string")
      <3>1. CASE user'[u] = Out
        BY <3>1 DEF Out
      <3>2. CASE user'[u] = [user[u] EXCEPT !.pc = "read"] /\ user[u].req = "list"
        BY <1>0, <2>2, <3>2 DEF UserShape
      <3>3. CASE user'[u] = [user[u] EXCEPT !.pc = "want", !.req = "string"]
        <4>1. user'[u] = [pc |-> "want", op |-> user[u].op, req |-> "string", val |-> user[u].val,
                          result |-> user[u].result, raced |-> user[u].raced]
          BY <1>0, <3>3 DEF UserShape
        <4> QED BY <4>1
      <3> QED BY <2>1, <3>1, <3>2, <3>3
    <2>5. UserShape' /\ (\A v \in Users : CallInv(v)')
      <3>1. CallInv(u)'
        BY <1>0, <2>1, <2>2, <2>4 DEF CallInv, UserPcs, Unserved, Out
      <3>2. \A v \in Users : v # u => CallInv(v)'
        BY <1>0, <2>1 DEF CallInv, UserPcs, Unserved
      <3> QED BY <2>1, <1>0, <2>4, <3>1, <3>2 DEF UserShape
    <2>6. NewValInv'
      <3>1. user'[u].op = "none" \/ user'[u].result # <<>>
        BY <2>2, <2>4 DEF Out, Unserved
      <3>2. ASSUME NEW v \in Users, user'[v].op = "insert", user'[v].result = <<>>
            PROVE  v # u /\ user'[v] = user[v]
        BY <2>1, <3>1, <3>2
      <3> QED BY <1>0, <2>1, <3>2 DEF NewValInv, Unserved
    <2>7. TokenInv' /\ ReplyInv'
      <3>1. user'[u].pc \notin {"wait", "work"}
        BY <2>4 DEF Out
      <3>2. \A v \in Users : v # u => ~(user[v].pc = "wait" /\ ~Unserved(v))
        BY <1>0, <2>1, <2>2 DEF ReplyInv
      <3> QED BY <1>0, <2>1, <2>2, <3>1, <3>2 DEF TokenInv, ReplyInv, Unserved
    <2> QED BY <1>0, <2>1, <2>3, <2>5, <2>6, <2>7 DEF BufInv
  <1>9. ASSUME NEW u \in Users, ReadList(u) \/ CallFails(u) PROVE BufInv'
    <2>1. /\ user[u].pc \notin {"out", "gone"} /\ UNCHANGED <<server, sb, db, serving, inserts, dead>>
          /\ user'[u].pc \in {"out", "gone"} /\ user'[u].op = "none" /\ user'[u].result = <<>> /\ user'[u].val = 0
          /\ ~user'[u].raced
          /\ user'[u] = [pc |-> user'[u].pc, op |-> user'[u].op, req |-> user'[u].req, val |-> user'[u].val,
                         result |-> user'[u].result, raced |-> user'[u].raced]
          /\ \A v \in Users : v # u => user'[v] = user[v]
          /\ user' = [v \in Users |-> user'[v]]
          /\ user[u].pc = "read" \/ dead
      BY <1>0, <1>9 DEF ReadList, CallFails, UserShape, Out
    <2>2. QueueInv'
      <3>1. CASE dead
        BY <1>0, <2>1, <3>1 DEF QueueInv, ValuesInv, DeferredInv
      <3>2. CASE ~dead
        BY <1>0, <2>1, <3>2, QueueFrame
      <3> QED BY <3>1, <3>2
    <2>3. UserShape' /\ (\A v \in Users : CallInv(v)')
      BY <1>0, <2>1 DEF UserShape, CallInv, UserPcs, Unserved
    <2>4. NewValInv'
      BY <1>0, <2>1 DEF NewValInv, Unserved
    <2>5. TokenInv' /\ ReplyInv'
      BY <1>0, <2>1 DEF TokenInv, ReplyInv, Unserved
    <2> QED BY <1>0, <2>1, <2>2, <2>3, <2>4, <2>5 DEF BufInv
  <1>10. ASSUME NEW u \in Users, ReadRaced(u) PROVE BufInv'
    <2>1. user[u].pc = "read" /\ dead' = TRUE /\ UNCHANGED <<server, sb, db, serving, user, inserts>>
      BY <1>10 DEF ReadRaced
    <2>2. server # "abuf"
      BY <1>0, <2>1 DEF TokenInv
    <2>3. QueueInv'
      BY <1>0, <2>1 DEF QueueInv, ValuesInv, DeferredInv
    <2>4. UserShape' /\ (\A v \in Users : CallInv(v)') /\ NewValInv'
      BY <1>0, <2>1 DEF UserShape, CallInv, Unserved, NewValInv
    <2>5. TokenInv' /\ ReplyInv'
      BY <1>0, <2>1, <2>2 DEF TokenInv, ReplyInv, Unserved
    <2> QED BY <1>0, <2>1, <2>3, <2>4, <2>5 DEF BufInv
  <1>11. CASE UNCHANGED bufferVars
    <2>1. UNCHANGED <<server, sb, db, serving, user, inserts, dead>>
      BY <1>11 DEF bufferVars
    <2>2. QueueInv'
      BY <1>0, <2>1, QueueFrame
    <2>3. UserShape' /\ (\A v \in Users : CallInv(v)') /\ NewValInv' /\ TokenInv' /\ ReplyInv'
      BY <1>0, <2>1 DEF UserShape, CallInv, Unserved, NewValInv, TokenInv, ReplyInv
    <2> QED BY <1>0, <2>1, <2>2, <2>3 DEF BufInv
  <1>12. ASSUME NEW u \in Users, startop(u) \/ startread(u) PROVE BufInv'
    BY <1>2, <1>12 DEF startop, startread
  <1> QED
    BY <1>1, <1>3, <1>4, <1>5, <1>6, <1>7, <1>8, <1>9, <1>10, <1>11, <1>12 DEF BufferNext, UserStep

(***************************************************************************)
(* The refinement: what the list holds is the queue.                       *)
(***************************************************************************)
Called(v) == [op |-> user[v].op, val |-> user[v].val, result |-> user[v].result]
SameCall(v) == user'[v].op = user[v].op /\ user'[v].val = user[v].val /\ user'[v].result = user[v].result

\* Steps between call, execution and return.
LEMMA Stutters ==
  ASSUME UNCHANGED <<sb, dead>>, \A v \in Users : SameCall(v)
  PROVE  UNCHANGED Promise!specVars
  BY DEF SameCall, Promise!specVars

\* The execution of an operation is that of the specification.
LEMMA Performs ==
  ASSUME BufInv, NEW u \in Users, user[u].op \in AllOps, Unserved(u), user[u].req = user[u].op, ~dead, dead' = dead,
         user[u].op \in deferOnEmpty => ~BufEmpty(sb),
         sb' = AfterOp(u), user'[u].op = user[u].op, user'[u].val = user[u].val, user'[u].result = ResultOp(u),
         \A v \in Users : v # u => SameCall(v)
  PROVE  Promise!Perform(u)
  <1>1. PICK q \in Seq(0 .. MaxInserts) : Holds(sb, q)
    BY DEF BufInv, QueueInv, ValuesInv
  <1>2. PICK p \in Seq(0 .. MaxInserts) : p = QueueAfter(u, q) /\ Holds(sb', p)
    BY <1>1, AfterOpHolds
  <1>3. BufContents(sb) = q /\ BufContents(sb)' = p
    BY <1>1, <1>2, ContentsHolds
  <1>4. (BufEmpty(sb) <=> q = <<>>) /\ (q # <<>> => BufFront(sb) = Head(q))
    BY <1>1, FrontHolds
  <1>5. Promise!Pending(u)
    BY DEF Promise!Pending, Promise!Running, Unserved, AllOps
  <1>6. ASSUME NEW r, ResultOp(u) = <<r>> PROVE Promise!Effect(u, p, r)
    <2>1. \A v \in Users : user'[v].op = user[v].op /\ user'[v].val = user[v].val
                           /\ user'[v].result = (IF v = u THEN <<r>> ELSE user[v].result)
      BY <1>6 DEF SameCall
    <2> QED BY <1>3, <2>1 DEF Promise!Effect
  <1>7. CASE user[u].op = "insert"
    <2>1. p = Append(q, user[u].val) /\ ResultOp(u) = <<"nil">>
      BY <1>2, <1>7 DEF QueueAfter, ResultOp
    <2> QED BY <1>3, <1>5, <1>6, <1>7, <2>1 DEF Promise!Perform
  <1>8. CASE user[u].op = "remove"
    <2>1. q # <<>> /\ p = Tail(q) /\ ResultOp(u) = <<Head(q)>>
      BY <1>2, <1>4, <1>8 DEF QueueAfter, ResultOp, deferOnEmpty
    <2>2. Promise!Effect(u, Tail(q), Head(q))
      BY <1>6, <2>1
    <2>3. Promise!Effect(u, Tail(BufContents(sb)), Head(BufContents(sb))) /\ BufContents(sb) # <<>>
      BY <1>3, <2>1, <2>2 DEF Promise!Effect
    <2> QED BY <1>5, <1>8, <2>3 DEF Promise!Perform
  <1>9. CASE user[u].op = "front"
    <2>1. q # <<>> /\ p = q /\ ResultOp(u) = <<Head(q)>>
      BY <1>2, <1>4, <1>9 DEF QueueAfter, ResultOp, deferOnEmpty
    <2>2. Promise!Effect(u, q, Head(q))
      BY <1>6, <2>1
    <2>3. Promise!Effect(u, BufContents(sb), Head(BufContents(sb))) /\ BufContents(sb) # <<>>
      BY <1>3, <2>1, <2>2 DEF Promise!Effect
    <2> QED BY <1>5, <1>9, <2>3 DEF Promise!Perform
  <1>10. CASE user[u].op = "empty"
    <2>1. p = q /\ ResultOp(u) = <<BufEmpty(sb)>>
      BY <1>2, <1>10 DEF QueueAfter, ResultOp
    <2>2. PICK r : r = (q = <<>>)
      OBVIOUS
    <2>3. r = BufEmpty(sb)
      BY <1>4, <2>2 DEF BufEmpty
    <2>4. Promise!Effect(u, q, r)
      BY <1>6, <2>1, <2>3
    <2>5. r = (BufContents(sb) = <<>>) /\ Promise!Effect(u, BufContents(sb), r)
      BY <1>3, <2>2, <2>4
    <2> QED BY <1>5, <1>10, <2>5 DEF Promise!Perform, Promise!Effect
  <1>11. CASE user[u].op = "flush"
    <2>1. p = <<>> /\ ResultOp(u) = <<"nil">>
      BY <1>2, <1>11 DEF QueueAfter, ResultOp
    <2> QED BY <1>3, <1>5, <1>6, <1>11, <2>1 DEF Promise!Perform
  <1>12. CASE user[u].op = "contents"
    <2>1. p = q /\ ResultOp(u) = <<q>>
      BY <1>2, <1>3, <1>12 DEF QueueAfter, ResultOp
    <2>2. Promise!Effect(u, q, q)
      BY <1>6, <2>1
    <2>3. Promise!Effect(u, BufContents(sb), BufContents(sb))
      BY <1>3, <2>1, <2>2 DEF Promise!Effect
    <2> QED BY <1>5, <1>12, <2>3 DEF Promise!Perform
  <1>13. CASE user[u].op = "list"
    <2>1. p = q /\ ResultOp(u) = <<<<>>>>
      BY <1>2, <1>13 DEF QueueAfter, ResultOp
    <2> QED BY <1>3, <1>5, <1>6, <1>13, <2>1 DEF Promise!Perform
  <1> QED BY <1>7, <1>8, <1>9, <1>10, <1>11, <1>12, <1>13 DEF AllOps

\* A call ends, with its answer or, once the process has gone, without.
LEMMA Returns ==
  ASSUME NEW u \in Users, user[u].op # "none", ~Unserved(u) \/ dead, UNCHANGED <<sb, dead>>,
         user'[u].op = "none", user'[u].val = 0, user'[u].result = <<>>,
         \A v \in Users : v # u => SameCall(v)
  PROVE  Promise!Return(u) \/ Promise!Fail(u)
  BY DEF Promise!Return, Promise!Fail, Promise!Running, Promise!Pending, Promise!Ended, Unserved, SameCall

LEMMA BufferSteps == BufInv /\ [BufferNext]_bufferVars => [Promise!Next]_Promise!specVars
  <1> SUFFICES ASSUME BufInv, [BufferNext]_bufferVars PROVE [Promise!Next]_Promise!specVars
    OBVIOUS
  <1>0. /\ UserShape /\ (\A u \in Users : CallInv(u)) /\ QueueInv /\ TokenInv /\ ReplyInv
        /\ inserts \in Nat /\ MaxInserts \in Nat
    BY BufferAssumption DEF BufInv
  <1> USE DEF Is
  <1>1. ASSUME NEW u \in Users, NEW op \in AllOps, CallOp(u, op) PROVE Promise!Invoke(u)
    <2>1. /\ user[u].pc = "out" /\ UNCHANGED <<sb, dead>>
          /\ op = "insert" => inserts < MaxInserts
          /\ user'[u] = [pc |-> "want", op |-> op, req |-> op, val |-> IF op = "insert" THEN inserts + 1 ELSE 0,
                         result |-> <<>>, raced |-> FALSE]
          /\ \A v \in Users : v # u => user'[v] = user[v]
      BY <1>0, <1>1 DEF CallOp, UserShape
    <2>2. user[u].op = "none"
      BY <1>0, <2>1 DEF CallInv
    <2>3. PICK val \in 0 .. MaxInserts : user'[u].op = op /\ user'[u].val = val /\ user'[u].result = <<>>
      <3>1. (IF op = "insert" THEN inserts + 1 ELSE 0) \in 0 .. MaxInserts
        BY <1>0, <2>1
      <3> QED BY <2>1, <3>1
    <2>4. \A w \in Users : Called(w)' = IF w = u THEN [op |-> op, val |-> val, result |-> <<>>] ELSE Called(w)
      BY <2>1, <2>3 DEF Called
    <2>5. [w \in Users |-> Called(w)]'
            = [[w \in Users |-> Called(w)] EXCEPT ![u] = [op |-> op, val |-> val, result |-> <<>>]]
      BY <2>4
    <2>6. ~Promise!Running(u)
      BY <2>2 DEF Promise!Running
    <2> QED BY <2>1, <2>5, <2>6 DEF Promise!Invoke, Called
  <1>2. ASSUME NEW u \in Users, startop(u) \/ startread(u) PROVE UNCHANGED Promise!specVars
    <2>1. Director(u)
      BY <1>2 DEF startop, startread
    <2>2. UNCHANGED <<sb, dead>> /\ \A v \in Users : SameCall(v)
      BY <1>0, <2>1 DEF Director, UserShape, SameCall
    <2> QED BY <2>2, Stutters
  <1>3. ASSUME NEW u \in Users, finish(u) PROVE Promise!Return(u) \/ Promise!Fail(u)
    <2>1. /\ user[u].pc = "work" /\ ~Unserved(u) /\ UNCHANGED <<sb, dead>> /\ user'[u] = Out
          /\ \A v \in Users : v # u => user'[v] = user[v]
      BY <1>0, <1>3 DEF finish, UserShape, Unserved
    <2>2. user[u].op # "none"
      BY <1>0, <2>1 DEF CallInv, AllOps
    <2> QED BY <2>1, <2>2, Returns DEF Out, SameCall
  <1>4. ASSUME NEW u \in Users, Operate(u) PROVE Promise!Perform(u)
    <2>1. /\ user[u].pc = "work" /\ Unserved(u) /\ sb' = AfterOp(u) /\ dead' = dead
          /\ user'[u] = [user[u] EXCEPT !.result = ResultOp(u)]
          /\ \A v \in Users : v # u => user'[v] = user[v]
      BY <1>0, <1>4 DEF Operate, UserShape, Unserved
    <2>2. /\ user[u].req = user[u].op /\ user[u].op \in AllOps /\ ~dead
          /\ user[u].op \in deferOnEmpty => ~BufEmpty(sb)
      BY <1>0, <2>1 DEF CallInv, TokenInv, ReplyInv
    <2>3. user'[u].op = user[u].op /\ user'[u].val = user[u].val /\ user'[u].result = ResultOp(u)
      BY <1>0, <2>1 DEF UserShape
    <2>4. \A v \in Users : v # u => SameCall(v)
      BY <2>1 DEF SameCall
    <2> QED BY <2>1, <2>2, <2>3, <2>4, Performs
  <1>5. ASSUME NEW u \in Users, Execute(u), ~dead, dead' = dead,
               user[u].pc = "want" \/ (user[u].pc = "wait" /\ Unserved(u)),
               user[u].req \in deferOnEmpty => ~BufEmpty(sb)
        PROVE  Promise!Perform(u) \/ UNCHANGED Promise!specVars
    <2>1. /\ sb' = AfterOp(u) /\ user'[u] = [user[u] EXCEPT !.pc = "wait", !.result = ResultOp(u)]
          /\ \A v \in Users : v # u => \E raced : user'[v] = [user[v] EXCEPT !.raced = raced]
      BY <1>5 DEF Execute
    <2>2. user'[u].op = user[u].op /\ user'[u].val = user[u].val /\ user'[u].result = ResultOp(u)
      BY <1>0, <2>1 DEF UserShape
    <2>3. ASSUME NEW v \in Users, v # u PROVE SameCall(v)
      <3>1. PICK raced : user'[v] = [user[v] EXCEPT !.raced = raced]
        BY <2>1, <2>3
      <3>2. user[v] = [pc |-> user[v].pc, op |-> user[v].op, req |-> user[v].req, val |-> user[v].val,
                       result |-> user[v].result, raced |-> user[v].raced]
        BY <1>0 DEF UserShape
      <3> QED BY <3>1, <3>2 DEF SameCall
    <2>4. /\ user[u].op \in AllOps
          /\ IF Unserved(u) THEN user[u].req = user[u].op ELSE user[u].req = "string"
      BY <1>0, <1>5 DEF CallInv
    <2>5. CASE Unserved(u)
      BY <1>5, <2>1, <2>2, <2>3, <2>4, <2>5, Performs
    <2>6. CASE ~Unserved(u)
      <3>1. AfterOp(u) = sb /\ ResultOp(u) = user[u].result
        BY <2>4, <2>6 DEF AfterOp, ResultOp
      <3>2. UNCHANGED <<sb, dead>> /\ \A v \in Users : SameCall(v)
        BY <1>5, <2>1, <2>2, <2>3, <3>1 DEF SameCall
      <3> QED BY <3>2, Stutters
    <2> QED BY <2>5, <2>6
  <1>6. CASE ServeDeferred
    <2>1. ~dead /\ dead' = dead /\ ~BufEmpty(db) /\ ~BufEmpty(sb) /\ Execute(BufFront(db))
      BY <1>6 DEF ServeDeferred
    <2>2. PICK d \in Seq(Users) : Holds(db, d) /\ Deferred(d)
      BY <1>0, <2>1 DEF QueueInv, DeferredInv
    <2>3. d # <<>>
      BY <2>1, <2>2, FrontHolds
    <2>4. PICK u \in Users : u = BufFront(db) /\ u = d[1]
      BY <2>2, <2>3, FrontHolds
    <2>5. user[u].pc = "wait" /\ Unserved(u)
      BY <2>2, <2>3, <2>4 DEF Deferred
    <2>6. Promise!Perform(u) \/ UNCHANGED Promise!specVars
      BY <1>5, <2>1, <2>4, <2>5
    <2> QED BY <2>6 DEF Promise!Next
  <1>7. ASSUME NEW u \in Users, Receive(u) PROVE Promise!Perform(u) \/ UNCHANGED Promise!specVars
    <2>1. /\ ~dead /\ dead' = dead /\ user[u].pc = "want" /\ Execute(u)
          /\ user[u].req \in deferOnEmpty => ~BufEmpty(sb)
      BY <1>7 DEF Receive, Receives
    <2> QED BY <1>5, <2>1
  <1>8. ASSUME NEW u \in Users, Defer(u) PROVE UNCHANGED Promise!specVars
    <2>1. UNCHANGED <<sb, dead>> /\ \A v \in Users : SameCall(v)
      BY <1>0, <1>8 DEF Defer, UserShape, SameCall
    <2> QED BY <2>1, Stutters
  <1>9. ASSUME NEW u \in Users, Reply(u)
        PROVE  Promise!Return(u) \/ Promise!Fail(u) \/ UNCHANGED Promise!specVars
    <2>1. /\ serving = u /\ user[u].pc = "wait" /\ ~dead /\ UNCHANGED <<sb, dead>>
          /\ \/ user'[u] = Out \/ user'[u] = [user[u] EXCEPT !.pc = "read"]
             \/ user'[u] = [user[u] EXCEPT !.pc = "want", !.req = "string"]
          /\ \A v \in Users : v # u => user'[v] = user[v]
      BY <1>0, <1>9 DEF Reply, UserShape
    <2>2. ~Unserved(u) /\ user[u].op # "none"
      <3>1. user[u].op \in AllOps /\ "none" \notin AllOps
        BY <1>0, <2>1 DEF CallInv, AllOps
      <3>2. server # "abuf" /\ serving # Nil
        BY <1>0, <2>1, BufferAssumption DEF TokenInv, Nil
      <3> QED BY <1>0, <2>1, <3>1, <3>2 DEF ReplyInv
    <2>3. \A v \in Users : v # u => SameCall(v)
      BY <2>1 DEF SameCall
    <2>4. CASE user'[u] = Out
      BY <2>1, <2>2, <2>3, <2>4, Returns DEF Out
    <2>5. CASE user'[u] # Out
      <3>1. SameCall(u)
        BY <1>0, <2>1, <2>5 DEF UserShape, SameCall
      <3> QED BY <2>1, <2>3, <3>1, Stutters
    <2> QED BY <2>4, <2>5
  <1>10. ASSUME NEW u \in Users, ReadList(u) \/ CallFails(u) PROVE Promise!Return(u) \/ Promise!Fail(u)
    <2>1. /\ user[u].pc \notin {"out", "gone"} /\ UNCHANGED <<sb, dead>>
          /\ user'[u].op = "none" /\ user'[u].result = <<>> /\ user'[u].val = 0
          /\ \A v \in Users : v # u => user'[v] = user[v]
          /\ user[u].pc = "read" \/ dead
      BY <1>0, <1>10 DEF ReadList, CallFails, UserShape, Out
    <2>2. user[u].op # "none" /\ (~Unserved(u) \/ dead)
      BY <1>0, <2>1 DEF CallInv, AllOps
    <2>3. \A v \in Users : v # u => SameCall(v)
      BY <2>1 DEF SameCall
    <2> QED BY <2>1, <2>2, <2>3, Returns
  <1>11. ASSUME NEW u \in Users, ReadRaced(u) PROVE Promise!Break
    <2>1. user[u].pc = "read" /\ dead' = TRUE /\ UNCHANGED <<sb, user>>
      BY <1>11 DEF ReadRaced
    <2>2. user[u].op = "list" /\ user[u].result # <<>>
      BY <1>0, <2>1 DEF CallInv, Unserved
    <2> QED BY <2>1, <2>2 DEF Promise!Break, Promise!Pending
  <1>12. CASE UNCHANGED bufferVars
    BY <1>12 DEF bufferVars, Promise!specVars
  <1> QED
    BY <1>1, <1>2, <1>3, <1>4, <1>6, <1>7, <1>8, <1>9, <1>10, <1>11, <1>12 DEF BufferNext, UserStep, Promise!Next

\* Each of the three buffers is a queue: the operations of any number of users
\* take effect once each, between call and return and in one order, and Remove
\* and Front of an empty buffer wait (director, runServer, bufi).
THEOREM BuffersAreQueues == BuffersSpec => BufferImplements
  <1>1. BufferInit => Promise!Init
    <2> SUFFICES ASSUME BufferInit PROVE Promise!Init
      OBVIOUS
    <2>1. <<>> \in Seq(Nat) /\ Holds(sb, <<>>)
      BY NewHolds DEF BufferInit
    <2>2. BufContents(sb) = <<>>
      BY <2>1, ContentsHolds
    <2>3. \A u \in Users : user[u].op = "none" /\ user[u].val = 0 /\ user[u].result = <<>>
      BY DEF BufferInit, Out
    <2> QED BY <2>2, <2>3 DEF BufferInit, Promise!Init, Promise!Ended
  <1>2. BuffersSpec => []BufInv
    BY InitBufInv, NextBufInv, PTL DEF BuffersSpec
  <1> QED
    BY <1>1, <1>2, BufferSteps, PTL DEF BuffersSpec, BufferImplements
===========================================================================
