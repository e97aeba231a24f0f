--------------------------- MODULE TribblerProofs ---------------------------
(***************************************************************************)
(* Tribbles that were accepted are kept, a failed reading has a reason and *)
(* one that succeeds is complete, for any number of users, servers, calls  *)
(* and restarts.  What a storage operation relies on was read by an        *)
(* earlier one, so the invariant says for each call what still holds of    *)
(* it: the list it read is how the list still begins, its id is in no      *)
(* other tribble, the ids it has left to fetch lead to tribbles, and what  *)
(* it does not find any more is older than enough of what it has found, of *)
(* every author whose list was not read from an out-of-date copy.          *)
(***************************************************************************)
EXTENDS Tribbler, FiniteSetTheorems, SequenceTheorems, TLAPS

Pcs == {"idle", "user", "create", "target", "read", "write", "put", "follows", "list", "fetch", "answer"}

\* What a call keeps.
Whole(c) == c = [pc |-> c.pc, kind |-> c.kind, target |-> c.target, id |-> c.id,
                 list |-> c.list, todo |-> c.todo, ids |-> c.ids, tribs |-> c.tribs,
                 status |-> c.status, since |-> c.since, overlap |-> c.overlap, old |-> c.old]
OpShape(u) ==
    \/ op[u] = NoOp
    \/ Whole(op[u]) /\ op[u].pc \in Pcs \ {"idle"} /\ op[u].kind \in TribCalls /\ op[u].id \in Nat

Shape ==
    /\ conn \in [Members -> TribServers] /\ srvId \in [TribServers -> Nat]
    /\ op = [u \in Members |-> op[u]] /\ \A u \in Members : OpShape(u)
    /\ DOMAIN tribsKey \subseteq Members /\ tribsKey \in [DOMAIN tribsKey -> Seq(Nat)]

\* The ids in the list of u.
Ids(u) == ToSet(OrEmpty(tribsKey, u))

\* No list has an id twice.
ListsInv == \A u \in DOMAIN tribsKey : \A i, j \in DOMAIN tribsKey[u] : tribsKey[u][i] = tribsKey[u][j] => i = j

\* What was answered OK is in the list and under its key.
PostedInv ==
    \A p \in okPosts : /\ p.user \in Members /\ p.id \in Ids(p.user)
                       /\ Key(p.user, p.id) \in DOMAIN tribKey /\ tribKey[Key(p.user, p.id)].posted = p.posted

\* Only the call of its user changes a list: between its reading and its
\* writing the list stays as it was read.
AppendAt(u) == op[u].pc = "write" /\ op[u].kind = "post" =>
                   op[u].list = OrEmpty(tribsKey, u) /\ op[u].id \notin Ids(u)

\* An id that entered the list belongs to no earlier tribble.
PutAt(u) == op[u].pc = "put" => /\ op[u].kind = "post" /\ op[u].id \in Ids(u)
                                /\ \A p \in okPosts : p.user = u => p.id # op[u].id

\* An id in a list leads to a tribble, except between the two writes of a post.
ThereInv ==
    \A w \in Members : \A x \in Ids(w) :
        Key(w, x) \in DOMAIN tribKey \/ (op[w].pc = "put" /\ op[w].id = x) \/ w \in unsure

\* A reading knows who posts meanwhile.
OverlapInv == \A u, w \in Members : Running(u) /\ op[u].kind \in Readings /\ Posting(w) => w \in op[u].overlap

\* The reasons for which the reading of u may miss a tribble of w.
Excused(u, w) == conn[w] # conn[u] \/ w \in op[u].overlap \/ w \in unsure

FetchAt(u) ==
    /\ op[u].pc = "follows" => op[u].kind \in {"subscriptions", "timeline"}
    /\ op[u].pc = "list" => op[u].kind \in Readings
    /\ op[u].pc = "fetch" =>
         /\ op[u].kind \in Readings /\ op[u].ids \in Seq(Nat)
         /\ \A x \in ToSet(op[u].ids) :
                Key(Head(op[u].todo), x) \in DOMAIN tribKey \/ Excused(u, Head(op[u].todo))
    /\ op[u].pc = "answer" /\ op[u].status = "error" => \E w \in ToSet(op[u].todo) : Excused(u, w)

CallInv(u) == AppendAt(u) /\ PutAt(u) /\ FetchAt(u)

Listed(w) == OrEmpty(tribsKey, w)

\* A list that was read is how the list began.
Earlier(l, w) == l \in Seq(Nat) /\ \A i \in DOMAIN l : i \in DOMAIN Listed(w) /\ l[i] = Listed(w)[i]
TribsHeldInv ==
    /\ tribsHeld = [s \in TribServers |-> [w \in Members |-> tribsHeld[s][w]]]
    /\ \A s \in TribServers, w \in Members : \A l \in tribsHeld[s][w] : Earlier(l, w)

TribInv == /\ Shape /\ ListsInv /\ PostedInv /\ ThereInv /\ OverlapInv
           /\ \A u \in Members : CallInv(u)

LEMMA InitTribInv == TribInit => TribInv
  <1> SUFFICES ASSUME TribInit PROVE TribInv
    OBVIOUS
  <1> USE DEF TribInit, NoOp
  <1>1. \A u \in Members : op[u] = NoOp /\ OrEmpty(tribsKey, u) = <<>> /\ Ids(u) = {}
    BY DEF OrEmpty, Ids, ToSet
  <1>2. Shape
    BY <1>1 DEF Shape, OpShape
  <1>3. ListsInv /\ PostedInv /\ ThereInv /\ OverlapInv
    BY <1>1 DEF ListsInv, PostedInv, ThereInv, OverlapInv, Running
  <1>4. \A u \in Members : CallInv(u)
    BY <1>1 DEF CallInv, AppendAt, PutAt, FetchAt
  <1> QED BY <1>2, <1>3, <1>4 DEF TribInv

\* A step of the call of u that writes neither list nor tribble.
LEMMA LocalStep ==
  ASSUME TribInv, NEW u \in Members, UNCHANGED <<conn, tribsKey, tribKey, okPosts, unsure>>,
         srvId' \in [TribServers -> Nat], op' = [v \in Members |-> op'[v]],
         \A v \in Members : v # u => op'[v] = op[v],
         OpShape(u)', op'[u].pc # "idle" => op[u].pc # "idle" /\ op'[u].kind = op[u].kind /\ op'[u].overlap = op[u].overlap,
         op[u].pc # "put", CallInv(u)'
  PROVE  TribInv'
  <1>1. Shape'
    BY DEF TribInv, Shape, OpShape
  <1>2. ListsInv'
    BY DEF TribInv, ListsInv
  <1>3. \A w : Ids(w)' = Ids(w)
    BY DEF Ids, OrEmpty, ToSet
  <1>4. PostedInv'
    BY <1>3 DEF TribInv, PostedInv, Key
  <1>5. ThereInv'
    BY <1>3 DEF TribInv, ThereInv, Key
  <1>6. OverlapInv'
    <2> SUFFICES ASSUME NEW v \in Members, NEW w \in Members, Running(v)', op'[v].kind \in Readings, Posting(w)'
                 PROVE  w \in op'[v].overlap
      BY DEF OverlapInv
    <2>1. Running(v) /\ op'[v].kind = op[v].kind /\ op'[v].overlap = op[v].overlap
      BY DEF Running
    <2>2. Posting(w)
      BY DEF Posting, Running
    <2> QED BY <2>1, <2>2 DEF TribInv, OverlapInv
  <1>7. ASSUME NEW v \in Members, v # u PROVE CallInv(v)'
    <2>1. CallInv(v) /\ op'[v] = op[v]
      BY <1>7 DEF TribInv
    <2> QED BY <1>3, <2>1 DEF CallInv, AppendAt, PutAt, FetchAt, Excused, Key, OrEmpty
  <1> QED BY <1>1, <1>2, <1>4, <1>5, <1>6, <1>7 DEF TribInv

\* A call that runs has all its fields.
LEMMA RunningShape ==
  ASSUME TribInv, NEW u \in Members, op[u].pc # "idle"
  PROVE  Whole(op[u]) /\ op[u].pc \in Pcs \ {"idle"} /\ op[u].kind \in TribCalls /\ op[u].id \in Nat
  BY DEF TribInv, Shape, OpShape, NoOp

\* The newest ids of a list are ids of it.
LEMMA NewestIds ==
  ASSUME NEW s \in Seq(Nat)
  PROVE  Newest(Reverse(s)) \in Seq(Nat) /\ ToSet(Newest(Reverse(s))) \subseteq ToSet(s)
  <1>1. PICK n : n = Len(s) /\ n \in Nat /\ DOMAIN s = 1 .. n
    BY LenProperties
  <1>2. PICK r : r = Reverse(s)
    OBVIOUS
  <1>3. r = [i \in 1 .. n |-> s[(n - i) + 1]]
    BY <1>1, <1>2 DEF Reverse
  <1>4. \A i \in 1 .. n : (n - i) + 1 \in 1 .. n /\ s[(n - i) + 1] \in Nat
    BY <1>1, ElementOfSeq
  <1>5. r \in Seq(Nat) /\ Len(r) = n
    <2>1. r \in [1 .. n -> Nat]
      BY <1>3, <1>4
    <2> QED BY <1>1, <2>1, SeqDef, LenProperties
  <1>6. PICK m \in 0 .. n : Newest(r) = SubSeq(r, 1, m)
    BY <1>5, <1>1, TribAssumption, SMTT(30) DEF Newest
  <1>7. /\ SubSeq(r, 1, m) \in Seq(Nat) /\ Len(SubSeq(r, 1, m)) = m
        /\ \A i \in 1 .. m : SubSeq(r, 1, m)[i] = r[i]
    BY <1>5, <1>6
  <1>8. ASSUME NEW x \in ToSet(Newest(r)) PROVE x \in ToSet(s)
    <2>1. PICK i \in 1 .. m : x = r[i]
      BY <1>6, <1>7 DEF ToSet
    <2>2. i \in 1 .. n
      BY <1>1, <1>6
    <2>3. x = s[(n - i) + 1] /\ (n - i) + 1 \in DOMAIN s
      BY <1>1, <1>3, <1>4, <2>1, <2>2
    <2> QED BY <2>3 DEF ToSet
  <1> QED BY <1>2, <1>6, <1>7, <1>8

\* A step after which the call is at c: over, answered, or about to read or to
\* write a list.
LEMMA PlainStep ==
  ASSUME TribInv, NEW u \in Members, UNCHANGED <<conn, tribsKey, tribKey, okPosts, unsure>>,
         srvId' \in [TribServers -> Nat], op[u].pc \notin {"idle", "put"},
         NEW c, op' = [op EXCEPT ![u] = c],
         \/ c = NoOp
         \/ /\ Whole(c)
            /\ c.pc \in Pcs \ {"idle", "put", "fetch"} /\ c.id \in Nat
            /\ c.kind = op[u].kind /\ c.overlap = op[u].overlap
            /\ c.pc = "follows" => c.kind \in {"subscriptions", "timeline"}
            /\ c.pc = "list" => c.kind \in Readings
            /\ c.pc = "write" /\ c.kind = "post" => c.list = OrEmpty(tribsKey, u) /\ c.id \notin Ids(u)
            /\ c.pc = "answer" => c.status # "error"
  PROVE  TribInv'
  <1>1. op = [v \in Members |-> op[v]]
    BY DEF TribInv, Shape
  <1>2. op' = [v \in Members |-> op'[v]] /\ op'[u] = c /\ \A v \in Members : v # u => op'[v] = op[v]
    BY <1>1
  <1>3. op[u].kind \in TribCalls
    BY RunningShape
  <1>4. Ids(u)' = Ids(u) /\ OrEmpty(tribsKey, u)' = OrEmpty(tribsKey, u)
    BY DEF Ids, OrEmpty
  <1>5. OpShape(u)'
    BY <1>2, <1>3 DEF OpShape
  <1>6. CallInv(u)'
    BY <1>2, <1>4 DEF CallInv, AppendAt, PutAt, FetchAt, NoOp, Pcs
  <1>7. op'[u].pc # "idle" => op[u].pc # "idle" /\ op'[u].kind = op[u].kind /\ op'[u].overlap = op[u].overlap
    BY <1>2 DEF NoOp
  <1> QED BY <1>2, <1>5, <1>6, <1>7, LocalStep

\* The steps that read, and those that write something else than tribbles.
LEMMA ReadingSteps ==
  ASSUME TribInv, NEW u \in Members,
         \/ GetUser(u) \/ GetPoster(u) \/ CreateUser(u) \/ GetTarget(u) \/ ReadToChange(u) \/ WriteFoll(u)
         \/ GetFollows(u) \/ Return(u)
  PROVE  TribInv'
  <1>0. Shape /\ CallInv(u) /\ op = [v \in Members |-> op[v]]
    BY DEF TribInv, Shape
  <1>1. op[u].pc \notin {"idle", "put"}
    BY DEF GetUser, GetPoster, CreateUser, GetTarget, ReadToChange, WriteFoll, GetFollows, Return
  <1>2. Whole(op[u]) /\ op[u].kind \in TribCalls /\ op[u].id \in Nat /\ op[u].pc \in Pcs
    BY <1>1, RunningShape
  <1>3. UNCHANGED <<conn, tribsKey, tribKey, okPosts, unsure>>
    BY DEF GetUser, GetPoster, CreateUser, GetTarget, ReadToChange, WriteFoll, GetFollows, Return, tribPast
  <1>4. conn[u] \in TribServers
    BY <1>0 DEF Shape
  <1>5. srvId' \in [TribServers -> Nat]
    <2>1. CASE GetPoster(u)
      BY <1>0, <1>4, <2>1 DEF Shape, GetPoster
    <2>2. CASE ~GetPoster(u)
      <3>1. UNCHANGED srvId
        BY <2>2 DEF GetUser, CreateUser, GetTarget, ReadToChange, WriteFoll, GetFollows, Return
      <3> QED BY <1>0, <3>1 DEF Shape
    <2> QED BY <2>1, <2>2
  <1>6. ASSUME NEW c, op' = [op EXCEPT ![u] = c], Whole(c),
               c.pc \in Pcs \ {"idle", "put", "fetch", "write"}, c.id \in Nat,
               c.kind = op[u].kind, c.overlap = op[u].overlap,
               c.pc = "follows" => c.kind \in {"subscriptions", "timeline"},
               c.pc = "list" => c.kind \in Readings,
               c.pc = "answer" => c.status # "error"
        PROVE  TribInv'
    BY <1>1, <1>3, <1>5, <1>6, PlainStep
  <1>7. ASSUME NEW pc \in Pcs \ {"idle", "put", "fetch", "write"}, Step(u, pc),
               pc = "follows" => op[u].kind \in {"subscriptions", "timeline"}, pc \notin {"list", "answer"}
        PROVE  TribInv'
    <2>1. PICK c : c = [op[u] EXCEPT !.pc = pc]
      OBVIOUS
    <2>2. Whole(c) /\ c.pc = pc /\ c.id = op[u].id /\ c.kind = op[u].kind /\ c.overlap = op[u].overlap
      BY <1>2, <2>1 DEF Whole
    <2>3. op' = [op EXCEPT ![u] = c]
      BY <1>0, <1>7, <2>1 DEF Step
    <2> QED BY <1>2, <1>6, <1>7, <2>2, <2>3
  <1>8. ASSUME NEW status, Finish(u, status), status # "error" PROVE TribInv'
    <2>1. PICK c : c = [op[u] EXCEPT !.pc = "answer", !.status = status]
      OBVIOUS
    <2>2. /\ Whole(c) /\ c.pc = "answer" /\ c.id = op[u].id /\ c.kind = op[u].kind /\ c.overlap = op[u].overlap
          /\ c.status = status
      BY <1>2, <2>1 DEF Whole
    <2>3. op' = [op EXCEPT ![u] = c]
      BY <1>0, <1>8, <2>1 DEF Finish
    <2> QED BY <1>2, <1>6, <1>8, <2>2, <2>3 DEF Pcs
  <1>9. CASE GetUser(u)
    <2>1. CASE op[u].kind = "tribbles" /\ op' = [op EXCEPT ![u].pc = "list", ![u].todo = <<op[u].target>>]
      <3>1. PICK c : c = [op[u] EXCEPT !.pc = "list", !.todo = <<op[u].target>>]
        OBVIOUS
      <3>2. Whole(c) /\ c.pc = "list" /\ c.id = op[u].id /\ c.kind = op[u].kind /\ c.overlap = op[u].overlap
        BY <1>2, <3>1 DEF Whole
      <3>3. op' = [op EXCEPT ![u] = c]
        BY <1>0, <2>1, <3>1
      <3> QED BY <1>2, <1>6, <2>1, <3>2, <3>3 DEF Pcs, Readings
    <2> QED BY <1>7, <1>8, <1>9, <2>1 DEF GetUser, Pcs
  <1>10. CASE GetPoster(u)
    <2>1. PICK id \in Nat : op' = [op EXCEPT ![u].pc = "read", ![u].id = id]
      BY <1>4, <1>5, <1>10 DEF GetPoster
    <2>2. PICK c : c = [op[u] EXCEPT !.pc = "read", !.id = id]
      OBVIOUS
    <2>3. Whole(c) /\ c.pc = "read" /\ c.id = id /\ c.kind = op[u].kind /\ c.overlap = op[u].overlap
      BY <1>2, <2>2 DEF Whole
    <2>4. op' = [op EXCEPT ![u] = c]
      BY <1>0, <2>1, <2>2
    <2> QED BY <1>6, <2>3, <2>4 DEF Pcs
  <1>11. CASE CreateUser(u) \/ WriteFoll(u)
    BY <1>8, <1>11 DEF CreateUser, WriteFoll
  <1>12. CASE GetTarget(u)
    BY <1>7, <1>8, <1>12 DEF GetTarget, Pcs
  <1>13. CASE ReadToChange(u)
    <2>1. CASE \E status : Finish(u, status) /\ status # "error"
      BY <1>8, <2>1
    <2>2. CASE /\ op' = [op EXCEPT ![u].pc = "write", ![u].list = ListOf(u)]
               /\ op[u].kind = "post" => Item(u) \notin ToSet(ListOf(u))
      <3>1. PICK c : c = [op[u] EXCEPT !.pc = "write", !.list = ListOf(u)]
        OBVIOUS
      <3>2. /\ Whole(c) /\ c.pc = "write" /\ c.id = op[u].id /\ c.kind = op[u].kind /\ c.overlap = op[u].overlap
            /\ c.list = ListOf(u)
        BY <1>2, <3>1 DEF Whole
      <3>3. op' = [op EXCEPT ![u] = c]
        BY <1>0, <2>2, <3>1
      <3>4. op[u].kind = "post" => c.list = OrEmpty(tribsKey, u) /\ c.id \notin Ids(u)
        BY <2>2, <3>2 DEF ListOf, Item, Ids
      <3> QED BY <1>1, <1>2, <1>3, <1>5, <3>2, <3>3, <3>4, PlainStep DEF Pcs
    <2> QED BY <1>13, <2>1, <2>2 DEF ReadToChange
  <1>14. CASE GetFollows(u)
    <2>1. op[u].kind \in {"subscriptions", "timeline"}
      BY <1>0, <1>14 DEF GetFollows, CallInv, FetchAt
    <2>2. ASSUME NEW l, NEW old, op' = [op EXCEPT ![u].pc = "answer", ![u].status = "OK", ![u].list = l, ![u].old = old]
          PROVE  TribInv'
      <3>1. PICK c : c = [op[u] EXCEPT !.pc = "answer", !.status = "OK", !.list = l, !.old = old]
        OBVIOUS
      <3>2. /\ Whole(c) /\ c.pc = "answer" /\ c.id = op[u].id /\ c.kind = op[u].kind /\ c.overlap = op[u].overlap
            /\ c.status = "OK"
        BY <1>2, <3>1 DEF Whole
      <3>3. op' = [op EXCEPT ![u] = c]
        BY <1>0, <2>2, <3>1
      <3> QED BY <1>2, <1>6, <3>2, <3>3 DEF Pcs
    <2>3. ASSUME NEW l, NEW old, op[u].kind # "subscriptions",
                 op' = [op EXCEPT ![u].pc = "list", ![u].todo = l, ![u].list = l, ![u].old = old]
          PROVE  TribInv'
      <3>1. PICK c : c = [op[u] EXCEPT !.pc = "list", !.todo = l, !.list = l, !.old = old]
        OBVIOUS
      <3>2. Whole(c) /\ c.pc = "list" /\ c.id = op[u].id /\ c.kind = op[u].kind /\ c.overlap = op[u].overlap
        BY <1>2, <3>1 DEF Whole
      <3>3. op' = [op EXCEPT ![u] = c]
        BY <1>0, <2>3, <3>1
      <3> QED BY <1>2, <1>6, <2>1, <2>3, <3>2, <3>3 DEF Pcs, Readings
    <2>4. CASE u \in DOMAIN follKey
      <3>1. PICK l : LET old == OldKeys(u, <<"F", u>>, l, follKey[u])
                     IN op' = IF op[u].kind = "subscriptions"
                              THEN [op EXCEPT ![u].pc = "answer", ![u].status = "OK", ![u].list = l, ![u].old = old]
                              ELSE [op EXCEPT ![u].pc = "list", ![u].todo = l, ![u].list = l, ![u].old = old]
        BY <1>14, <2>4 DEF GetFollows
      <3> QED BY <2>2, <2>3, <3>1
    <2> QED BY <1>8, <1>14, <2>4 DEF GetFollows
  <1>15. CASE Return(u)
    BY <1>1, <1>3, <1>5, <1>15, PlainStep DEF Return
  <1> QED BY <1>9, <1>10, <1>11, <1>12, <1>13, <1>14, <1>15

\* A step of a reading after which it fetches, or has found a tribble missing.
LEMMA FetchStep ==
  ASSUME TribInv, NEW u \in Members, UNCHANGED <<conn, tribsKey, tribKey, okPosts, unsure, srvId>>,
         op[u].pc \in {"list", "fetch"}, NEW c, op' = [op EXCEPT ![u] = c],
         Whole(c), c.id = op[u].id, c.kind = op[u].kind, c.overlap = op[u].overlap,
         \/ /\ c.pc = "fetch" /\ c.ids \in Seq(Nat)
            /\ \A x \in ToSet(c.ids) : Key(Head(c.todo), x) \in DOMAIN tribKey \/ Excused(u, Head(c.todo))
         \/ c.pc = "answer" /\ \E w \in ToSet(c.todo) : Excused(u, w)
  PROVE  TribInv'
  <1>1. op = [v \in Members |-> op[v]] /\ srvId \in [TribServers -> Nat]
    BY DEF TribInv, Shape
  <1>2. op' = [v \in Members |-> op'[v]] /\ op'[u] = c /\ \A v \in Members : v # u => op'[v] = op[v]
    BY <1>1
  <1>3. op[u].kind \in TribCalls /\ op[u].id \in Nat
    BY RunningShape
  <1>4. op[u].kind \in Readings
    BY DEF TribInv, CallInv, FetchAt
  <1>5. OpShape(u)'
    BY <1>2, <1>3 DEF OpShape, Pcs
  <1>6. \A w : Excused(u, w)' <=> Excused(u, w)
    BY <1>2 DEF Excused
  <1>7. CallInv(u)'
    BY <1>2, <1>4, <1>6 DEF CallInv, AppendAt, PutAt, FetchAt, Key
  <1> QED BY <1>1, <1>2, <1>5, <1>7, LocalStep

\* So is the list a reading is answered with.
LEMMA ReadIsEarlier ==
  ASSUME Shape, TribsHeldInv, NEW u \in Members, NEW w \in DOMAIN tribsKey,
         NEW l \in tribsHeld[conn[u]][w] \cup {tribsKey[w]}
  PROVE  Earlier(l, w)
  <1>1. w \in Members /\ conn[u] \in TribServers /\ tribsKey[w] \in Seq(Nat) /\ Listed(w) = tribsKey[w]
    BY DEF Shape, Listed, OrEmpty
  <1>2. CASE l \in tribsHeld[conn[u]][w]
    BY <1>1, <1>2 DEF TribsHeldInv
  <1>3. CASE l = tribsKey[w]
    BY <1>1, <1>3 DEF Earlier
  <1> QED BY <1>2, <1>3

\* The steps of a reading.
LEMMA CollectingSteps ==
  ASSUME TribInv, TribsHeldInv, NEW u \in Members, GetList(u) \/ Fetch(u)
  PROVE  TribInv'
  <1>0. /\ Shape /\ CallInv(u) /\ op = [v \in Members |-> op[v]] /\ ThereInv /\ OverlapInv
        /\ srvId \in [TribServers -> Nat]
    BY DEF TribInv, Shape
  <1>1. op[u].pc \in {"list", "fetch"}
    BY DEF GetList, Fetch
  <1>2. Whole(op[u]) /\ op[u].kind \in Readings /\ op[u].id \in Nat
    BY <1>0, <1>1, RunningShape DEF CallInv, FetchAt
  <1>3. UNCHANGED <<conn, tribsKey, tribKey, okPosts, unsure, srvId>>
    BY DEF GetList, Fetch, tribPast
  <1>4. ASSUME NEW c, op' = [op EXCEPT ![u] = c], Whole(c), c.pc \in {"list", "answer"},
               c.pc = "answer" => c.status # "error",
               c.kind = op[u].kind, c.overlap = op[u].overlap, c.id = op[u].id
        PROVE  TribInv'
    BY <1>0, <1>1, <1>2, <1>3, <1>4, PlainStep DEF Pcs
  <1>5. CASE GetList(u)
    <2>1. CASE \E t : op' = [op EXCEPT ![u].pc = "answer", ![u].status = "OK", ![u].tribs = t]
      <3>1. PICK t : op' = [op EXCEPT ![u].pc = "answer", ![u].status = "OK", ![u].tribs = t]
        BY <2>1
      <3>2. PICK c : c = [op[u] EXCEPT !.pc = "answer", !.status = "OK", !.tribs = t]
        OBVIOUS
      <3>3. /\ Whole(c) /\ c.pc = "answer" /\ c.id = op[u].id /\ c.kind = op[u].kind /\ c.overlap = op[u].overlap
            /\ c.status = "OK"
        BY <1>2, <3>2 DEF Whole
      <3>4. op' = [op EXCEPT ![u] = c]
        BY <1>0, <3>1, <3>2
      <3> QED BY <1>4, <3>3, <3>4
    <2>2. CASE Finish(u, "ENOSUCHUSER")
      <3>1. PICK c : c = [op[u] EXCEPT !.pc = "answer", !.status = "ENOSUCHUSER"]
        OBVIOUS
      <3>2. /\ Whole(c) /\ c.pc = "answer" /\ c.id = op[u].id /\ c.kind = op[u].kind /\ c.overlap = op[u].overlap
            /\ c.status = "ENOSUCHUSER"
        BY <1>2, <3>1 DEF Whole
      <3>3. op' = [op EXCEPT ![u] = c]
        BY <1>0, <2>2, <3>1 DEF Finish
      <3> QED BY <1>4, <3>2, <3>3
    <2>3. CASE op' = [op EXCEPT ![u].todo = Tail(@)]
      <3>1. PICK c : c = [op[u] EXCEPT !.todo = Tail(op[u].todo)]
        OBVIOUS
      <3>2. Whole(c) /\ c.pc = "list" /\ c.id = op[u].id /\ c.kind = op[u].kind /\ c.overlap = op[u].overlap
        BY <1>2, <1>5, <3>1 DEF Whole, GetList
      <3>3. op' = [op EXCEPT ![u] = c]
        BY <1>0, <2>3, <3>1
      <3> QED BY <1>4, <3>2, <3>3
    <2>4. ASSUME NEW w, w = Head(op[u].todo), w \in DOMAIN tribsKey,
                 NEW l \in tribsHeld[conn[u]][w] \cup {tribsKey[w]}, NEW old,
                 op' = [op EXCEPT ![u].pc = "fetch", ![u].ids = Newest(Reverse(l)), ![u].old = old]
          PROVE  TribInv'
      <3>1. PICK c : c = [op[u] EXCEPT !.pc = "fetch", !.ids = Newest(Reverse(l)), !.old = old]
        OBVIOUS
      <3>2. /\ Whole(c) /\ c.pc = "fetch" /\ c.id = op[u].id /\ c.kind = op[u].kind /\ c.overlap = op[u].overlap
            /\ c.ids = Newest(Reverse(l)) /\ c.todo = op[u].todo
        BY <1>2, <3>1 DEF Whole
      <3>3. op' = [op EXCEPT ![u] = c]
        BY <1>0, <2>4, <3>1
      <3>4. w \in Members
        BY <1>0, <2>4 DEF Shape
      <3>5. c.ids \in Seq(Nat) /\ ToSet(c.ids) \subseteq Ids(w)
        <4>1. Earlier(l, w)
          BY <1>0, <2>4, <3>4, ReadIsEarlier
        <4>2. l \in Seq(Nat) /\ ToSet(l) \subseteq Ids(w)
          BY <4>1 DEF Earlier, Listed, Ids, ToSet
        <4> QED BY <3>2, <4>2, NewestIds
      <3>6. ASSUME NEW x \in ToSet(c.ids) PROVE Key(w, x) \in DOMAIN tribKey \/ Excused(u, w)
        <4>1. CASE op[w].pc = "put" /\ op[w].id = x
          <5>1. Posting(w) /\ Running(u)
            BY <1>1, <3>4, <4>1 DEF TribInv, CallInv, PutAt, Posting, Running
          <5> QED BY <1>0, <1>2, <3>4, <5>1 DEF OverlapInv, Excused
        <4> QED BY <1>0, <3>4, <3>5, <3>6, <4>1 DEF ThereInv, Excused
      <3> QED BY <1>1, <1>3, <2>4, <3>2, <3>3, <3>5, <3>6, FetchStep
    <2>5. CASE op[u].todo # <<>> /\ Head(op[u].todo) \in DOMAIN tribsKey /\ Head(op[u].todo) \in usersKey
      <3>1. PICK l \in tribsHeld[conn[u]][Head(op[u].todo)] \cup {tribsKey[Head(op[u].todo)]} :
              op' = [op EXCEPT ![u].pc = "fetch", ![u].ids = Newest(Reverse(l)),
                               ![u].old = OldKeys(u, <<"T", Head(op[u].todo)>>, l, tribsKey[Head(op[u].todo)])]
        BY <1>5, <2>5 DEF GetList
      <3> QED BY <2>4, <2>5, <3>1
    <2> QED BY <1>5, <2>1, <2>2, <2>3, <2>5 DEF GetList
  <1>6. CASE Fetch(u)
    <2>0. /\ op[u].pc = "fetch" /\ op[u].ids \in Seq(Nat)
          /\ \A x \in ToSet(op[u].ids) : Key(Head(op[u].todo), x) \in DOMAIN tribKey \/ Excused(u, Head(op[u].todo))
      BY <1>0, <1>6 DEF Fetch, CallInv, FetchAt
    <2>1. CASE op' = [op EXCEPT ![u].pc = "answer", ![u].status = "OK"]
      <3>1. PICK c : c = [op[u] EXCEPT !.pc = "answer", !.status = "OK"]
        OBVIOUS
      <3>2. /\ Whole(c) /\ c.pc = "answer" /\ c.id = op[u].id /\ c.kind = op[u].kind /\ c.overlap = op[u].overlap
            /\ c.status = "OK"
        BY <1>2, <3>1 DEF Whole
      <3>3. op' = [op EXCEPT ![u] = c]
        BY <1>0, <2>1, <3>1
      <3> QED BY <1>4, <3>2, <3>3
    <2>2. CASE op' = [op EXCEPT ![u].pc = "list", ![u].todo = Tail(@)]
      <3>1. PICK c : c = [op[u] EXCEPT !.pc = "list", !.todo = Tail(op[u].todo)]
        OBVIOUS
      <3>2. Whole(c) /\ c.pc = "list" /\ c.id = op[u].id /\ c.kind = op[u].kind /\ c.overlap = op[u].overlap
        BY <1>2, <3>1 DEF Whole
      <3>3. op' = [op EXCEPT ![u] = c]
        BY <1>0, <2>2, <3>1
      <3> QED BY <1>4, <3>2, <3>3
    <2>3. ASSUME op[u].ids # <<>> PROVE /\ Head(op[u].ids) \in ToSet(op[u].ids) /\ Tail(op[u].ids) \in Seq(Nat)
                                        /\ ToSet(Tail(op[u].ids)) \subseteq ToSet(op[u].ids)
      <3>1. PICK s \in Seq(Nat) : s = op[u].ids
        BY <2>0
      <3>2. /\ Tail(s) \in Seq(Nat) /\ Len(Tail(s)) = Len(s) - 1 /\ Len(s) \in Nat /\ Len(s) > 0 /\ Head(s) = s[1]
            /\ \A i \in 1 .. Len(Tail(s)) : Tail(s)[i] = s[i + 1]
        BY <2>3, <3>1
      <3>3. \A i \in 1 .. Len(Tail(s)) : i + 1 \in 1 .. Len(s)
        BY <3>2
      <3>4. DOMAIN s = 1 .. Len(s) /\ DOMAIN Tail(s) = 1 .. Len(Tail(s)) /\ 1 \in DOMAIN s
        BY <3>2
      <3>5. ASSUME NEW x \in ToSet(Tail(s)) PROVE x \in ToSet(s)
        <4>1. PICK i \in 1 .. Len(Tail(s)) : x = Tail(s)[i]
          BY <3>4 DEF ToSet
        <4>2. x = s[i + 1] /\ i + 1 \in DOMAIN s
          BY <3>2, <3>3, <3>4, <4>1
        <4> QED BY <4>2 DEF ToSet
      <3>6. Head(s) \in ToSet(s)
        BY <3>2, <3>4 DEF ToSet
      <3> QED BY <3>1, <3>2, <3>5, <3>6
    <2>4. CASE /\ op[u].ids # <<>> /\ <<Head(op[u].todo), Head(op[u].ids), conn[u]>> \notin DOMAIN tribKey
               /\ op' = [op EXCEPT ![u].pc = "answer", ![u].status = "error", ![u].todo = <<Head(op[u].todo)>>]
      <3>1. PICK c : c = [op[u] EXCEPT !.pc = "answer", !.status = "error", !.todo = <<Head(op[u].todo)>>]
        OBVIOUS
      <3>2. /\ Whole(c) /\ c.pc = "answer" /\ c.id = op[u].id /\ c.kind = op[u].kind /\ c.overlap = op[u].overlap
            /\ c.todo = <<Head(op[u].todo)>>
        BY <1>2, <3>1 DEF Whole
      <3>3. op' = [op EXCEPT ![u] = c]
        BY <1>0, <2>4, <3>1
      <3>4. Excused(u, Head(op[u].todo))
        <4>1. Key(Head(op[u].todo), Head(op[u].ids)) \in DOMAIN tribKey \/ Excused(u, Head(op[u].todo))
          BY <2>0, <2>3, <2>4
        <4> QED BY <2>4, <4>1 DEF Key, Excused
      <3>5. Head(op[u].todo) \in ToSet(c.todo)
        BY <3>2 DEF ToSet
      <3> QED BY <1>1, <1>3, <3>2, <3>3, <3>4, <3>5, FetchStep
    <2>5. CASE op[u].ids # <<>> /\ \E t : op' = [op EXCEPT ![u].tribs = t, ![u].ids = Tail(@)]
      <3>0. PICK t : op' = [op EXCEPT ![u].tribs = t, ![u].ids = Tail(@)]
        BY <2>5
      <3>1. PICK c : c = [op[u] EXCEPT !.tribs = t, !.ids = Tail(op[u].ids)]
        OBVIOUS
      <3>2. /\ Whole(c) /\ c.pc = "fetch" /\ c.id = op[u].id /\ c.kind = op[u].kind /\ c.overlap = op[u].overlap
            /\ c.todo = op[u].todo /\ c.ids = Tail(op[u].ids)
        BY <1>2, <2>0, <3>1 DEF Whole
      <3>3. op' = [op EXCEPT ![u] = c]
        BY <1>0, <3>0, <3>1
      <3>4. /\ c.ids \in Seq(Nat)
            /\ \A x \in ToSet(c.ids) : Key(Head(c.todo), x) \in DOMAIN tribKey \/ Excused(u, Head(c.todo))
        BY <2>0, <2>3, <2>5, <3>2
      <3> QED BY <1>1, <1>3, <3>2, <3>3, <3>4, FetchStep
    <2> QED BY <1>6, <2>1, <2>2, <2>4, <2>5 DEF Fetch
  <1> QED BY <1>5, <1>6

\* The id enters the list that was read, where it is new.
LEMMA WriteTribsStep ==
  ASSUME TribInv, NEW u \in Members, WriteTribs(u)
  PROVE  TribInv'
  <1>0. /\ Shape /\ CallInv(u) /\ op = [v \in Members |-> op[v]] /\ ThereInv /\ OverlapInv /\ ListsInv /\ PostedInv
        /\ op[u].pc = "write" /\ op[u].kind = "post"
        /\ UNCHANGED <<conn, tribKey, okPosts, unsure, srvId>>
    BY DEF TribInv, Shape, WriteTribs, tribPast
  <1>1. Whole(op[u]) /\ op[u].kind \in TribCalls /\ op[u].id \in Nat
    BY <1>0, RunningShape
  <1>2. PICK c : c = [op[u] EXCEPT !.pc = "put"]
    OBVIOUS
  <1>3. /\ Whole(c) /\ c.pc = "put" /\ c.id = op[u].id /\ c.kind = op[u].kind /\ c.overlap = op[u].overlap
    BY <1>1, <1>2 DEF Whole
  <1>4. op' = [v \in Members |-> op'[v]] /\ op'[u] = c /\ \A v \in Members : v # u => op'[v] = op[v]
    BY <1>0, <1>2 DEF WriteTribs, Step
  <1>5. PICK l \in Seq(Nat) : l = OrEmpty(tribsKey, u) /\ l = op[u].list
    <2>1. OrEmpty(tribsKey, u) \in Seq(Nat)
      BY <1>0 DEF Shape, OrEmpty
    <2> QED BY <1>0, <2>1 DEF CallInv, AppendAt
  <1>6. op[u].id \notin ToSet(l)
    BY <1>0, <1>5 DEF CallInv, AppendAt, Ids
  <1>7. PICK n \in Seq(Nat) : n = Append(l, op[u].id)
    BY <1>1, AppendProperties
  <1>8. /\ DOMAIN l = 1 .. Len(l) /\ Len(l) \in Nat /\ DOMAIN n = 1 .. (Len(l) + 1)
        /\ n[Len(l) + 1] = op[u].id /\ \A i \in 1 .. Len(l) : n[i] = l[i]
    BY <1>1, <1>5, <1>7
  <1>9. ToSet(n) = ToSet(l) \cup {op[u].id}
    <2>1. DOMAIN n = DOMAIN l \cup {Len(l) + 1}
      BY <1>8
    <2> QED BY <1>8, <2>1, SMTT(30) DEF ToSet
  <1>10. /\ DOMAIN tribsKey' = DOMAIN tribsKey \cup {u} /\ tribsKey' = [w \in DOMAIN tribsKey' |-> tribsKey'[w]]
         /\ tribsKey'[u] = n /\ \A w \in DOMAIN tribsKey : w # u => tribsKey'[w] = tribsKey[w]
    BY <1>5, <1>7 DEF WriteTribs, With
  <1>11. \A w : w # u => OrEmpty(tribsKey, w)' = OrEmpty(tribsKey, w) /\ Ids(w)' = Ids(w)
    BY <1>10 DEF OrEmpty, Ids
  <1>12. Ids(u)' = Ids(u) \cup {op[u].id}
    BY <1>5, <1>9, <1>10 DEF OrEmpty, Ids
  <1>13. OpShape(u)'
    BY <1>1, <1>3, <1>4 DEF OpShape, Pcs
  <1>14. Shape'
    <2>1. tribsKey' \in [DOMAIN tribsKey' -> Seq(Nat)] /\ DOMAIN tribsKey' \subseteq Members
      BY <1>0, <1>10 DEF Shape
    <2>2. \A v \in Members : OpShape(v)'
      BY <1>0, <1>4, <1>13 DEF Shape, OpShape
    <2> QED BY <1>0, <1>4, <2>1, <2>2 DEF Shape
  <1>15. ListsInv'
    <2>1. ASSUME NEW i \in DOMAIN n, NEW j \in DOMAIN n, n[i] = n[j] PROVE i = j
      <3>1. \A a \in 1 .. Len(l) : l[a] # op[u].id
        BY <1>6, <1>8 DEF ToSet
      <3>2. \A a, b \in 1 .. Len(l) : l[a] = l[b] => a = b
        BY <1>0, <1>5, <1>8, SMTT(30) DEF ListsInv, OrEmpty
      <3> QED BY <1>8, <2>1, <3>1, <3>2
    <2> QED BY <1>0, <1>10, <2>1 DEF ListsInv
  <1>16. PostedInv'
    BY <1>0, <1>11, <1>12 DEF PostedInv, Key
  <1>17. ThereInv'
    <2> SUFFICES ASSUME NEW w \in Members, NEW x \in Ids(w)'
                 PROVE  Key(w, x)' \in DOMAIN tribKey' \/ (op'[w].pc = "put" /\ op'[w].id = x) \/ w \in unsure'
      BY DEF ThereInv
    <2>1. CASE w = u
      BY <1>0, <1>3, <1>4, <1>12, <2>1 DEF ThereInv, Key
    <2>2. CASE w # u
      BY <1>0, <1>4, <1>11, <2>2 DEF ThereInv, Key
    <2> QED BY <2>1, <2>2
  <1>18. OverlapInv'
    <2>1. \A v \in Members : /\ (Running(v)' <=> Running(v)) /\ op'[v].kind = op[v].kind
                             /\ op'[v].overlap = op[v].overlap
      BY <1>0, <1>3, <1>4 DEF Running
    <2> QED BY <1>0, <2>1 DEF OverlapInv, Posting
  <1>19. CallInv(u)'
    <2>1. PutAt(u)'
      <3>1. \A p \in okPosts : p.user = u => p.id # op[u].id
        BY <1>0, <1>5, <1>6 DEF PostedInv, Ids
      <3> QED BY <1>0, <1>3, <1>4, <1>12, <3>1 DEF PutAt
    <2> QED BY <1>3, <1>4, <2>1 DEF CallInv, AppendAt, FetchAt
  <1>20. ASSUME NEW v \in Members, v # u PROVE CallInv(v)'
    <2>1. CallInv(v) /\ op'[v] = op[v]
      BY <1>4, <1>20 DEF TribInv
    <2>2. OrEmpty(tribsKey, v)' = OrEmpty(tribsKey, v) /\ Ids(v)' = Ids(v)
      BY <1>11, <1>20
    <2> QED BY <1>0, <2>1, <2>2 DEF CallInv, AppendAt, PutAt, FetchAt, Excused, Key
  <1> QED BY <1>14, <1>15, <1>16, <1>17, <1>18, <1>19, <1>20 DEF TribInv

\* The tribble takes a key that no accepted one has.
LEMMA PutTribbleStep ==
  ASSUME TribInv, NEW u \in Members, PutTribble(u)
  PROVE  TribInv'
  <1>0. /\ Shape /\ CallInv(u) /\ op = [v \in Members |-> op[v]] /\ ThereInv /\ OverlapInv /\ ListsInv /\ PostedInv
        /\ op[u].pc = "put" /\ op[u].kind = "post" /\ op[u].id \in Ids(u)
        /\ \A p \in okPosts : p.user = u => p.id # op[u].id
        /\ UNCHANGED <<conn, tribsKey, unsure, srvId>>
    BY DEF TribInv, Shape, PutTribble, CallInv, PutAt
  <1>1. Whole(op[u]) /\ op[u].kind \in TribCalls /\ op[u].id \in Nat
    BY <1>0, RunningShape
  <1>2. PICK c : c = [op[u] EXCEPT !.pc = "answer", !.status = "OK"]
    OBVIOUS
  <1>3. /\ Whole(c) /\ c.pc = "answer" /\ c.id = op[u].id /\ c.kind = op[u].kind /\ c.overlap = op[u].overlap
        /\ c.status = "OK"
    BY <1>1, <1>2 DEF Whole
  <1>4. op' = [v \in Members |-> op'[v]] /\ op'[u] = c /\ \A v \in Members : v # u => op'[v] = op[v]
    BY <1>0, <1>2 DEF PutTribble, Finish
  <1>5. PICK p0 : p0 = [user |-> u, id |-> op[u].id, posted |-> clock]
    OBVIOUS
  <1>6. okPosts' = okPosts \cup {p0} /\ p0.user = u /\ p0.id = op[u].id /\ p0.posted = clock
    BY <1>5 DEF PutTribble
  <1>7. /\ DOMAIN tribKey' = DOMAIN tribKey \cup {Key(u, op[u].id)} /\ tribKey'[Key(u, op[u].id)].posted = clock
        /\ \A k \in DOMAIN tribKey : k # Key(u, op[u].id) => tribKey'[k] = tribKey[k]
    BY DEF PutTribble, With
  <1>8. \A w : Ids(w)' = Ids(w) /\ OrEmpty(tribsKey, w)' = OrEmpty(tribsKey, w) /\ \A x : Key(w, x)' = Key(w, x)
    BY <1>0 DEF Ids, OrEmpty, Key
  <1>9. OpShape(u)'
    BY <1>1, <1>3, <1>4 DEF OpShape, Pcs
  <1>10. Shape'
    BY <1>0, <1>4, <1>9 DEF Shape, OpShape
  <1>11. ListsInv'
    BY <1>0 DEF ListsInv
  <1>12. PostedInv'
    <2> SUFFICES ASSUME NEW p \in okPosts'
                 PROVE  /\ p.user \in Members /\ p.id \in Ids(p.user) /\ Key(p.user, p.id) \in DOMAIN tribKey'
                        /\ tribKey'[Key(p.user, p.id)].posted = p.posted
      BY <1>8 DEF PostedInv
    <2>1. CASE p \in okPosts
      <3>1. /\ p.user \in Members /\ p.id \in Ids(p.user) /\ Key(p.user, p.id) \in DOMAIN tribKey
            /\ tribKey[Key(p.user, p.id)].posted = p.posted
        BY <1>0, <2>1 DEF PostedInv
      <3>2. Key(p.user, p.id) # Key(u, op[u].id)
        BY <1>0, <2>1 DEF Key
      <3> QED BY <1>7, <3>1, <3>2
    <2>2. CASE p = p0
      BY <1>0, <1>6, <1>7, <2>2
    <2> QED BY <1>6, <2>1, <2>2
  <1>13. ThereInv'
    <2> SUFFICES ASSUME NEW w \in Members, NEW x \in Ids(w)
                 PROVE  Key(w, x) \in DOMAIN tribKey' \/ (op'[w].pc = "put" /\ op'[w].id = x) \/ w \in unsure
      BY <1>0, <1>8 DEF ThereInv
    <2>1. CASE w = u
      BY <1>0, <1>7, <2>1 DEF ThereInv
    <2>2. CASE w # u
      BY <1>0, <1>4, <1>7, <2>2 DEF ThereInv
    <2> QED BY <2>1, <2>2
  <1>14. OverlapInv'
    <2>1. \A v \in Members : /\ (Running(v)' <=> Running(v)) /\ op'[v].kind = op[v].kind
                             /\ op'[v].overlap = op[v].overlap
      BY <1>0, <1>3, <1>4 DEF Running
    <2> QED BY <1>0, <2>1 DEF OverlapInv, Posting
  <1>15. CallInv(u)'
    BY <1>3, <1>4 DEF CallInv, AppendAt, PutAt, FetchAt
  <1>16. ASSUME NEW v \in Members, v # u PROVE CallInv(v)'
    <2>1. CallInv(v) /\ op'[v] = op[v]
      BY <1>4, <1>16 DEF TribInv
    <2>2. AppendAt(v)' /\ PutAt(v)'
      BY <1>6, <1>8, <1>16, <2>1 DEF CallInv, AppendAt, PutAt
    <2>3. \A w : Excused(v, w)' <=> Excused(v, w)
      BY <1>0, <2>1 DEF Excused
    <2>4. FetchAt(v)'
      BY <1>7, <1>8, <2>1, <2>3 DEF CallInv, FetchAt
    <2> QED BY <2>2, <2>4 DEF CallInv
  <1> QED BY <1>10, <1>11, <1>12, <1>13, <1>14, <1>15, <1>16 DEF TribInv

\* A call begins: a reading notes who is posting, a posting is noted by the readings.
LEMMA BeginStep ==
  ASSUME TribInv, NEW u \in Members, NEW kind \in TribCalls, NEW target, Begin(u, kind, target)
  PROVE  TribInv'
  <1>0. /\ Shape /\ ThereInv /\ OverlapInv /\ ListsInv /\ PostedInv /\ op[u].pc = "idle"
        /\ UNCHANGED <<conn, tribsKey, tribKey, okPosts, unsure, srvId>>
    BY DEF TribInv, Begin, Running
  <1>1. PICK c : c = [pc |-> "user", kind |-> kind, target |-> target, id |-> 0, list |-> <<>>,
                      todo |-> <<>>, ids |-> <<>>, tribs |-> <<>>, status |-> "none",
                      since |-> IF kind \in Readings THEN okPosts ELSE {},
                      overlap |-> {x \in Members : kind \in Readings /\ Posting(x)}, old |-> {}]
    OBVIOUS
  <1>2. /\ Whole(c) /\ c.pc = "user" /\ c.kind = kind /\ c.id = 0
        /\ c.overlap = {x \in Members : kind \in Readings /\ Posting(x)}
    BY <1>1 DEF Whole
  <1>3. /\ op' = [v \in Members |-> op'[v]] /\ op'[u] = c
        /\ \A v \in Members : v # u =>
             op'[v] = IF kind = "post" /\ Running(v) /\ op[v].kind \in Readings
                      THEN [op[v] EXCEPT !.overlap = @ \cup {u}] ELSE op[v]
    BY <1>1 DEF Begin
  <1>4. \A v : Ids(v)' = Ids(v) /\ OrEmpty(tribsKey, v)' = OrEmpty(tribsKey, v) /\ \A x : Key(v, x)' = Key(v, x)
    BY <1>0 DEF Ids, OrEmpty, Key
  <1>5. ASSUME NEW v \in Members, v # u
        PROVE  /\ op'[v].pc = op[v].pc /\ OpShape(v)'
               /\ op[v].pc # "idle" => /\ op'[v].kind = op[v].kind /\ op'[v].id = op[v].id /\ op'[v].list = op[v].list
                                       /\ op'[v].todo = op[v].todo /\ op'[v].ids = op[v].ids
                                       /\ op'[v].status = op[v].status
                                       /\ op[v].overlap \subseteq op'[v].overlap
                                       /\ kind = "post" /\ op[v].kind \in Readings => u \in op'[v].overlap
    <2>1. CASE kind = "post" /\ Running(v) /\ op[v].kind \in Readings
      <3>1. Whole(op[v]) /\ op[v].pc \in Pcs \ {"idle"} /\ op[v].kind \in TribCalls /\ op[v].id \in Nat
        BY <2>1, RunningShape DEF Running
      <3>2. op'[v] = [op[v] EXCEPT !.overlap = @ \cup {u}]
        BY <1>3, <1>5, <2>1
      <3>3. Whole(op'[v]) /\ op'[v].pc = op[v].pc /\ op'[v].kind = op[v].kind /\ op'[v].id = op[v].id
            /\ op'[v].list = op[v].list /\ op'[v].todo = op[v].todo /\ op'[v].ids = op[v].ids
            /\ op'[v].status = op[v].status /\ op'[v].overlap = op[v].overlap \cup {u}
        BY <3>1, <3>2 DEF Whole
      <3> QED BY <3>1, <3>3 DEF OpShape
    <2>2. CASE ~(kind = "post" /\ Running(v) /\ op[v].kind \in Readings)
      <3>1. op'[v] = op[v] /\ OpShape(v)
        BY <1>0, <1>3, <1>5, <2>2 DEF Shape
      <3> QED BY <2>2, <3>1 DEF OpShape, Running
    <2> QED BY <2>1, <2>2
  <1>6. OpShape(u)'
    BY <1>2, <1>3 DEF OpShape, Pcs
  <1>7. Shape'
    BY <1>0, <1>3, <1>5, <1>6 DEF Shape
  <1>8. ListsInv' /\ PostedInv'
    BY <1>0, <1>4 DEF ListsInv, PostedInv
  <1>9. ThereInv'
    BY <1>0, <1>4, <1>5 DEF ThereInv
  <1>10. OverlapInv'
    <2> SUFFICES ASSUME NEW v \in Members, NEW w \in Members, Running(v)', op'[v].kind \in Readings, Posting(w)'
                 PROVE  w \in op'[v].overlap
      BY DEF OverlapInv
    <2>1. CASE v = u
      <3>1. w # u
        BY <1>2, <1>3, <2>1 DEF Posting, Readings
      <3>2. Posting(w)
        BY <1>5, <3>1 DEF Posting, Running
      <3> QED BY <1>2, <1>3, <2>1, <3>2
    <2>2. CASE v # u /\ w = u
      <3>1. kind = "post"
        BY <1>2, <1>3, <2>2 DEF Posting
      <3> QED BY <1>5, <2>2, <3>1 DEF Running
    <2>3. CASE v # u /\ w # u
      <3>1. Posting(w) /\ Running(v) /\ op[v].kind \in Readings
        BY <1>5, <2>3 DEF Posting, Running
      <3>2. op[v].overlap \subseteq op'[v].overlap
        BY <1>5, <2>3, <3>1 DEF Running
      <3> QED BY <1>0, <3>1, <3>2 DEF OverlapInv
    <2> QED BY <2>1, <2>2, <2>3
  <1>11. CallInv(u)'
    BY <1>2, <1>3 DEF CallInv, AppendAt, PutAt, FetchAt
  <1>12. ASSUME NEW v \in Members, v # u PROVE CallInv(v)'
    <2>1. CallInv(v)
      BY DEF TribInv
    <2>2. CASE op[v].pc = "idle"
      BY <1>5, <1>12, <2>2 DEF CallInv, AppendAt, PutAt, FetchAt
    <2>3. CASE op[v].pc # "idle"
      <3>1. /\ op'[v].pc = op[v].pc /\ op'[v].kind = op[v].kind /\ op'[v].id = op[v].id /\ op'[v].list = op[v].list
            /\ op'[v].todo = op[v].todo /\ op'[v].ids = op[v].ids /\ op'[v].status = op[v].status
            /\ op[v].overlap \subseteq op'[v].overlap
        BY <1>5, <1>12, <2>3
      <3>2. \A w : Excused(v, w) => Excused(v, w)'
        BY <1>0, <3>1 DEF Excused
      <3> QED BY <1>0, <1>4, <2>1, <3>1, <3>2 DEF CallInv, AppendAt, PutAt, FetchAt
    <2> QED BY <2>2, <2>3
  <1> QED BY <1>7, <1>8, <1>9, <1>10, <1>11, <1>12 DEF TribInv

\* A server that dies takes its calls with it; a post it leaves between its two
\* writes makes its user unsure.
LEMMA RestartStep ==
  ASSUME TribInv, NEW s \in TribServers, Restart(s)
  PROVE  TribInv'
  <1>0. /\ Shape /\ ThereInv /\ OverlapInv /\ ListsInv /\ PostedInv
        /\ UNCHANGED <<conn, tribsKey, tribKey, okPosts>> /\ unsure \subseteq unsure'
    BY DEF TribInv, Restart
  <1>1. /\ op' = [v \in Members |-> op'[v]]
        /\ \A v \in Members : op'[v] = IF conn[v] = s THEN NoOp ELSE op[v]
        /\ \A v \in Members : conn[v] = s /\ op[v].pc = "put" => v \in unsure'
    BY DEF Restart, Running
  <1>2. \A v : Ids(v)' = Ids(v) /\ OrEmpty(tribsKey, v)' = OrEmpty(tribsKey, v) /\ \A x : Key(v, x)' = Key(v, x)
    BY <1>0 DEF Ids, OrEmpty, Key
  <1>3. Shape'
    <2>1. \A v \in Members : OpShape(v)'
      BY <1>0, <1>1 DEF Shape, OpShape
    <2>2. srvId' \in [TribServers -> Nat]
      BY <1>0 DEF Shape, Restart
    <2> QED BY <1>0, <1>1, <2>1, <2>2 DEF Shape
  <1>4. ListsInv' /\ PostedInv'
    BY <1>0, <1>2 DEF ListsInv, PostedInv
  <1>5. ThereInv'
    BY <1>0, <1>1, <1>2 DEF ThereInv
  <1>6. OverlapInv'
    BY <1>0, <1>1 DEF OverlapInv, Posting, Running, NoOp
  <1>7. ASSUME NEW v \in Members PROVE CallInv(v)'
    <2>1. CASE conn[v] = s
      BY <1>1, <2>1 DEF CallInv, AppendAt, PutAt, FetchAt, NoOp
    <2>2. CASE conn[v] # s
      <3>1. op'[v] = op[v] /\ CallInv(v)
        BY <1>1, <2>2 DEF TribInv
      <3>2. \A w : Excused(v, w) => Excused(v, w)'
        BY <1>0, <3>1 DEF Excused
      <3> QED BY <1>0, <1>2, <3>1, <3>2 DEF CallInv, AppendAt, PutAt, FetchAt
    <2> QED BY <2>1, <2>2
  <1> QED BY <1>3, <1>4, <1>5, <1>6, <1>7 DEF TribInv

\* What was read stays how the list began, because a list only grows.
LEMMA NextTribsHeldInv == TribInv /\ TribsHeldInv /\ [TribNext]_tribVars => TribsHeldInv'
  <1> SUFFICES ASSUME TribInv, TribsHeldInv, [TribNext]_tribVars PROVE TribsHeldInv'
    OBVIOUS
  <1>0. Shape /\ \A u \in Members : CallInv(u) /\ conn[u] \in TribServers
    BY DEF TribInv, Shape
  <1>1. ASSUME UNCHANGED <<tribsHeld, tribsKey>> PROVE TribsHeldInv'
    BY <1>1 DEF TribsHeldInv, Earlier, Listed, OrEmpty
  <1>2. ASSUME NEW u \in Members, GetList(u) PROVE TribsHeldInv'
    <2>1. UNCHANGED tribsKey
      BY <1>2 DEF GetList
    <2>2. CASE op[u].todo # <<>> /\ Head(op[u].todo) \in usersKey /\ Head(op[u].todo) \in DOMAIN tribsKey
      <3>1. PICK w : w = Head(op[u].todo)
        OBVIOUS
      <3>2. PICK l \in tribsHeld[conn[u]][w] \cup {tribsKey[w]} :
              tribsHeld' = [tribsHeld EXCEPT ![conn[u]][w] = @ \cup {l}]
        BY <1>2, <2>2, <3>1 DEF GetList
      <3>3. Earlier(l, w)
        BY <1>0, <2>2, <3>1, ReadIsEarlier
      <3>4. \A k, x : Earlier(k, x)' <=> Earlier(k, x)
        BY <2>1 DEF Earlier, Listed, OrEmpty
      <3>5. w \in Members
        BY <1>0, <2>2, <3>1 DEF Shape
      <3>6. /\ tribsHeld' = [s \in TribServers |-> [x \in Members |-> tribsHeld'[s][x]]]
            /\ \A s \in TribServers, x \in Members :
                 tribsHeld'[s][x] = IF s = conn[u] /\ x = w THEN tribsHeld[s][x] \cup {l} ELSE tribsHeld[s][x]
        <4> PICK s0 \in TribServers : s0 = conn[u]
          BY <1>0
        <4> PICK g : g = [tribsHeld[s0] EXCEPT ![w] = tribsHeld[s0][w] \cup {l}]
          OBVIOUS
        <4>1. /\ tribsHeld = [s \in TribServers |-> tribsHeld[s]]
              /\ \A s \in TribServers : tribsHeld[s] = [x \in Members |-> tribsHeld[s][x]]
          BY DEF TribsHeldInv
        <4>2. tribsHeld' = [tribsHeld EXCEPT ![s0] = g]
          BY <3>2
        <4>3. tribsHeld' = [s \in TribServers |-> tribsHeld'[s]] /\ tribsHeld'[s0] = g
              /\ \A s \in TribServers : s # s0 => tribsHeld'[s] = tribsHeld[s]
          BY <4>1, <4>2
        <4>4. g = [x \in Members |-> g[x]] /\ g[w] = tribsHeld[s0][w] \cup {l}
              /\ \A x \in Members : x # w => g[x] = tribsHeld[s0][x]
          BY <3>5, <4>1
        <4>5. \A s \in TribServers : tribsHeld'[s] = [x \in Members |-> tribsHeld'[s][x]]
          BY <4>1, <4>3, <4>4
        <4>6. tribsHeld' = [s \in TribServers |-> [x \in Members |-> tribsHeld'[s][x]]]
          BY <4>3, <4>5
        <4> QED BY <4>3, <4>4, <4>6
      <3>7. \A s \in TribServers, x \in Members : \A k \in tribsHeld'[s][x] : Earlier(k, x)'
        <4> SUFFICES ASSUME NEW s \in TribServers, NEW x \in Members, NEW k \in tribsHeld'[s][x] PROVE Earlier(k, x)
          BY <3>4
        <4>1. k \in tribsHeld[s][x] \/ (x = w /\ k = l)
          BY <3>6
        <4> QED BY <3>3, <4>1 DEF TribsHeldInv
      <3> QED BY ONLY <3>6, <3>7 DEF TribsHeldInv
    <2> QED BY <1>1, <1>2, <2>1, <2>2 DEF GetList
  <1>3. ASSUME NEW u \in Members, WriteTribs(u) PROVE TribsHeldInv'
    <2>1. UNCHANGED tribsHeld
      BY <1>3 DEF WriteTribs, held
    <2>2. PICK l \in Seq(Nat), x \in Nat : l = Listed(u) /\ Listed(u)' = Append(l, x)
      <3>1. op[u].pc # "idle" /\ op[u].list = Listed(u)
        BY <1>0, <1>3 DEF WriteTribs, CallInv, AppendAt, Listed
      <3>2. op[u].id \in Nat
        BY <3>1, RunningShape
      <3>3. Listed(u) \in Seq(Nat)
        BY <1>0 DEF Shape, Listed, OrEmpty
      <3> QED BY <1>3, <3>1, <3>2, <3>3 DEF WriteTribs, With, Listed, OrEmpty
    <2>3. \A w : w # u => Listed(w)' = Listed(w)
      BY <1>3 DEF WriteTribs, With, Listed, OrEmpty
    <2>4. \A i \in DOMAIN l : i \in DOMAIN Append(l, x) /\ Append(l, x)[i] = l[i]
      BY <2>2
    <2>5. ASSUME NEW k, NEW w, Earlier(k, w) PROVE Earlier(k, w)'
      BY <2>2, <2>3, <2>4, <2>5 DEF Earlier
    <2> QED BY <2>1, <2>5 DEF TribsHeldInv
  <1>4. ASSUME NEW s \in TribServers, Restart(s) PROVE TribsHeldInv'
    <2>1. UNCHANGED tribsKey /\ tribsHeld' = [tribsHeld EXCEPT ![s] = [w \in Members |-> {}]]
      BY <1>4 DEF Restart
    <2>2. \A k, w : Earlier(k, w)' <=> Earlier(k, w)
      BY <2>1 DEF Earlier, Listed, OrEmpty
    <2>3. /\ tribsHeld' = [t \in TribServers |-> [w \in Members |-> tribsHeld'[t][w]]]
          /\ \A t \in TribServers, w \in Members : tribsHeld'[t][w] \subseteq tribsHeld[t][w]
      BY <2>1 DEF TribsHeldInv
    <2> QED BY <2>2, <2>3 DEF TribsHeldInv
  <1>5. ASSUME NEW u \in Members, NEW k, NEW w, Begin(u, k, w) PROVE UNCHANGED <<tribsHeld, tribsKey>>
    BY <1>5 DEF Begin, held
  <1>6. ASSUME NEW u \in Members, Handler(u), ~GetList(u), ~WriteTribs(u) PROVE UNCHANGED <<tribsHeld, tribsKey>>
    BY <1>6 DEF Handler, GetUser, GetPoster, CreateUser, GetTarget, ReadToChange, WriteFoll, PutTribble, GetFollows,
                Fetch, Return, held
  <1>7. CASE UNCHANGED tribVars
    BY <1>1, <1>7 DEF tribVars
  <1> QED BY <1>1, <1>2, <1>3, <1>4, <1>5, <1>6, <1>7 DEF TribNext

LEMMA NextTribInv == TribInv /\ TribsHeldInv /\ [TribNext]_tribVars => TribInv'
  <1> SUFFICES ASSUME TribInv, TribsHeldInv, [TribNext]_tribVars PROVE TribInv'
    OBVIOUS
  <1>1. ASSUME NEW u \in Members, Handler(u) PROVE TribInv'
    BY <1>1, ReadingSteps, CollectingSteps, WriteTribsStep, PutTribbleStep DEF Handler
  <1>2. CASE UNCHANGED tribVars
    <2>1. UNCHANGED <<conn, tribsKey, tribKey, okPosts, unsure, srvId, op>>
      BY <1>2 DEF tribVars
    <2>2. \A v : Ids(v)' = Ids(v) /\ OrEmpty(tribsKey, v)' = OrEmpty(tribsKey, v) /\ \A x : Key(v, x)' = Key(v, x)
      BY <2>1 DEF Ids, OrEmpty, Key
    <2>3. Shape' /\ ListsInv' /\ PostedInv' /\ ThereInv' /\ OverlapInv'
      BY <2>1, <2>2 DEF TribInv, Shape, OpShape, ListsInv, PostedInv, ThereInv, OverlapInv, Running, Posting
    <2>4. \A v \in Members : CallInv(v)'
      BY <2>1, <2>2 DEF TribInv, CallInv, AppendAt, PutAt, FetchAt, Excused
    <2> QED BY <2>3, <2>4 DEF TribInv
  <1> QED BY <1>1, <1>2, BeginStep, RestartStep DEF TribNext

LEMMA TribInvariance == TribSpec => [](TribInv /\ TribsHeldInv)
  <1>1. TribInit => TribsHeldInv
    BY DEF TribInit, TribsHeldInv
  <1> QED BY <1>1, InitTribInv, NextTribInv, NextTribsHeldInv, PTL DEF TribSpec

\* GetTribbles and GetTribblesBySubscription answer with an error only for an
\* author at another server, one who posted while the call ran, or one whose
\* server died in the middle of a post, for any users, servers and calls.
THEOREM ErrorsAreExplained == TribSpec => []ErrorsExplained
  <1>1. TribInv => ErrorsExplained
    BY DEF TribInv, CallInv, FetchAt, Excused, ErrorsExplained
  <1> QED BY <1>1, TribInvariance, PTL

(***************************************************************************)
(* What a reading shows.                                                   *)
(***************************************************************************)
\* No element is in q twice.
Distinct(q) == \A i, j \in DOMAIN q : i # j => q[i] # q[j]

\* Id x entered the list of w after id y.
After(w, x, y) == \E i, j \in DOMAIN Listed(w) : i > j /\ Listed(w)[i] = x /\ Listed(w)[j] = y

\* The stored tribbles are those that were answered OK; their times differ, and
\* those of one user grow along the list.
PostsInv ==
    /\ clock \in Nat
    /\ \A p \in okPosts : /\ p = [user |-> p.user, id |-> p.id, posted |-> p.posted]
                          /\ p.user \in usersKey /\ p.posted \in Nat /\ p.posted < clock
                          /\ tribKey[Key(p.user, p.id)] = Of(p)
    /\ \A p, q \in okPosts : p.posted = q.posted => p = q
    /\ \A p, q \in okPosts : p.user = q.user /\ After(p.user, p.id, q.id) => p.posted > q.posted
    /\ \A k \in DOMAIN tribKey : \E p \in okPosts : k = Key(p.user, p.id)

\* A post is on its way for a user that exists; the id it put into the list is
\* the last of it.
PosterAt(u) ==
    /\ op[u].pc = "create" => op[u].kind = "create"
    /\ op[u].pc = "target" => op[u].kind \in {"subscribe", "unsubscribe"}
    /\ op[u].pc \in {"read", "write"} => op[u].kind \in {"post", "subscribe", "unsubscribe"}
    /\ op[u].pc \in {"read", "write", "put"} /\ op[u].kind = "post" => u \in usersKey
    /\ op[u].pc = "put" => Listed(u) # <<>> /\ Listed(u)[Len(Listed(u))] = op[u].id

\* The list of subscriptions is what was answered OK, and stays as a call that
\* is about to write it has read it.
FollAt(u) ==
    /\ OrEmpty(follKey, u) \in Seq(Members) /\ Distinct(OrEmpty(follKey, u))
    /\ ToSet(OrEmpty(follKey, u)) = follows[u]
    /\ op[u].pc # "idle" => op[u].target \in Members
    /\ op[u].pc = "write" /\ op[u].kind # "post" => op[u].list = OrEmpty(follKey, u)
    /\ op[u].pc = "write" /\ op[u].kind = "subscribe" => op[u].target \notin follows[u]
    /\ op[u].pc = "write" /\ op[u].kind = "unsubscribe" => op[u].target \in follows[u]

\* What a reading has found.
Found(u) == ToSet(op[u].tribs)
Newer(u, p) == {t \in Found(u) : t.posted > p.posted}
Covered(u, p) == Of(p) \in Found(u) \/ Cardinality(Newer(u, p)) >= MaxTribs

\* Nothing is found yet, and what had been posted is known.
StartAt(u) ==
    /\ op[u].pc # "idle" => op[u].since \subseteq okPosts
    /\ op[u].pc \in {"user", "follows"} => op[u].tribs = <<>>
    /\ op[u].pc = "list" /\ op[u].kind = "tribbles" => op[u].tribs = <<>>

\* A tribble that was found is of a user asked for already gone through, or, with
\* an id after all that are left, of the one whose list is being fetched.
Origin(u, t) ==
    \E q \in okPosts : /\ t = Of(q) /\ q.user \in Asked(u)
                       /\ \/ q.user \notin ToSet(op[u].todo)
                          \/ /\ op[u].pc = "fetch" /\ q.user = Head(op[u].todo)
                             /\ \A x \in ToSet(op[u].ids) : After(q.user, q.id, x)

\* The users of a timeline are those subscribed to, if their list is not out of date.
FollowsRead(u) == op[u].kind = "timeline" /\ <<"F", u>> \notin op[u].old => Asked(u) = follows[u]
Fresh(u, w) == <<"T", w>> \notin op[u].old

\* The tribbles of the users gone through are found, or as many newer ones as
\* an answer holds, if their list was not out of date.
ListAt(u) == op[u].pc \in {"list", "fetch"} =>
    /\ op[u].todo \in Seq(Members) /\ Distinct(op[u].todo) /\ ToSet(op[u].todo) \subseteq Asked(u)
    /\ op[u].kind = "tribbles" => op[u].todo = <<op[u].target>>
    /\ op[u].tribs \in Seq([user : Members, posted : Nat])
    /\ \A i, j \in DOMAIN op[u].tribs : i # j => op[u].tribs[i].posted # op[u].tribs[j].posted
    /\ \A t \in Found(u) : Origin(u, t)
    /\ \A p \in op[u].since : p.user \in Asked(u) \ ToSet(op[u].todo) /\ Fresh(u, p.user) => Covered(u, p)
    /\ FollowsRead(u)

\* A tribble of the user whose list is being fetched is found, or its id is
\* left, or only newer ones are.
Fetching(u, p) ==
    \/ Of(p) \in Found(u) \/ p.id \in ToSet(op[u].ids)
    \/ /\ \A x \in ToSet(op[u].ids) : After(p.user, x, p.id)
       /\ Cardinality(Newer(u, p)) + Len(op[u].ids) >= MaxTribs

IdsAt(u) == op[u].pc = "fetch" =>
    /\ op[u].todo # <<>> /\ op[u].ids \in Seq(Nat)
    /\ \A i, j \in DOMAIN op[u].ids : i < j => After(Head(op[u].todo), op[u].ids[i], op[u].ids[j])
    /\ \A p \in op[u].since : p.user = Head(op[u].todo) /\ Fresh(u, p.user) => Fetching(u, p)
    /\ op[u].kind = "tribbles" =>
          /\ Len(op[u].tribs) + Len(op[u].ids) <= MaxTribs
          /\ \A i, j \in DOMAIN op[u].tribs : i < j => op[u].tribs[i].posted > op[u].tribs[j].posted

\* What TimelineComplete says of the call of u.
Answers(u) == op[u].pc = "answer" /\ op[u].kind \in Readings /\ op[u].status = "OK" =>
    /\ \A i, j \in DOMAIN op[u].tribs : i < j => op[u].tribs[i].posted > op[u].tribs[j].posted
    /\ FollowsRead(u)
    /\ \A p \in op[u].since : p.user \in Asked(u) /\ Fresh(u, p.user) =>
           \/ Of(p) \in Shown(u)
           \/ Len(op[u].tribs) = MaxTribs /\ \A t \in Shown(u) : t.posted > p.posted

ReadAt(u) == StartAt(u) /\ ListAt(u) /\ IdsAt(u) /\ Answers(u)

\* A list of subscriptions that a server has read names nobody twice.
FollHeldInv ==
    /\ follHeld = [s \in TribServers |-> [w \in Members |-> follHeld[s][w]]]
    /\ \A s \in TribServers, w \in Members : \A l \in follHeld[s][w] : l \in Seq(Members) /\ Distinct(l)
TimeInv == /\ PostsInv /\ follows = [u \in Members |-> follows[u]]
           /\ \A u \in Members : PosterAt(u) /\ FollAt(u) /\ ReadAt(u)

\* Sequences of different elements.
LEMMA TailOfDistinct ==
  ASSUME NEW S, NEW q \in Seq(S), q # <<>>
  PROVE  /\ Tail(q) \in Seq(S) /\ Head(q) \in S /\ Head(q) = q[1] /\ 1 \in DOMAIN q
         /\ Len(Tail(q)) = Len(q) - 1
         /\ \A i \in DOMAIN Tail(q) : i + 1 \in DOMAIN q /\ Tail(q)[i] = q[i + 1] /\ i \in Nat /\ i >= 1
         /\ ToSet(q) = ToSet(Tail(q)) \cup {Head(q)}
         /\ Distinct(q) => Distinct(Tail(q)) /\ Head(q) \notin ToSet(Tail(q))
  <1>1. /\ Tail(q) \in Seq(S) /\ Head(q) \in S /\ Head(q) = q[1] /\ DOMAIN q = 1 .. Len(q) /\ Len(q) \in Nat
        /\ Len(q) >= 1 /\ DOMAIN Tail(q) = 1 .. Len(q) - 1 /\ \A i \in 1 .. Len(q) - 1 : Tail(q)[i] = q[i + 1]
        /\ Len(Tail(q)) = Len(q) - 1
    BY HeadTailProperties, LenProperties, EmptySeq
  <1> PICK n \in Nat : n = Len(q)
    BY <1>1
  <1> PICK t : t = Tail(q)
    OBVIOUS
  <1>2. /\ DOMAIN q = 1 .. n /\ n >= 1 /\ DOMAIN t = 1 .. n - 1 /\ \A i \in 1 .. n - 1 : t[i] = q[i + 1]
    BY <1>1
  <1>3. \A i \in 1 .. n - 1 : i + 1 \in 1 .. n /\ i + 1 # 1 /\ i \in Nat /\ i >= 1
    OBVIOUS
  <1>4. \A i \in 1 .. n : i = 1 \/ (i - 1 \in 1 .. n - 1 /\ t[i - 1] = q[i])
    BY <1>2
  <1>5. ToSet(q) = ToSet(t) \cup {q[1]}
    <2>1. ToSet(q) \subseteq ToSet(t) \cup {q[1]}
      <3> SUFFICES ASSUME NEW i \in 1 .. n PROVE q[i] \in ToSet(t) \cup {q[1]}
        BY <1>2 DEF ToSet
      <3> QED BY <1>2, <1>4 DEF ToSet
    <2>2. ToSet(t) \subseteq ToSet(q)
      BY <1>2, <1>3 DEF ToSet
    <2>3. q[1] \in ToSet(q)
      BY <1>2 DEF ToSet
    <2> QED BY <2>1, <2>2, <2>3
  <1>6. ASSUME Distinct(q) PROVE Distinct(t) /\ q[1] \notin ToSet(t)
    <2>1. \A i, j \in 1 .. n - 1 : i # j => i + 1 # j + 1
      OBVIOUS
    <2>2. Distinct(t)
      <3> SUFFICES ASSUME NEW i \in 1 .. n - 1, NEW j \in 1 .. n - 1, i # j PROVE t[i] # t[j]
        BY <1>2 DEF Distinct
      <3>1. i + 1 \in DOMAIN q /\ j + 1 \in DOMAIN q /\ i + 1 # j + 1
        BY <1>2, <1>3, <2>1
      <3> QED BY <1>2, <1>6, <3>1 DEF Distinct
    <2>3. q[1] \notin ToSet(t)
      BY <1>2, <1>3, <1>6 DEF Distinct, ToSet
    <2> QED BY <2>2, <2>3
  <1> QED BY <1>1, <1>2, <1>3, <1>5, <1>6

LEMMA AppendToDistinct ==
  ASSUME NEW S, NEW q \in Seq(S), NEW x \in S
  PROVE  /\ Append(q, x) \in Seq(S) /\ ToSet(Append(q, x)) = ToSet(q) \cup {x}
         /\ Len(q) \in Nat /\ Len(Append(q, x)) = Len(q) + 1
         /\ DOMAIN Append(q, x) = 1 .. Len(q) + 1 /\ DOMAIN q = 1 .. Len(q)
         /\ Append(q, x)[Len(q) + 1] = x /\ \A i \in 1 .. Len(q) : Append(q, x)[i] = q[i]
         /\ Distinct(q) /\ x \notin ToSet(q) => Distinct(Append(q, x))
  <1>1. PICK r : r = Append(q, x)
    OBVIOUS
  <1>2. PICK n \in Nat : n = Len(q)
    BY LenProperties
  <1>3. /\ r \in Seq(S) /\ Len(r) = n + 1 /\ DOMAIN r = 1 .. n + 1 /\ DOMAIN q = 1 .. n
        /\ r[n + 1] = x /\ \A i \in 1 .. n : r[i] = q[i]
    BY <1>1, <1>2, AppendProperties, LenProperties
  <1>4. \A i \in 1 .. n + 1 : i \in 1 .. n \/ i = n + 1
    OBVIOUS
  <1>5. 1 .. n \subseteq 1 .. n + 1 /\ n + 1 \in 1 .. n + 1 /\ n + 1 \notin 1 .. n
    OBVIOUS
  <1>6. ToSet(r) = ToSet(q) \cup {x}
    <2>1. ToSet(r) \subseteq ToSet(q) \cup {x}
      BY <1>3, <1>4 DEF ToSet
    <2>2. ToSet(q) \subseteq ToSet(r) /\ x \in ToSet(r)
      BY <1>3, <1>5 DEF ToSet
    <2> QED BY <2>1, <2>2
  <1>7. ASSUME Distinct(q), x \notin ToSet(q) PROVE Distinct(r)
    <2> SUFFICES ASSUME NEW i \in 1 .. n + 1, NEW j \in 1 .. n + 1, i # j PROVE r[i] # r[j]
      BY <1>3 DEF Distinct
    <2>1. \A k \in 1 .. n : q[k] # x
      BY <1>3, <1>7 DEF ToSet
    <2> QED BY <1>3, <1>4, <1>7, <2>1 DEF Distinct
  <1> QED BY <1>1, <1>2, <1>3, <1>6, <1>7

\* RemoveFromList leaves the other elements.
LEMMA WithoutIs ==
  ASSUME NEW S, NEW q \in Seq(S), Distinct(q), NEW x \in ToSet(q)
  PROVE  /\ Without(q, x) \in Seq(S) /\ Distinct(Without(q, x))
         /\ ToSet(Without(q, x)) = ToSet(q) \ {x}
  <1>1. PICK n \in Nat : n = Len(q) /\ DOMAIN q = 1 .. n
    BY LenProperties
  <1>2. PICK i \in 1 .. n : q[i] = x
    BY <1>1 DEF ToSet
  <1>3. \A j \in 1 .. n : q[j] = x => j = i
    BY <1>1, <1>2 DEF Distinct
  <1>4. (CHOOSE k \in DOMAIN q : q[k] = x /\ \A j \in 1 .. k - 1 : q[j] # x) = i
    <2>1. \A j \in 1 .. i - 1 : j \in 1 .. n /\ j # i
      OBVIOUS
    <2>2. q[i] = x /\ \A j \in 1 .. i - 1 : q[j] # x
      BY <1>2, <1>3, <2>1
    <2> QED BY <1>1, <1>2, <1>3, <2>2
  <1>5. PICK r : r = Without(q, x)
    OBVIOUS
  <1>6. r = SubSeq(q, 1, i - 1) \o SubSeq(q, i + 1, n)
    BY <1>1, <1>4, <1>5 DEF Without, RemoveAt
  <1>7. r \in Seq(S) /\ DOMAIN r = 1 .. n - 1 /\ \A j \in 1 .. n - 1 : r[j] = IF j < i THEN q[j] ELSE q[j + 1]
    <2> PICK p, s : p = SubSeq(q, 1, i - 1) /\ s = SubSeq(q, i + 1, n)
      OBVIOUS
    <2>1. /\ p \in Seq(S) /\ Len(p) = i - 1 /\ \A j \in 1 .. i - 1 : p[j] = q[j]
      <3>1. \A k \in 1 .. i - 1 : q[k] \in S
        BY <1>1, ElementOfSeq
      <3> QED BY <1>1, <3>1, SubSeqProperties
    <2>2. /\ s \in Seq(S) /\ Len(s) = n - i /\ \A j \in 1 .. n - i : s[j] = q[i + j]
      <3>1. \A k \in i + 1 .. n : q[k] \in S
        BY <1>1, ElementOfSeq
      <3>2. \A j \in 1 .. n - i : (i + 1) + j - 1 = i + j
        OBVIOUS
      <3> QED BY <1>1, <3>1, <3>2, SubSeqProperties
    <2>3. /\ r \in Seq(S) /\ Len(r) = Len(p) + Len(s)
          /\ \A j \in 1 .. Len(p) + Len(s) : r[j] = IF j <= Len(p) THEN p[j] ELSE s[j - Len(p)]
      BY <1>6, <2>1, <2>2, ConcatProperties
    <2>4. Len(r) = n - 1 /\ DOMAIN r = 1 .. n - 1
      BY <2>1, <2>2, <2>3, LenProperties
    <2>5. ASSUME NEW j \in 1 .. n - 1 PROVE r[j] = IF j < i THEN q[j] ELSE q[j + 1]
      <3>0. j \in 1 .. (i - 1) + (n - i)
        OBVIOUS
      <3>1. r[j] = IF j <= i - 1 THEN p[j] ELSE s[j - (i - 1)]
        <4> PICK a, b : a = Len(p) /\ b = Len(s)
          OBVIOUS
        <4>1. \A k \in 1 .. a + b : r[k] = IF k <= a THEN p[k] ELSE s[k - a]
          BY <2>3
        <4>2. a = i - 1 /\ b = n - i
          BY <2>1, <2>2
        <4> QED BY ONLY <3>0, <4>1, <4>2
      <3>2. CASE j < i
        <4>1. j \in 1 .. i - 1
          BY <3>2
        <4> QED BY <2>1, <3>1, <3>2, <4>1
      <3>3. CASE ~(j < i)
        <4>1. j - (i - 1) \in 1 .. n - i /\ i + (j - (i - 1)) = j + 1 /\ ~(j <= i - 1)
          BY <3>3
        <4> QED BY <2>2, <3>1, <3>3, <4>1
      <3> QED BY <3>2, <3>3
    <2> QED BY <2>3, <2>4, <2>5
  <1>8. Distinct(r)
    <2> SUFFICES ASSUME NEW j \in 1 .. n - 1, NEW k \in 1 .. n - 1, j # k PROVE r[j] # r[k]
      BY <1>7 DEF Distinct
    <2>1. PICK a \in 1 .. n : a = (IF j < i THEN j ELSE j + 1) /\ r[j] = q[a]
      BY <1>7
    <2>2. PICK b \in 1 .. n : b = (IF k < i THEN k ELSE k + 1) /\ r[k] = q[b]
      BY <1>7
    <2>3. a # b
      BY <2>1, <2>2
    <2> QED BY <1>1, <2>1, <2>2, <2>3 DEF Distinct
  <1>9. ToSet(r) = ToSet(q) \ {x}
    <2>1. ASSUME NEW j \in 1 .. n - 1 PROVE r[j] \in ToSet(q) \ {x}
      <3>1. PICK a \in 1 .. n : a = (IF j < i THEN j ELSE j + 1) /\ r[j] = q[a]
        BY <1>7
      <3>2. a # i
        BY <3>1
      <3> QED BY <1>1, <1>3, <3>1, <3>2 DEF ToSet
    <2>2. ASSUME NEW a \in 1 .. n, q[a] # x PROVE q[a] \in ToSet(r)
      <3>1. a # i
        BY <1>2, <2>2
      <3>2. PICK j \in 1 .. n - 1 : j = (IF a < i THEN a ELSE a - 1) /\ a = (IF j < i THEN j ELSE j + 1)
        BY <3>1
      <3>3. r[j] = q[a] /\ j \in DOMAIN r
        BY <1>7, <3>2
      <3> QED BY <3>3 DEF ToSet
    <2>3. ToSet(r) \subseteq ToSet(q) \ {x}
      BY <1>7, <2>1 DEF ToSet
    <2>4. ToSet(q) \ {x} \subseteq ToSet(r)
      BY <1>1, <2>2 DEF ToSet
    <2> QED BY <2>3, <2>4
  <1> QED BY <1>5, <1>7, <1>8, <1>9

(***************************************************************************)
(* What a step leaves of what is known of a call.                          *)
(***************************************************************************)
\* The lists only grow.
LEMMA AfterListed ==
  ASSUME NEW w, NEW x, NEW y, After(w, x, y), Listed(w)' = Listed(w)
  PROVE  After(w, x, y)'
  BY DEF After

\* An id stands after another, never after itself; both are in the list.
LEMMA AfterDiffers ==
  ASSUME TribInv, NEW w, NEW x, NEW y, After(w, x, y)
  PROVE  x # y /\ ~After(w, y, x) /\ w \in DOMAIN tribsKey
  <1>1. PICK i, j \in DOMAIN Listed(w) : i > j /\ Listed(w)[i] = x /\ Listed(w)[j] = y
    BY DEF After
  <1>2. w \in DOMAIN tribsKey /\ Listed(w) = tribsKey[w]
    BY <1>1 DEF Listed, OrEmpty
  <1>3. tribsKey[w] \in Seq(Nat)
    BY <1>2 DEF TribInv, Shape
  <1>4. DOMAIN tribsKey[w] \subseteq Nat
    BY <1>3, LenProperties
  <1>5. \A k, l \in DOMAIN tribsKey[w] : tribsKey[w][k] = tribsKey[w][l] => k = l
    BY <1>2 DEF TribInv, ListsInv
  <1>6. i \in Nat /\ j \in Nat
    BY <1>1, <1>2, <1>4
  <1>7. x # y
    BY <1>1, <1>2, <1>5, <1>6
  <1>8. ASSUME After(w, y, x) PROVE FALSE
    <2>1. PICK k, l \in DOMAIN Listed(w) : k > l /\ Listed(w)[k] = y /\ Listed(w)[l] = x
      BY <1>8 DEF After
    <2>2. k = j /\ l = i
      BY <1>1, <1>2, <1>5, <2>1
    <2> QED BY <1>1, <1>6, <2>1, <2>2
  <1> QED BY <1>2, <1>7, <1>8

\* A call that does not move, or is cut off.
LEMMA CallFrame ==
  ASSUME NEW v \in Members, PosterAt(v), FollAt(v), ReadAt(v),
         \/ op'[v] = NoOp
         \/ /\ op'[v].pc = op[v].pc
            /\ op[v].pc # "idle" =>
                  /\ op'[v].kind = op[v].kind /\ op'[v].target = op[v].target /\ op'[v].id = op[v].id
                  /\ op'[v].list = op[v].list /\ op'[v].todo = op[v].todo /\ op'[v].ids = op[v].ids
                  /\ op'[v].tribs = op[v].tribs /\ op'[v].status = op[v].status /\ op'[v].since = op[v].since
                  /\ op'[v].old = op[v].old,
         follows'[v] = follows[v], OrEmpty(follKey, v)' = OrEmpty(follKey, v), Listed(v)' = Listed(v),
         usersKey \subseteq usersKey', okPosts \subseteq okPosts',
         \A w, x, y : After(w, x, y) => After(w, x, y)'
  PROVE  PosterAt(v)' /\ FollAt(v)' /\ ReadAt(v)'
  <1>1. CASE op'[v] = NoOp
    <2>1. op'[v].pc = "idle"
      BY <1>1 DEF NoOp
    <2> QED BY <2>1 DEF PosterAt, FollAt, ReadAt, StartAt, ListAt, IdsAt, Answers
  <1>2. CASE op[v].pc = "idle" /\ op'[v].pc = "idle"
    BY <1>2 DEF PosterAt, FollAt, ReadAt, StartAt, ListAt, IdsAt, Answers
  <1>3. CASE /\ op[v].pc # "idle" /\ op'[v].pc = op[v].pc
             /\ op'[v].kind = op[v].kind /\ op'[v].target = op[v].target /\ op'[v].id = op[v].id
             /\ op'[v].list = op[v].list /\ op'[v].todo = op[v].todo /\ op'[v].ids = op[v].ids
             /\ op'[v].tribs = op[v].tribs /\ op'[v].status = op[v].status /\ op'[v].since = op[v].since
             /\ op'[v].old = op[v].old
    <2>1. PosterAt(v)'
      BY <1>3 DEF PosterAt
    <2>2. FollAt(v)'
      BY <1>3 DEF FollAt
    <2>3. StartAt(v)'
      BY <1>3 DEF ReadAt, StartAt
    <2>4. Asked(v)' = Asked(v) /\ Found(v)' = Found(v) /\ Shown(v)' = Shown(v)
      BY <1>3 DEF Asked, Found, Shown
    <2>5. \A p : (Covered(v, p)' <=> Covered(v, p)) /\ Newer(v, p)' = Newer(v, p) /\ Of(p)' = Of(p)
      BY <2>4 DEF Covered, Newer, Of
    <2>9. (FollowsRead(v)' <=> FollowsRead(v)) /\ \A w : Fresh(v, w)' <=> Fresh(v, w)
      BY <1>3, <2>4 DEF FollowsRead, Fresh
    <2>6. ListAt(v)'
      <3>1. \A t : Origin(v, t) => Origin(v, t)'
        BY <1>3, <2>4 DEF Origin, Of
      <3> QED BY <1>3, <2>4, <2>5, <2>9, <3>1 DEF ReadAt, ListAt
    <2>7. IdsAt(v)'
      <3>1. \A p : Fetching(v, p) => Fetching(v, p)'
        BY <1>3, <2>4, <2>5 DEF Fetching
      <3> QED BY <1>3, <2>9, <3>1 DEF ReadAt, IdsAt
    <2>8. Answers(v)'
      BY <1>3, <2>4, <2>5, <2>9 DEF ReadAt, Answers
    <2> QED BY <2>1, <2>2, <2>3, <2>6, <2>7, <2>8 DEF ReadAt
  <1> QED BY <1>1, <1>2, <1>3

\* Nothing is posted.
LEMMA PostsFrame ==
  ASSUME PostsInv, UNCHANGED <<conn, tribsKey, tribKey, okPosts, clock>>, usersKey \subseteq usersKey'
  PROVE  PostsInv' /\ \A w, x, y : After(w, x, y) => After(w, x, y)'
  <1>1. \A w : Listed(w)' = Listed(w)
    BY DEF Listed, OrEmpty
  <1>2. \A w, x, y : After(w, x, y)' <=> After(w, x, y)
    BY <1>1 DEF After
  <1>3. \A w, x : Key(w, x)' = Key(w, x)
    BY DEF Key
  <1> QED BY <1>2, <1>3 DEF PostsInv, Of

\* A step of the call of u in which nothing is posted.
LEMMA OwnStep ==
  ASSUME TimeInv, NEW u \in Members, UNCHANGED <<conn, tribsKey, tribKey, okPosts, clock, follKey, follows>>,
         usersKey \subseteq usersKey', \A v \in Members : v # u => op'[v] = op[v],
         PosterAt(u)', FollAt(u)', ReadAt(u)'
  PROVE  TimeInv'
  <1>1. PostsInv' /\ \A w, x, y : After(w, x, y) => After(w, x, y)'
    BY PostsFrame DEF TimeInv
  <1>2. \A w : Listed(w)' = Listed(w) /\ OrEmpty(follKey, w)' = OrEmpty(follKey, w)
    BY DEF Listed, OrEmpty
  <1>3. ASSUME NEW v \in Members, v # u PROVE PosterAt(v)' /\ FollAt(v)' /\ ReadAt(v)'
    <2>1. PosterAt(v) /\ FollAt(v) /\ ReadAt(v) /\ op'[v] = op[v]
      BY <1>3 DEF TimeInv
    <2> QED BY <1>1, <1>2, <2>1, CallFrame
  <1> QED BY <1>1, <1>3 DEF TimeInv

LEMMA InitTimeInv == TribInit => TimeInv
  <1> SUFFICES ASSUME TribInit PROVE TimeInv
    OBVIOUS
  <1>1. \A u \in Members : op[u].pc = "idle" /\ OrEmpty(follKey, u) = <<>> /\ follows[u] = {}
    BY DEF TribInit, NoOp, OrEmpty
  <1>2. PostsInv
    BY DEF TribInit, PostsInv
  <1>3. Distinct(<<>>) /\ ToSet(<<>>) = {} /\ <<>> \in Seq(Members)
    BY DEF Distinct, ToSet
  <1>4. \A u \in Members : PosterAt(u) /\ FollAt(u) /\ ReadAt(u)
    BY <1>1, <1>3 DEF PosterAt, FollAt, ReadAt, StartAt, ListAt, IdsAt, Answers
  <1> QED BY <1>2, <1>4 DEF TimeInv, TribInit

\* A step after which the call is over, answered without tribbles, or on its
\* way to a list.
LEMMA PlainTime ==
  ASSUME TribInv, TimeInv, NEW u \in Members,
         UNCHANGED <<conn, tribsKey, tribKey, okPosts, clock, follKey, follows>>, usersKey \subseteq usersKey',
         op[u].pc # "idle", NEW c, op' = [op EXCEPT ![u] = c],
         c.kind = op[u].kind, c.target = op[u].target, c.since = op[u].since, c.tribs = op[u].tribs,
         c.pc \in {"create", "target", "read", "write", "follows", "answer"},
         c.pc = "answer" => c.status # "OK" \/ c.kind \notin Readings,
         c.pc = "follows" => op[u].pc = "user",
         c.pc = "create" => c.kind = "create",
         c.pc = "target" => c.kind \in {"subscribe", "unsubscribe"},
         c.pc \in {"read", "write"} => c.kind \in {"post", "subscribe", "unsubscribe"} /\ (c.kind = "post" => u \in usersKey),
         c.pc = "write" /\ c.kind # "post" => c.list = OrEmpty(follKey, u),
         c.pc = "write" /\ c.kind = "subscribe" => c.target \notin ToSet(OrEmpty(follKey, u)),
         c.pc = "write" /\ c.kind = "unsubscribe" => c.target \in ToSet(OrEmpty(follKey, u))
  PROVE  TimeInv'
  <1>1. op'[u] = c /\ \A v \in Members : v # u => op'[v] = op[v]
    BY DEF TribInv, Shape
  <1>2. OrEmpty(follKey, u)' = OrEmpty(follKey, u)
    BY DEF OrEmpty
  <1>3. PosterAt(u) /\ FollAt(u) /\ ReadAt(u)
    BY DEF TimeInv
  <1>4. PosterAt(u)'
    BY <1>1, <1>3 DEF PosterAt
  <1>5. FollAt(u)'
    BY <1>1, <1>2, <1>3 DEF FollAt
  <1>6. ReadAt(u)'
    BY <1>1, <1>3 DEF ReadAt, StartAt, ListAt, IdsAt, Answers
  <1> QED BY <1>1, <1>4, <1>5, <1>6, OwnStep

\* A step of a reading.
LEMMA ReadingTime ==
  ASSUME TribInv, TimeInv, NEW u \in Members,
         UNCHANGED <<conn, tribsKey, tribKey, okPosts, clock, follKey, follows, usersKey>>,
         op[u].pc # "idle", NEW c, op' = [op EXCEPT ![u] = c],
         c.kind = op[u].kind, c.target = op[u].target, c.since = op[u].since,
         c.pc \in {"list", "fetch", "answer"}, c.pc = "list" /\ c.kind = "tribbles" => c.tribs = <<>>,
         ListAt(u)', IdsAt(u)', Answers(u)'
  PROVE  TimeInv'
  <1>1. op'[u] = c /\ \A v \in Members : v # u => op'[v] = op[v]
    BY DEF TribInv, Shape
  <1>2. OrEmpty(follKey, u)' = OrEmpty(follKey, u)
    BY DEF OrEmpty
  <1>3. PosterAt(u) /\ FollAt(u) /\ ReadAt(u)
    BY DEF TimeInv
  <1>4. PosterAt(u)'
    BY <1>1, <1>3 DEF PosterAt
  <1>5. FollAt(u)'
    BY <1>1, <1>2, <1>3 DEF FollAt
  <1>6. StartAt(u)'
    BY <1>1, <1>3 DEF ReadAt, StartAt
  <1> QED BY <1>1, <1>4, <1>5, <1>6, OwnStep DEF ReadAt

\* A reading goes to its list of users.
LEMMA ToList ==
  ASSUME TribInv, TimeInv, NEW u \in Members,
         UNCHANGED <<conn, tribsKey, tribKey, okPosts, clock, follKey, follows, usersKey>>,
         op[u].pc \in {"user", "follows"}, NEW c, op' = [op EXCEPT ![u] = c],
         c.kind = op[u].kind, c.target = op[u].target, c.since = op[u].since, c.tribs = op[u].tribs,
         c.pc = "list", c.kind \in Readings,
         \/ c.kind = "tribbles" /\ c.todo = <<op[u].target>>
         \/ /\ c.kind # "tribbles" /\ c.todo = c.list /\ c.list \in Seq(Members) /\ Distinct(c.list)
            /\ <<"F", u>> \notin c.old => c.list = OrEmpty(follKey, u)
  PROVE  TimeInv'
  <1>1. op'[u] = c
    BY DEF TribInv, Shape
  <1>2. FollAt(u) /\ StartAt(u)
    BY DEF TimeInv, ReadAt
  <1>3. c.tribs = <<>> /\ c.target \in Members
    BY <1>2 DEF StartAt, FollAt
  <1>4. /\ c.todo \in Seq(Members) /\ Distinct(c.todo) /\ ToSet(c.todo) = Asked(u)'
        /\ c.kind = "timeline" /\ <<"F", u>> \notin c.old => Asked(u)' = follows[u]
    <2>1. CASE c.kind = "tribbles" /\ c.todo = <<op[u].target>>
      <3>1. Asked(u)' = {c.target}
        BY <1>1, <2>1 DEF Asked
      <3>2. Distinct(<<c.target>>) /\ ToSet(<<c.target>>) = {c.target} /\ <<c.target>> \in Seq(Members)
        BY <1>3 DEF Distinct, ToSet
      <3> QED BY <2>1, <3>1, <3>2
    <2>2. CASE /\ c.kind # "tribbles" /\ c.todo = c.list /\ c.list \in Seq(Members) /\ Distinct(c.list)
               /\ <<"F", u>> \notin c.old => c.list = OrEmpty(follKey, u)
      <3>1. Asked(u)' = ToSet(c.list)
        BY <1>1, <2>2 DEF Asked
      <3> QED BY <1>2, <2>2, <3>1 DEF FollAt
    <2> QED BY <2>1, <2>2
  <1>5. Found(u)' = {} /\ DOMAIN c.tribs = {}
    BY <1>1, <1>3 DEF Found, ToSet
  <1>6. ListAt(u)'
    <2>1. c.kind = "tribbles" => c.todo = <<c.target>>
      OBVIOUS
    <2>2. c.tribs \in Seq([user : Members, posted : Nat])
      BY <1>3
    <2>3. ToSet(c.todo) \subseteq Asked(u)' /\ Asked(u)' \ ToSet(c.todo) = {}
      BY <1>4
    <2>4. FollowsRead(u)'
      BY <1>1, <1>4 DEF FollowsRead
    <2> QED BY <1>1, <1>4, <1>5, <2>1, <2>2, <2>3, <2>4 DEF ListAt
  <1>7. IdsAt(u)' /\ Answers(u)'
    BY <1>1 DEF IdsAt, Answers
  <1> QED BY <1>1, <1>3, <1>6, <1>7, ReadingTime

\* The steps of a call before it reads tribbles.
LEMMA EarlySteps ==
  ASSUME TribInv, TimeInv, FollHeldInv, NEW u \in Members,
         \/ GetUser(u) \/ GetPoster(u) \/ CreateUser(u) \/ GetTarget(u) \/ ReadToChange(u) \/ GetFollows(u) \/ Return(u)
  PROVE  TimeInv'
  <1>0. /\ CallInv(u) /\ op = [v \in Members |-> op[v]] /\ op[u].pc # "idle"
        /\ PosterAt(u) /\ FollAt(u) /\ ReadAt(u)
    BY DEF TribInv, Shape, TimeInv, GetUser, GetPoster, CreateUser, GetTarget, ReadToChange, GetFollows, Return
  <1>1. Whole(op[u])
    BY <1>0, RunningShape
  <1>2. UNCHANGED <<conn, tribsKey, tribKey, okPosts, clock, follKey, follows>> /\ usersKey \subseteq usersKey'
    BY DEF GetUser, GetPoster, CreateUser, GetTarget, ReadToChange, GetFollows, Return, tribPast
  <1>3. ASSUME NEW c, op' = [op EXCEPT ![u] = c],
               c.kind = op[u].kind, c.target = op[u].target, c.since = op[u].since, c.tribs = op[u].tribs,
               c.pc \in {"create", "target", "read", "follows", "answer"},
               c.pc = "answer" => c.status # "OK" \/ c.kind \notin Readings,
               c.pc = "follows" => op[u].pc = "user",
               c.pc = "create" => c.kind = "create",
               c.pc = "target" => c.kind \in {"subscribe", "unsubscribe"},
               c.pc = "read" => c.kind \in {"post", "subscribe", "unsubscribe"} /\ (c.kind = "post" => u \in usersKey)
        PROVE  TimeInv'
    BY <1>0, <1>2, <1>3, PlainTime
  <1>4. ASSUME NEW pc \in {"create", "target", "read", "follows"}, Step(u, pc),
               pc = "follows" => op[u].pc = "user",
               pc = "create" => op[u].kind = "create",
               pc = "target" => op[u].kind \in {"subscribe", "unsubscribe"},
               pc = "read" => op[u].kind \in {"subscribe", "unsubscribe"}
        PROVE  TimeInv'
    <2>1. PICK c : c = [op[u] EXCEPT !.pc = pc]
      OBVIOUS
    <2>2. /\ c.pc = pc /\ c.kind = op[u].kind /\ c.target = op[u].target /\ c.since = op[u].since
          /\ c.tribs = op[u].tribs
      BY <1>1, <2>1 DEF Whole
    <2>3. op' = [op EXCEPT ![u] = c]
      BY <1>0, <1>4, <2>1 DEF Step
    <2> QED BY <1>3, <1>4, <2>2, <2>3
  <1>5. ASSUME NEW status, Finish(u, status), status # "OK" \/ op[u].kind \notin Readings PROVE TimeInv'
    <2>1. PICK c : c = [op[u] EXCEPT !.pc = "answer", !.status = status]
      OBVIOUS
    <2>2. /\ c.pc = "answer" /\ c.kind = op[u].kind /\ c.target = op[u].target /\ c.since = op[u].since
          /\ c.tribs = op[u].tribs /\ c.status = status
      BY <1>1, <2>1 DEF Whole
    <2>3. op' = [op EXCEPT ![u] = c]
      BY <1>0, <1>5, <2>1 DEF Finish
    <2> QED BY <1>3, <1>5, <2>2, <2>3
  <1>6. CASE GetUser(u)
    <2>0. op[u].pc = "user" /\ usersKey' = usersKey
      BY <1>6 DEF GetUser
    <2>1. CASE op[u].kind = "tribbles" /\ op' = [op EXCEPT ![u].pc = "list", ![u].todo = <<op[u].target>>]
      <3>1. PICK c : c = [op[u] EXCEPT !.pc = "list", !.todo = <<op[u].target>>]
        OBVIOUS
      <3>2. /\ c.pc = "list" /\ c.kind = op[u].kind /\ c.target = op[u].target /\ c.since = op[u].since
            /\ c.tribs = op[u].tribs /\ c.todo = <<op[u].target>>
        BY <1>1, <3>1 DEF Whole
      <3>3. op' = [op EXCEPT ![u] = c]
        BY <1>0, <2>1, <3>1
      <3>4. c.kind \in Readings
        BY <2>1, <3>2 DEF Readings
      <3> QED BY <1>2, <2>0, <2>1, <3>2, <3>3, <3>4, ToList
    <2> QED BY <1>4, <1>5, <1>6, <2>0, <2>1 DEF GetUser
  <1>7. CASE GetPoster(u)
    <2>1. PICK id : op' = [op EXCEPT ![u].pc = "read", ![u].id = id] /\ op[u].kind = "post" /\ u \in usersKey
      BY <1>7 DEF GetPoster
    <2>2. PICK c : c = [op[u] EXCEPT !.pc = "read", !.id = id]
      OBVIOUS
    <2>3. /\ c.pc = "read" /\ c.kind = op[u].kind /\ c.target = op[u].target /\ c.since = op[u].since
          /\ c.tribs = op[u].tribs
      BY <1>1, <2>2 DEF Whole
    <2>4. op' = [op EXCEPT ![u] = c]
      BY <1>0, <2>1, <2>2
    <2> QED BY <1>3, <2>1, <2>3, <2>4
  <1>8. CASE CreateUser(u)
    <2>1. PICK c : c = [op[u] EXCEPT !.pc = "answer", !.status = "OK"]
      OBVIOUS
    <2>2. /\ c.pc = "answer" /\ c.kind = op[u].kind /\ c.target = op[u].target /\ c.since = op[u].since
          /\ c.tribs = op[u].tribs
      BY <1>1, <2>1 DEF Whole
    <2>3. op' = [op EXCEPT ![u] = c]
      BY <1>0, <1>8, <2>1 DEF CreateUser, Finish
    <2>4. c.kind \notin Readings
      BY <1>0, <1>8, <2>2 DEF CreateUser, PosterAt, Readings
    <2> QED BY <1>3, <2>2, <2>3, <2>4
  <1>9. CASE GetTarget(u)
    <2>1. op[u].kind \in {"subscribe", "unsubscribe"}
      BY <1>0, <1>9 DEF GetTarget, PosterAt
    <2> QED BY <1>4, <1>5, <1>9, <2>1 DEF GetTarget
  <1>10. CASE ReadToChange(u)
    <2>0. op[u].kind \in {"post", "subscribe", "unsubscribe"} /\ (op[u].kind = "post" => u \in usersKey)
      BY <1>0, <1>10 DEF ReadToChange, PosterAt
    <2>1. CASE \E status : Finish(u, status) /\ status # "OK"
      BY <1>5, <2>1
    <2>2. CASE /\ op' = [op EXCEPT ![u].pc = "write", ![u].list = ListOf(u)]
               /\ (Item(u) \in ToSet(ListOf(u))) <=> (op[u].kind = "unsubscribe")
      <3>1. PICK c : c = [op[u] EXCEPT !.pc = "write", !.list = ListOf(u)]
        OBVIOUS
      <3>2. /\ c.pc = "write" /\ c.kind = op[u].kind /\ c.target = op[u].target /\ c.since = op[u].since
            /\ c.tribs = op[u].tribs /\ c.list = ListOf(u)
        BY <1>1, <3>1 DEF Whole
      <3>3. op' = [op EXCEPT ![u] = c]
        BY <1>0, <2>2, <3>1
      <3>4. op[u].kind # "post" => /\ c.list = OrEmpty(follKey, u)
                                   /\ (c.target \in ToSet(OrEmpty(follKey, u))) <=> (op[u].kind = "unsubscribe")
        BY <2>2, <3>2 DEF ListOf, Item
      <3> QED BY <1>0, <1>2, <2>0, <3>2, <3>3, <3>4, PlainTime
    <2> QED BY <1>10, <2>1, <2>2 DEF ReadToChange
  <1>11. CASE GetFollows(u)
    <2>0. op[u].kind \in {"subscriptions", "timeline"} /\ op[u].pc = "follows" /\ usersKey' = usersKey
      BY <1>0, <1>11 DEF GetFollows, CallInv, FetchAt
    <2>1. CASE u \notin DOMAIN follKey
      BY <1>5, <1>11, <2>1 DEF GetFollows
    <2>2. CASE u \in DOMAIN follKey
      <3>1. PICK l, old :
                 /\ l \in follHeld[conn[u]][u] \cup {follKey[u]}
                 /\ old = OldKeys(u, <<"F", u>>, l, follKey[u])
                 /\ op' = IF op[u].kind = "subscriptions"
                          THEN [op EXCEPT ![u].pc = "answer", ![u].status = "OK", ![u].list = l, ![u].old = old]
                          ELSE [op EXCEPT ![u].pc = "list", ![u].todo = l, ![u].list = l, ![u].old = old]
        BY <1>11, <2>2 DEF GetFollows
      <3>2. CASE op[u].kind = "subscriptions"
        <4>1. PICK c : c = [op[u] EXCEPT !.pc = "answer", !.status = "OK", !.list = l, !.old = old]
          OBVIOUS
        <4>2. /\ c.pc = "answer" /\ c.kind = op[u].kind /\ c.target = op[u].target /\ c.since = op[u].since
              /\ c.tribs = op[u].tribs
          BY <1>1, <4>1 DEF Whole
        <4>3. op' = [op EXCEPT ![u] = c]
          BY <1>0, <3>1, <3>2, <4>1
        <4>4. c.kind \notin Readings
          BY <3>2, <4>2 DEF Readings
        <4> QED BY <1>3, <4>2, <4>3, <4>4
      <3>3. CASE op[u].kind = "timeline"
        <4>1. PICK c : c = [op[u] EXCEPT !.pc = "list", !.todo = l, !.list = l, !.old = old]
          OBVIOUS
        <4>2. /\ c.pc = "list" /\ c.kind = op[u].kind /\ c.target = op[u].target /\ c.since = op[u].since
              /\ c.tribs = op[u].tribs /\ c.todo = l /\ c.list = l /\ c.old = old
          BY <1>1, <4>1 DEF Whole
        <4>3. op' = [op EXCEPT ![u] = c]
          BY <1>0, <3>1, <3>3, <4>1
        <4>4. c.kind \in Readings /\ c.kind # "tribbles" /\ OrEmpty(follKey, u) = follKey[u]
          BY <2>2, <3>3, <4>2 DEF Readings, OrEmpty
        <4>5. l \in Seq(Members) /\ Distinct(l)
          <5>1. conn[u] \in TribServers
            BY DEF TribInv, Shape
          <5> QED BY <1>0, <3>1, <4>4, <5>1 DEF FollHeldInv, FollAt
        <4>6. <<"F", u>> \notin old => l = follKey[u]
          BY <3>1 DEF OldKeys
        <4> QED BY <1>2, <2>0, <4>2, <4>3, <4>4, <4>5, <4>6, ToList
      <3> QED BY <2>0, <3>2, <3>3
    <2> QED BY <2>1, <2>2
  <1>12. CASE Return(u)
    <2>1. op'[u] = NoOp /\ \A v \in Members : v # u => op'[v] = op[v]
      BY <1>0, <1>12 DEF Return
    <2>2. /\ Listed(u)' = Listed(u) /\ OrEmpty(follKey, u)' = OrEmpty(follKey, u)
          /\ \A w, x, y : After(w, x, y) => After(w, x, y)'
      BY <1>2, PostsFrame DEF Listed, OrEmpty, TimeInv
    <2>3. PosterAt(u)' /\ FollAt(u)' /\ ReadAt(u)'
      BY <1>0, <1>2, <2>1, <2>2, CallFrame
    <2> QED BY <1>2, <2>1, <2>3, OwnStep
  <1> QED BY <1>6, <1>7, <1>8, <1>9, <1>10, <1>11, <1>12

(***************************************************************************)
(* Counting and sorting.                                                   *)
(***************************************************************************)
LEMMA CountFirst ==
  ASSUME NEW k \in Nat, NEW f, NEW T, \A t \in T : \E i \in 1 .. k : f[i] = t
  PROVE  IsFiniteSet(T) /\ Cardinality(T) \in Nat /\ Cardinality(T) <= k
  <1> DEFINE U == {f[i] : i \in 1 .. k}
             g == [i \in 1 .. k |-> f[i]]
  <1>1. g \in [1 .. k -> U] /\ \A t \in U : \E i \in 1 .. k : g[i] = t
    OBVIOUS
  <1>2. g \in Surjection(1 .. k, U)
    BY <1>1 DEF Surjection
  <1>3. IsFiniteSet(1 .. k) /\ Cardinality(1 .. k) = k
    BY FS_Interval
  <1>4. IsFiniteSet(U) /\ Cardinality(U) <= k
    BY <1>2, <1>3, FS_Surjection
  <1>5. T \in SUBSET U
    OBVIOUS
  <1>6. IsFiniteSet(T) /\ Cardinality(T) <= Cardinality(U)
    BY <1>4, <1>5, FS_Subset
  <1>7. Cardinality(T) \in Nat /\ Cardinality(U) \in Nat
    BY <1>4, <1>6, FS_CardinalityType
  <1> QED BY <1>4, <1>6, <1>7

\* The first MaxTribs elements, or all.
LEMMA NewestIs ==
  ASSUME NEW S, NEW q \in Seq(S), NEW n \in Nat, n = Len(q)
  PROVE  \E m \in 0 .. n :
            /\ m <= MaxTribs /\ (m < n => m = MaxTribs)
            /\ Newest(q) \in Seq(S) /\ Len(Newest(q)) = m /\ DOMAIN Newest(q) = 1 .. m
            /\ \A i \in 1 .. m : Newest(q)[i] = q[i]
  <1>1. DOMAIN q = 1 .. n
    BY LenProperties
  <1>2. PICK m \in 0 .. n : m = (IF n < MaxTribs THEN n ELSE MaxTribs)
    BY TribAssumption
  <1>3. m <= MaxTribs /\ (m < n => m = MaxTribs)
    BY <1>2, TribAssumption
  <1>4. Newest(q) = SubSeq(q, 1, m)
    BY <1>1, <1>2 DEF Newest
  <1>5. /\ SubSeq(q, 1, m) \in Seq(S) /\ Len(SubSeq(q, 1, m)) = m
        /\ \A i \in 1 .. m : SubSeq(q, 1, m)[i] = q[i]
    BY <1>1
  <1>6. DOMAIN SubSeq(q, 1, m) = 1 .. m
    BY <1>5, LenProperties
  <1> QED BY <1>1, <1>3, <1>4, <1>5, <1>6

\* ids is the last MaxTribs ids of the list s, from the end.
FromTheEnd(ids, s) ==
    \E n \in Nat : \E m \in 0 .. n :
        /\ DOMAIN s = 1 .. n /\ m <= MaxTribs /\ (m < n => m = MaxTribs)
        /\ ids \in Seq(Nat) /\ Len(ids) = m /\ DOMAIN ids = 1 .. m
        /\ \A i \in 1 .. m : (n - i) + 1 \in 1 .. n /\ ids[i] = s[(n - i) + 1]

\* GetTribbles goes through the newest ids.
LEMMA NewestIdsAre ==
  ASSUME NEW s \in Seq(Nat), NEW ids, ids = Newest(Reverse(s))
  PROVE  FromTheEnd(ids, s)
  <1>1. PICK n \in Nat : n = Len(s) /\ DOMAIN s = 1 .. n
    BY LenProperties
  <1>2. PICK r : r = Reverse(s)
    OBVIOUS
  <1>3. r = [i \in 1 .. n |-> s[(n - i) + 1]]
    BY <1>1, <1>2 DEF Reverse
  <1>4. \A i \in 1 .. n : (n - i) + 1 \in 1 .. n /\ s[(n - i) + 1] \in Nat
    BY <1>1, ElementOfSeq
  <1>5. r \in Seq(Nat) /\ Len(r) = n
    <2>1. r \in [1 .. n -> Nat]
      BY <1>3, <1>4
    <2> QED BY <1>1, <2>1, SeqDef, LenProperties
  <1>6. PICK m \in 0 .. n : /\ m <= MaxTribs /\ (m < n => m = MaxTribs)
                            /\ ids \in Seq(Nat) /\ Len(ids) = m /\ DOMAIN ids = 1 .. m
                            /\ \A i \in 1 .. m : ids[i] = r[i]
    <2>1. n = Len(r)
      BY <1>5
    <2>2. ids = Newest(r)
      BY <1>2
    <2>3. \E m \in 0 .. n :
            /\ m <= MaxTribs /\ (m < n => m = MaxTribs)
            /\ Newest(r) \in Seq(Nat) /\ Len(Newest(r)) = m /\ DOMAIN Newest(r) = 1 .. m
            /\ \A i \in 1 .. m : Newest(r)[i] = r[i]
      BY ONLY <1>5, <2>1, NewestIs, n \in Nat, Zenon
    <2> QED BY <2>2, <2>3
  <1>7. \A i \in 1 .. m : i \in 1 .. n
    OBVIOUS
  <1>8. \A i \in 1 .. m : (n - i) + 1 \in 1 .. n /\ ids[i] = s[(n - i) + 1]
    BY <1>3, <1>4, <1>6, <1>7
  <1> QED BY <1>1, <1>6, <1>8 DEF FromTheEnd

\* An answer is the newest of what was found.
LEMMA SortedAnswer ==
  ASSUME NEW tribs \in Seq([user : Members, posted : Nat]),
         \A i, j \in DOMAIN tribs : i # j => tribs[i].posted # tribs[j].posted,
         NEW s \in Sorted(tribs), NEW a, a = Newest(s)
  PROVE  /\ a \in Seq([user : Members, posted : Nat])
         /\ \A i, j \in DOMAIN a : i < j => a[i].posted > a[j].posted
         /\ \A p \in Nat : Cardinality({t \in ToSet(tribs) : t.posted > p}) >= MaxTribs =>
                Len(a) = MaxTribs /\ \A t \in ToSet(a) : t.posted > p
         /\ \A x \in ToSet(tribs) : x \in ToSet(a) \/ (Len(a) = MaxTribs /\ \A t \in ToSet(a) : t.posted > x.posted)
  <1> DEFINE R == [user : Members, posted : Nat]
  <1>1. PICK n \in Nat : n = Len(tribs) /\ DOMAIN tribs = 1 .. n
    BY LenProperties
  <1>2. PICK f \in Bijection(1 .. n, 1 .. n) : s = [i \in 1 .. n |-> tribs[f[i]]]
    BY <1>1 DEF Sorted, Arrangements
  <1>3. /\ f \in [1 .. n -> 1 .. n] /\ (\A i, j \in 1 .. n : f[i] = f[j] => i = j)
        /\ \A j \in 1 .. n : \E i \in 1 .. n : f[i] = j
    BY <1>2 DEF Bijection, Injection, IsInjective, Surjection
  <1>4. DOMAIN s = 1 .. n /\ \A i \in 1 .. n : f[i] \in 1 .. n /\ s[i] = tribs[f[i]] /\ s[i] \in R
    <2>1. \A i \in 1 .. n : tribs[i] \in R
      BY <1>1, ElementOfSeq
    <2> QED BY <1>2, <1>3, <2>1
  <1>5. s \in Seq(R) /\ Len(s) = n
    <2>1. s \in [1 .. n -> R]
      BY <1>2, <1>4
    <2> QED BY <1>1, <2>1, SeqDef, LenProperties
  <1>6. \A i, j \in 1 .. n : i < j => s[i].posted > s[j].posted
    <2> SUFFICES ASSUME NEW i \in 1 .. n, NEW j \in 1 .. n, i < j PROVE s[i].posted > s[j].posted
      OBVIOUS
    <2>1. s[i].posted >= s[j].posted
      BY <1>4 DEF Sorted
    <2>2. f[i] # f[j] /\ f[i] \in 1 .. n /\ f[j] \in 1 .. n
      BY <1>3
    <2>3. s[i].posted # s[j].posted
      BY <1>1, <1>4, <2>2
    <2>4. s[i].posted \in Nat /\ s[j].posted \in Nat
      BY <1>4
    <2> QED BY <2>1, <2>3, <2>4
  <1>7. ASSUME NEW x \in ToSet(tribs) PROVE \E i \in 1 .. n : s[i] = x
    BY <1>1, <1>3, <1>4, <1>7 DEF ToSet
  <1>8. PICK m \in 0 .. n : /\ m <= MaxTribs /\ (m < n => m = MaxTribs)
                            /\ a \in Seq(R) /\ Len(a) = m /\ DOMAIN a = 1 .. m
                            /\ \A i \in 1 .. m : a[i] = s[i]
    <2>1. n = Len(s)
      BY <1>5
    <2>3. \E m \in 0 .. n :
            /\ m <= MaxTribs /\ (m < n => m = MaxTribs)
            /\ Newest(s) \in Seq(R) /\ Len(Newest(s)) = m /\ DOMAIN Newest(s) = 1 .. m
            /\ \A i \in 1 .. m : Newest(s)[i] = s[i]
      BY ONLY <1>5, <2>1, NewestIs, n \in Nat, Zenon
    <2> QED BY <2>3
  <1>9. \A i \in 1 .. m : i \in 1 .. n /\ s[i].posted \in Nat
    BY <1>4
  <1>10. \A i, j \in DOMAIN a : i < j => a[i].posted > a[j].posted
    BY <1>6, <1>8, <1>9
  <1>11. ASSUME NEW p \in Nat, Cardinality({t \in ToSet(tribs) : t.posted > p}) >= MaxTribs
         PROVE  Len(a) = MaxTribs /\ \A t \in ToSet(a) : t.posted > p
    <2> PICK T : T = {t \in ToSet(tribs) : t.posted > p}
      OBVIOUS
    <2>1. \A t \in T : \E i \in 1 .. n : s[i] = t /\ s[i].posted > p
      BY <1>7
    <2>2. Cardinality(T) \in Nat /\ Cardinality(T) <= n
      <3>1. \A t \in T : \E i \in 1 .. n : s[i] = t
        BY <2>1
      <3> QED BY ONLY <3>1, CountFirst, n \in Nat
    <2>3. m = MaxTribs
      BY <1>8, <1>11, <2>2, TribAssumption
    <2>4. ASSUME NEW i \in 1 .. m, ~(s[i].posted > p) PROVE FALSE
      <3>1. ASSUME NEW j \in 1 .. n, s[j].posted > p PROVE j \in 1 .. i - 1
        <4>1. s[i].posted \in Nat /\ s[j].posted \in Nat /\ i \in 1 .. n
          BY <1>4, <1>9
        <4>2. ~(i < j)
          BY <1>6, <2>4, <3>1, <4>1
        <4>3. i # j
          BY <2>4, <3>1
        <4> QED BY <4>2, <4>3
      <3>2. PICK k \in Nat : k = i - 1
        OBVIOUS
      <3>3. \A t \in T : \E j \in 1 .. k : s[j] = t
        BY <2>1, <3>1, <3>2
      <3>4. Cardinality(T) \in Nat /\ Cardinality(T) <= k
        BY ONLY <3>3, CountFirst, k \in Nat
      <3> QED BY <1>11, <2>3, <3>2, <3>4, TribAssumption
    <2>5. \A t \in ToSet(a) : t.posted > p
      BY <1>8, <2>4 DEF ToSet
    <2> QED BY <1>8, <2>3, <2>5
  <1>12. ASSUME NEW x \in ToSet(tribs)
         PROVE  x \in ToSet(a) \/ (Len(a) = MaxTribs /\ \A t \in ToSet(a) : t.posted > x.posted)
    <2>1. PICK i \in 1 .. n : s[i] = x
      BY <1>7
    <2>2. CASE i \in 1 .. m
      BY <1>8, <2>1, <2>2 DEF ToSet
    <2>3. CASE i \notin 1 .. m
      <3>1. m < i /\ m < n
        BY <2>3
      <3>2. \A j \in 1 .. m : j \in 1 .. n /\ j < i
        BY <3>1
      <3>3. \A j \in 1 .. m : a[j].posted > x.posted
        BY <1>6, <1>8, <2>1, <3>2
      <3> QED BY <1>8, <3>1, <3>3 DEF ToSet
    <2> QED BY <2>2, <2>3
  <1> QED BY <1>8, <1>10, <1>11, <1>12

(***************************************************************************)
(* The steps that read tribbles.                                           *)
(***************************************************************************)
\* What is shown is what was found.
LEMMA ShownIs ==
  ASSUME NEW q \in Seq([user : Members, posted : Nat])
  PROVE  {[user |-> q[i].user, posted |-> q[i].posted] : i \in DOMAIN q} = ToSet(q)
  <1>1. \A i \in DOMAIN q : q[i] \in [user : Members, posted : Nat]
    BY LenProperties, ElementOfSeq
  <1>2. \A i \in DOMAIN q : [user |-> q[i].user, posted |-> q[i].posted] = q[i]
    BY <1>1
  <1> QED BY <1>2 DEF ToSet

\* What was found is finite, and no more than was collected.
LEMMA FoundIsFinite ==
  ASSUME NEW u, op[u].tribs \in Seq([user : Members, posted : Nat]), NEW p
  PROVE  /\ IsFiniteSet(Found(u)) /\ Cardinality(Found(u)) \in Nat /\ Len(op[u].tribs) \in Nat
         /\ Cardinality(Found(u)) <= Len(op[u].tribs)
         /\ Newer(u, p) \subseteq Found(u) /\ IsFiniteSet(Newer(u, p)) /\ Cardinality(Newer(u, p)) \in Nat
         /\ Cardinality(Newer(u, p)) <= Cardinality(Found(u))
  <1>1. PICK n \in Nat : n = Len(op[u].tribs) /\ DOMAIN op[u].tribs = 1 .. n
    BY LenProperties
  <1>2. \A t \in Found(u) : \E i \in 1 .. n : op[u].tribs[i] = t
    BY <1>1 DEF Found, ToSet
  <1>3. IsFiniteSet(Found(u)) /\ Cardinality(Found(u)) \in Nat /\ Cardinality(Found(u)) <= n
    BY ONLY <1>2, CountFirst, n \in Nat
  <1>4. Newer(u, p) \in SUBSET Found(u)
    BY DEF Newer
  <1>5. IsFiniteSet(Newer(u, p)) /\ Cardinality(Newer(u, p)) <= Cardinality(Found(u))
    BY <1>3, <1>4, FS_Subset
  <1> QED BY <1>1, <1>3, <1>4, <1>5, FS_CardinalityType

\* The next user of a timeline.
LEMMA TailTime ==
  ASSUME TribInv, TimeInv, NEW u \in Members,
         UNCHANGED <<conn, tribsKey, tribKey, okPosts, clock, follKey, follows, usersKey>>,
         op[u].pc \in {"list", "fetch"}, op[u].kind # "tribbles", op[u].todo # <<>>,
         op' = [op EXCEPT ![u].pc = "list", ![u].todo = Tail(@)],
         \A p \in op[u].since : p.user = Head(op[u].todo) /\ Fresh(u, p.user) => Covered(u, p)
  PROVE  TimeInv'
  <1>0. /\ op = [v \in Members |-> op[v]] /\ PosterAt(u) /\ FollAt(u) /\ StartAt(u) /\ ListAt(u) /\ IdsAt(u)
        /\ op[u].pc # "idle"
    BY DEF TribInv, Shape, TimeInv, ReadAt
  <1>1. Whole(op[u])
    BY <1>0, RunningShape
  <1>2. PICK c : c = [op[u] EXCEPT !.pc = "list", !.todo = Tail(op[u].todo)]
    OBVIOUS
  <1>3. /\ c.pc = "list" /\ c.kind = op[u].kind /\ c.target = op[u].target /\ c.since = op[u].since
        /\ c.list = op[u].list /\ c.old = op[u].old /\ c.tribs = op[u].tribs /\ c.todo = Tail(op[u].todo)
    BY <1>1, <1>2 DEF Whole
  <1>4. op' = [op EXCEPT ![u] = c] /\ op'[u] = c
    BY <1>0, <1>2
  <1>5. /\ c.todo \in Seq(Members) /\ Distinct(c.todo) /\ Head(op[u].todo) \notin ToSet(c.todo)
        /\ ToSet(op[u].todo) = ToSet(c.todo) \cup {Head(op[u].todo)}
    BY <1>0, <1>3, TailOfDistinct DEF ListAt
  <1>6. /\ Asked(u)' = Asked(u) /\ Found(u)' = Found(u)
        /\ (FollowsRead(u)' <=> FollowsRead(u)) /\ \A w : Fresh(u, w)' <=> Fresh(u, w)
    BY <1>3, <1>4 DEF Asked, Found, FollowsRead, Fresh
  <1>7. \A p : Covered(u, p)' <=> Covered(u, p)
    BY <1>6 DEF Covered, Newer, Of
  <1>8. \A t \in Found(u) : Origin(u, t)'
    BY <1>0, <1>3, <1>4, <1>5, <1>6 DEF ListAt, Origin, Of
  <1>9. \A p \in op[u].since : p.user \in Asked(u) \ ToSet(c.todo) /\ Fresh(u, p.user) => Covered(u, p)
    BY <1>0, <1>5 DEF ListAt
  <1>10. ListAt(u)'
    <2>1. /\ op[u].tribs \in Seq([user : Members, posted : Nat])
          /\ \A i, j \in DOMAIN op[u].tribs : i # j => op[u].tribs[i].posted # op[u].tribs[j].posted
          /\ ToSet(c.todo) \subseteq Asked(u)
      BY <1>0, <1>5 DEF ListAt
    <2>2. \A t \in Found(u)' : Origin(u, t)'
      BY <1>6, <1>8
    <2>3. \A p \in op'[u].since : p.user \in Asked(u)' \ ToSet(op'[u].todo) /\ Fresh(u, p.user)' => Covered(u, p)'
      BY <1>3, <1>4, <1>6, <1>7, <1>9
    <2>4. ToSet(op'[u].todo) \subseteq Asked(u)' /\ op'[u].kind # "tribbles"
      BY <1>3, <1>4, <1>6, <2>1
    <2>5. op'[u].tribs = op[u].tribs /\ op'[u].todo = c.todo
      BY <1>3, <1>4
    <2>6. \A i, j \in DOMAIN op'[u].tribs : i # j => op'[u].tribs[i].posted # op'[u].tribs[j].posted
      BY <2>1, <2>5
    <2>7. op'[u].tribs \in Seq([user : Members, posted : Nat])
      BY <2>1, <2>5
    <2>8. op'[u].todo \in Seq(Members) /\ Distinct(op'[u].todo)
      BY <1>5, <2>5
    <2>9. FollowsRead(u)'
      BY <1>0, <1>6 DEF ListAt
    <2> QED BY <2>2, <2>3, <2>4, <2>6, <2>7, <2>8, <2>9 DEF ListAt
  <1>11. IdsAt(u)' /\ Answers(u)'
    BY <1>3, <1>4 DEF IdsAt, Answers
  <1> QED BY <1>0, <1>3, <1>4, <1>10, <1>11, ReadingTime

\* Everybody was gone through: the newest of what was found is the answer.
LEMMA AnswerTime ==
  ASSUME TribInv, TimeInv, NEW u \in Members,
         UNCHANGED <<conn, tribsKey, tribKey, okPosts, clock, follKey, follows, usersKey>>,
         op[u].pc = "list", op[u].todo = <<>>, NEW s \in Sorted(op[u].tribs),
         op' = [op EXCEPT ![u].pc = "answer", ![u].status = "OK", ![u].tribs = Newest(s)]
  PROVE  TimeInv'
  <1>0. /\ op = [v \in Members |-> op[v]] /\ StartAt(u) /\ ListAt(u) /\ op[u].pc # "idle" /\ PostsInv
    BY DEF TribInv, Shape, TimeInv, ReadAt
  <1>1. Whole(op[u])
    BY <1>0, RunningShape
  <1>2. PICK c : c = [op[u] EXCEPT !.pc = "answer", !.status = "OK", !.tribs = Newest(s)]
    OBVIOUS
  <1>3. /\ c.pc = "answer" /\ c.kind = op[u].kind /\ c.target = op[u].target /\ c.since = op[u].since
        /\ c.list = op[u].list /\ c.old = op[u].old /\ c.tribs = Newest(s)
    BY <1>1, <1>2 DEF Whole
  <1>4. op' = [op EXCEPT ![u] = c] /\ op'[u] = c
    BY <1>0, <1>2
  <1>5. /\ op[u].tribs \in Seq([user : Members, posted : Nat])
        /\ \A i, j \in DOMAIN op[u].tribs : i # j => op[u].tribs[i].posted # op[u].tribs[j].posted
        /\ \A p \in op[u].since : p.user \in Asked(u) /\ Fresh(u, p.user) => Covered(u, p)
    <2>1. ToSet(<<>>) = {}
      BY DEF ToSet
    <2> QED BY <1>0, <2>1 DEF ListAt
  <1>6. Asked(u)' = Asked(u) /\ FollowsRead(u)' /\ \A w : Fresh(u, w)' <=> Fresh(u, w)
    BY <1>0, <1>3, <1>4 DEF Asked, FollowsRead, Fresh, ListAt
  <1>7. /\ c.tribs \in Seq([user : Members, posted : Nat])
        /\ \A i, j \in DOMAIN c.tribs : i < j => c.tribs[i].posted > c.tribs[j].posted
        /\ \A p \in Nat : Cardinality({t \in ToSet(op[u].tribs) : t.posted > p}) >= MaxTribs =>
                Len(c.tribs) = MaxTribs /\ \A t \in ToSet(c.tribs) : t.posted > p
        /\ \A x \in ToSet(op[u].tribs) :
                x \in ToSet(c.tribs) \/ (Len(c.tribs) = MaxTribs /\ \A t \in ToSet(c.tribs) : t.posted > x.posted)
    BY <1>3, <1>5, SortedAnswer
  <1>8. Shown(u)' = ToSet(c.tribs)
    <2>1. {[user |-> c.tribs[i].user, posted |-> c.tribs[i].posted] : i \in DOMAIN c.tribs} = ToSet(c.tribs)
      BY <1>7, ShownIs
    <2> QED BY <1>4, <2>1 DEF Shown
  <1>9. ASSUME NEW p \in op[u].since, p.user \in Asked(u), Fresh(u, p.user)
        PROVE  Of(p) \in ToSet(c.tribs) \/ (Len(c.tribs) = MaxTribs /\ \A t \in ToSet(c.tribs) : t.posted > p.posted)
    <2>1. Covered(u, p)
      BY <1>5, <1>9
    <2>2. p.posted \in Nat /\ Of(p).posted = p.posted
      BY <1>0 DEF StartAt, PostsInv, Of
    <2>3. CASE Of(p) \in Found(u)
      BY <1>7, <2>2, <2>3 DEF Found
    <2>4. CASE Cardinality(Newer(u, p)) >= MaxTribs
      BY <1>7, <2>2, <2>4 DEF Newer, Found
    <2> QED BY <2>1, <2>3, <2>4 DEF Covered
  <1>10. Answers(u)'
    BY <1>3, <1>4, <1>6, <1>7, <1>8, <1>9 DEF Answers, Of
  <1>11. ListAt(u)' /\ IdsAt(u)'
    BY <1>3, <1>4 DEF ListAt, IdsAt
  <1> QED BY <1>0, <1>3, <1>4, <1>10, <1>11, ReadingTime

\* The newest ids of the next user's list are what is left to fetch.
LEMMA ToFetch ==
  ASSUME TribInv, TimeInv, NEW u \in Members,
         UNCHANGED <<conn, tribsKey, tribKey, okPosts, clock, follKey, follows, usersKey>>,
         op[u].pc = "list", op[u].todo # <<>>, NEW w, w = Head(op[u].todo), w \in DOMAIN tribsKey,
         NEW s, Earlier(s, w), NEW old, old = OldKeys(u, <<"T", w>>, s, tribsKey[w]),
         op' = [op EXCEPT ![u].pc = "fetch", ![u].ids = Newest(Reverse(s)), ![u].old = old]
  PROVE  TimeInv'
  <1>0. /\ op = [v \in Members |-> op[v]] /\ StartAt(u) /\ ListAt(u) /\ op[u].pc # "idle" /\ PostsInv
        /\ tribsKey \in [DOMAIN tribsKey -> Seq(Nat)]
    BY DEF TribInv, Shape, TimeInv, ReadAt
  <1>1. Whole(op[u])
    BY <1>0, RunningShape
  <1>3. PICK ids : ids = Newest(Reverse(s))
    OBVIOUS
  <1>4. PICK c : c = [op[u] EXCEPT !.pc = "fetch", !.ids = ids, !.old = old]
    OBVIOUS
  <1>5. /\ c.pc = "fetch" /\ c.kind = op[u].kind /\ c.target = op[u].target /\ c.since = op[u].since
        /\ c.tribs = op[u].tribs /\ c.todo = op[u].todo /\ c.ids = ids
        /\ c.list = op[u].list /\ c.old = old
    BY <1>1, <1>4 DEF Whole
  <1>6. op' = [op EXCEPT ![u] = c] /\ op'[u] = c
    BY <1>0, <1>3, <1>4
  <1>7. /\ s \in Seq(Nat) /\ Listed(w)' = Listed(w)
        /\ \A i \in DOMAIN s : i \in DOMAIN Listed(w) /\ s[i] = Listed(w)[i]
        /\ <<"T", w>> \notin old => Listed(w) = s
    BY DEF Earlier, Listed, OrEmpty, OldKeys
  <1>8. PICK n \in Nat, m \in Nat :
            /\ DOMAIN s = 1 .. n /\ m <= n /\ m <= MaxTribs /\ (m < n => m = MaxTribs)
            /\ ids \in Seq(Nat) /\ Len(ids) = m /\ DOMAIN ids = 1 .. m
            /\ \A i \in 1 .. m : (n - i) + 1 \in 1 .. n /\ ids[i] = s[(n - i) + 1]
    <2>1. FromTheEnd(ids, s)
      BY <1>3, <1>7, NewestIdsAre
    <2> QED BY <2>1 DEF FromTheEnd
  <1>9. /\ Asked(u)' = Asked(u) /\ Found(u)' = Found(u)
        /\ \A p : Newer(u, p)' = Newer(u, p) /\ Of(p)' = Of(p) /\ (Covered(u, p)' <=> Covered(u, p))
        /\ (FollowsRead(u) => FollowsRead(u)') /\ \A x : Fresh(u, x)' => Fresh(u, x)
    BY <1>5, <1>6 DEF Asked, Found, Newer, Covered, Of, FollowsRead, Fresh, OldKeys
  <1>10. ListAt(u)'
    <2>1. \A t \in Found(u)' : Origin(u, t)'
      BY <1>0, <1>5, <1>6, <1>9 DEF ListAt, Origin, Of
    <2>2. \A p \in op'[u].since : p.user \in Asked(u)' \ ToSet(op'[u].todo) /\ Fresh(u, p.user)' => Covered(u, p)'
      BY <1>0, <1>5, <1>6, <1>9 DEF ListAt
    <2>3. /\ op'[u].todo \in Seq(Members) /\ Distinct(op'[u].todo) /\ ToSet(op'[u].todo) \subseteq Asked(u)'
          /\ op'[u].kind = "tribbles" => op'[u].todo = <<op'[u].target>>
      BY <1>0, <1>5, <1>6, <1>9 DEF ListAt
    <2>4. op'[u].tribs = op[u].tribs
      BY <1>5, <1>6
    <2>5. /\ op[u].tribs \in Seq([user : Members, posted : Nat])
          /\ \A i, j \in DOMAIN op[u].tribs : i # j => op[u].tribs[i].posted # op[u].tribs[j].posted
      BY <1>0 DEF ListAt
    <2>6. \A i, j \in DOMAIN op'[u].tribs : i # j => op'[u].tribs[i].posted # op'[u].tribs[j].posted
      BY <2>4, <2>5
    <2>7. op'[u].tribs \in Seq([user : Members, posted : Nat])
      BY <2>4, <2>5
    <2>8. FollowsRead(u)'
      BY <1>0, <1>9 DEF ListAt
    <2> QED BY <2>1, <2>2, <2>3, <2>6, <2>7, <2>8 DEF ListAt
  <1>11. \A i, j \in 1 .. n : i > j => After(w, s[i], s[j])'
    BY <1>7, <1>8 DEF After
  <1>12. ASSUME NEW i \in 1 .. m, NEW j \in 1 .. m, i < j PROVE After(w, ids[i], ids[j])'
    <2>1. (n - i) + 1 > (n - j) + 1
      BY <1>12
    <2> QED BY <1>8, <1>11, <2>1
  <1>13. ASSUME NEW p \in op[u].since, p.user = w, <<"T", w>> \notin old PROVE Fetching(u, p)'
    <2>1. p \in okPosts
      BY <1>0 DEF StartAt
    <2>2. p.id \in Ids(w)
      BY <1>13, <2>1 DEF TribInv, PostedInv
    <2>3. PICK k \in 1 .. n : s[k] = p.id
      BY <1>7, <1>8, <1>13, <2>2 DEF Ids, Listed, ToSet
    <2>4. PICK i \in 1 .. n : i = (n - k) + 1 /\ (n - i) + 1 = k
      <3>1. (n - k) + 1 \in 1 .. n /\ (n - ((n - k) + 1)) + 1 = k
        OBVIOUS
      <3> QED BY <3>1
    <2>5. CASE i \in 1 .. m
      <3>1. ids[i] = p.id /\ i \in DOMAIN ids
        BY <1>8, <2>3, <2>4, <2>5
      <3>2. p.id \in ToSet(ids)
        BY <3>1 DEF ToSet
      <3> QED BY <1>5, <1>6, <3>2 DEF Fetching
    <2>6. CASE i \notin 1 .. m
      <3>1. m < i /\ m < n
        BY <2>6
      <3>2. m = MaxTribs
        BY <1>8, <3>1
      <3>3. ASSUME NEW j \in 1 .. m PROVE After(w, ids[j], p.id)'
        <4>1. (n - j) + 1 \in 1 .. n /\ (n - j) + 1 > k
          BY <2>4, <3>1
        <4> QED BY <1>8, <1>11, <2>3, <4>1
      <3>4. \A x \in ToSet(ids) : After(w, x, p.id)'
        BY <1>8, <3>3 DEF ToSet
      <3>5. Cardinality(Newer(u, p)) \in Nat
        BY <1>0, FoundIsFinite DEF ListAt
      <3>6. Cardinality(Newer(u, p)) + Len(ids) >= MaxTribs
        BY <1>8, <3>2, <3>5
      <3>7. \A x \in ToSet(op'[u].ids) : After(p.user, x, p.id)'
        BY <1>5, <1>6, <1>13, <3>4
      <3>8. Cardinality(Newer(u, p)') + Len(op'[u].ids) >= MaxTribs
        BY <1>5, <1>6, <1>9, <3>6
      <3> QED BY <3>7, <3>8 DEF Fetching
    <2> QED BY <2>5, <2>6
  <1>14. IdsAt(u)'
    <2>1. op'[u].todo # <<>> /\ op'[u].ids \in Seq(Nat)
      BY <1>5, <1>6, <1>8
    <2>2. \A i, j \in DOMAIN op'[u].ids : i < j => After(Head(op[u].todo), op[u].ids[i], op[u].ids[j])'
      <3>1. op'[u].ids = ids /\ Head(op'[u].todo) = w
        BY <1>5, <1>6
      <3> SUFFICES ASSUME NEW i \in 1 .. m, NEW j \in 1 .. m, i < j
                   PROVE  After(Head(op[u].todo), op[u].ids[i], op[u].ids[j])'
        BY <1>8, <3>1
      <3>2. After(w, ids[i], ids[j])'
        BY <1>12
      <3> QED BY <3>1, <3>2
    <2>3. \A p \in op'[u].since : p.user = Head(op'[u].todo) /\ Fresh(u, p.user)' => Fetching(u, p)'
      BY <1>5, <1>6, <1>13 DEF Fresh
    <2>4. ASSUME op'[u].kind = "tribbles"
          PROVE  op'[u].tribs = <<>> /\ Len(op'[u].tribs) + Len(op'[u].ids) <= MaxTribs /\ DOMAIN op'[u].tribs = {}
      <3>1. op'[u].tribs = <<>> /\ Len(op'[u].ids) = m
        BY <1>0, <1>5, <1>6, <1>8, <2>4 DEF StartAt
      <3>2. Len(<<>>) = 0 /\ DOMAIN <<>> = {}
        OBVIOUS
      <3>3. 0 + m <= MaxTribs
        BY <1>8, TribAssumption
      <3> QED BY <3>1, <3>2, <3>3
    <2>5. \A i, j \in {} : i < j => op'[u].tribs[i].posted > op'[u].tribs[j].posted
      OBVIOUS
    <2> QED BY <2>1, <2>2, <2>3, <2>4, <2>5 DEF IdsAt
  <1>15. Answers(u)'
    BY <1>5, <1>6 DEF Answers
  <1> QED BY <1>0, <1>5, <1>6, <1>10, <1>14, <1>15, ReadingTime

\* All ids of the one user asked for were fetched.
LEMMA FetchedTime ==
  ASSUME TribInv, TimeInv, NEW u \in Members,
         UNCHANGED <<conn, tribsKey, tribKey, okPosts, clock, follKey, follows, usersKey>>,
         op[u].pc = "fetch", op[u].ids = <<>>, op[u].kind = "tribbles",
         op' = [op EXCEPT ![u].pc = "answer", ![u].status = "OK"]
  PROVE  TimeInv'
  <1>0. /\ op = [v \in Members |-> op[v]] /\ ListAt(u) /\ IdsAt(u) /\ op[u].pc # "idle"
    BY DEF TribInv, Shape, TimeInv, ReadAt
  <1>1. Whole(op[u])
    BY <1>0, RunningShape
  <1>2. PICK c : c = [op[u] EXCEPT !.pc = "answer", !.status = "OK"]
    OBVIOUS
  <1>3. /\ c.pc = "answer" /\ c.kind = op[u].kind /\ c.target = op[u].target /\ c.since = op[u].since
        /\ c.old = op[u].old /\ c.tribs = op[u].tribs
    BY <1>1, <1>2 DEF Whole
  <1>4. op' = [op EXCEPT ![u] = c] /\ op'[u] = c
    BY <1>0, <1>2
  <1>5. /\ op[u].tribs \in Seq([user : Members, posted : Nat]) /\ op[u].todo = <<op[u].target>>
        /\ Len(op[u].tribs) + Len(<<>>) <= MaxTribs
        /\ \A i, j \in DOMAIN op[u].tribs : i < j => op[u].tribs[i].posted > op[u].tribs[j].posted
        /\ \A p \in op[u].since : p.user = Head(op[u].todo) /\ Fresh(u, p.user) => Fetching(u, p)
    BY <1>0 DEF ListAt, IdsAt
  <1>6. /\ Asked(u)' = {op[u].target} /\ Head(op[u].todo) = op[u].target
        /\ FollowsRead(u)' /\ \A w : Fresh(u, w)' <=> Fresh(u, w)
    <2>1. Asked(u)' = {op[u].target} /\ FollowsRead(u)'
      BY <1>3, <1>4 DEF Asked, FollowsRead
    <2>2. Head(op[u].todo) = op[u].target
      <3>1. op[u].todo = <<op[u].target>>
        BY <1>5
      <3> QED BY <3>1
    <2>3. \A w : Fresh(u, w)' <=> Fresh(u, w)
      BY <1>3, <1>4 DEF Fresh
    <2> QED BY <2>1, <2>2, <2>3
  <1>7. Shown(u)' = Found(u)
    <2>1. Shown(u)' = Shown(u)
      BY <1>3, <1>4 DEF Shown
    <2>2. Shown(u) = ToSet(op[u].tribs)
      BY <1>5, ShownIs DEF Shown
    <2> QED BY <2>1, <2>2 DEF Found
  <1>8. ASSUME NEW p \in op[u].since, p.user = op[u].target, Fresh(u, p.user)
        PROVE  Of(p) \in Found(u) \/ (Len(op[u].tribs) = MaxTribs /\ \A t \in Found(u) : t.posted > p.posted)
    <2>1. Fetching(u, p)
      BY <1>5, <1>6, <1>8
    <2>2. p.id \notin ToSet(op[u].ids)
      BY DEF ToSet
    <2>3. CASE Cardinality(Newer(u, p)) + Len(<<>>) >= MaxTribs
      <3>1. /\ IsFiniteSet(Found(u)) /\ Cardinality(Found(u)) \in Nat /\ Len(op[u].tribs) \in Nat
            /\ Cardinality(Found(u)) <= Len(op[u].tribs)
            /\ Newer(u, p) \subseteq Found(u) /\ Cardinality(Newer(u, p)) \in Nat
            /\ Cardinality(Newer(u, p)) <= Cardinality(Found(u))
        BY <1>5, FoundIsFinite
      <3>2. Len(<<>>) = 0
        OBVIOUS
      <3>3. Len(op[u].tribs) = MaxTribs /\ Cardinality(Newer(u, p)) = Cardinality(Found(u))
        BY <1>5, <2>3, <3>1, <3>2, TribAssumption
      <3>4. Newer(u, p) = Found(u)
        BY <3>1, <3>3, FS_Subset
      <3> QED BY <3>3, <3>4 DEF Newer
    <2> QED BY <2>1, <2>2, <2>3 DEF Fetching
  <1>9. Answers(u)'
    <2>1. op'[u].tribs = op[u].tribs /\ op'[u].since = op[u].since
      BY <1>3, <1>4
    <2>2. \A p \in op'[u].since : p.user \in Asked(u)' /\ Fresh(u, p.user)' =>
              Of(p) \in Shown(u)' \/ (Len(op'[u].tribs) = MaxTribs /\ \A t \in Shown(u)' : t.posted > p.posted)
      BY <1>6, <1>7, <1>8, <2>1
    <2>3. \A i, j \in DOMAIN op'[u].tribs : i < j => op'[u].tribs[i].posted > op'[u].tribs[j].posted
      BY <1>5, <2>1
    <2> QED BY <1>6, <2>2, <2>3 DEF Answers, Of
  <1>10. ListAt(u)' /\ IdsAt(u)'
    BY <1>3, <1>4 DEF ListAt, IdsAt
  <1> QED BY <1>0, <1>3, <1>4, <1>9, <1>10, ReadingTime

\* A tribble is missing: the answer is an error.
LEMMA MissingTime ==
  ASSUME TribInv, TimeInv, NEW u \in Members, NEW status, NEW todo,
         UNCHANGED <<conn, tribsKey, tribKey, okPosts, clock, follKey, follows, usersKey>>,
         op[u].pc \in {"list", "fetch"}, status # "OK",
         op' = [op EXCEPT ![u].pc = "answer", ![u].status = status, ![u].todo = todo]
  PROVE  TimeInv'
  <1>0. op = [v \in Members |-> op[v]] /\ op[u].pc # "idle"
    BY DEF TribInv, Shape
  <1>1. Whole(op[u])
    BY <1>0, RunningShape
  <1>2. PICK c : c = [op[u] EXCEPT !.pc = "answer", !.status = status, !.todo = todo]
    OBVIOUS
  <1>3. /\ c.pc = "answer" /\ c.kind = op[u].kind /\ c.target = op[u].target /\ c.since = op[u].since
        /\ c.tribs = op[u].tribs /\ c.status = status
    BY <1>1, <1>2 DEF Whole
  <1>4. op' = [op EXCEPT ![u] = c] /\ op'[u] = c
    BY <1>0, <1>2
  <1>5. ListAt(u)' /\ IdsAt(u)' /\ Answers(u)'
    BY <1>3, <1>4 DEF ListAt, IdsAt, Answers
  <1> QED BY <1>0, <1>3, <1>4, <1>5, ReadingTime

\* What a key holds is a tribble that was answered OK.
LEMMA Stored ==
  ASSUME TribInv, PostsInv, NEW w, NEW x, NEW s, <<w, x, s>> \in DOMAIN tribKey
  PROVE  \E q \in okPosts : /\ q.user = w /\ q.id = x /\ s = conn[w] /\ tribKey[<<w, x, s>>] = Of(q)
                            /\ w \in Members /\ q.posted \in Nat /\ Of(q) \in [user : Members, posted : Nat]
                            /\ \A p \in okPosts : p.user = w /\ p.id = x => Of(p) = Of(q)
  <1>1. PICK q \in okPosts : <<w, x, s>> = Key(q.user, q.id)
    BY DEF PostsInv
  <1>2. q.user = w /\ q.id = x /\ s = conn[w]
    BY <1>1 DEF Key
  <1>3. \A p \in okPosts : tribKey[Key(p.user, p.id)] = Of(p)
    BY DEF PostsInv
  <1>4. tribKey[<<w, x, s>>] = Of(q)
    BY <1>1, <1>3
  <1>5. w \in Members /\ q.posted \in Nat
    BY <1>2 DEF TribInv, PostedInv, PostsInv
  <1>6. Of(q) \in [user : Members, posted : Nat]
    BY <1>2, <1>5 DEF Of
  <1>7. \A p \in okPosts : p.user = w /\ p.id = x => Of(p) = Of(q)
    BY <1>1, <1>2, <1>3
  <1> QED BY <1>2, <1>4, <1>5, <1>6, <1>7

\* A tribble is fetched: it is older than what was found of its user, and newer
\* than those whose ids were left out.
LEMMA FetchOne ==
  ASSUME TribInv, TimeInv, NEW u \in Members,
         UNCHANGED <<conn, tribsKey, tribKey, okPosts, clock, follKey, follows, usersKey>>,
         op[u].pc = "fetch", op[u].ids # <<>>, NEW key, key = <<Head(op[u].todo), Head(op[u].ids), conn[u]>>,
         key \in DOMAIN tribKey,
         op' = [op EXCEPT ![u].tribs = Append(@, tribKey[key]), ![u].ids = Tail(@)]
  PROVE  TimeInv'
  <1>0. /\ op = [v \in Members |-> op[v]] /\ StartAt(u) /\ ListAt(u) /\ IdsAt(u) /\ op[u].pc # "idle" /\ PostsInv
    BY DEF TribInv, Shape, TimeInv, ReadAt
  <1>1. Whole(op[u])
    BY <1>0, RunningShape
  <1>2. PICK w, x, ids, todo, tribs : /\ w = Head(op[u].todo) /\ x = Head(op[u].ids) /\ ids = op[u].ids
                                      /\ todo = op[u].todo /\ tribs = op[u].tribs
    OBVIOUS
  <1>3. PICK t0 : t0 = tribKey[key]
    OBVIOUS
  <1>4. PICK c : c = [op[u] EXCEPT !.tribs = Append(tribs, t0), !.ids = Tail(ids)]
    OBVIOUS
  <1>5. /\ c.pc = "fetch" /\ c.kind = op[u].kind /\ c.target = op[u].target /\ c.since = op[u].since
        /\ c.list = op[u].list /\ c.old = op[u].old /\ c.tribs = Append(tribs, t0) /\ c.todo = todo /\ c.ids = Tail(ids)
    BY <1>1, <1>2, <1>4 DEF Whole
  <1>6. op' = [op EXCEPT ![u] = c] /\ op'[u] = c
    BY <1>0, <1>2, <1>3, <1>4
  <1>7. PICK q \in okPosts : /\ q.user = w /\ q.id = x /\ t0 = Of(q) /\ w \in Members /\ q.posted \in Nat
                             /\ t0 \in [user : Members, posted : Nat]
                             /\ \A p \in okPosts : p.user = w /\ p.id = x => Of(p) = t0
    BY <1>0, <1>2, <1>3, Stored
  <1>8. t0.posted = q.posted
    BY <1>7 DEF Of
  <1>9. /\ todo \in Seq(Members) /\ Distinct(todo) /\ ToSet(todo) \subseteq Asked(u) /\ todo # <<>>
        /\ op[u].kind = "tribbles" => todo = <<op[u].target>>
        /\ tribs \in Seq([user : Members, posted : Nat])
        /\ \A i, j \in DOMAIN tribs : i # j => tribs[i].posted # tribs[j].posted
        /\ \A t \in Found(u) : Origin(u, t)
        /\ \A p \in op[u].since : p.user \in Asked(u) \ ToSet(todo) /\ Fresh(u, p.user) => Covered(u, p)
        /\ FollowsRead(u)
        /\ ids \in Seq(Nat) /\ ids # <<>>
        /\ \A i, j \in DOMAIN ids : i < j => After(w, ids[i], ids[j])
        /\ \A p \in op[u].since : p.user = w /\ Fresh(u, p.user) => Fetching(u, p)
        /\ op[u].kind = "tribbles" =>
              /\ Len(tribs) + Len(ids) <= MaxTribs
              /\ \A i, j \in DOMAIN tribs : i < j => tribs[i].posted > tribs[j].posted
    BY <1>0, <1>2 DEF ListAt, IdsAt
  <1>10. /\ Tail(ids) \in Seq(Nat) /\ x = ids[1] /\ 1 \in DOMAIN ids /\ Len(Tail(ids)) = Len(ids) - 1
         /\ \A i \in DOMAIN Tail(ids) : i + 1 \in DOMAIN ids /\ Tail(ids)[i] = ids[i + 1] /\ i \in Nat /\ i >= 1
         /\ ToSet(ids) = ToSet(Tail(ids)) \cup {x}
    <2>1. ids \in Seq(Nat) /\ ids # <<>> /\ x = Head(ids)
      BY <1>2, <1>9
    <2> QED BY ONLY <2>1, TailOfDistinct
  <1>11. w \in ToSet(todo)
    <2>1. todo \in Seq(Members) /\ todo # <<>> /\ w = Head(todo)
      BY <1>2, <1>9
    <2> QED BY ONLY <2>1, TailOfDistinct
  <1>12. PICK n \in Nat : n = Len(tribs)
    BY <1>9, LenProperties
  <1>13. /\ c.tribs \in Seq([user : Members, posted : Nat]) /\ ToSet(c.tribs) = ToSet(tribs) \cup {t0}
         /\ Len(c.tribs) = n + 1 /\ DOMAIN c.tribs = 1 .. n + 1 /\ DOMAIN tribs = 1 .. n
         /\ c.tribs[n + 1] = t0 /\ \A i \in 1 .. n : c.tribs[i] = tribs[i]
    <2> PICK R : R = [user : Members, posted : Nat]
      OBVIOUS
    <2>1. tribs \in Seq(R) /\ t0 \in R
      BY <1>7, <1>9
    <2>2. /\ Append(tribs, t0) \in Seq(R) /\ ToSet(Append(tribs, t0)) = ToSet(tribs) \cup {t0}
          /\ Len(Append(tribs, t0)) = Len(tribs) + 1
          /\ DOMAIN Append(tribs, t0) = 1 .. Len(tribs) + 1 /\ DOMAIN tribs = 1 .. Len(tribs)
          /\ Append(tribs, t0)[Len(tribs) + 1] = t0 /\ \A i \in 1 .. Len(tribs) : Append(tribs, t0)[i] = tribs[i]
      BY ONLY <2>1, AppendToDistinct
    <2> QED BY <1>5, <1>12, <2>2
  <1>28. (FollowsRead(u)' <=> FollowsRead(u)) /\ \A y : Fresh(u, y)' <=> Fresh(u, y)
    BY <1>5, <1>6 DEF FollowsRead, Fresh, Asked
  <1>14. /\ Asked(u)' = Asked(u) /\ Found(u)' = Found(u) \cup {t0} /\ Found(u) = ToSet(tribs)
    BY <1>2, <1>5, <1>6, <1>13 DEF Asked, Found
  <1>15. \A y \in ToSet(Tail(ids)) : After(w, x, y)
    <2> SUFFICES ASSUME NEW i \in DOMAIN Tail(ids) PROVE After(w, x, Tail(ids)[i])
      BY DEF ToSet
    <2>1. i + 1 \in DOMAIN ids /\ Tail(ids)[i] = ids[i + 1] /\ 1 < i + 1 /\ 1 \in DOMAIN ids /\ x = ids[1]
      BY <1>10
    <2> QED BY <1>9, <2>1
  <1>16. \A y, z : After(w, y, z)' <=> After(w, y, z)
    BY DEF After, Listed, OrEmpty
  <1>17. ASSUME NEW t \in Found(u) PROVE t.posted # q.posted /\ t.posted \in Nat /\ (t.user = w => t.posted > q.posted)
    <2>1. PICK r \in okPosts : /\ t = Of(r) /\ r.user \in Asked(u)
                               /\ r.user \notin ToSet(todo) \/ (r.user = w /\ \A y \in ToSet(ids) : After(w, r.id, y))
      BY <1>2, <1>9 DEF Origin
    <2>2. t.posted = r.posted /\ t.user = r.user /\ r.posted \in Nat
      BY <1>0, <2>1 DEF Of, PostsInv
    <2>3. CASE r.user \notin ToSet(todo)
      <3>1. r.user # w /\ r # q
        BY <1>7, <1>11, <2>3
      <3> QED BY <1>0, <2>2, <3>1 DEF PostsInv
    <2>4. CASE r.user = w /\ \A y \in ToSet(ids) : After(w, r.id, y)
      <3>1. After(w, r.id, x)
        BY <1>10, <2>4
      <3>2. r.posted > q.posted
        BY <1>0, <1>7, <2>4, <3>1 DEF PostsInv
      <3> QED BY <1>7, <2>2, <3>2
    <2> QED BY <2>1, <2>3, <2>4
  <1>18. t0 \notin Found(u)
    BY <1>8, <1>17
  <1>19. ASSUME NEW p
         PROVE  /\ Newer(u, p) \subseteq Newer(u, p)' /\ IsFiniteSet(Newer(u, p)) /\ Cardinality(Newer(u, p)) \in Nat
                /\ Cardinality(Newer(u, p)') \in Nat /\ Cardinality(Newer(u, p)') >= Cardinality(Newer(u, p))
                /\ q.posted > p.posted => Cardinality(Newer(u, p)') = Cardinality(Newer(u, p)) + 1
    <2>1. IsFiniteSet(Newer(u, p)) /\ Cardinality(Newer(u, p)) \in Nat
      BY <1>2, <1>9, FoundIsFinite
    <2>2. Newer(u, p)' = IF q.posted > p.posted THEN Newer(u, p) \cup {t0} ELSE Newer(u, p)
      BY <1>8, <1>14 DEF Newer
    <2>3. t0 \notin Newer(u, p)
      BY <1>18 DEF Newer
    <2>4. /\ IsFiniteSet(Newer(u, p) \cup {t0})
          /\ Cardinality(Newer(u, p) \cup {t0}) = Cardinality(Newer(u, p)) + 1
      BY <2>1, <2>3, FS_AddElement
    <2> QED BY <2>1, <2>2, <2>4
  <1>20. ASSUME NEW p, Covered(u, p) PROVE Covered(u, p)'
    <2>1. CASE Of(p) \in Found(u)
      BY <1>14, <2>1 DEF Covered, Of
    <2>2. CASE Cardinality(Newer(u, p)) >= MaxTribs
      <3>0. PICK a \in Nat, b \in Nat : a = Cardinality(Newer(u, p)) /\ b = Cardinality(Newer(u, p)') /\ b >= a
        BY <1>19
      <3>1. Cardinality(Newer(u, p)') >= MaxTribs
        BY <2>2, <3>0, TribAssumption
      <3> QED BY <3>1 DEF Covered
    <2> QED BY <1>20, <2>1, <2>2 DEF Covered
  <1>21. ASSUME NEW t \in Found(u)' PROVE Origin(u, t)'
    <2>1. CASE t \in Found(u)
      <3>1. PICK r \in okPosts : /\ t = Of(r) /\ r.user \in Asked(u)
                                 /\ r.user \notin ToSet(todo) \/ (r.user = w /\ \A y \in ToSet(ids) : After(w, r.id, y))
        BY <1>2, <1>9, <2>1 DEF Origin
      <3>2. \A y \in ToSet(Tail(ids)) : y \in ToSet(ids)
        BY <1>10
      <3>3. r.user \notin ToSet(todo) \/ (r.user = w /\ \A y \in ToSet(Tail(ids)) : After(r.user, r.id, y)')
        BY <1>16, <3>1, <3>2
      <3>4. t = Of(r)' /\ r.user \in Asked(u)' /\ r \in okPosts'
        BY <1>14, <3>1 DEF Of
      <3>5. op'[u].pc = "fetch" /\ op'[u].todo = todo /\ op'[u].ids = Tail(ids) /\ w = Head(todo)
        BY <1>2, <1>5, <1>6
      <3> QED BY <3>3, <3>4, <3>5 DEF Origin
    <2>2. CASE t = t0
      <3>1. w \in Asked(u)
        BY <1>9, <1>11
      <3>3. q.user = w /\ \A y \in ToSet(Tail(ids)) : After(q.user, q.id, y)'
        BY <1>7, <1>15, <1>16
      <3>4. t = Of(q)' /\ q.user \in Asked(u)' /\ q \in okPosts'
        BY <1>7, <1>14, <2>2, <3>1 DEF Of
      <3>5. op'[u].pc = "fetch" /\ op'[u].todo = todo /\ op'[u].ids = Tail(ids) /\ w = Head(todo)
        BY <1>2, <1>5, <1>6
      <3> QED BY <3>3, <3>4, <3>5 DEF Origin
    <2> QED BY <1>14, <1>21, <2>1, <2>2
  <1>22. \A i \in 1 .. n : tribs[i] \in Found(u)
    BY <1>13, <1>14 DEF ToSet
  <1>23. \A i \in 1 .. n + 1 : i \in 1 .. n \/ i = n + 1
    OBVIOUS
  <1>24. ListAt(u)'
    <2>1. ASSUME NEW i \in 1 .. n + 1, NEW j \in 1 .. n + 1, i # j PROVE c.tribs[i].posted # c.tribs[j].posted
      <3>1. CASE i \in 1 .. n /\ j \in 1 .. n
        BY <1>9, <1>13, <2>1, <3>1
      <3>2. CASE i = n + 1 /\ j \in 1 .. n
        BY <1>8, <1>13, <1>17, <1>22, <3>2
      <3>3. CASE j = n + 1 /\ i \in 1 .. n
        BY <1>8, <1>13, <1>17, <1>22, <3>3
      <3> QED BY <1>23, <2>1, <3>1, <3>2, <3>3
    <2>2. op'[u].tribs = c.tribs /\ op'[u].todo = todo /\ op'[u].kind = op[u].kind /\ op'[u].target = op[u].target
      BY <1>5, <1>6
    <2>3. \A i, j \in DOMAIN op'[u].tribs : i # j => op'[u].tribs[i].posted # op'[u].tribs[j].posted
      <3>1. DOMAIN op'[u].tribs = 1 .. n + 1
        BY <1>13, <2>2
      <3>2. \A i, j \in 1 .. n + 1 : i # j => c.tribs[i].posted # c.tribs[j].posted
        BY <2>1
      <3> QED BY ONLY <2>2, <3>1, <3>2
    <2>4. op'[u].tribs \in Seq([user : Members, posted : Nat])
      BY <1>13, <2>2
    <2>5. /\ op'[u].todo \in Seq(Members) /\ Distinct(op'[u].todo) /\ ToSet(op'[u].todo) \subseteq Asked(u)'
          /\ op'[u].kind = "tribbles" => op'[u].todo = <<op'[u].target>>
      BY <1>9, <1>14, <2>2
    <2>6. \A p \in op'[u].since : p.user \in Asked(u)' \ ToSet(op'[u].todo) /\ Fresh(u, p.user)' => Covered(u, p)'
      BY <1>28, <1>5, <1>6, <1>9, <1>14, <1>20
    <2> QED BY <1>9, <1>21, <1>28, <2>3, <2>4, <2>5, <2>6 DEF ListAt
  <1>25. ASSUME NEW p \in op[u].since, p.user = w, Fresh(u, p.user) PROVE Fetching(u, p)'
    <2>1. Fetching(u, p) /\ p \in okPosts /\ p.posted \in Nat
      BY <1>0, <1>9, <1>25 DEF StartAt, PostsInv
    <2>2. CASE Of(p) \in Found(u)
      BY <1>14, <2>2 DEF Fetching, Of
    <2>3. CASE p.id = x
      <3>1. Of(p) = t0
        BY <1>7, <1>25, <2>1, <2>3
      <3> QED BY <1>14, <3>1 DEF Fetching, Of
    <2>4. CASE p.id \in ToSet(Tail(ids))
      BY <1>5, <1>6, <2>4 DEF Fetching
    <2>5. CASE (\A y \in ToSet(ids) : After(w, y, p.id)) /\ Cardinality(Newer(u, p)) + Len(ids) >= MaxTribs
      <3>1. After(w, x, p.id)
        BY <1>10, <2>5
      <3>2. q.posted > p.posted
        BY <1>0, <1>7, <1>25, <2>1, <3>1 DEF PostsInv
      <3>3. Cardinality(Newer(u, p)') = Cardinality(Newer(u, p)) + 1 /\ Cardinality(Newer(u, p)) \in Nat
        BY <1>19, <3>2
      <3>4. PICK k \in Nat : k = Len(ids)
        BY <1>9, LenProperties
      <3>5. Len(Tail(ids)) = k - 1
        BY <1>10, <3>4
      <3>6. Cardinality(Newer(u, p)') + Len(Tail(ids)) >= MaxTribs
        BY <2>5, <3>3, <3>4, <3>5, TribAssumption
      <3>7. \A y \in ToSet(op'[u].ids) : After(p.user, y, p.id)'
        BY <1>5, <1>6, <1>10, <1>16, <1>25, <2>5
      <3>8. Cardinality(Newer(u, p)') + Len(op'[u].ids) >= MaxTribs
        BY <1>5, <1>6, <3>6
      <3> QED BY <3>7, <3>8 DEF Fetching
    <2> QED BY <1>2, <1>10, <1>25, <2>1, <2>2, <2>3, <2>4, <2>5 DEF Fetching
  <1>26. IdsAt(u)'
    <2>1. op'[u].todo = todo /\ op'[u].ids = Tail(ids) /\ op'[u].tribs = c.tribs /\ op'[u].kind = op[u].kind
      BY <1>5, <1>6
    <2>2. \A i, j \in DOMAIN op'[u].ids : i < j => After(Head(op[u].todo), op[u].ids[i], op[u].ids[j])'
      <3> SUFFICES ASSUME NEW i \in DOMAIN Tail(ids), NEW j \in DOMAIN Tail(ids), i < j
                   PROVE  After(Head(op[u].todo), op[u].ids[i], op[u].ids[j])'
        BY <2>1
      <3>1. /\ i + 1 \in DOMAIN ids /\ j + 1 \in DOMAIN ids /\ i + 1 < j + 1
            /\ Tail(ids)[i] = ids[i + 1] /\ Tail(ids)[j] = ids[j + 1]
        BY <1>10
      <3>2. After(w, Tail(ids)[i], Tail(ids)[j])
        BY <1>9, <3>1
      <3>3. After(w, Tail(ids)[i], Tail(ids)[j])'
        BY <1>16, <3>2
      <3> QED BY <1>2, <2>1, <3>3
    <2>3. \A p \in op'[u].since : p.user = Head(op'[u].todo) /\ Fresh(u, p.user)' => Fetching(u, p)'
      BY <1>2, <1>5, <1>6, <1>25, <1>28
    <2>4. ASSUME op[u].kind = "tribbles"
          PROVE  /\ Len(c.tribs) + Len(Tail(ids)) <= MaxTribs
                 /\ \A i, j \in DOMAIN c.tribs : i < j => c.tribs[i].posted > c.tribs[j].posted
      <3>1. PICK k \in Nat : k = Len(ids)
        BY <1>9, LenProperties
      <3>2. n + k <= MaxTribs /\ Len(Tail(ids)) = k - 1 /\ Len(c.tribs) = n + 1
        BY <1>9, <1>10, <1>12, <1>13, <2>4, <3>1
      <3>3. Len(c.tribs) + Len(Tail(ids)) <= MaxTribs
        BY <3>2, TribAssumption
      <3>4. ASSUME NEW t \in Found(u) PROVE t.user = w
        <4>1. PICK r \in okPosts : t = Of(r) /\ r.user \in Asked(u)
          BY <1>9 DEF Origin
        <4>2. Asked(u) = {op[u].target} /\ todo = <<op[u].target>> /\ Head(todo) = op[u].target
          BY <1>9, <2>4 DEF Asked
        <4> QED BY <1>2, <4>1, <4>2 DEF Of
      <3>5. ASSUME NEW i \in 1 .. n + 1, NEW j \in 1 .. n + 1, i < j PROVE c.tribs[i].posted > c.tribs[j].posted
        <4>1. i \in 1 .. n
          BY <3>5
        <4>2. CASE j \in 1 .. n
          BY <1>9, <1>13, <2>4, <3>5, <4>1, <4>2
        <4>3. CASE j = n + 1
          BY <1>8, <1>13, <1>17, <1>22, <3>4, <4>1, <4>3
        <4> QED BY <1>23, <4>2, <4>3
      <3> QED BY <1>13, <3>3, <3>5
    <2>5. op'[u].todo # <<>> /\ op'[u].ids \in Seq(Nat)
      BY <1>9, <1>10, <2>1
    <2>6. op'[u].kind = "tribbles" =>
              /\ Len(op'[u].tribs) + Len(op'[u].ids) <= MaxTribs
              /\ \A i, j \in DOMAIN op'[u].tribs : i < j => op'[u].tribs[i].posted > op'[u].tribs[j].posted
      BY <2>1, <2>4
    <2> QED BY <2>2, <2>3, <2>5, <2>6 DEF IdsAt
  <1>27. Answers(u)'
    BY <1>5, <1>6 DEF Answers
  <1> QED BY <1>0, <1>5, <1>6, <1>24, <1>26, <1>27, ReadingTime

\* The steps that read tribbles, by their outcomes.
LEMMA CollectingTime ==
  ASSUME TribInv, TribsHeldInv, TimeInv, NEW u \in Members, GetList(u) \/ Fetch(u)
  PROVE  TimeInv'
  <1>0. /\ op = [v \in Members |-> op[v]] /\ StartAt(u) /\ ListAt(u) /\ IdsAt(u) /\ PostsInv
        /\ op[u].pc \in {"list", "fetch"}
        /\ UNCHANGED <<conn, tribsKey, tribKey, okPosts, clock, follKey, follows, usersKey>>
    BY DEF TribInv, Shape, TimeInv, ReadAt, GetList, Fetch, tribPast
  <1>1. CASE GetList(u)
    <2>1. op[u].pc = "list"
      BY <1>1 DEF GetList
    <2>2. CASE op[u].todo = <<>>
      BY <1>0, <1>1, <2>1, <2>2, AnswerTime DEF GetList
    <2>3. CASE op[u].todo # <<>> /\ (Head(op[u].todo) \notin usersKey \/ Head(op[u].todo) \notin DOMAIN tribsKey)
      <3>1. CASE op[u].kind = "tribbles"
        <4>1. op' = [op EXCEPT ![u].pc = "answer", ![u].status = "ENOSUCHUSER"]
          BY <1>1, <2>3, <3>1 DEF GetList, Finish
        <4>2. Whole(op[u])
          BY <1>0, RunningShape
        <4>3. op' = [op EXCEPT ![u].pc = "answer", ![u].status = "ENOSUCHUSER", ![u].todo = op[u].todo]
          BY <1>0, <4>1, <4>2 DEF Whole
        <4> QED BY <1>0, <4>3, MissingTime
      <3>2. CASE op[u].kind # "tribbles"
        <4>1. op' = [op EXCEPT ![u].todo = Tail(@)]
          BY <1>1, <2>3, <3>2 DEF GetList
        <4>2. Whole(op[u])
          BY <1>0, RunningShape
        <4>3. op' = [op EXCEPT ![u].pc = "list", ![u].todo = Tail(@)]
          BY <1>0, <2>1, <4>1, <4>2 DEF Whole
        <4>4. ASSUME NEW p \in op[u].since, p.user = Head(op[u].todo), Fresh(u, p.user) PROVE Covered(u, p)
          <5>1. p \in okPosts /\ p.user \in usersKey
            BY <1>0 DEF StartAt, PostsInv
          <5>2. p.id \in Ids(p.user)
            BY <5>1 DEF TribInv, PostedInv
          <5>3. p.user \in DOMAIN tribsKey
            BY <5>2 DEF Ids, OrEmpty, ToSet
          <5> QED BY <2>3, <4>4, <5>1, <5>3
        <4> QED BY <1>0, <2>3, <3>2, <4>3, <4>4, TailTime
      <3> QED BY <3>1, <3>2
    <2>4. CASE op[u].todo # <<>> /\ Head(op[u].todo) \in usersKey /\ Head(op[u].todo) \in DOMAIN tribsKey
      <3>1. PICK w : w = Head(op[u].todo)
        OBVIOUS
      <3>2. PICK l \in tribsHeld[conn[u]][w] \cup {tribsKey[w]} :
              op' = [op EXCEPT ![u].pc = "fetch", ![u].ids = Newest(Reverse(l)),
                               ![u].old = OldKeys(u, <<"T", w>>, l, tribsKey[w])]
        BY <1>1, <2>4, <3>1 DEF GetList
      <3>3. Earlier(l, w)
        BY <2>4, <3>1, ReadIsEarlier DEF TribInv
      <3> QED BY <1>0, <2>1, <2>4, <3>1, <3>2, <3>3, ToFetch
    <2> QED BY <2>2, <2>3, <2>4
  <1>2. CASE Fetch(u)
    <2>1. op[u].pc = "fetch" /\ op[u].todo # <<>>
      BY <1>0, <1>2 DEF Fetch, IdsAt
    <2>2. CASE op[u].ids = <<>> /\ op[u].kind = "tribbles"
      <3>1. op' = [op EXCEPT ![u].pc = "answer", ![u].status = "OK"]
        BY <1>2, <2>2 DEF Fetch
      <3> QED BY <1>0, <2>1, <2>2, <3>1, FetchedTime
    <2>3. CASE op[u].ids = <<>> /\ op[u].kind # "tribbles"
      <3>1. op' = [op EXCEPT ![u].pc = "list", ![u].todo = Tail(@)]
        BY <1>2, <2>3 DEF Fetch
      <3>2. ASSUME NEW p \in op[u].since, p.user = Head(op[u].todo), Fresh(u, p.user) PROVE Covered(u, p)
        <4>1. Fetching(u, p)
          BY <1>0, <2>1, <3>2 DEF IdsAt
        <4>2. ToSet(op[u].ids) = {} /\ Len(op[u].ids) = 0
          BY <2>3 DEF ToSet
        <4>3. Cardinality(Newer(u, p)) \in Nat
          BY <1>0, FoundIsFinite DEF ListAt
        <4> QED BY <4>1, <4>2, <4>3 DEF Fetching, Covered
      <3> QED BY <1>0, <2>1, <2>3, <3>1, <3>2, TailTime
    <2>4. PICK key : key = <<Head(op[u].todo), Head(op[u].ids), conn[u]>>
      OBVIOUS
    <2>5. CASE op[u].ids # <<>> /\ key \notin DOMAIN tribKey
      <3>1. op' = [op EXCEPT ![u].pc = "answer", ![u].status = "error", ![u].todo = <<Head(op[u].todo)>>]
        BY <1>2, <2>4, <2>5 DEF Fetch
      <3> QED BY <1>0, <3>1, MissingTime
    <2>6. CASE op[u].ids # <<>> /\ key \in DOMAIN tribKey
      <3>1. op' = [op EXCEPT ![u].tribs = Append(@, tribKey[key]), ![u].ids = Tail(@)]
        BY <1>2, <2>4, <2>6 DEF Fetch
      <3> QED BY <1>0, <2>1, <2>4, <2>6, <3>1, FetchOne
    <2> QED BY <2>2, <2>3, <2>5, <2>6
  <1> QED BY <1>1, <1>2

(***************************************************************************)
(* The steps that write, begin and cut off.                                *)
(***************************************************************************)
\* The id enters the list last.
LEMMA WriteTribsTime ==
  ASSUME TribInv, TimeInv, NEW u \in Members, WriteTribs(u)
  PROVE  TimeInv'
  <1>0. /\ op = [v \in Members |-> op[v]] /\ PosterAt(u) /\ FollAt(u) /\ ReadAt(u) /\ PostsInv /\ AppendAt(u)
        /\ op[u].pc = "write" /\ op[u].kind = "post"
        /\ tribsKey \in [DOMAIN tribsKey -> Seq(Nat)]
        /\ UNCHANGED <<conn, usersKey, follKey, tribKey, clock, okPosts, follows>>
    BY DEF TribInv, Shape, TimeInv, CallInv, WriteTribs, tribPast
  <1>1. Whole(op[u]) /\ op[u].id \in Nat
    BY <1>0, RunningShape
  <1>2. PICK c : c = [op[u] EXCEPT !.pc = "put"]
    OBVIOUS
  <1>3. /\ c.pc = "put" /\ c.kind = op[u].kind /\ c.target = op[u].target /\ c.since = op[u].since /\ c.id = op[u].id
    BY <1>1, <1>2 DEF Whole
  <1>4. op'[u] = c /\ \A v \in Members : v # u => op'[v] = op[v]
    BY <1>0, <1>2 DEF WriteTribs, Step
  <1>5. PICK l, x : l = Listed(u) /\ x = op[u].id
    OBVIOUS
  <1>6. l \in Seq(Nat) /\ op[u].list = l /\ x \notin ToSet(l) /\ x \in Nat
    BY <1>0, <1>1, <1>5 DEF AppendAt, Listed, Ids, OrEmpty
  <1>7. PICK n \in Nat : n = Len(l)
    BY <1>6, LenProperties
  <1>8. PICK r : r = Append(l, x)
    OBVIOUS
  <1>9. /\ r \in Seq(Nat) /\ Len(r) = n + 1 /\ DOMAIN r = 1 .. n + 1 /\ DOMAIN l = 1 .. n
        /\ r[n + 1] = x /\ \A i \in 1 .. n : r[i] = l[i]
    BY <1>6, <1>7, <1>8, AppendProperties, LenProperties
  <1>10. Listed(u)' = r /\ \A w : w # u => Listed(w)' = Listed(w)
    BY <1>0, <1>5, <1>6, <1>8 DEF WriteTribs, With, Listed, OrEmpty
  <1>11. ASSUME NEW w, NEW y, NEW z, After(w, y, z) PROVE After(w, y, z)'
    <2>1. CASE w # u
      BY <1>10, <1>11, <2>1 DEF After
    <2>2. CASE w = u
      <3>1. PICK i, j \in 1 .. n : i > j /\ l[i] = y /\ l[j] = z
        BY <1>5, <1>9, <1>11, <2>2 DEF After
      <3>2. i \in 1 .. n + 1 /\ j \in 1 .. n + 1
        OBVIOUS
      <3> QED BY <1>9, <1>10, <2>2, <3>1, <3>2 DEF After
    <2> QED BY <2>1, <2>2
  <1>12. ASSUME NEW p \in okPosts, NEW q \in okPosts, p.user = q.user, After(p.user, p.id, q.id)'
         PROVE  p.posted > q.posted
    <2>1. p.id \in Ids(p.user) /\ q.id \in Ids(q.user)
      BY DEF TribInv, PostedInv
    <2>2. After(p.user, p.id, q.id)
      <3>1. CASE p.user # u
        BY <1>10, <1>12, <3>1 DEF After
      <3>2. CASE p.user = u
        <4>1. PICK i, j \in 1 .. n + 1 : i > j /\ r[i] = p.id /\ r[j] = q.id
          BY <1>9, <1>10, <1>12, <3>2 DEF After
        <4>2. p.id # x /\ q.id # x
          BY <1>5, <1>6, <1>12, <2>1, <3>2 DEF Ids, Listed
        <4>3. i \in 1 .. n /\ j \in 1 .. n
          BY <1>9, <4>1, <4>2
        <4> QED BY <1>5, <1>9, <3>2, <4>1, <4>3 DEF After
      <3> QED BY <3>1, <3>2
    <2> QED BY <1>0, <1>12, <2>2 DEF PostsInv
  <1>13. PostsInv'
    <2>1. \A w, y : Key(w, y)' = Key(w, y)
      BY <1>0 DEF Key
    <2> QED BY <1>0, <1>12, <2>1 DEF PostsInv, Of
  <1>14. PosterAt(u)'
    <2>1. Listed(u)' # <<>> /\ Listed(u)'[Len(Listed(u)')] = x
      <3>1. r # <<>> /\ r[Len(r)] = x
        BY <1>9
      <3> QED BY <1>10, <3>1
    <2> QED BY <1>0, <1>3, <1>4, <1>5, <2>1 DEF PosterAt
  <1>15. FollAt(u)' /\ ReadAt(u)'
    <2>1. OrEmpty(follKey, u)' = OrEmpty(follKey, u)
      BY <1>0 DEF OrEmpty
    <2>2. FollAt(u)'
      BY <1>0, <1>3, <1>4, <2>1 DEF FollAt
    <2>3. ReadAt(u)'
      BY <1>0, <1>3, <1>4 DEF ReadAt, StartAt, ListAt, IdsAt, Answers
    <2> QED BY <2>2, <2>3
  <1>16. ASSUME NEW v \in Members, v # u PROVE PosterAt(v)' /\ FollAt(v)' /\ ReadAt(v)'
    <2>1. PosterAt(v) /\ FollAt(v) /\ ReadAt(v) /\ op'[v] = op[v]
      BY <1>4, <1>16 DEF TimeInv
    <2>2. OrEmpty(follKey, v)' = OrEmpty(follKey, v) /\ Listed(v)' = Listed(v)
      BY <1>0, <1>10, <1>16 DEF OrEmpty
    <2> QED BY <1>0, <1>11, <2>1, <2>2, CallFrame
  <1> QED BY <1>0, <1>13, <1>14, <1>15, <1>16 DEF TimeInv

\* The list of subscriptions changes with what was answered.
LEMMA WriteFollTime ==
  ASSUME TribInv, TimeInv, NEW u \in Members, WriteFoll(u)
  PROVE  TimeInv'
  <1>0. /\ op = [v \in Members |-> op[v]] /\ PosterAt(u) /\ FollAt(u) /\ ReadAt(u) /\ PostsInv
        /\ follows = [v \in Members |-> follows[v]]
        /\ op[u].pc = "write" /\ op[u].kind \in {"subscribe", "unsubscribe"}
        /\ UNCHANGED <<conn, usersKey, tribsKey, tribKey, clock, okPosts>>
    BY DEF TribInv, Shape, TimeInv, WriteFoll, PosterAt
  <1>1. Whole(op[u])
    BY <1>0, RunningShape
  <1>2. PICK c : c = [op[u] EXCEPT !.pc = "answer", !.status = "OK"]
    OBVIOUS
  <1>3. /\ c.pc = "answer" /\ c.kind = op[u].kind /\ c.target = op[u].target /\ c.since = op[u].since
    BY <1>1, <1>2 DEF Whole
  <1>4. op'[u] = c /\ \A v \in Members : v # u => op'[v] = op[v]
    BY <1>0, <1>2 DEF WriteFoll, Finish
  <1>5. PICK l, t : l = OrEmpty(follKey, u) /\ t = op[u].target
    OBVIOUS
  <1>6. /\ l \in Seq(Members) /\ Distinct(l) /\ ToSet(l) = follows[u] /\ t \in Members /\ op[u].list = l
        /\ op[u].kind = "subscribe" => t \notin follows[u]
        /\ op[u].kind = "unsubscribe" => t \in follows[u]
    BY <1>0, <1>5 DEF FollAt
  <1>7. PICK r : r = IF op[u].kind = "subscribe" THEN Append(l, t) ELSE Without(l, t)
    OBVIOUS
  <1>8. OrEmpty(follKey, u)' = r /\ \A v : v # u => OrEmpty(follKey, v)' = OrEmpty(follKey, v)
    BY <1>5, <1>6, <1>7 DEF WriteFoll, With, OrEmpty
  <1>9. /\ follows' = [v \in Members |-> follows'[v]] /\ \A v \in Members : v # u => follows'[v] = follows[v]
        /\ follows'[u] = IF op[u].kind = "subscribe" THEN follows[u] \cup {t} ELSE follows[u] \ {t}
    BY <1>0, <1>5 DEF WriteFoll
  <1>10. r \in Seq(Members) /\ Distinct(r) /\ ToSet(r) = follows'[u]
    <2>1. CASE op[u].kind = "subscribe"
      BY <1>6, <1>7, <1>9, <2>1, AppendToDistinct
    <2>2. CASE op[u].kind = "unsubscribe"
      BY <1>6, <1>7, <1>9, <2>2, WithoutIs
    <2> QED BY <1>0, <2>1, <2>2
  <1>11. PosterAt(u)' /\ ReadAt(u)'
    BY <1>0, <1>3, <1>4 DEF PosterAt, ReadAt, StartAt, ListAt, IdsAt, Answers, Readings
  <1>12. FollAt(u)'
    BY <1>0, <1>3, <1>4, <1>5, <1>6, <1>8, <1>10 DEF FollAt
  <1>13. PostsInv' /\ \A w, x, y : After(w, x, y) => After(w, x, y)'
    BY <1>0, PostsFrame
  <1>14. ASSUME NEW v \in Members, v # u PROVE PosterAt(v)' /\ FollAt(v)' /\ ReadAt(v)'
    <2>1. PosterAt(v) /\ FollAt(v) /\ ReadAt(v) /\ op'[v] = op[v]
      BY <1>4, <1>14 DEF TimeInv
    <2>2. OrEmpty(follKey, v)' = OrEmpty(follKey, v) /\ Listed(v)' = Listed(v) /\ follows'[v] = follows[v]
      BY <1>0, <1>8, <1>9, <1>14 DEF Listed, OrEmpty
    <2> QED BY <1>0, <1>13, <2>1, <2>2, CallFrame
  <1> QED BY <1>9, <1>11, <1>12, <1>13, <1>14 DEF TimeInv

\* The tribble gets a time of its own, later than those before it in the list.
LEMMA PutTribbleTime ==
  ASSUME TribInv, TimeInv, NEW u \in Members, PutTribble(u)
  PROVE  TimeInv'
  <1>0. /\ op = [v \in Members |-> op[v]] /\ PosterAt(u) /\ FollAt(u) /\ ReadAt(u) /\ PostsInv /\ PutAt(u)
        /\ op[u].pc = "put" /\ op[u].kind = "post" /\ u \in usersKey
        /\ follows = [v \in Members |-> follows[v]]
        /\ UNCHANGED <<conn, usersKey, tribsKey, follKey, follows>> /\ clock' = clock + 1 /\ clock \in Nat
    BY DEF TribInv, Shape, TimeInv, CallInv, PutAt, PosterAt, PutTribble, PostsInv
  <1>1. Whole(op[u])
    BY <1>0, RunningShape
  <1>2. PICK c : c = [op[u] EXCEPT !.pc = "answer", !.status = "OK"]
    OBVIOUS
  <1>3. /\ c.pc = "answer" /\ c.kind = op[u].kind /\ c.target = op[u].target /\ c.since = op[u].since
    BY <1>1, <1>2 DEF Whole
  <1>4. op'[u] = c /\ \A v \in Members : v # u => op'[v] = op[v]
    BY <1>0, <1>2 DEF PutTribble, Finish
  <1>5. PICK x : x = op[u].id
    OBVIOUS
  <1>6. PICK p0 : p0 = [user |-> u, id |-> x, posted |-> clock]
    OBVIOUS
  <1>7. /\ p0.user = u /\ p0.id = x /\ p0.posted = clock /\ p0 = [user |-> p0.user, id |-> p0.id, posted |-> p0.posted]
        /\ Of(p0) = [user |-> u, posted |-> clock]
    BY <1>6 DEF Of
  <1>8. okPosts' = okPosts \cup {p0}
    BY <1>5, <1>6 DEF PutTribble
  <1>9. /\ DOMAIN tribKey' = DOMAIN tribKey \cup {Key(u, x)} /\ tribKey'[Key(u, x)] = Of(p0)
        /\ \A k \in DOMAIN tribKey : k # Key(u, x) => tribKey'[k] = tribKey[k]
    BY <1>5, <1>7 DEF PutTribble, With
  <1>10. /\ \A w : Listed(w)' = Listed(w) /\ OrEmpty(follKey, w)' = OrEmpty(follKey, w)
         /\ \A w, y : Key(w, y)' = Key(w, y)
    BY <1>0 DEF Listed, OrEmpty, Key
  <1>11. \A w, y, z : After(w, y, z)' <=> After(w, y, z)
    BY <1>10 DEF After
  <1>12. ASSUME NEW p \in okPosts
         PROVE  /\ Key(p.user, p.id) # Key(u, x) /\ Key(p.user, p.id) \in DOMAIN tribKey
                /\ p.posted \in Nat /\ p.posted < clock /\ p.id \in Ids(p.user)
    <2>1. p.user = u => p.id # x
      BY <1>0, <1>5 DEF PutAt
    <2> QED BY <1>0, <2>1 DEF Key, TribInv, PostedInv, PostsInv
  <1>13. ASSUME NEW y, After(u, y, x) PROVE FALSE
    <2>1. PICK i, j \in DOMAIN Listed(u) : i > j /\ Listed(u)[j] = x
      BY <1>13 DEF After
    <2>2. u \in DOMAIN tribsKey /\ Listed(u) = tribsKey[u]
      BY <2>1 DEF Listed, OrEmpty
    <2>3. PICK n \in Nat : n = Len(Listed(u)) /\ DOMAIN Listed(u) = 1 .. n
      BY <2>2, LenProperties DEF TribInv, Shape
    <2>4. i \in 1 .. n /\ j \in 1 .. n /\ n \in DOMAIN Listed(u) /\ Listed(u)[n] = x
      BY <1>0, <1>5, <2>1, <2>3 DEF PosterAt
    <2>5. j = n
      BY <2>1, <2>2, <2>4 DEF TribInv, ListsInv
    <2> QED BY <2>1, <2>4, <2>5
  <1>14. ~After(u, x, x)
    BY AfterDiffers
  <1>15. PostsInv'
    <2>1. ASSUME NEW p \in okPosts'
          PROVE  /\ p = [user |-> p.user, id |-> p.id, posted |-> p.posted]
                 /\ p.user \in usersKey /\ p.posted \in Nat /\ p.posted < clock + 1
                 /\ tribKey'[Key(p.user, p.id)] = Of(p)
      <3>1. CASE p \in okPosts
        <4>1. p = [user |-> p.user, id |-> p.id, posted |-> p.posted] /\ p.user \in usersKey
              /\ tribKey[Key(p.user, p.id)] = Of(p)
          BY <1>0, <3>1 DEF PostsInv
        <4> QED BY <1>0, <1>9, <1>12, <3>1, <4>1
      <3>2. CASE p = p0
        BY <1>0, <1>7, <1>9, <3>2
      <3> QED BY <1>8, <2>1, <3>1, <3>2
    <2>2. ASSUME NEW p \in okPosts', NEW q \in okPosts', p.posted = q.posted PROVE p = q
      BY <1>0, <1>7, <1>8, <1>12, <2>2 DEF PostsInv
    <2>3. ASSUME NEW p \in okPosts', NEW q \in okPosts', p.user = q.user, After(p.user, p.id, q.id)
          PROVE  p.posted > q.posted
      <3>1. CASE p \in okPosts /\ q \in okPosts
        BY <1>0, <2>3, <3>1 DEF PostsInv
      <3>2. CASE p = p0 /\ q \in okPosts
        BY <1>0, <1>7, <1>12, <3>2
      <3>3. CASE q = p0
        BY <1>7, <1>13, <2>3, <3>3
      <3> QED BY <1>8, <2>3, <3>1, <3>2, <3>3
    <2>4. ASSUME NEW k \in DOMAIN tribKey' PROVE \E p \in okPosts' : k = Key(p.user, p.id)
      <3>1. CASE k \in DOMAIN tribKey
        BY <1>0, <1>8, <3>1 DEF PostsInv
      <3>2. CASE k = Key(u, x)
        BY <1>7, <1>8, <3>2
      <3> QED BY <1>9, <2>4, <3>1, <3>2
    <2>5. \A p : Of(p)' = Of(p)
      BY DEF Of
    <2> QED BY <1>0, <1>10, <1>11, <2>1, <2>2, <2>3, <2>4, <2>5 DEF PostsInv
  <1>16. PosterAt(u)' /\ FollAt(u)' /\ ReadAt(u)'
    <2>1. PosterAt(u)' /\ ReadAt(u)'
      BY <1>0, <1>3, <1>4, <1>8 DEF PosterAt, ReadAt, StartAt, ListAt, IdsAt, Answers, Readings
    <2>2. FollAt(u)'
      BY <1>0, <1>3, <1>4, <1>10 DEF FollAt
    <2> QED BY <2>1, <2>2
  <1>17. ASSUME NEW v \in Members, v # u PROVE PosterAt(v)' /\ FollAt(v)' /\ ReadAt(v)'
    <2>1. PosterAt(v) /\ FollAt(v) /\ ReadAt(v) /\ op'[v] = op[v]
      BY <1>4, <1>17 DEF TimeInv
    <2> QED BY <1>0, <1>8, <1>10, <1>11, <2>1, CallFrame
  <1> QED BY <1>0, <1>15, <1>16, <1>17 DEF TimeInv

\* A call begins.
LEMMA BeginTime ==
  ASSUME TribInv, TimeInv, NEW u \in Members, NEW kind \in TribCalls, NEW target \in Members, Begin(u, kind, target)
  PROVE  TimeInv'
  <1>0. /\ op = [v \in Members |-> op[v]] /\ FollAt(u) /\ PostsInv /\ follows = [v \in Members |-> follows[v]]
        /\ UNCHANGED <<conn, usersKey, tribsKey, follKey, tribKey, clock, okPosts, follows>>
    BY DEF TribInv, Shape, TimeInv, Begin
  <1>1. PICK c : c = [pc |-> "user", kind |-> kind, target |-> target, id |-> 0, list |-> <<>>,
                      todo |-> <<>>, ids |-> <<>>, tribs |-> <<>>, status |-> "none",
                      since |-> IF kind \in Readings THEN okPosts ELSE {},
                      overlap |-> {x \in Members : kind \in Readings /\ Posting(x)}, old |-> {}]
    OBVIOUS
  <1>2. c.pc = "user" /\ c.target = target /\ c.tribs = <<>> /\ c.since \subseteq okPosts
    BY <1>1
  <1>3. /\ op'[u] = c
        /\ \A v \in Members : v # u =>
             op'[v] = IF kind = "post" /\ Running(v) /\ op[v].kind \in Readings
                      THEN [op[v] EXCEPT !.overlap = @ \cup {u}] ELSE op[v]
    BY <1>1 DEF Begin
  <1>4. PostsInv' /\ \A w, x, y : After(w, x, y) => After(w, x, y)'
    BY <1>0, PostsFrame
  <1>5. \A w : Listed(w)' = Listed(w) /\ OrEmpty(follKey, w)' = OrEmpty(follKey, w)
    BY <1>0 DEF Listed, OrEmpty
  <1>6. PosterAt(u)' /\ ReadAt(u)'
    BY <1>0, <1>2, <1>3 DEF PosterAt, ReadAt, StartAt, ListAt, IdsAt, Answers
  <1>7. FollAt(u)'
    BY <1>0, <1>2, <1>3, <1>5 DEF FollAt
  <1>8. ASSUME NEW v \in Members, v # u PROVE PosterAt(v)' /\ FollAt(v)' /\ ReadAt(v)'
    <2>0. PosterAt(v) /\ FollAt(v) /\ ReadAt(v)
      BY DEF TimeInv
    <2>1. /\ op'[v].pc = op[v].pc
          /\ op[v].pc # "idle" =>
                /\ op'[v].kind = op[v].kind /\ op'[v].target = op[v].target /\ op'[v].id = op[v].id
                /\ op'[v].list = op[v].list /\ op'[v].todo = op[v].todo /\ op'[v].ids = op[v].ids
                /\ op'[v].tribs = op[v].tribs /\ op'[v].status = op[v].status /\ op'[v].since = op[v].since
                /\ op'[v].old = op[v].old
      <3>1. CASE kind = "post" /\ Running(v) /\ op[v].kind \in Readings
        <4>1. Whole(op[v])
          BY <3>1, RunningShape DEF Running
        <4>2. op'[v] = [op[v] EXCEPT !.overlap = @ \cup {u}]
          BY <1>3, <1>8, <3>1
        <4> QED BY <4>1, <4>2 DEF Whole
      <3>2. CASE ~(kind = "post" /\ Running(v) /\ op[v].kind \in Readings)
        BY <1>3, <1>8, <3>2
      <3> QED BY <3>1, <3>2
    <2> QED BY <1>0, <1>4, <1>5, <2>0, <2>1, CallFrame
  <1> QED BY <1>0, <1>4, <1>6, <1>7, <1>8 DEF TimeInv

\* Calls are cut off, or nothing happens.
LEMMA RestTime ==
  ASSUME TribInv, TimeInv, UNCHANGED <<conn, usersKey, tribsKey, follKey, tribKey, clock, okPosts, follows>>,
         \A v \in Members : op'[v] = NoOp \/ op'[v] = op[v]
  PROVE  TimeInv'
  <1>1. PostsInv' /\ \A w, x, y : After(w, x, y) => After(w, x, y)'
    BY PostsFrame DEF TimeInv
  <1>2. \A w : Listed(w)' = Listed(w) /\ OrEmpty(follKey, w)' = OrEmpty(follKey, w)
    BY DEF Listed, OrEmpty
  <1>3. ASSUME NEW v \in Members PROVE PosterAt(v)' /\ FollAt(v)' /\ ReadAt(v)'
    <2>1. PosterAt(v) /\ FollAt(v) /\ ReadAt(v)
      BY DEF TimeInv
    <2> QED BY <1>1, <1>2, <2>1, CallFrame
  <1> QED BY <1>1, <1>3 DEF TimeInv

LEMMA NextTimeInv == TribInv /\ TribsHeldInv /\ TimeInv /\ FollHeldInv /\ [TribNext]_tribVars => TimeInv'
  <1> SUFFICES ASSUME TribInv, TribsHeldInv, TimeInv, FollHeldInv, [TribNext]_tribVars PROVE TimeInv'
    OBVIOUS
  <1>1. ASSUME NEW u \in Members, Handler(u) PROVE TimeInv'
    BY <1>1, EarlySteps, CollectingTime, WriteTribsTime, WriteFollTime, PutTribbleTime DEF Handler
  <1>2. ASSUME NEW s \in TribServers, Restart(s) PROVE TimeInv'
    <2>1. UNCHANGED <<conn, usersKey, tribsKey, follKey, tribKey, clock, okPosts, follows>>
      BY <1>2 DEF Restart
    <2>2. \A v \in Members : op'[v] = NoOp \/ op'[v] = op[v]
      BY <1>2 DEF Restart
    <2> QED BY <2>1, <2>2, RestTime
  <1>3. CASE UNCHANGED tribVars
    BY <1>3, RestTime DEF tribVars
  <1> QED BY <1>1, <1>2, <1>3, BeginTime DEF TribNext

\* The lists of subscriptions that were read.
LEMMA NextFollHeldInv == TribInv /\ TimeInv /\ FollHeldInv /\ [TribNext]_tribVars => FollHeldInv'
  <1> SUFFICES ASSUME TribInv, TimeInv, FollHeldInv, [TribNext]_tribVars PROVE FollHeldInv'
    OBVIOUS
  <1>1. ASSUME UNCHANGED follHeld PROVE FollHeldInv'
    BY <1>1 DEF FollHeldInv
  <1>2. ASSUME NEW u \in Members, GetFollows(u) PROVE FollHeldInv'
    <2>1. CASE u \in DOMAIN follKey
      <3>1. PICK l \in follHeld[conn[u]][u] \cup {follKey[u]} :
              follHeld' = [follHeld EXCEPT ![conn[u]][u] = @ \cup {l}]
        BY <1>2, <2>1 DEF GetFollows
      <3>2. PICK s0 \in TribServers : s0 = conn[u]
        BY DEF TribInv, Shape
      <3>3. l \in Seq(Members) /\ Distinct(l)
        BY <2>1, <3>1, <3>2 DEF FollHeldInv, TimeInv, FollAt, OrEmpty
      <3>4. PICK g : g = [follHeld[s0] EXCEPT ![u] = follHeld[s0][u] \cup {l}]
        OBVIOUS
      <3>5. /\ follHeld = [s \in TribServers |-> follHeld[s]]
            /\ \A s \in TribServers : follHeld[s] = [w \in Members |-> follHeld[s][w]]
        BY DEF FollHeldInv
      <3>6. follHeld' = [s \in TribServers |-> follHeld'[s]] /\ follHeld'[s0] = g
            /\ \A s \in TribServers : s # s0 => follHeld'[s] = follHeld[s]
        BY <3>1, <3>2, <3>4, <3>5
      <3>7. g = [w \in Members |-> g[w]] /\ g[u] = follHeld[s0][u] \cup {l}
            /\ \A w \in Members : w # u => g[w] = follHeld[s0][w]
        BY <3>4, <3>5
      <3>8. \A s \in TribServers : follHeld'[s] = [w \in Members |-> follHeld'[s][w]]
        BY <3>5, <3>6, <3>7
      <3>9. follHeld' = [s \in TribServers |-> [w \in Members |-> follHeld'[s][w]]]
        BY <3>6, <3>8
      <3>10. ASSUME NEW s \in TribServers, NEW w \in Members, NEW k \in follHeld'[s][w]
             PROVE  k \in Seq(Members) /\ Distinct(k)
        <4>1. k \in follHeld[s][w] \/ k = l
          BY <3>6, <3>7, <3>10
        <4> QED BY <3>3, <4>1 DEF FollHeldInv
      <3> QED BY ONLY <3>9, <3>10 DEF FollHeldInv, Distinct
    <2> QED BY <1>1, <1>2, <2>1 DEF GetFollows
  <1>3. ASSUME NEW s \in TribServers, Restart(s) PROVE FollHeldInv'
    <2>1. follHeld' = [follHeld EXCEPT ![s] = [w \in Members |-> {}]]
      BY <1>3 DEF Restart
    <2>2. /\ follHeld' = [t \in TribServers |-> [w \in Members |-> follHeld'[t][w]]]
          /\ \A t \in TribServers, w \in Members : follHeld'[t][w] \subseteq follHeld[t][w]
      BY <2>1 DEF FollHeldInv
    <2> QED BY <2>2 DEF FollHeldInv
  <1>4. ASSUME NEW u \in Members, NEW k, NEW w, Begin(u, k, w) PROVE UNCHANGED follHeld
    BY <1>4 DEF Begin, held
  <1>5. ASSUME NEW u \in Members, Handler(u), ~GetFollows(u) PROVE UNCHANGED follHeld
    BY <1>5 DEF Handler, GetUser, GetPoster, CreateUser, GetTarget, ReadToChange, WriteTribs, WriteFoll, PutTribble,
                GetList, Fetch, Return, held
  <1>6. CASE UNCHANGED tribVars
    BY <1>1, <1>6 DEF tribVars
  <1> QED BY <1>1, <1>2, <1>3, <1>4, <1>5, <1>6 DEF TribNext

LEMMA TimeInvariance == TribSpec => [](TribInv /\ TimeInv)
  <1>1. TribInit => FollHeldInv
    BY DEF TribInit, FollHeldInv
  <1> QED BY <1>1, TribInvariance, InitTimeInv, NextTimeInv, NextFollHeldInv, PTL DEF TribSpec

\* A post that was answered OK stays in its user's list, once, and the key of
\* its id keeps it and is written once, although ids are given out again after
\* a restart, for any users, servers and calls (PostTribble, AppendToList).
THEOREM PostsAreKept == TribSpec => []PostsKept
  <1>1. ASSUME TribInv, TimeInv, NEW u \in Members, op[u].pc = "put" PROVE Key(u, op[u].id) \notin DOMAIN tribKey
    <2>1. \A p \in okPosts : p.user = u => p.id # op[u].id
      BY <1>1 DEF TribInv, CallInv, PutAt
    <2>2. \A p \in okPosts : Key(u, op[u].id) # Key(p.user, p.id)
      BY <2>1 DEF Key
    <2> QED BY <1>1, <2>2 DEF TimeInv, PostsInv
  <1>2. TribInv /\ TimeInv => PostsKept
    <2> SUFFICES ASSUME TribInv, TimeInv, NEW p \in okPosts
                 PROVE  /\ Cardinality({i \in DOMAIN OrEmpty(tribsKey, p.user) : tribsKey[p.user][i] = p.id}) = 1
                        /\ Key(p.user, p.id) \in DOMAIN tribKey /\ tribKey[Key(p.user, p.id)].posted = p.posted
      BY <1>1 DEF PostsKept
    <2>1. /\ p.user \in Members /\ p.id \in Ids(p.user)
          /\ Key(p.user, p.id) \in DOMAIN tribKey /\ tribKey[Key(p.user, p.id)].posted = p.posted
      BY DEF TribInv, PostedInv
    <2>2. p.user \in DOMAIN tribsKey /\ OrEmpty(tribsKey, p.user) = tribsKey[p.user]
      BY <2>1 DEF Ids, OrEmpty, ToSet
    <2>3. PICK i \in DOMAIN tribsKey[p.user] : tribsKey[p.user][i] = p.id
      BY <2>1, <2>2 DEF Ids, ToSet
    <2>4. \A j \in DOMAIN tribsKey[p.user] : tribsKey[p.user][j] = p.id => j = i
      BY <2>2, <2>3 DEF TribInv, ListsInv
    <2>5. {j \in DOMAIN OrEmpty(tribsKey, p.user) : tribsKey[p.user][j] = p.id} = {i}
      BY <2>2, <2>3, <2>4
    <2> QED BY <2>1, <2>5, FS_Singleton
  <1> QED BY <1>2, TimeInvariance, PTL

\* An answer of GetTribbles and of GetTribblesBySubscription is newest first,
\* and what it leaves out of what had been posted when the call began is older
\* than the MaxTribs tribbles it shows, of every author whose list was not read
\* from an out-of-date copy, for any users, servers, posts, calls and restarts
\* (GetList, sort.Sort, AddSubscription, RemoveSubscription, iGetList).
THEOREM TimelinesAreComplete == TribSpec => []TimelineComplete
  <1>1. TimeInv => TimelineComplete
    BY DEF TimeInv, ReadAt, Answers, FollowsRead, Fresh, TimelineComplete
  <1> QED BY <1>1, TimeInvariance, PTL
=============================================================================
