------------------------------ MODULE Tribbler ------------------------------
(***************************************************************************)
(* The tribbler front end of 15-440/P2-F11: handlers of several Tribservers*)
(* as sequences of libstore calls.  Each user has one client, connected to *)
(* one server, with one call at a time; the calls of different users       *)
(* interleave.  A step is one storage operation; AppendToList and          *)
(* RemoveFromList are two, because the storage server reads and writes the *)
(* list under separate locks.  A server may die and start again: its id    *)
(* starts at 0, the storage stays.  A storage operation that has begun     *)
(* ends before that.                                                       *)
(*                                                                         *)
(* Reads go through the server's libstore, which may answer with a copy it *)
(* holds under a lease.  A copy of a list may be out of date: a lease      *)
(* granted between revokeLease and the write outlives the write (module    *)
(* Storage), and a copy kept late replaces a newer one, because the reply  *)
(* and Cache.Grant are two steps.  So a read of a list is answered with any*)
(* list the server has read since it started, or from storage; whether a   *)
(* lease was asked for, revoked or over is left open.  The other keys are  *)
(* written once (PostsKept) and absent ones are not copied: there a copy   *)
(* is what storage has.                                                    *)
(***************************************************************************)
EXTENDS Integers, Sequences, FiniteSets, SequencesExt

CONSTANTS Members,          \* users
          TribServers,
          MaxTribs,         \* tribbles in an answer, 100 in the code
          MaxPosts,         \* bound: calls of PostTribble
          MaxCalls,         \* bound: all calls
          MaxDeaths         \* bound: times a server dies

ASSUME TribAssumption == MaxTribs \in Nat

VARIABLES conn,             \* the server each client is connected to
          usersKey,         \* users with a key user:U
          tribsKey,         \* the lists at user:T, by user
          follKey,          \* the lists at user:F, by user
          tribKey,          \* tribbles at user:id:hostport
          srvId,            \* each server's id
          tribsHeld, follHeld, \* the lists each server has read, by user
          op,               \* each client's call
          clock,            \* of time.Now, advanced by every use
          posts, calls, deaths,
          okPosts,          \* history: posts that were answered OK
          follows,          \* history: targets of subscriptions answered OK
          unsure            \* history: users with a call that ended without an answer

tribVars == <<conn, usersKey, tribsKey, follKey, tribKey, srvId, tribsHeld, follHeld, op, clock,
              posts, calls, deaths, okPosts, follows, unsure>>
held == <<tribsHeld, follHeld>>
tribPast == <<posts, calls, deaths, okPosts, follows, unsure>>

OrEmpty(lists, u) == IF u \in DOMAIN lists THEN lists[u] ELSE <<>>
With(map, k, v) == [x \in DOMAIN map \cup {k} |-> IF x = k THEN v ELSE map[x]]
NoOp == [pc |-> "idle"]
Key(u, id) == <<u, id, conn[u]>>
Newest(s) == SubSeq(s, 1, IF Len(s) < MaxTribs THEN Len(s) ELSE MaxTribs)

TribInit ==
    /\ conn \in [Members -> TribServers]
    /\ usersKey = {} /\ tribsKey = [u \in {} |-> <<>>] /\ follKey = [u \in {} |-> <<>>]
    /\ tribKey = [k \in {} |-> 0] /\ srvId = [s \in TribServers |-> 0]
    /\ tribsHeld = [s \in TribServers |-> [w \in Members |-> {}]] /\ follHeld = tribsHeld
    /\ op = [u \in Members |-> NoOp] /\ clock = 0 /\ posts = 0 /\ calls = 0 /\ deaths = 0
    /\ okPosts = {} /\ follows = [u \in Members |-> {}] /\ unsure = {}

(***************************************************************************)
(* A call begins, and ends with a status.  For a reader of tribbles: todo  *)
(* is the users still to collect, ids what is left of the present one's    *)
(* list, tribs what was found; since and overlap remember what had been    *)
(* posted when the call began and who posted while it ran, old the keys    *)
(* whose list was an out-of-date copy.                                     *)
(***************************************************************************)
TribCalls == {"create", "post", "subscribe", "unsubscribe", "subscriptions", "tribbles", "timeline"}
Readings == {"tribbles", "timeline"}
Running(u) == op[u].pc # "idle"
Posting(u) == Running(u) /\ op[u].kind = "post"

Begin(u, kind, target) ==
    /\ ~Running(u) /\ calls < MaxCalls /\ calls' = calls + 1
    /\ kind = "post" => posts < MaxPosts
    /\ kind \notin {"subscribe", "unsubscribe", "tribbles"} => target = u
    /\ posts' = IF kind = "post" THEN posts + 1 ELSE posts
    /\ op' = [w \in Members |->
                IF w = u THEN [pc |-> "user", kind |-> kind, target |-> target, id |-> 0, list |-> <<>>,
                               todo |-> <<>>, ids |-> <<>>, tribs |-> <<>>, status |-> "none",
                               since |-> IF kind \in Readings THEN okPosts ELSE {},
                               overlap |-> {x \in Members : kind \in Readings /\ Posting(x)}, old |-> {}]
                ELSE IF kind = "post" /\ Running(w) /\ op[w].kind \in Readings THEN [op[w] EXCEPT !.overlap = @ \cup {u}] ELSE op[w]]
    /\ UNCHANGED <<conn, usersKey, tribsKey, follKey, tribKey, srvId, held, clock, deaths, okPosts, follows, unsure>>

Step(u, pc) == op' = [op EXCEPT ![u].pc = pc]
Finish(u, status) == op' = [op EXCEPT ![u].pc = "answer", ![u].status = status]
Return(u) == /\ op[u].pc = "answer" /\ op' = [op EXCEPT ![u] = NoOp]
             /\ UNCHANGED <<conn, usersKey, tribsKey, follKey, tribKey, srvId, held, clock, tribPast>>

(***************************************************************************)
(* The handlers                                                            *)
(***************************************************************************)
\* store.Get(user_key), with which a handler begins; that of GetTribbles is for
\* the user whose tribbles are asked for, and part of GetList.
GetUser(u) ==
    /\ op[u].pc = "user"
    /\ \/ op[u].kind = "create" /\ (IF u \in usersKey THEN Finish(u, "EEXISTS") ELSE Step(u, "create"))
       \/ op[u].kind = "tribbles" /\ op' = [op EXCEPT ![u].pc = "list", ![u].todo = <<op[u].target>>]
       \/ op[u].kind \notin {"create", "tribbles"} /\ u \notin usersKey /\ Finish(u, "ENOSUCHUSER")
       \/ op[u].kind \in {"subscribe", "unsubscribe"} /\ u \in usersKey /\ Step(u, "target")
       \/ op[u].kind \in {"subscriptions", "timeline"} /\ u \in usersKey /\ Step(u, "follows")
    /\ UNCHANGED <<conn, usersKey, tribsKey, follKey, tribKey, srvId, held, clock, tribPast>>

\* The same Get in PostTribble, and the id.
GetPoster(u) ==
    /\ op[u].pc = "user" /\ op[u].kind = "post" /\ u \in usersKey
    /\ srvId' = [srvId EXCEPT ![conn[u]] = @ + 1]
    /\ op' = [op EXCEPT ![u].pc = "read", ![u].id = srvId'[conn[u]]]
    /\ UNCHANGED <<conn, usersKey, tribsKey, follKey, tribKey, held, clock, tribPast>>

CreateUser(u) ==
    /\ op[u].pc = "create" /\ usersKey' = usersKey \cup {u} /\ Finish(u, "OK")
    /\ UNCHANGED <<conn, tribsKey, follKey, tribKey, srvId, held, clock, tribPast>>

GetTarget(u) ==
    /\ op[u].pc = "target"
    /\ IF op[u].target \in usersKey THEN Step(u, "read") ELSE Finish(u, "ENOSUCHTARGETUSER")
    /\ UNCHANGED <<conn, usersKey, tribsKey, follKey, tribKey, srvId, held, clock, tribPast>>

\* The list the call changes, and the item.
ListOf(u) == OrEmpty(IF op[u].kind = "post" THEN tribsKey ELSE follKey, u)
Item(u) == IF op[u].kind = "post" THEN op[u].id ELSE op[u].target

\* Mutant: AppendToList does not look for the item.
ReadAny(u) ==
    /\ op[u].pc = "read"
    /\ IF op[u].kind = "unsubscribe" /\ Item(u) \notin ToSet(ListOf(u)) THEN Finish(u, "ENOSUCHTARGETUSER")
       ELSE op' = [op EXCEPT ![u].pc = "write", ![u].list = ListOf(u)]
    /\ UNCHANGED <<conn, usersKey, tribsKey, follKey, tribKey, srvId, held, clock, tribPast>>

\* AppendToList and RemoveFromList up to the write.
ReadToChange(u) ==
    /\ op[u].pc = "read"
    /\ LET there == Item(u) \in ToSet(ListOf(u))
       IN IF op[u].kind = "unsubscribe" THEN IF there THEN op' = [op EXCEPT ![u].pc = "write", ![u].list = ListOf(u)]
                                             ELSE Finish(u, "ENOSUCHTARGETUSER")
          ELSE IF there THEN Finish(u, "EEXISTS")
               ELSE op' = [op EXCEPT ![u].pc = "write", ![u].list = ListOf(u)]
    /\ UNCHANGED <<conn, usersKey, tribsKey, follKey, tribKey, srvId, held, clock, tribPast>>

\* The id enters the list of tribbles before there is a tribble.
WriteTribs(u) ==
    /\ op[u].pc = "write" /\ op[u].kind = "post"
    /\ tribsKey' = With(tribsKey, u, Append(op[u].list, op[u].id)) /\ Step(u, "put")
    /\ UNCHANGED <<conn, usersKey, follKey, tribKey, srvId, held, clock, tribPast>>

\* l[:i] and l[i+1:], for the first i where the item is.
Without(list, item) ==
    RemoveAt(list, CHOOSE i \in DOMAIN list : list[i] = item /\ \A j \in 1 .. i - 1 : list[j] # item)

WriteFoll(u) ==
    /\ op[u].pc = "write" /\ op[u].kind # "post"
    /\ follKey' = With(follKey, u, IF op[u].kind = "subscribe" THEN Append(op[u].list, op[u].target)
                                   ELSE Without(op[u].list, op[u].target))
    /\ follows' = [follows EXCEPT ![u] = IF op[u].kind = "subscribe" THEN @ \cup {op[u].target} ELSE @ \ {op[u].target}]
    /\ Finish(u, "OK")
    /\ UNCHANGED <<conn, usersKey, tribsKey, tribKey, srvId, held, clock, posts, calls, deaths, okPosts, unsure>>

PutTribble(u) ==
    /\ op[u].pc = "put" /\ clock' = clock + 1
    /\ tribKey' = With(tribKey, Key(u, op[u].id), [user |-> u, posted |-> clock])
    /\ okPosts' = okPosts \cup {[user |-> u, id |-> op[u].id, posted |-> clock]}
    /\ Finish(u, "OK")
    /\ UNCHANGED <<conn, usersKey, tribsKey, follKey, srvId, held, posts, calls, deaths, follows, unsure>>

\* Reading list l for key, where storage has now.
OldKeys(u, key, l, now) == op[u].old \cup {k \in {key} : l # now}

\* GetList(foll_key): all of GetSubscriptions, and what GetTribblesBySubscription
\* goes through.
GetFollows(u) ==
    /\ op[u].pc = "follows"
    /\ IF u \notin DOMAIN follKey THEN Finish(u, "ENOSUCHUSER") /\ UNCHANGED follHeld
       ELSE \E l \in follHeld[conn[u]][u] \cup {follKey[u]} :
              /\ follHeld' = [follHeld EXCEPT ![conn[u]][u] = @ \cup {l}]
              /\ LET old == OldKeys(u, <<"F", u>>, l, follKey[u])
                 IN op' = IF op[u].kind = "subscriptions"
                          THEN [op EXCEPT ![u].pc = "answer", ![u].status = "OK", ![u].list = l, ![u].old = old]
                          ELSE [op EXCEPT ![u].pc = "list", ![u].todo = l, ![u].list = l, ![u].old = old]
    /\ UNCHANGED <<conn, usersKey, tribsKey, follKey, tribKey, srvId, tribsHeld, clock, tribPast>>

\* The orders the tribbles can be put in.
Arrangements(tribs) == {[i \in DOMAIN tribs |-> tribs[f[i]]] : f \in Bijection(DOMAIN tribs, DOMAIN tribs)}

\* Mutant: the oldest first.
SortedOldest(tribs) == {s \in Arrangements(tribs) : \A i, j \in DOMAIN s : i < j => s[i].posted <= s[j].posted}

\* sort.Sort, newest first; it is not stable.
Sorted(tribs) == {s \in Arrangements(tribs) : \A i, j \in DOMAIN s : i < j => s[i].posted >= s[j].posted}

\* GetTribbles of the next user, up to its list of ids.  A user without a list
\* is an error of GetTribbles; GetTribblesBySubscription passes over it.
GetList(u) ==
    /\ op[u].pc = "list"
    /\ IF op[u].todo = <<>> THEN /\ UNCHANGED tribsHeld
                                /\ \E s \in Sorted(op[u].tribs) :
                                     op' = [op EXCEPT ![u].pc = "answer", ![u].status = "OK", ![u].tribs = Newest(s)]
       ELSE LET w == Head(op[u].todo)
            IN IF w \notin usersKey \/ w \notin DOMAIN tribsKey
               THEN /\ UNCHANGED tribsHeld
                    /\ IF op[u].kind = "tribbles" THEN Finish(u, "ENOSUCHUSER")
                       ELSE op' = [op EXCEPT ![u].todo = Tail(@)]
               ELSE \E l \in tribsHeld[conn[u]][w] \cup {tribsKey[w]} :
                      /\ tribsHeld' = [tribsHeld EXCEPT ![conn[u]][w] = @ \cup {l}]
                      /\ op' = [op EXCEPT ![u].pc = "fetch", ![u].ids = Newest(Reverse(l)),
                                          ![u].old = OldKeys(u, <<"T", w>>, l, tribsKey[w])]
    /\ UNCHANGED <<conn, usersKey, tribsKey, follKey, tribKey, srvId, follHeld, clock, tribPast>>

\* Mutant: the key is made with the reader's name.
FetchOwn(u) ==
    /\ op[u].pc = "fetch"
    /\ LET w == Head(op[u].todo)
           key == <<u, Head(op[u].ids), conn[u]>>
       IN IF op[u].ids = <<>>
          THEN op' = IF op[u].kind = "tribbles" THEN [op EXCEPT ![u].pc = "answer", ![u].status = "OK"]
                     ELSE [op EXCEPT ![u].pc = "list", ![u].todo = Tail(@)]
          ELSE IF key \notin DOMAIN tribKey THEN op' = [op EXCEPT ![u].pc = "answer", ![u].status = "error", ![u].todo = <<w>>]
          ELSE op' = [op EXCEPT ![u].tribs = Append(@, tribKey[key]), ![u].ids = Tail(@)]
    /\ UNCHANGED <<conn, usersKey, tribsKey, follKey, tribKey, srvId, held, clock, tribPast>>

\* store.Get of the tribble, under this server's hostport; a copy of it is what
\* storage has.
Fetch(u) ==
    /\ op[u].pc = "fetch"
    /\ LET w == Head(op[u].todo)
           key == <<w, Head(op[u].ids), conn[u]>>
       IN IF op[u].ids = <<>>
          THEN op' = IF op[u].kind = "tribbles" THEN [op EXCEPT ![u].pc = "answer", ![u].status = "OK"]
                     ELSE [op EXCEPT ![u].pc = "list", ![u].todo = Tail(@)]
          ELSE IF key \notin DOMAIN tribKey THEN op' = [op EXCEPT ![u].pc = "answer", ![u].status = "error", ![u].todo = <<w>>]
          ELSE op' = [op EXCEPT ![u].tribs = Append(@, tribKey[key]), ![u].ids = Tail(@)]
    /\ UNCHANGED <<conn, usersKey, tribsKey, follKey, tribKey, srvId, held, clock, tribPast>>

\* A Tribserver dies and is started again; its clients connect again.
Restart(s) ==
    /\ deaths < MaxDeaths /\ deaths' = deaths + 1
    /\ \A u \in Members : conn[u] = s /\ Running(u) => op[u].pc # "write"
    /\ unsure' = unsure \cup {u \in Members : conn[u] = s /\ Running(u) /\ op[u].pc # "answer"}
    /\ op' = [u \in Members |-> IF conn[u] = s THEN NoOp ELSE op[u]]
    /\ srvId' = [srvId EXCEPT ![s] = 0]
    /\ tribsHeld' = [tribsHeld EXCEPT ![s] = [w \in Members |-> {}]]
    /\ follHeld' = [follHeld EXCEPT ![s] = [w \in Members |-> {}]]
    /\ UNCHANGED <<conn, usersKey, tribsKey, follKey, tribKey, clock, posts, calls, okPosts, follows>>

Handler(u) ==
    \/ GetUser(u) \/ GetPoster(u) \/ CreateUser(u) \/ GetTarget(u) \/ ReadToChange(u) \/ WriteTribs(u) \/ WriteFoll(u)
    \/ PutTribble(u) \/ GetFollows(u) \/ GetList(u) \/ Fetch(u) \/ Return(u)

TribNext == \/ \E u \in Members : Handler(u) \/ \E k \in TribCalls, w \in Members : Begin(u, k, w)
            \/ \E s \in TribServers : Restart(s)

TribSpec == TribInit /\ [][TribNext]_tribVars

(***************************************************************************)
(* Properties                                                              *)
(***************************************************************************)
\* A post that was answered OK is in its user's list once, and the key of its
\* id holds it and no later tribble, also after the server has started again
\* and given out the id a second time; no key is written twice, so that a copy
\* of a tribble is never out of date (PostTribble, AppendToList).
PostsKept ==
    /\ \A p \in okPosts :
         /\ Cardinality({i \in DOMAIN OrEmpty(tribsKey, p.user) : tribsKey[p.user][i] = p.id}) = 1
         /\ Key(p.user, p.id) \in DOMAIN tribKey /\ tribKey[Key(p.user, p.id)].posted = p.posted
    /\ \A u \in Members : op[u].pc = "put" => Key(u, op[u].id) \notin DOMAIN tribKey

Shown(u) == {[user |-> op[u].tribs[i].user, posted |-> op[u].tribs[i].posted] : i \in DOMAIN op[u].tribs}
Of(p) == [user |-> p.user, posted |-> p.posted]

\* The users whose tribbles an answer is about.
Asked(u) == IF op[u].kind = "tribbles" THEN {op[u].target} ELSE ToSet(op[u].list)

\* An answer of GetTribbles or GetTribblesBySubscription is newest first, and of
\* a user whose list was not read from an out-of-date copy it leaves out a
\* tribble posted before the call began only for MaxTribs newer ones.  A
\* timeline goes through everybody the user subscribed to with OK and did not
\* leave, again unless that list was an out-of-date copy (iGetList,
\* AddSubscription, RemoveSubscription).
TimelineComplete ==
    \A u \in Members : op[u].pc = "answer" /\ op[u].kind \in Readings /\ op[u].status = "OK" =>
        /\ \A i, j \in DOMAIN op[u].tribs : i < j => op[u].tribs[i].posted > op[u].tribs[j].posted
        /\ op[u].kind = "timeline" /\ <<"F", u>> \notin op[u].old => Asked(u) = follows[u]
        /\ \A p \in op[u].since :
               p.user \in Asked(u) /\ <<"T", p.user>> \notin op[u].old =>
                   \/ Of(p) \in Shown(u)
                   \/ Len(op[u].tribs) = MaxTribs /\ \A t \in Shown(u) : t.posted > p.posted

\* Reading tribbles fails only if their author posts through another server,
\* posted while the call ran, or lost a server in the middle of a post.
ErrorsExplained ==
    \A u \in Members : op[u].pc = "answer" /\ op[u].status = "error" =>
        \E w \in ToSet(op[u].todo) : conn[w] # conn[u] \/ w \in op[u].overlap \/ w \in unsure
=============================================================================
