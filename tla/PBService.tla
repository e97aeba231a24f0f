------------------------------ MODULE PBService ------------------------------
(***************************************************************************)
(* Package pbservice of 6.824-labs, composed with the view server of       *)
(* ViewService: p/b servers that learn the view by pinging, a primary that *)
(* forwards every operation to its backup and hands its whole store to a   *)
(* new one, and clerks that call the primary they know of until it answers.*)
(*                                                                         *)
(* A call is a request in the inbox of the server called, which may outlive*)
(* its caller; the answer reaches a caller that is there in the step of    *)
(* the handler.  pb.mu is held by tick() and by every handler, across its  *)
(* call to the backup: mu[s] says where the holder at server s is.  Ping   *)
(* is answered at once by the view server, in the step of its caller.      *)
(*                                                                         *)
(* The store is one key.  Its values are the numbers of the Puts, 1, 2, ...*)
(* in the order in which they were called; 0 is no key.                    *)
(***************************************************************************)
EXTENDS Naturals

CONSTANTS
    Server, None, DeadPings, MaxLate, MaxViewnum,   \* of ViewService
    Clerk,      \* the clients
    MaxPut,     \* bound on the number of Puts
    Faults      \* what can go wrong: see below

(* "crash":      a process dies while the view is acknowledged, but never    *)
(*               both servers of the view                                    *)
(* "early":      a process dies while the view is not acknowledged           *)
(* "kill":       kill(): a server stops listening and pinging, and what it   *)
(*               accepted goes on                                            *)
(* "restart":    a stopped server comes back, under its name and with an     *)
(*               empty store, once the view server struck it out             *)
(* "quick":      "restart" may also happen before that                       *)
(* "slow":       a server may miss any number of pings                       *)
(* "unreliable": pb.unreliable: a request or its reply is discarded          *)
ASSUME PBServiceAssumption ==
    /\ None \notin Server /\ {DeadPings, MaxLate} \subseteq Nat \ {0} /\ MaxViewnum \in Nat
    /\ Clerk \cap Server = {} /\ MaxPut \in Nat
    /\ Faults \subseteq {"crash", "early", "kill", "restart", "quick", "slow", "unreliable"}

\* The view server.
VARIABLES vsStatus, view, acked, primaryRestarted, known, dead, idle, lastViewnum,
          age, sinceTick, formed, acks

VARIABLES
    started,  \* servers that were started at some time
    up,       \* servers that listen and ping
    pbView,   \* pb.view
    store,    \* pb.store
    inbox,    \* requests that wait for pb.mu
    mu,       \* pb.mu: "free", or the progress of the holder: "forward" and
              \* "forwarded" or "rejected" in Get and Put, "sync" in tick()
    serving   \* the request of the handler that holds pb.mu

\* The clerks: where Get() or Put() is, ck.view, the operation and its result.
VARIABLES pc, ckView, op, result

\* History: the number of Puts called, those that returned, those that had
\* returned when each was called, the values a Get must not return any more,
\* and whether a Forward of a server that is gone stored such a value.
VARIABLES puts, returned, before, floor, overtaken

vsVars == <<vsStatus, view, acked, primaryRestarted, known, dead, idle, lastViewnum,
            age, sinceTick, formed, acks>>
pbVars == <<started, up, pbView, store, inbox, mu, serving>>
clerkVars == <<pc, ckView, op, result>>
pastVars == <<puts, returned, before, floor, overtaken>>
vars == <<vsVars, pbVars, clerkVars, pastVars>>

VS == INSTANCE ViewService

Value == 0..MaxPut
NoView == [Viewnum |-> 0, Primary |-> None, Backup |-> None]
Op == [kind: {"get", "put"}, value: Value]
\* What arrives at a server.  The reply of a deaf request reaches nobody.
ClerkRequest == [from: Clerk, kind: {"get", "put"}, value: Value, deaf: BOOLEAN]
ServerRequest == [from: Server, kind: {"forwardGet", "forwardPut", "sync"}, value: Value, deaf: BOOLEAN]
Request == ClerkRequest \cup ServerRequest

\* The values that a Put replaced which was called after theirs had returned.
Superseded == UNION {before[v] : v \in returned}

Init ==
    /\ VS!Init
    /\ started = {} /\ up = {}
    /\ pbView = [s \in Server |-> NoView]
    /\ store = [s \in Server |-> 0]
    /\ inbox = [s \in Server |-> {}]
    /\ mu = [s \in Server |-> "free"]
    /\ serving = [s \in Server |-> None]
    /\ pc = [c \in Clerk |-> "idle"]
    /\ ckView = [c \in Clerk |-> NoView]
    /\ op = [c \in Clerk |-> [kind |-> "get", value |-> 0]]
    /\ result = [c \in Clerk |-> 0]
    /\ puts = 0 /\ returned = {0} /\ before = [v \in Value |-> {}]
    /\ floor = [c \in Clerk |-> {}] /\ overtaken = FALSE

-----------------------------------------------------------------------------
(* call(): what becomes of a request.                                       *)

\* The request r of a caller that is gone, or whose connection is shut down
\* for writing.  (A Get changes nothing: it need not be followed.  Equal
\* requests that wait at one server count once.)
Late(r) == IF r.kind \in {"put", "forwardPut", "sync"} THEN {[r EXCEPT !.deaf = TRUE]} ELSE {}

\* A server that listens accepts r.  An unreliable one may also discard it,
\* or discard the reply: the caller sees an error at once.
Arrivals(b, r) ==
    IF b \notin up THEN {{}}
    ELSE IF "unreliable" \in Faults THEN {{r}, {}, Late(r)} ELSE {{r}}

\* Server s takes request r, and a call puts the requests of got at b.
TakeAndCall(s, taken, b, got) ==
    inbox' = [t \in Server |-> (IF t = s THEN inbox[t] \ taken ELSE inbox[t])
                                \cup (IF t = b THEN got ELSE {})]

\* Nobody at b will answer the caller s any more.
Unanswered(s, b) == \A r \in inbox[b] : r.from # s \/ r.deaf

-----------------------------------------------------------------------------
(* The clerk.                                                               *)

\* Clerk.Put or Clerk.Get is called.  Without a primary they call
\* updateView() first.
Invoke(c, o) ==
    /\ pc[c] = "idle"
    /\ op' = [op EXCEPT ![c] = o]
    /\ pc' = [pc EXCEPT ![c] = IF ckView[c].Primary = None THEN "update" ELSE "call"]
    /\ result' = [result EXCEPT ![c] = 0]
    /\ UNCHANGED <<vsVars, pbVars, ckView, returned, overtaken>>

InvokePut(c) ==
    /\ puts < MaxPut
    /\ Invoke(c, [kind |-> "put", value |-> puts + 1])
    /\ puts' = puts + 1
    /\ before' = [before EXCEPT ![puts + 1] = returned]
    /\ floor' = [floor EXCEPT ![c] = {}]

InvokeGet(c) ==
    /\ Invoke(c, [kind |-> "get", value |-> 0])
    /\ floor' = [floor EXCEPT ![c] = Superseded]
    /\ UNCHANGED <<puts, before>>

\* updateView(): ask the view server.
UpdateView(c) ==
    /\ pc[c] = "update"
    /\ ckView' = [ckView EXCEPT ![c] = view]
    /\ pc' = [pc EXCEPT ![c] = "call"]
    /\ UNCHANGED <<vsVars, pbVars, op, result, pastVars>>

RequestOf(c) == [from |-> c, kind |-> op[c].kind, value |-> op[c].value, deaf |-> FALSE]

\* call(ck.view.Primary, ...) reaches that server, or fails.
Call(c) ==
    LET p == ckView[c].Primary IN
    /\ pc[c] = "call"
    /\ \E got \in Arrivals(p, RequestOf(c)) :
          /\ TakeAndCall(None, {}, p, got)
          /\ pc' = [pc EXCEPT ![c] = IF RequestOf(c) \in got THEN "waiting" ELSE "update"]
    /\ UNCHANGED <<vsVars, started, up, pbView, store, mu, serving, ckView, op, result, pastVars>>

\* The reply reaches the clerk of request r: ErrWrongServer makes it retry,
\* any other answer is returned.
Reply(r, wrongServer, value) ==
    IF r.deaf THEN UNCHANGED <<clerkVars, pastVars>>
    ELSE /\ pc' = [pc EXCEPT ![r.from] = IF wrongServer THEN "update" ELSE "idle"]
         /\ result' = IF r.kind = "put" \/ wrongServer THEN result
                    ELSE [result EXCEPT ![r.from] = value]
         /\ returned' = IF r.kind = "put" /\ ~wrongServer THEN returned \cup {r.value} ELSE returned
         /\ UNCHANGED <<ckView, op, puts, before, floor, overtaken>>

-----------------------------------------------------------------------------
(* The server: Get, Put and Forward.                                        *)

\* A seeded fault: the primary does not forward.
NeverForwards(s) == s \notin Server

Forwards(s) == pbView[s].Primary = s /\ pbView[s].Backup # None

\* The local part of Get, Put and Forward: the value that is stored, which is
\* also the one Get returns.
ValueAfter(s, r) == IF r.kind \in {"put", "forwardPut"} THEN r.value ELSE store[s]

\* Get or Put gets pb.mu at a server that does not forward: it has no backup,
\* or is not the primary.
Serve(s, r) ==
    /\ mu[s] = "free" /\ r \in inbox[s] /\ r.kind \in {"get", "put"}
    /\ ~Forwards(s)
    /\ inbox' = [inbox EXCEPT ![s] = @ \ {r}]
    /\ store' = [store EXCEPT ![s] = ValueAfter(s, r)]
    /\ Reply(r, FALSE, ValueAfter(s, r))
    /\ UNCHANGED <<vsVars, started, up, pbView, mu, serving>>

Forwarded(s, r) == [from |-> s, kind |-> IF r.kind = "put" THEN "forwardPut" ELSE "forwardGet",
                    value |-> r.value, deaf |-> FALSE]

\* Get or Put gets pb.mu at a primary with a backup, and calls it.
ServeForwarding(s, r) ==
    LET b == pbView[s].Backup IN
    /\ mu[s] = "free" /\ r \in inbox[s] /\ r.kind \in {"get", "put"}
    /\ Forwards(s)
    /\ \E got \in Arrivals(b, Forwarded(s, r)) : TakeAndCall(s, {r}, b, got)
    /\ mu' = [mu EXCEPT ![s] = "forward"]
    /\ serving' = [serving EXCEPT ![s] = r]
    /\ UNCHANGED <<vsVars, started, up, pbView, store, clerkVars, pastVars>>

\* The Forward handler at b, whose caller may be gone.
Forward(b, r) ==
    LET ok == pbView[b].Backup = b IN
    /\ mu[b] = "free" /\ r \in inbox[b] /\ r.kind \in {"forwardGet", "forwardPut"}
    /\ inbox' = [inbox EXCEPT ![b] = @ \ {r}]
    /\ store' = IF ok THEN [store EXCEPT ![b] = ValueAfter(b, r)] ELSE store
    /\ mu' = IF r.deaf THEN mu
             ELSE [mu EXCEPT ![r.from] = IF ok THEN "forwarded" ELSE "rejected"]
    /\ overtaken' = (overtaken \/ (ok /\ r.deaf /\ r.value \in Superseded))
    /\ UNCHANGED <<vsVars, started, up, pbView, serving, clerkVars, puts, returned, before, floor>>

\* The call to the backup fails.
ForwardFails(s) ==
    /\ mu[s] = "forward" /\ Unanswered(s, pbView[s].Backup)
    /\ mu' = [mu EXCEPT ![s] = "rejected"]
    /\ UNCHANGED <<vsVars, started, up, pbView, store, inbox, serving, clerkVars, pastVars>>

\* A seeded fault: Put leaves the primary's own store as it was.
FinishAtBackupOnly(s) ==
    /\ mu[s] \in {"forwarded", "rejected"}
    /\ mu' = [mu EXCEPT ![s] = "free"]
    /\ Reply(serving[s], mu[s] = "rejected", store[s])
    /\ serving' = [serving EXCEPT ![s] = None]
    /\ UNCHANGED <<vsVars, started, up, pbView, store, inbox>>

\* Get or Put goes on after the call and returns.
Finish(s) ==
    /\ mu[s] \in {"forwarded", "rejected"}
    /\ mu' = [mu EXCEPT ![s] = "free"]
    /\ IF mu[s] = "forwarded"
       THEN /\ store' = [store EXCEPT ![s] = ValueAfter(s, serving[s])]
            /\ Reply(serving[s], FALSE, ValueAfter(s, serving[s]))
       ELSE UNCHANGED store /\ Reply(serving[s], TRUE, 0)
    /\ serving' = [serving EXCEPT ![s] = None]
    /\ UNCHANGED <<vsVars, started, up, pbView, inbox>>

-----------------------------------------------------------------------------
(* The server: tick() and Sync.                                             *)

\* pb.vs.Ping with the number of the server's view; it does not fail.
Ping(s) == VS!Ping(s, pbView[s].Viewnum)

\* A seeded fault: the primary of a new view does not hand over its store.
tickWithoutSync(s) ==
    /\ s \in up /\ mu[s] = "free"
    /\ Ping(s)
    /\ pbView' = [pbView EXCEPT ![s] = view]
    /\ UNCHANGED <<started, up, store, inbox, mu, serving, clerkVars, pastVars>>

SyncOf(s) == [from |-> s, kind |-> "sync", value |-> store[s], deaf |-> FALSE]

\* Server s has taken the view: with a backup it calls Sync there, holding
\* pb.mu, and without one tick() returns.
SyncBackup(s) ==
    IF view.Backup # None
    THEN /\ mu' = [mu EXCEPT ![s] = "sync"]
         /\ \E got \in Arrivals(view.Backup, SyncOf(s)) : TakeAndCall(None, {}, view.Backup, got)
    ELSE mu' = [mu EXCEPT ![s] = "free"] /\ UNCHANGED inbox

\* tick() pings with the number of its view.  A new view is adopted, and its
\* primary goes on to hand its store to the backup.
tick(s) ==
    /\ s \in up /\ mu[s] = "free"
    /\ Ping(s)
    /\ IF view.Viewnum = pbView[s].Viewnum
       THEN UNCHANGED <<pbView, mu, inbox>>
       ELSE /\ pbView' = [pbView EXCEPT ![s] = view]
            /\ IF view.Primary = s THEN SyncBackup(s) ELSE UNCHANGED <<mu, inbox>>
    /\ UNCHANGED <<started, up, store, serving, clerkVars, pastVars>>

\* The call of Sync fails: tick() pings with the new number already, takes
\* the view it is told and calls Sync again unless that has no backup.
SyncFails(s) ==
    /\ mu[s] = "sync" /\ Unanswered(s, pbView[s].Backup)
    /\ Ping(s)
    /\ pbView' = [pbView EXCEPT ![s] = view]
    /\ SyncBackup(s)
    /\ UNCHANGED <<started, up, store, serving, clerkVars, pastVars>>

\* The Sync handler at b: it pings, adopts a new view, and takes the store if
\* it is the backup.  The caller is done: an answer other than OK is only
\* logged.
Sync(b, r) ==
    /\ mu[b] = "free" /\ r \in inbox[b] /\ r.kind = "sync"
    /\ Ping(b)
    /\ pbView' = IF view.Viewnum # pbView[b].Viewnum
                 THEN [pbView EXCEPT ![b] = view] ELSE pbView
    /\ store' = IF pbView'[b].Backup = b THEN [store EXCEPT ![b] = r.value] ELSE store
    /\ inbox' = [inbox EXCEPT ![b] = @ \ {r}]
    /\ mu' = IF r.deaf THEN mu ELSE [mu EXCEPT ![r.from] = "free"]
    /\ UNCHANGED <<started, up, serving, clerkVars, pastVars>>

-----------------------------------------------------------------------------
(* Processes and time.                                                      *)

\* A seeded fault: the new server is not entered among those started.
StartServerUnnoted(s) ==
    /\ s \notin up /\ s \notin started
    /\ up' = up \cup {s}
    /\ UNCHANGED <<vsVars, started, pbView, store, inbox, mu, serving, clerkVars, pastVars>>

\* StartServer(): an empty store and no view.  A killed server's name is used
\* again only when what it had accepted is done.
StartServer(s) ==
    /\ s \notin up /\ mu[s] = "free" /\ inbox[s] = {}
    /\ \/ s \notin started
       \/ /\ "restart" \in Faults
          /\ s \notin {view.Primary, view.Backup} \/ "quick" \in Faults
    /\ up' = up \cup {s} /\ started' = started \cup {s}
    /\ pbView' = [pbView EXCEPT ![s] = NoView]
    /\ store' = [store EXCEPT ![s] = 0]
    /\ UNCHANGED <<vsVars, inbox, mu, serving, clerkVars, pastVars>>

\* kill(): the listener is closed and the loops end; handlers, and a tick()
\* that is under way, go on.
Kill(s) ==
    /\ s \in up /\ "kill" \in Faults
    /\ up' = up \ {s}
    /\ UNCHANGED <<vsVars, started, pbView, store, inbox, mu, serving, clerkVars, pastVars>>

\* What is left at another server of the requests rs when s dies: one that s
\* has sent is executed all the same, unless it was not written yet.
Left(rs, s, written) ==
    {r \in rs : r.from # s \/ r.deaf}
    \cup UNION {Late(r) : r \in {x \in rs : x.from = s /\ written}}

\* A process dies, with its handlers and connections.
Crash(s) ==
    /\ s \in up
    /\ \/ "crash" \in Faults /\ acked /\ \E r \in {view.Primary, view.Backup} \ {s} : r \in up
       \/ "early" \in Faults /\ ~acked
    /\ up' = up \ {s}
    /\ \E written \in BOOLEAN :
          inbox' = [t \in Server |-> IF t = s THEN {} ELSE Left(inbox[t], s, written)]
    /\ mu' = [mu EXCEPT ![s] = "free"]
    /\ serving' = [serving EXCEPT ![s] = None]
    /\ pc' = [c \in Clerk |-> IF pc[c] = "waiting" /\ ckView[c].Primary = s
                              THEN "update" ELSE pc[c]]
    /\ UNCHANGED <<vsVars, started, pbView, store, ckView, op, result, pastVars>>

ViewServerTick == VS!tick /\ UNCHANGED <<pbVars, clerkVars, pastVars>>

\* A PingInterval passes.  Unless servers can be slow, each of them pings in
\* every interval.
Elapse ==
    /\ "slow" \in Faults \/ \A s \in up : s \in known /\ age[s] = 0
    /\ VS!Elapse
    /\ UNCHANGED <<pbVars, clerkVars, pastVars>>

Handler(s, r) == Serve(s, r) \/ ServeForwarding(s, r) \/ Forward(s, r) \/ Sync(s, r)
ServerStep(s) ==
    \/ \E r \in inbox[s] : Handler(s, r)
    \/ ForwardFails(s) \/ Finish(s) \/ tick(s) \/ SyncFails(s)

Next ==
    \/ \E c \in Clerk : InvokePut(c) \/ InvokeGet(c) \/ UpdateView(c) \/ Call(c)
    \/ \E s \in Server : ServerStep(s) \/ StartServer(s) \/ Kill(s) \/ Crash(s)
    \/ ViewServerTick
    \/ Elapse

Spec == Init /\ [][Next]_vars

\* Every thread is scheduled, time passes, each server is started, and a
\* mutex is handed to each of those that wait for it at some time.
FairSpec ==
    /\ Spec
    /\ WF_vars(ViewServerTick) /\ WF_vars(Elapse)
    /\ \A c \in Clerk : WF_vars(UpdateView(c) \/ Call(c))
    /\ \A s \in Server :
          /\ WF_vars(s \notin started /\ StartServer(s))
          /\ SF_vars(tick(s))
          /\ WF_vars(ForwardFails(s) \/ Finish(s) \/ SyncFails(s))
          /\ \A from \in Clerk \cup Server :
                SF_vars(\E r \in inbox[s] : r.from = from /\ Handler(s, r))

-----------------------------------------------------------------------------
TypeOK ==
    /\ VS!TypeOK
    /\ up \subseteq started /\ started \subseteq Server
    /\ pbView \in [Server -> VS!View]
    /\ store \in [Server -> Value]
    /\ inbox \in [Server -> SUBSET Request]
    /\ mu \in [Server -> {"free", "forward", "forwarded", "rejected", "sync"}]
    /\ serving \in [Server -> Request \cup {None}]
    /\ pc \in [Clerk -> {"idle", "update", "call", "waiting"}]
    /\ ckView \in [Clerk -> VS!View]
    /\ op \in [Clerk -> Op]
    /\ result \in [Clerk -> Value]
    /\ puts \in Value /\ returned \subseteq Value /\ before \in [Value -> SUBSET Value]
    /\ floor \in [Clerk -> SUBSET Value] /\ overtaken \in BOOLEAN

\* A Get never returns a value that a Put had replaced when it began: not
\* from a backup that was promoted and serves before it knows, nor from one
\* that took over a store (Get, Put and Sync in server.go, Get in client.go).
\* The exception is the Forward of a dead primary: the promoted backup still
\* executes it, perhaps after a later Put (server.go:67, 80-97).
GetsAreFresh ==
    ~overtaken =>
        \A c \in Clerk : pc[c] = "idle" /\ op[c].kind = "get" => result[c] \notin floor[c]

\* "The state is preserved": the primary, and the backup of an acknowledged
\* view, as long as they run, have lost no Put that returned: what they store
\* is not older (Put, Forward, Sync and tick() in server.go), with the same
\* exception.
PutsArePreserved ==
    ~overtaken =>
        /\ view.Primary \in up => store[view.Primary] \notin Superseded
        /\ acked /\ view.Backup \in up => store[view.Backup] \notin Superseded

\* "This helps ensure that there's at most one p/b primary operating at a
\* time": whatever goes wrong, no two running servers take themselves for the
\* primary of views with the same number (tick() and Sync in server.go, tick()
\* in viewservice/server.go).
OnePrimaryPerView ==
    \A s, t \in up : /\ pbView[s].Viewnum = pbView[t].Viewnum
                     /\ pbView[s].Primary = s /\ pbView[t].Primary = t
                     => s = t

\* "check that primary and backup have identical values", after concurrent
\* Puts of several clients: the servers of an acknowledged view have the same
\* store whenever the primary's pb.mu is free, a Forward of a primary that
\* is gone notwithstanding (Put, Forward, tick() and Sync in server.go).
ReplicasIdentical ==
    acked /\ {view.Primary, view.Backup} \subseteq up /\ mu[view.Primary] = "free"
    => store[view.Primary] = store[view.Backup]

\* "must keep trying until it succeeds": a Put that is called returns.
PutsReturn == \A c \in Clerk : (pc[c] # "idle" /\ op[c].kind = "put") ~> pc[c] = "idle"
=============================================================================
