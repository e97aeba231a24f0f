----------------------------- MODULE ViewService -----------------------------
(***************************************************************************)
(* The view server of 6.824-labs/viewservice: it tracks which p/b servers  *)
(* ping it and moves through numbered views, each with a primary and a     *)
(* backup.  Every RPC handler and tick() runs under vs.mu, so each is one  *)
(* action.                                                                 *)
(*                                                                         *)
(* The map vs.clients is kept as one set or function per field of Client:  *)
(* known (the keys), dead, idle, lastViewnum and age, the number of whole  *)
(* PingIntervals since lastPing, capped just above DeadPings.  Time passes *)
(* in Elapse; the ticker sleeps at least one interval between two tick()s  *)
(* and is at most MaxLate intervals late.                                  *)
(***************************************************************************)
EXTENDS Naturals

CONSTANTS
    Server,      \* host:port names of the p/b servers
    None,        \* the empty string in View.Primary and View.Backup
    DeadPings,   \* intervals without a ping after which a client is dead
    MaxLate,     \* intervals between two tick()s, at most
    MaxViewnum   \* bound on the number of views

ASSUME ViewServiceAssumption ==
    /\ None \notin Server
    /\ DeadPings \in Nat \ {0}
    /\ MaxLate \in Nat \ {0}
    /\ MaxViewnum \in Nat

VARIABLES
    vsStatus,          \* "up", "killed" by Kill(), or "panicked"
    view,              \* vs.view
    acked,             \* vs.acked
    primaryRestarted,  \* vs.primaryRestarted
    known, dead, idle, lastViewnum, age,   \* vs.clients
    sinceTick          \* whole intervals since the last tick()

\* History, read by no action: the current view as it was when it got its
\* number, and the numbers of the views their primary acknowledged.
VARIABLES formed, acks

clientVars  == <<known, dead, idle, lastViewnum, age>>
historyVars == <<formed, acks>>
vars == <<vsStatus, view, acked, primaryRestarted, clientVars, sinceTick, historyVars>>

View == [Viewnum: Nat, Primary: Server \cup {None}, Backup: Server \cup {None}]

-----------------------------------------------------------------------------
\* StartServer(): no view, no client, and acked, so that the first tick()
\* that finds a client can form view 1.
Init ==
    /\ vsStatus = "up"
    /\ view = [Viewnum |-> 0, Primary |-> None, Backup |-> None]
    /\ acked = TRUE
    /\ primaryRestarted = FALSE
    /\ known = {} /\ dead = {} /\ idle = {}
    /\ lastViewnum = [s \in Server |-> 0]
    /\ age = [s \in Server |-> 0]
    /\ sinceTick = 0
    /\ formed = view
    /\ acks = {}

\* A seeded fault: the restart of the primary is noted although the current
\* view is not acknowledged.
PingUnackedRestart(me, num) ==
    /\ vsStatus = "up"
    /\ known' = known \cup {me}
    /\ idle' = IF me \in known THEN idle ELSE idle \cup {me}
    /\ dead' = dead \ {me}
    /\ acked' = (acked \/ (me = view.Primary /\ num = view.Viewnum))
    /\ primaryRestarted' = (\/ primaryRestarted
                            \/ me = view.Primary /\ num = 0 /\ view.Viewnum # 0)
    /\ lastViewnum' = [lastViewnum EXCEPT ![me] = num]
    /\ age' = [age EXCEPT ![me] = 0]
    /\ acks' = IF me = formed.Primary /\ num = formed.Viewnum THEN acks \cup {num} ELSE acks
    /\ UNCHANGED <<vsStatus, view, sinceTick, formed>>

\* A seeded fault: a new client is put on the idle list before it is entered
\* in the map of clients.
PingIdleUnknown(me, num) ==
    /\ vsStatus = "up"
    /\ known' = IF num = 0 THEN known ELSE known \cup {me}
    /\ idle' = IF me \in known THEN idle ELSE idle \cup {me}
    /\ UNCHANGED <<vsStatus, view, acked, primaryRestarted, dead, lastViewnum,
                   age, sinceTick, formed, acks>>

\* The Ping handler.  A new client starts idle; the primary acknowledges the
\* current view by its number, and shows that it restarted by pinging with 0.
Ping(me, num) ==
    /\ vsStatus = "up"
    /\ known' = known \cup {me}
    /\ idle' = IF me \in known THEN idle ELSE idle \cup {me}
    /\ dead' = dead \ {me}
    /\ acked' = (acked \/ (me = view.Primary /\ num = view.Viewnum))
    /\ primaryRestarted' = (\/ primaryRestarted
                            \/ /\ me = view.Primary /\ num = 0 /\ view.Viewnum # 0
                               /\ acked')
    /\ lastViewnum' = [lastViewnum EXCEPT ![me] = num]
    /\ age' = [age EXCEPT ![me] = 0]
    /\ acks' = IF me = formed.Primary /\ num = formed.Viewnum THEN acks \cup {num} ELSE acks
    /\ UNCHANGED <<vsStatus, view, sinceTick, formed>>

\* One PingInterval passes (time.Since(lastPing) grows).
Elapse ==
    /\ vsStatus = "up"
    /\ sinceTick < MaxLate
    /\ sinceTick' = sinceTick + 1
    /\ age' = [s \in Server |-> IF s \in known /\ age[s] <= DeadPings
                                THEN age[s] + 1 ELSE age[s]]
    /\ UNCHANGED <<vsStatus, view, acked, primaryRestarted, known, dead, idle,
                   lastViewnum, historyVars>>

-----------------------------------------------------------------------------
(* tick().  The loop over vs.clients first declares the silent clients dead *)
(* and idle; the clients it can choose from are those that are idle and     *)
(* alive after that, in the arbitrary order of a Go map.                    *)

TimedOut == {s \in known : age[s] > DeadPings}
DeadNow == dead \cup TimedOut
IdleNow == idle \cup TimedOut
IdleClients == IdleNow \ DeadNow
InitedIdleClients == {s \in IdleClients : lastViewnum[s] = view.Viewnum}

\* The roles left once the dead are struck out of an acknowledged view.
LivePrimary == IF view.Primary \in DeadNow THEN None ELSE view.Primary
LiveBackup  == IF view.Backup  \in DeadNow THEN None ELSE view.Backup

\* A seeded fault: the new view starts out acknowledged.
NewViewStaysAcked(p, b) ==
    /\ view.Viewnum < MaxViewnum
    /\ view' = [Viewnum |-> view.Viewnum + 1, Primary |-> p, Backup |-> b]
    /\ acked' = acked
    /\ formed' = view'

\* A seeded fault: only the first view gets a number of its own.
NewViewSameNumber(p, b) ==
    /\ view' = [Viewnum |-> 1, Primary |-> p, Backup |-> b]
    /\ acked' = FALSE
    /\ formed' = view'

NewView(p, b) ==
    /\ view.Viewnum < MaxViewnum
    /\ view' = [Viewnum |-> view.Viewnum + 1, Primary |-> p, Backup |-> b]
    /\ acked' = FALSE
    /\ formed' = view'

\* The roles change, the view number does not.
SameView(p, b) ==
    /\ view' = [view EXCEPT !.Primary = p, !.Backup = b]
    /\ UNCHANGED <<acked, formed>>

\* The three ways to fill a vacant role, given the roles p and b that are
\* left and the idle flags: a client that knows the current view becomes
\* primary, the backup is promoted if it knows the current view, or an idle
\* client becomes backup.
FillRoles(p, b, idleFlags) ==
    \/ /\ p = None /\ b = None
       /\ \/ \E s \in InitedIdleClients : NewView(s, None) /\ idle' = idleFlags \ {s}
          \/ InitedIdleClients = {} /\ SameView(p, b) /\ idle' = idleFlags
    \/ /\ p = None /\ b # None
       /\ IF lastViewnum[b] = view.Viewnum THEN NewView(b, None) ELSE SameView(p, b)
       /\ idle' = idleFlags
    \/ /\ p # None /\ b = None
       /\ \/ \E s \in IdleClients : NewView(p, s) /\ idle' = idleFlags \ {s}
          \/ IdleClients = {} /\ SameView(p, b) /\ idle' = idleFlags
    \/ /\ p # None /\ b # None
       /\ SameView(p, b) /\ idle' = idleFlags

TickFrame == /\ sinceTick' = 0
             /\ UNCHANGED <<known, lastViewnum, age, acks>>

\* The view is not acknowledged: the sweep is all that happens.
TickUnacked ==
    /\ ~acked
    /\ dead' = DeadNow /\ idle' = IdleNow
    /\ UNCHANGED <<vsStatus, view, acked, primaryRestarted, formed>>
    /\ TickFrame

TickAcked ==
    /\ acked /\ ~primaryRestarted
    /\ dead' = DeadNow
    /\ FillRoles(LivePrimary, LiveBackup, IdleNow)
    /\ UNCHANGED <<vsStatus, primaryRestarted>>
    /\ TickFrame

\* A seeded fault: the note that the primary restarted is not cleared.
TickRestartedKeepsFlag ==
    /\ acked /\ primaryRestarted
    /\ LivePrimary # None
    /\ dead' = DeadNow
    /\ FillRoles(None, LiveBackup, IdleNow \cup {LivePrimary})
    /\ UNCHANGED <<vsStatus, primaryRestarted>>
    /\ TickFrame

\* A restarted primary loses its role; it becomes idle after the candidates
\* were collected.
TickRestarted ==
    /\ acked /\ primaryRestarted
    /\ LivePrimary # None
    /\ dead' = DeadNow
    /\ primaryRestarted' = FALSE
    /\ FillRoles(None, LiveBackup, IdleNow \cup {LivePrimary})
    /\ UNCHANGED vsStatus
    /\ TickFrame

\* vs.clients[v.Primary].idle = true with v.Primary == "": the map has no
\* such client and the nil pointer is dereferenced.
TickPanic ==
    /\ acked /\ primaryRestarted
    /\ LivePrimary = None
    /\ vsStatus' = "panicked"
    /\ UNCHANGED <<view, acked, primaryRestarted, clientVars, sinceTick, historyVars>>

tick ==
    /\ vsStatus = "up"
    /\ sinceTick >= 1
    /\ TickUnacked \/ TickAcked \/ TickRestarted \/ TickPanic

\* Kill(): the listener closes and the ticker stops.
Kill ==
    /\ vsStatus = "up"
    /\ vsStatus' = "killed"
    /\ UNCHANGED <<view, acked, primaryRestarted, clientVars, sinceTick, historyVars>>

-----------------------------------------------------------------------------
\* A client may ping with any view number it can have been told.
Next ==
    \/ \E s \in Server, n \in 0..view.Viewnum : Ping(s, n)
    \/ Elapse
    \/ tick
    \/ Kill

Spec == Init /\ [][Next]_vars

\* The ticker thread keeps running and time keeps passing.
FairSpec == Spec /\ WF_vars(Elapse) /\ WF_vars(tick)

-----------------------------------------------------------------------------
\* Among the types: every flag of tick()'s map of clients belongs to a client
\* in the map, and so does every role, or tick() would dereference nil.
TypeOK ==
    /\ vsStatus \in {"up", "killed", "panicked"}
    /\ view \in View
    /\ {view.Primary, view.Backup} \subseteq known \cup {None}
    /\ acked \in BOOLEAN
    /\ primaryRestarted \in BOOLEAN
    /\ known \subseteq Server /\ dead \subseteq known /\ idle \subseteq known
    /\ lastViewnum \in [Server -> Nat]
    /\ age \in [Server -> 0..(DeadPings + 1)]
    /\ sinceTick \in 0..MaxLate
    /\ formed \in View
    /\ acks \subseteq Nat

\* tick() dereferences the nil client of an empty primary (server.go, tick:
\* vs.clients[v.Primary].idle = true) only when the ticker ran more than
\* DeadPings intervals late: otherwise the flag primaryRestarted that Ping
\* sets is consumed before its primary can be found dead.
PanicOnlyIfTickLate == vsStatus = "panicked" => sinceTick > DeadPings

\* "The view server will not proceed to a new view until the primary from
\* the current view acknowledges": each view that has been left behind was
\* acknowledged, by a ping with its number, by the primary it was formed with.
PastViewsAcked == \A n \in 1..MaxViewnum : n < view.Viewnum => n \in acks

\* A primary that pings with 0 after it acknowledged its view never goes on
\* in that view ("Restarted primary treated as dead"): the ticker strikes it
\* out or moves to another view, unless the bound on views is reached first
\* or the server is stopped.
RestartedPrimaryLeavesView ==
    \A s \in Server, n \in 1..MaxViewnum :
        (primaryRestarted /\ view.Primary = s /\ view.Viewnum = n)
            ~> (\/ view.Primary # s \/ view.Viewnum # n
                \/ n = MaxViewnum \/ vsStatus # "up")
=============================================================================
