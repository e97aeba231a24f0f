----------------------------- MODULE LockService -----------------------------
(***************************************************************************)
(* Package lockservice of 6.824-labs: a primary and a backup lock server,  *)
(* and clerks that try the primary and, when the call fails, the backup.   *)
(*                                                                         *)
(* A handler runs under ls.mu.  The primary's handler keeps ls.mu while it *)
(* calls the backup, so it takes three steps (Apply, the backup's handler, *)
(* Finish); the backup's handler takes one.  A call is a fresh connection: *)
(* the clerk dials, the request waits for ls.mu, and the reply or an error *)
(* comes back.                                                             *)
(*                                                                         *)
(* A server can stop in three ways.  "crash": the process dies and takes   *)
(* its connections along.  "kill": kill() closes the listener, and what    *)
(* was accepted before goes on.  "dying": the tests set ls.dying on the    *)
(* primary, which takes one more connection and discards its reply.        *)
(***************************************************************************)
EXTENDS Integers

CONSTANTS
    Client,     \* the clerks
    Lockname,   \* names of locks
    MaxCalls,   \* calls a clerk makes, at most
    Failures    \* the ways a server can stop

ASSUME LockServiceAssumption ==
    /\ MaxCalls \in Nat
    /\ Failures \subseteq {"crash", "kill", "dying"}

Server == {"primary", "backup"}

\* LockArgs and UnlockArgs.  The Uuid is the clerk with the number of its
\* call: nrand() draws 62 random bits and is taken to be unique.
Uuid == Client \X (0..MaxCalls)
Args == [uuid: Uuid, kind: {"Lock", "Unlock"}, lock: Lockname]

\* reply.OK, or "none" where there is no reply or no replay.
Answer == {"none", "ok", "no"}

VARIABLES
    alive,      \* the processes that run
    listening,  \* the processes that accept connections
    locks,      \* ls.locks: the names that map to true
    replays,    \* ls.replays
    inbox,      \* requests at the primary that wait for ls.mu
    mu,         \* who holds the primary's ls.mu: "free", a handler that is to
                \* call the backup ("calling") or one that did ("called")
    current,    \* that handler's args ...
    decided,    \* ... and its reply.OK
    dying,      \* ls.dying of the primary
    deaf        \* clerks whose connection to the primary discards the reply

\* The clerks: where Lock() or Unlock() is, its args and its reply.
VARIABLES pc, args, reply

\* History: for each lock, Locks granted minus Unlocks granted.
VARIABLE tally

serverVars == <<alive, listening, locks, replays, inbox, mu, current, decided, dying, deaf>>
clerkVars  == <<pc, args, reply>>
vars == <<serverVars, clerkVars, tally>>

-----------------------------------------------------------------------------
\* StartServer() twice, and clerks from MakeClerk().
Init ==
    /\ alive = Server /\ listening = Server
    /\ locks = [s \in Server |-> {}]
    /\ replays = [s \in Server |-> [u \in Uuid |-> "none"]]
    /\ inbox = {} /\ mu = "free" /\ decided = "none"
    /\ dying = FALSE /\ deaf = {}
    /\ pc = [c \in Client |-> "idle"]
    /\ \E l \in Lockname :
          args = [c \in Client |-> [uuid |-> <<c, 0>>, kind |-> "Lock", lock |-> l]]
    /\ \E c \in Client : current = args[c]
    /\ reply = [c \in Client |-> "no"]
    /\ tally = [l \in Lockname |-> 0]

-----------------------------------------------------------------------------
(* The clerk: Clerk.Lock and Clerk.Unlock.                                  *)

\* The arguments get a fresh Uuid.
Invoke(c, kind, l) ==
    /\ pc[c] = "idle" /\ args[c].uuid[2] < MaxCalls
    /\ pc' = [pc EXCEPT ![c] = "dialPrimary"]
    /\ args' = [args EXCEPT ![c] = [uuid |-> <<c, args[c].uuid[2] + 1>>,
                                    kind |-> kind, lock |-> l]]
    /\ reply' = [reply EXCEPT ![c] = "none"]
    /\ UNCHANGED <<serverVars, tally>>

\* call(ck.servers[0], ...) reaches the accept loop.  A dying primary closes
\* its listener behind this connection.
DialPrimary(c) ==
    /\ pc[c] = "dialPrimary" /\ "primary" \in listening
    /\ pc' = [pc EXCEPT ![c] = "atPrimary"]
    /\ inbox' = inbox \cup {args[c]}
    /\ listening' = IF dying THEN listening \ {"primary"} ELSE listening
    /\ deaf' = IF dying THEN deaf \cup {c} ELSE deaf
    /\ UNCHANGED <<alive, locks, replays, mu, current, decided, dying, args, reply, tally>>

\* A seeded fault: the clerk does not see that its connection broke.
PrimaryFailsUnseen(c) ==
    /\ pc[c] = "dialPrimary" /\ "primary" \notin listening
    /\ pc' = [pc EXCEPT ![c] = "dialBackup"]
    /\ UNCHANGED <<serverVars, args, reply, tally>>

\* The call to the primary fails: it does not listen, the process died with
\* the connection (a reply on its way may be lost), or the goroutine of a
\* dying primary closed the deaf connection after two seconds, whether or
\* not the request was handled by then.
PrimaryFails(c) ==
    /\ \/ pc[c] = "dialPrimary" /\ "primary" \notin listening
       \/ pc[c] \in {"atPrimary", "repliedPrimary"} /\ "primary" \notin alive
       \/ pc[c] = "atPrimary" /\ c \in deaf
    /\ pc' = [pc EXCEPT ![c] = "dialBackup"]
    /\ reply' = [reply EXCEPT ![c] = "none"]
    /\ UNCHANGED <<serverVars, args, tally>>

DialBackup(c) ==
    /\ pc[c] = "dialBackup" /\ "backup" \in listening
    /\ pc' = [pc EXCEPT ![c] = "atBackup"]
    /\ UNCHANGED <<serverVars, args, reply, tally>>

\* The call to the backup fails too: Lock and Unlock return false.
BackupFails(c) ==
    /\ \/ pc[c] = "dialBackup" /\ "backup" \notin listening
       \/ pc[c] \in {"atBackup", "repliedBackup"} /\ "backup" \notin alive
    /\ pc' = [pc EXCEPT ![c] = "idle"]
    /\ reply' = [reply EXCEPT ![c] = "no"]
    /\ UNCHANGED <<serverVars, args, tally>>

\* The clerk has the reply and returns reply.OK.
Return(c) ==
    /\ pc[c] \in {"repliedPrimary", "repliedBackup"}
    /\ pc' = [pc EXCEPT ![c] = "idle"]
    /\ tally' = IF reply[c] = "ok"
                THEN [tally EXCEPT ![args[c].lock] =
                         IF args[c].kind = "Lock" THEN @ + 1 ELSE @ - 1]
                ELSE tally
    /\ UNCHANGED <<serverVars, args, reply>>

-----------------------------------------------------------------------------
(* The servers: LockServer.Lock and LockServer.Unlock.                      *)

\* Lock is granted if the name is not locked, Unlock if it is; a request
\* with a replay gets the answer it got before.
Decide(s, a) ==
    IF replays[s][a.uuid] # "none" THEN replays[s][a.uuid]
    ELSE IF (a.kind = "Lock") = (a.lock \notin locks[s]) THEN "ok" ELSE "no"

\* ls.locks[args.Lockname] is set to true or false if granted just now.
Execute(s, a) ==
    locks' = IF replays[s][a.uuid] # "none" \/ Decide(s, a) = "no" THEN locks
             ELSE [locks EXCEPT ![s] = IF a.kind = "Lock" THEN @ \cup {a.lock}
                                                          ELSE @ \ {a.lock}]

\* ls.replays[args.Uuid] = reply.OK
Remember(s, a, answer) == replays' = [replays EXCEPT ![s][a.uuid] = answer]

\* The primary's handler gets ls.mu and decides.  A replay is answered without
\* a call to the backup.
LockPrimary(a) ==
    /\ "primary" \in alive /\ mu = "free" /\ a \in inbox
    /\ decided' = Decide("primary", a)
    /\ Execute("primary", a)
    /\ current' = a /\ inbox' = inbox \ {a}
    /\ mu' = IF replays["primary"][a.uuid] = "none" THEN "calling" ELSE "called"
    /\ UNCHANGED <<alive, listening, replays, dying, deaf, clerkVars, tally>>

\* A seeded fault: Unlock is not forwarded.
CallBackupForLock ==
    /\ mu = "calling" /\ "backup" \in listening
    /\ mu' = "called"
    /\ IF current.kind = "Lock"
       THEN /\ Execute("backup", current)
            /\ Remember("backup", current, Decide("backup", current))
       ELSE UNCHANGED <<locks, replays>>
    /\ UNCHANGED <<alive, listening, inbox, current, decided, dying, deaf, clerkVars, tally>>

\* It calls the backup, whose handler runs; the backup's answer is ignored.
CallBackup ==
    /\ mu = "calling" /\ "backup" \in listening
    /\ Execute("backup", current)
    /\ Remember("backup", current, Decide("backup", current))
    /\ mu' = "called"
    /\ UNCHANGED <<alive, listening, inbox, current, decided, dying, deaf, clerkVars, tally>>

\* The call to the backup fails; the error is ignored.
CallBackupFails ==
    /\ mu = "calling" /\ "backup" \notin listening
    /\ mu' = "called"
    /\ UNCHANGED <<alive, listening, locks, replays, inbox, current, decided, dying, deaf,
                   clerkVars, tally>>

\* The handler stores its answer and returns it on the connection, if that
\* is still there and is not deaf.
FinishPrimary ==
    LET c == current.uuid[1] IN
    /\ mu = "called"
    /\ Remember("primary", current, decided)
    /\ mu' = "free"
    /\ IF pc[c] = "atPrimary" /\ c \notin deaf
       THEN /\ pc' = [pc EXCEPT ![c] = "repliedPrimary"]
            /\ reply' = [reply EXCEPT ![c] = decided]
       ELSE UNCHANGED <<pc, reply>>
    /\ UNCHANGED <<alive, listening, locks, inbox, current, decided, dying, deaf, args, tally>>

\* The backup's handler for a request from a clerk.
LockBackup(c) ==
    /\ pc[c] = "atBackup" /\ "backup" \in alive
    /\ Execute("backup", args[c])
    /\ Remember("backup", args[c], Decide("backup", args[c]))
    /\ pc' = [pc EXCEPT ![c] = "repliedBackup"]
    /\ reply' = [reply EXCEPT ![c] = Decide("backup", args[c])]
    /\ UNCHANGED <<alive, listening, inbox, mu, current, decided, dying, deaf, args, tally>>

-----------------------------------------------------------------------------
(* How servers stop.                                                        *)

\* A seeded fault: the listener outlives the process.
CrashStillListening(s) ==
    /\ "crash" \in Failures /\ s \in alive
    /\ alive' = alive \ {s}
    /\ UNCHANGED <<listening, locks, replays, inbox, mu, current, decided, dying, deaf,
                   clerkVars, tally>>

\* The process dies; the handler it ran and the requests it had are gone.
Crash(s) ==
    /\ "crash" \in Failures /\ s \in alive
    /\ alive' = alive \ {s} /\ listening' = listening \ {s}
    /\ IF s = "primary" THEN mu' = "free" /\ inbox' = {} ELSE UNCHANGED <<mu, inbox>>
    /\ UNCHANGED <<locks, replays, current, decided, dying, deaf, clerkVars, tally>>

kill(s) ==
    /\ "kill" \in Failures /\ s \in listening
    /\ listening' = listening \ {s}
    /\ UNCHANGED <<alive, locks, replays, inbox, mu, current, decided, dying, deaf,
                   clerkVars, tally>>

\* p.dying = true
Dying ==
    /\ "dying" \in Failures /\ "primary" \in listening /\ ~dying
    /\ dying' = TRUE
    /\ UNCHANGED <<alive, listening, locks, replays, inbox, mu, current, decided, deaf,
                   clerkVars, tally>>

-----------------------------------------------------------------------------
Clerk(c) == \/ DialPrimary(c) \/ PrimaryFails(c) \/ DialBackup(c) \/ BackupFails(c)
            \/ Return(c)
Handler == \/ \E a \in inbox : LockPrimary(a)
           \/ CallBackup \/ CallBackupFails \/ FinishPrimary

Next ==
    \/ \E c \in Client :
          \/ \E kind \in {"Lock", "Unlock"}, l \in Lockname : Invoke(c, kind, l)
          \/ Clerk(c) \/ LockBackup(c)
    \/ Handler
    \/ \E s \in Server : Crash(s) \/ kill(s)
    \/ Dying

Spec == Init /\ [][Next]_vars

\* Threads of clerks and servers are scheduled, and sync.Mutex is handed to
\* each waiting handler at some time.
FairSpec ==
    /\ Spec
    /\ \A c \in Client : WF_vars(Clerk(c)) /\ WF_vars(LockBackup(c))
    /\ WF_vars(CallBackup \/ CallBackupFails \/ FinishPrimary)
    /\ \A c \in Client : SF_vars(\E a \in inbox : a.uuid[1] = c /\ LockPrimary(a))

-----------------------------------------------------------------------------
TypeOK ==
    /\ listening \subseteq alive /\ alive \subseteq Server
    /\ locks \in [Server -> SUBSET Lockname]
    /\ replays \in [Server -> [Uuid -> Answer]]
    /\ inbox \subseteq Args
    /\ mu \in {"free", "calling", "called"}
    /\ current \in Args /\ decided \in Answer
    /\ dying \in BOOLEAN /\ deaf \subseteq Client
    /\ pc \in [Client -> {"idle", "dialPrimary", "atPrimary", "repliedPrimary",
                          "dialBackup", "atBackup", "repliedBackup"}]
    /\ args \in [Client -> Args]
    /\ reply \in [Client -> Answer]
    /\ tally \in [Lockname -> Int]

(* The service implements LockSpec.  The backup holds the outcome as long as *)
(* it runs; without it the primary's does, the call it is handling included. *)

Outcome == IF "backup" \in alive THEN "backup" ELSE "primary"
Unfinished(c) == mu # "free" /\ current = args[c]
AnswerOf(c) ==
    CASE pc[c] \in {"idle", "repliedPrimary", "repliedBackup"} -> reply[c]
      [] pc[c] \notin {"idle", "repliedPrimary", "repliedBackup"} /\ alive = {} -> "none"
      [] OTHER -> IF Outcome = "primary" /\ Unfinished(c) THEN decided
                  ELSE replays[Outcome][args[c].uuid]

Abstract == INSTANCE LockSpec WITH
    held <- IF alive = {} THEN {} ELSE locks[Outcome],
    available <- alive # {},
    call <- [c \in Client |-> [kind |-> args[c].kind, lock |-> args[c].lock,
                               answer |-> AnswerOf(c),
                               status |-> IF pc[c] = "idle" THEN "returned" ELSE "pending"]]

\* Every Lock and Unlock takes effect exactly once, atomically, and is
\* answered by the state of the lock at that moment, across the retry at the
\* backup and the crash of either server (Lock, Unlock and replays in
\* server.go; the two calls of Clerk.Lock and Clerk.Unlock in client.go).
ImplementsLockSpec == Abstract!Spec

\* "lock race 1" and "2", "3" of TestConcurrentCounts: when no call is under
\* way, a lock was granted as often as it was released, and once more if it
\* is held.
LocksBalance ==
    (\A c \in Client : pc[c] = "idle") /\ mu = "free" /\ "backup" \in listening
        => \A l \in Lockname : tally[l] = IF l \in locks["backup"] THEN 1 ELSE 0

\* No call of a clerk hangs, although a handler of the primary holds ls.mu
\* while it calls the backup.
CallsReturn == \A c \in Client : pc[c] # "idle" ~> pc[c] = "idle"
=============================================================================
