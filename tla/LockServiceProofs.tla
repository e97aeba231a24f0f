-------------------------- MODULE LockServiceProofs --------------------------
(***************************************************************************)
(* Proofs about the lock service, for any clerks, locks and number of      *)
(* calls: its types, for all the ways a server can stop, and, when servers *)
(* stop by crashing only, that it implements LockSpec.                     *)
(***************************************************************************)
EXTENDS LockService, TLAPS

\* Crashes alone: a process listens as long as it runs, and no connection is deaf.
CrashInv == listening = alive /\ dying = FALSE /\ deaf = {}

\* Clerks turn to the backup when the primary is gone.  What the primary has
\* answered, the backup has remembered, if it still runs.
ClerkInv ==
    \A c \in Client :
        /\ args[c].uuid[1] = c
        /\ pc[c] \in {"dialBackup", "atBackup", "repliedBackup"} => "primary" \notin alive
        /\ pc[c] \in {"repliedPrimary", "repliedBackup"} => reply[c] # "none"
        /\ pc[c] = "repliedPrimary" /\ "backup" \in alive => replays["backup"][args[c].uuid] = reply[c]

\* Nobody remembers a call that was not made yet.
FreshInv ==
    \A s \in Server, c \in Client, n \in 0..MaxCalls :
        n > args[c].uuid[2] => replays[s][<<c, n>>] = "none"

\* A request at the primary, waiting or in hand, is what its clerk waits for.
RequestOf(a) == pc[a.uuid[1]] = "atPrimary" /\ args[a.uuid[1]] = a
RequestInv ==
    /\ \A a \in inbox : "primary" \in alive /\ RequestOf(a)
    /\ mu # "free" => /\ "primary" \in alive /\ RequestOf(current)
                      /\ current \notin inbox /\ decided # "none"

\* As long as both run, the backup lags by the request in hand, before its
\* call, and the primary by its memory of it afterwards.
Granted(s, a) == (a.kind = "Lock") = (a.lock \notin locks[s])
After(s, a) == IF ~Granted(s, a) THEN locks[s]
               ELSE IF a.kind = "Lock" THEN locks[s] \cup {a.lock} ELSE locks[s] \ {a.lock}
ReplicaInv ==
    alive = Server =>
        /\ mu = "free" => locks["primary"] = locks["backup"] /\ replays["primary"] = replays["backup"]
        /\ mu = "calling" => /\ locks["primary"] = After("backup", current)
                             /\ decided = IF Granted("backup", current) THEN "ok" ELSE "no"
                             /\ replays["primary"] = replays["backup"]
                             /\ replays["backup"][current.uuid] = "none"
        /\ mu = "called" => /\ locks["primary"] = locks["backup"]
                            /\ replays["backup"] = [replays["primary"] EXCEPT ![current.uuid] = decided]

IInv == CrashInv /\ ClerkInv /\ FreshInv /\ RequestInv /\ ReplicaInv
-----------------------------------------------------------------------------
(***************************************************************************)
(* Types, whatever the failures.                                           *)
(***************************************************************************)
LEMMA InitTypeOK == Init => TypeOK
  <1> SUFFICES ASSUME Init PROVE TypeOK
    OBVIOUS
  <1>1. \A c \in Client : <<c, 0>> \in Uuid
    BY LockServiceAssumption DEF Uuid
  <1>2. args \in [Client -> Args]
    BY <1>1 DEF Init, Args
  <1>3. current \in Args
    BY <1>2 DEF Init
  <1>4. /\ locks \in [Server -> SUBSET Lockname] /\ replays \in [Server -> [Uuid -> Answer]]
        /\ reply \in [Client -> Answer] /\ tally \in [Lockname -> Int]
    BY DEF Init, Answer
  <1> QED
    BY <1>2, <1>3, <1>4 DEF Init, TypeOK, Answer

\* What a handler decides, executes and remembers has the right type.
LEMMA HandlerTypes ==
    ASSUME TypeOK, NEW s \in Server, NEW a \in Args
    PROVE  /\ Decide(s, a) \in Answer /\ Decide(s, a) # "none"
           /\ Execute(s, a) => locks' \in [Server -> SUBSET Lockname]
           /\ \A v \in Answer : Remember(s, a, v) => replays' \in [Server -> [Uuid -> Answer]]
  <1>1. a.uuid \in Uuid /\ a.lock \in Lockname
    BY DEF Args
  <1>2. Decide(s, a) \in Answer /\ Decide(s, a) # "none"
    BY <1>1 DEF TypeOK, Decide, Answer
  <1>3. Execute(s, a) => locks' \in [Server -> SUBSET Lockname]
    BY <1>1 DEF TypeOK, Execute
  <1>4. ASSUME NEW v \in Answer, Remember(s, a, v) PROVE replays' \in [Server -> [Uuid -> Answer]]
    BY <1>1, <1>4 DEF TypeOK, Remember
  <1> QED
    BY <1>2, <1>3, <1>4

LEMMA NextTypeOK == TypeOK /\ [Next]_vars => TypeOK'
  <1> SUFFICES ASSUME TypeOK, [Next]_vars PROVE TypeOK'
    OBVIOUS
  <1> USE DEF TypeOK, serverVars, clerkVars
  <1>1. ASSUME NEW c \in Client, NEW kind \in {"Lock", "Unlock"}, NEW l \in Lockname, Invoke(c, kind, l)
        PROVE  TypeOK'
    <2>1. args[c].uuid[2] \in 0..MaxCalls /\ args[c].uuid[2] < MaxCalls
      BY <1>1 DEF Invoke, Args, Uuid
    <2>2. <<c, args[c].uuid[2] + 1>> \in Uuid
      BY <2>1, LockServiceAssumption DEF Uuid
    <2>3. args' \in [Client -> Args]
      BY <1>1, <2>2 DEF Invoke, Args
    <2> QED
      BY <1>1, <2>3 DEF Invoke, Answer
  <1>2. ASSUME NEW c \in Client, DialPrimary(c) PROVE TypeOK'
    BY <1>2 DEF DialPrimary
  <1>3. ASSUME NEW c \in Client, PrimaryFails(c) \/ DialBackup(c) \/ BackupFails(c) PROVE TypeOK'
    BY <1>3 DEF PrimaryFails, DialBackup, BackupFails, Answer
  <1>4. ASSUME NEW c \in Client, Return(c) PROVE TypeOK'
    <2>1. tally' \in [Lockname -> Int]
      BY <1>4 DEF Return, Args
    <2> QED
      BY <1>4, <2>1 DEF Return
  <1>5. ASSUME NEW c \in Client, LockBackup(c) PROVE TypeOK'
    <2>1. /\ Decide("backup", args[c]) \in Answer
          /\ locks' \in [Server -> SUBSET Lockname] /\ replays' \in [Server -> [Uuid -> Answer]]
      BY <1>5, HandlerTypes DEF LockBackup, Server
    <2> QED
      BY <1>5, <2>1 DEF LockBackup
  <1>6. ASSUME NEW a \in inbox, LockPrimary(a) PROVE TypeOK'
    <2>1. Decide("primary", a) \in Answer /\ locks' \in [Server -> SUBSET Lockname]
      BY <1>6, HandlerTypes DEF LockPrimary, Server
    <2> QED
      BY <1>6, <2>1 DEF LockPrimary
  <1>7. CASE CallBackup
    <2>1. /\ Decide("backup", current) \in Answer
          /\ locks' \in [Server -> SUBSET Lockname] /\ replays' \in [Server -> [Uuid -> Answer]]
      BY <1>7, HandlerTypes DEF CallBackup, Server
    <2> QED
      BY <1>7, <2>1 DEF CallBackup
  <1>8. CASE CallBackupFails
    BY <1>8 DEF CallBackupFails
  <1>9. CASE FinishPrimary
    <2>1. replays' \in [Server -> [Uuid -> Answer]]
      BY <1>9, HandlerTypes DEF FinishPrimary, Server
    <2>2. current.uuid[1] \in Client
      BY DEF Args, Uuid
    <2> QED
      BY <1>9, <2>1, <2>2 DEF FinishPrimary
  <1>10. ASSUME NEW s \in Server, Crash(s) \/ kill(s) PROVE TypeOK'
    BY <1>10 DEF Crash, kill
  <1>11. CASE Dying
    BY <1>11 DEF Dying
  <1>12. CASE UNCHANGED vars
    BY <1>12 DEF vars
  <1> QED
    BY <1>1, <1>2, <1>3, <1>4, <1>5, <1>6, <1>7, <1>8, <1>9, <1>10, <1>11, <1>12 DEF Next, Clerk, Handler

\* The state of the servers and clerks keeps its types, for every way a server
\* can stop: in particular a reply that is returned is that of a request some
\* clerk made (LockServer.Lock and Unlock, Clerk.Lock and Unlock).
THEOREM LockTypeCorrect == Spec => []TypeOK
  BY InitTypeOK, NextTypeOK, PTL DEF Spec
-----------------------------------------------------------------------------
(***************************************************************************)
(* The invariant, when servers stop by crashing.                           *)
(***************************************************************************)
CrashOnly == Failures \subseteq {"crash"}

LEMMA InitIInv == Init => IInv
  BY LockServiceAssumption
     DEF Init, IInv, CrashInv, ClerkInv, FreshInv, RequestInv, ReplicaInv, Server, Uuid

\* A clerk's Uuid is its own.
LEMMA OwnUuid ==
    ASSUME TypeOK, ClerkInv, NEW c \in Client
    PROVE  /\ args[c] \in Args /\ args[c].uuid \in Uuid
           /\ args[c].uuid = <<c, args[c].uuid[2]>> /\ args[c].uuid[2] \in 0..MaxCalls
  BY DEF TypeOK, ClerkInv, Args, Uuid

\* What a handler decides for a request, and does to the locks, in the words
\* of the invariant.
LEMMA DecideMeans ==
    ASSUME TypeOK, NEW s \in Server, NEW a \in Args, Execute(s, a)
    PROVE  /\ replays[s][a.uuid] # "none" => Decide(s, a) = replays[s][a.uuid] /\ locks' = locks
           /\ replays[s][a.uuid] = "none" => /\ Decide(s, a) = IF Granted(s, a) THEN "ok" ELSE "no"
                                             /\ locks' = [locks EXCEPT ![s] = After(s, a)]
  BY DEF TypeOK, Execute, Decide, Granted, After

LEMMA NextIInv == ASSUME CrashOnly PROVE TypeOK /\ IInv /\ [Next]_vars => IInv'
  <1> SUFFICES ASSUME TypeOK, IInv, [Next]_vars PROVE IInv'
    OBVIOUS
  <1> USE DEF IInv, serverVars, clerkVars
  <1>0. CrashInv'
    <2>1. ~ \E s \in Server : kill(s)
      BY DEF CrashOnly, kill
    <2>2. ~ Dying
      BY DEF CrashOnly, Dying
    <2> QED
      BY <2>1, <2>2 DEF CrashInv, Next, Clerk, Handler, vars, Invoke, DialPrimary, PrimaryFails, DialBackup, BackupFails,
              Return, LockBackup, LockPrimary, CallBackup, CallBackupFails, FinishPrimary, Crash
  <1>1. ASSUME NEW c \in Client, NEW kind \in {"Lock", "Unlock"}, NEW l \in Lockname, Invoke(c, kind, l)
        PROVE  IInv'
    <2>1. /\ pc[c] = "idle" /\ UNCHANGED <<alive, inbox, mu, current, decided, locks, replays>>
          /\ \A d \in Client \ {c} : pc'[d] = pc[d] /\ args'[d] = args[d] /\ reply'[d] = reply[d]
          /\ pc'[c] = "dialPrimary" /\ args'[c].uuid = <<c, args[c].uuid[2] + 1>>
      BY <1>1 DEF Invoke, TypeOK
    <2>2. ClerkInv'
      BY <2>1 DEF ClerkInv
    <2>3. FreshInv'
      BY <2>1, OwnUuid DEF FreshInv, TypeOK
    <2>4. RequestInv' /\ ReplicaInv'
      BY <2>1 DEF RequestInv, RequestOf, ReplicaInv, Granted, After, TypeOK, Args, Uuid
    <2> QED
      BY <1>0, <2>2, <2>3, <2>4
  <1>2. ASSUME NEW c \in Client, DialPrimary(c) PROVE IInv'
    <2>1. /\ pc[c] = "dialPrimary" /\ "primary" \in alive /\ UNCHANGED <<alive, mu, current, decided, locks, replays, args, reply>>
          /\ \A d \in Client \ {c} : pc'[d] = pc[d]
          /\ pc'[c] = "atPrimary" /\ inbox' = inbox \cup {args[c]}
      BY <1>2 DEF DialPrimary, TypeOK, CrashInv
    <2>2. ClerkInv' /\ FreshInv' /\ ReplicaInv'
      BY <2>1 DEF ClerkInv, FreshInv, ReplicaInv, Granted, After
    <2>3. RequestInv'
      BY <2>1 DEF RequestInv, RequestOf, ClerkInv, TypeOK, Args, Uuid
    <2> QED
      BY <1>0, <2>2, <2>3
  <1>3. ASSUME NEW c \in Client, PrimaryFails(c) PROVE IInv'
    <2>1. /\ "primary" \notin alive /\ UNCHANGED <<alive, inbox, mu, current, decided, locks, replays, args>>
          /\ \A d \in Client \ {c} : pc'[d] = pc[d] /\ reply'[d] = reply[d]
          /\ pc'[c] = "dialBackup"
      BY <1>3 DEF PrimaryFails, TypeOK, CrashInv
    <2>2. ClerkInv' /\ FreshInv' /\ RequestInv'
      BY <2>1 DEF ClerkInv, FreshInv, RequestInv
    <2>3. ReplicaInv'
      BY <2>1 DEF ReplicaInv, Server
    <2> QED
      BY <1>0, <2>2, <2>3
  <1>4. ASSUME NEW c \in Client, DialBackup(c) \/ BackupFails(c) PROVE IInv'
    <2>1. /\ pc[c] \in {"dialBackup", "atBackup", "repliedBackup"}
          /\ UNCHANGED <<alive, inbox, mu, current, decided, locks, replays, args>>
          /\ \A d \in Client \ {c} : pc'[d] = pc[d] /\ reply'[d] = reply[d]
          /\ pc'[c] \in {"atBackup", "idle"}
      BY <1>4 DEF DialBackup, BackupFails, TypeOK
    <2>2. "primary" \notin alive
      BY <2>1 DEF ClerkInv
    <2>3. ClerkInv' /\ FreshInv' /\ RequestInv'
      BY <2>1, <2>2 DEF ClerkInv, FreshInv, RequestInv
    <2>4. ReplicaInv'
      BY <2>1, <2>2 DEF ReplicaInv, Server
    <2> QED
      BY <1>0, <2>3, <2>4
  <1>5. ASSUME NEW c \in Client, Return(c) PROVE IInv'
    <2>1. /\ pc[c] \in {"repliedPrimary", "repliedBackup"}
          /\ UNCHANGED <<alive, inbox, mu, current, decided, locks, replays, args, reply>>
          /\ \A d \in Client \ {c} : pc'[d] = pc[d]
          /\ pc'[c] = "idle"
      BY <1>5 DEF Return, TypeOK
    <2>2. ClerkInv' /\ FreshInv' /\ ReplicaInv'
      BY <2>1 DEF ClerkInv, FreshInv, ReplicaInv, Granted, After
    <2>3. RequestInv'
      BY <2>1 DEF RequestInv, RequestOf, TypeOK, Args, Uuid
    <2> QED
      BY <1>0, <2>2, <2>3
  <1>6. ASSUME NEW c \in Client, LockBackup(c) PROVE IInv'
    <2>1. /\ pc[c] = "atBackup" /\ UNCHANGED <<alive, inbox, mu, current, decided, args>>
          /\ Execute("backup", args[c])
          /\ replays' = [replays EXCEPT !["backup"][args[c].uuid] = Decide("backup", args[c])]
          /\ \A d \in Client \ {c} : pc'[d] = pc[d] /\ reply'[d] = reply[d]
          /\ pc'[c] = "repliedBackup" /\ reply'[c] = Decide("backup", args[c])
      BY <1>6 DEF LockBackup, Remember, TypeOK
    <2>2. "primary" \notin alive
      BY <2>1 DEF ClerkInv
    <2>3. Decide("backup", args[c]) # "none"
      BY OwnUuid, HandlerTypes DEF Server
    <2>4. ReplicaInv' /\ RequestInv'
      BY <2>1, <2>2 DEF ReplicaInv, RequestInv, Server
    <2>5. \A d \in Client : args[d].uuid # args[c].uuid => replays'["backup"][args[d].uuid] = replays["backup"][args[d].uuid]
      BY <2>1, OwnUuid DEF TypeOK, Server
    <2>6. ClerkInv'
      BY <2>1, <2>2, <2>3, <2>5, OwnUuid DEF ClerkInv
    <2>7. FreshInv'
      <3>1. ASSUME NEW s \in Server, NEW d \in Client, NEW n \in 0..MaxCalls, n > args[d].uuid[2]
            PROVE  replays'[s][<<d, n>>] = replays[s][<<d, n>>]
        <4>1. <<d, n>> # args[c].uuid
          BY <3>1, OwnUuid
        <4>2. <<d, n>> \in Uuid
          BY DEF Uuid
        <4> QED
          BY <2>1, <4>1, <4>2 DEF TypeOK
      <3> QED
        BY <2>1, <3>1 DEF FreshInv
    <2> QED
      BY <1>0, <2>4, <2>6, <2>7
  <1>7. ASSUME NEW a \in inbox, LockPrimary(a) PROVE IInv'
    <2>0. a \in Args /\ a.uuid \in Uuid
      BY DEF TypeOK, Args
    <2>1. /\ "primary" \in alive /\ mu = "free" /\ UNCHANGED <<alive, replays, pc, args, reply>>
          /\ Execute("primary", a) /\ decided' = Decide("primary", a)
          /\ current' = a /\ inbox' = inbox \ {a}
          /\ mu' = IF replays["primary"][a.uuid] = "none" THEN "calling" ELSE "called"
      BY <1>7 DEF LockPrimary
    <2>2. decided' # "none"
      BY <2>0, <2>1, HandlerTypes DEF Server
    <2>3. ClerkInv' /\ FreshInv'
      BY <2>1 DEF ClerkInv, FreshInv
    <2>4. RequestInv'
      BY <2>1, <2>2 DEF RequestInv, RequestOf
    <2>5. ReplicaInv'
      <3>1. SUFFICES ASSUME alive = Server PROVE ReplicaInv'
        BY <2>1 DEF ReplicaInv
      <3>2. locks["primary"] = locks["backup"] /\ replays["primary"] = replays["backup"]
        BY <2>1, <3>1 DEF ReplicaInv
      <3>3. CASE replays["primary"][a.uuid] = "none"
        <4>1. locks' = [locks EXCEPT !["primary"] = After("primary", a)]
          BY <2>0, <2>1, <3>3, DecideMeans DEF Server
        <4>2. locks'["primary"] = After("backup", a) /\ locks'["backup"] = locks["backup"]
          BY <3>2, <4>1 DEF TypeOK, Server, After, Granted
        <4>3. decided' = IF Granted("backup", a) THEN "ok" ELSE "no"
          BY <2>0, <2>1, <3>2, <3>3, DecideMeans DEF Server, Granted
        <4> QED
          BY <2>1, <3>2, <3>3, <4>2, <4>3 DEF ReplicaInv, After, Granted
      <3>4. CASE replays["primary"][a.uuid] # "none"
        <4>1. locks' = locks /\ decided' = replays["primary"][a.uuid]
          BY <2>0, <2>1, <3>4, DecideMeans DEF Server
        <4>2. replays["primary"] \in [Uuid -> Answer]
          BY DEF TypeOK, Server
        <4>3. replays["backup"] = [replays["primary"] EXCEPT ![a.uuid] = decided']
          BY <2>0, <3>2, <4>1, <4>2
        <4> QED
          BY <2>1, <3>2, <3>4, <4>1, <4>3 DEF ReplicaInv
      <3> QED
        BY <3>3, <3>4
    <2> QED
      BY <1>0, <2>3, <2>4, <2>5
  <1>8. CASE CallBackup
    <2>0. current \in Args /\ current.uuid \in Uuid
      BY DEF TypeOK, Args
    <2>1. /\ alive = Server /\ mu = "calling" /\ mu' = "called"
          /\ UNCHANGED <<alive, inbox, current, decided, pc, args, reply>>
          /\ Execute("backup", current)
          /\ replays' = [replays EXCEPT !["backup"][current.uuid] = Decide("backup", current)]
      BY <1>8 DEF CallBackup, Remember, CrashInv, RequestInv, TypeOK, Server
    <2>2. /\ locks["primary"] = After("backup", current)
          /\ decided = IF Granted("backup", current) THEN "ok" ELSE "no"
          /\ replays["primary"] = replays["backup"] /\ replays["backup"][current.uuid] = "none"
      BY <2>1 DEF ReplicaInv
    <2>3. locks' = [locks EXCEPT !["backup"] = After("backup", current)] /\ Decide("backup", current) = decided
      BY <2>0, <2>1, <2>2, DecideMeans DEF Server
    <2>4. locks'["primary"] = locks'["backup"]
      BY <2>2, <2>3 DEF TypeOK, Server
    <2>5. replays'["primary"] = replays["primary"] /\ replays'["backup"] = [replays["primary"] EXCEPT ![current.uuid] = decided]
      BY <2>0, <2>1, <2>2, <2>3 DEF TypeOK, Server
    <2>6. ReplicaInv'
      BY <2>1, <2>4, <2>5 DEF ReplicaInv
    <2>7. RequestInv'
      BY <2>1 DEF RequestInv, RequestOf
    <2>8. ClerkInv'
      <3>1. \A d \in Client : pc[d] = "repliedPrimary" => args[d].uuid # current.uuid
        BY <2>1, OwnUuid DEF RequestInv, RequestOf
      <3>2. \A d \in Client : pc[d] = "repliedPrimary" => replays'["backup"][args[d].uuid] = replays["backup"][args[d].uuid]
        BY <2>0, <2>1, <3>1, OwnUuid DEF TypeOK, Server
      <3> QED
        BY <2>1, <3>2 DEF ClerkInv
    <2>9. FreshInv'
      <3>1. ASSUME NEW s \in Server, NEW d \in Client, NEW n \in 0..MaxCalls, n > args[d].uuid[2]
            PROVE  replays'[s][<<d, n>>] = replays[s][<<d, n>>]
        <4>1. <<d, n>> # current.uuid
          BY <2>1, <3>1, OwnUuid DEF RequestInv, RequestOf
        <4>2. <<d, n>> \in Uuid
          BY DEF Uuid
        <4> QED
          BY <2>0, <2>1, <4>1, <4>2 DEF TypeOK
      <3> QED
        BY <2>1, <3>1 DEF FreshInv
    <2> QED
      BY <1>0, <2>6, <2>7, <2>8, <2>9
  <1>9. CASE CallBackupFails
    <2>1. /\ alive # Server /\ mu = "calling" /\ mu' = "called"
          /\ UNCHANGED <<alive, inbox, current, decided, locks, replays, pc, args, reply>>
      BY <1>9 DEF CallBackupFails, CrashInv, Server
    <2>2. ClerkInv' /\ FreshInv' /\ ReplicaInv'
      BY <2>1 DEF ClerkInv, FreshInv, ReplicaInv
    <2>3. RequestInv'
      BY <2>1 DEF RequestInv, RequestOf
    <2> QED
      BY <1>0, <2>2, <2>3
  <1>10. CASE FinishPrimary
    <2> DEFINE c == current.uuid[1]
    <2>0. current \in Args /\ current.uuid \in Uuid /\ c \in Client
      BY DEF TypeOK, Args, Uuid
    <2>1. /\ "primary" \in alive /\ pc[c] = "atPrimary" /\ args[c] = current
          /\ current \notin inbox /\ decided # "none"
      BY <1>10 DEF FinishPrimary, RequestInv, RequestOf
    <2>2. /\ mu = "called" /\ mu' = "free" /\ UNCHANGED <<alive, inbox, current, decided, locks, args>>
          /\ replays' = [replays EXCEPT !["primary"][current.uuid] = decided]
          /\ pc' = [pc EXCEPT ![c] = "repliedPrimary"] /\ reply' = [reply EXCEPT ![c] = decided]
      BY <1>10, <2>1 DEF FinishPrimary, Remember, CrashInv
    <2>3. replays'["primary"] = [replays["primary"] EXCEPT ![current.uuid] = decided] /\ replays'["backup"] = replays["backup"]
      BY <2>2 DEF TypeOK, Server
    <2>4. \A d \in Client \ {c} : pc'[d] = pc[d] /\ reply'[d] = reply[d]
      BY <2>2 DEF TypeOK
    <2>5. pc'[c] = "repliedPrimary" /\ reply'[c] = decided
      BY <2>0, <2>2 DEF TypeOK
    <2>6. ReplicaInv'
      BY <2>2, <2>3 DEF ReplicaInv
    <2>7. ClerkInv'
      <3>1. "backup" \in alive => replays["backup"][current.uuid] = decided
        <4>1. "backup" \in alive => alive = Server
          BY <2>1 DEF TypeOK, Server
        <4>2. replays["primary"] \in [Uuid -> Answer]
          BY DEF TypeOK, Server
        <4> QED
          BY <2>0, <2>2, <4>1, <4>2 DEF ReplicaInv
      <3> QED
        BY <2>1, <2>2, <2>3, <2>4, <2>5, <3>1 DEF ClerkInv
    <2>8. RequestInv'
      <3>1. \A a \in inbox : a.uuid[1] \in Client /\ a.uuid[1] # c
        BY <2>1 DEF RequestInv, RequestOf, TypeOK, Args, Uuid
      <3> QED
        BY <2>2, <2>4, <3>1 DEF RequestInv, RequestOf
    <2>9. FreshInv'
      <3>1. ASSUME NEW s \in Server, NEW d \in Client, NEW n \in 0..MaxCalls, n > args[d].uuid[2]
            PROVE  replays'[s][<<d, n>>] = replays[s][<<d, n>>]
        <4>1. <<d, n>> # current.uuid
          BY <2>1, <3>1, OwnUuid
        <4>2. <<d, n>> \in Uuid
          BY DEF Uuid
        <4> QED
          BY <2>0, <2>2, <4>1, <4>2 DEF TypeOK
      <3> QED
        BY <2>2, <3>1 DEF FreshInv
    <2> QED
      BY <1>0, <2>6, <2>7, <2>8, <2>9
  <1>11. ASSUME NEW s \in Server, Crash(s) PROVE IInv'
    <2>1. /\ s \in alive /\ alive' = alive \ {s} /\ UNCHANGED <<locks, replays, current, decided, pc, args, reply>>
          /\ IF s = "primary" THEN mu' = "free" /\ inbox' = {} ELSE UNCHANGED <<mu, inbox>>
      BY <1>11 DEF Crash
    <2>2. ReplicaInv'
      BY <2>1 DEF ReplicaInv
    <2>3. ClerkInv' /\ FreshInv'
      BY <2>1 DEF ClerkInv, FreshInv
    <2>4. RequestInv'
      BY <2>1 DEF RequestInv, RequestOf
    <2> QED
      BY <1>0, <2>2, <2>3, <2>4
  <1>12. ASSUME NEW s \in Server, kill(s) \/ Dying PROVE IInv'
    BY <1>12 DEF CrashOnly, kill, Dying
  <1>13. CASE UNCHANGED vars
    BY <1>13 DEF vars, CrashInv, ClerkInv, FreshInv, RequestInv, RequestOf, ReplicaInv, Granted, After
  <1> QED
    BY <1>1, <1>2, <1>3, <1>4, <1>5, <1>6, <1>7, <1>8, <1>9, <1>10, <1>11, <1>12, <1>13 DEF Next, Clerk, Handler, Server
-----------------------------------------------------------------------------
(***************************************************************************)
(* Every step is one of LockSpec, or stutters.                             *)
(***************************************************************************)
Held == IF alive = {} THEN {} ELSE locks[Outcome]
Available == alive # {}
CallOf(c) == [kind |-> args[c].kind, lock |-> args[c].lock, answer |-> AnswerOf(c),
              status |-> IF pc[c] = "idle" THEN "returned" ELSE "pending"]
AbstractCall == [c \in Client |-> CallOf(c)]
Replied(c) == pc[c] \in {"idle", "repliedPrimary", "repliedBackup"}

LEMMA InitRefines == Init => Abstract!Init
  <1> SUFFICES ASSUME Init PROVE Abstract!Init
    OBVIOUS
  <1>1. alive # {} /\ locks[Outcome] = {}
    BY DEF Init, Outcome, Server
  <1>2. PICK l \in Lockname : args = [c \in Client |-> [uuid |-> <<c, 0>>, kind |-> "Lock", lock |-> l]]
    BY DEF Init
  <1>3. \A c \in Client : CallOf(c) = [kind |-> "Lock", lock |-> l, answer |-> "no", status |-> "returned"]
    BY <1>2 DEF Init, CallOf, AnswerOf
  <1> QED
    BY <1>1, <1>3 DEF Abstract!Init, CallOf

\* A step that changes the call of one clerk at most.
LEMMA OneCall ==
    ASSUME NEW c \in Client, \A d \in Client \ {c} : CallOf(d)' = CallOf(d)
    PROVE  AbstractCall' = [AbstractCall EXCEPT ![c] = CallOf(c)']
  BY DEF AbstractCall

\* The answer of a clerk that no handler concerns depends on its own state and its replay.
LEMMA AnswerStays ==
    ASSUME NEW d \in Client, UNCHANGED <<alive, args[d], pc[d], reply[d]>>,
           Unfinished(d)' = Unfinished(d), Unfinished(d) => decided' = decided,
           alive # {} => replays'[Outcome][args[d].uuid] = replays[Outcome][args[d].uuid]
    PROVE  CallOf(d)' = CallOf(d)
  BY DEF CallOf, AnswerOf, Outcome
LEMMA Stutters ==
    ASSUME Held' = Held, Available' = Available, \A d \in Client : CallOf(d)' = CallOf(d)
    PROVE  [Abstract!Next]_(Abstract!vars)
  BY DEF Abstract!vars, Held, Available, CallOf

\* The request of a pending call that has no answer yet is executed where the outcome is kept.
LEMMA PerformStep ==
    ASSUME TypeOK, NEW c \in Client, alive # {}, alive' # {}, ~Replied(c), AnswerOf(c) = "none",
           args' = args, pc'[c] # "idle", \A d \in Client \ {c} : CallOf(d)' = CallOf(d),
           Held' = After(Outcome, args[c]), AnswerOf(c)' = IF Granted(Outcome, args[c]) THEN "ok" ELSE "no"
    PROVE  Abstract!Perform(c)
  <1> DEFINE ok == Granted(Outcome, args[c])
  <1>1. AbstractCall[c] = CallOf(c) /\ CallOf(c).status = "pending" /\ CallOf(c).answer = "none"
    BY DEF AbstractCall, CallOf, Replied
  <1>2. Held = locks[Outcome] /\ Available /\ Available' = Available
    BY DEF Held, Available
  <1>3. CallOf(c)' = [CallOf(c) EXCEPT !.answer = IF ok THEN "ok" ELSE "no"]
    BY DEF CallOf, Replied
  <1>4. AbstractCall' = [AbstractCall EXCEPT ![c] = CallOf(c)']
    BY OneCall
  <1>5. AbstractCall' = [AbstractCall EXCEPT ![c].answer = IF ok THEN "ok" ELSE "no"]
    BY <1>1, <1>3, <1>4
  <1>6. /\ AbstractCall[c].lock = args[c].lock /\ AbstractCall[c].kind = args[c].kind
    BY <1>1 DEF CallOf
  <1>7. ok = ((args[c].kind = "Lock") = (args[c].lock \notin Held))
    BY <1>2 DEF Granted
  <1>8. Held' = IF ~ok THEN Held
               ELSE IF args[c].kind = "Lock" THEN Held \cup {args[c].lock} ELSE Held \ {args[c].lock}
    BY <1>2 DEF After
  <1> HIDE DEF ok
  <1> QED
    BY <1>1, <1>2, <1>5, <1>6, <1>7, <1>8 DEF Abstract!Perform, Held, Available, AbstractCall, CallOf
LEMMA StepRefines ==
    ASSUME CrashOnly
    PROVE  TypeOK /\ IInv /\ [Next]_vars => [Abstract!Next]_(Abstract!vars)
  <1> SUFFICES ASSUME TypeOK, IInv, [Next]_vars PROVE [Abstract!Next]_(Abstract!vars)
    OBVIOUS
  <1> USE DEF IInv, serverVars, clerkVars
  <1>1. ASSUME NEW c \in Client, NEW kind \in {"Lock", "Unlock"}, NEW l \in Lockname, Invoke(c, kind, l)
        PROVE  Abstract!Invoke(c, kind, l)
    <2>1. /\ pc[c] = "idle" /\ UNCHANGED <<alive, inbox, mu, current, decided, locks, replays>>
          /\ \A d \in Client \ {c} : pc'[d] = pc[d] /\ args'[d] = args[d] /\ reply'[d] = reply[d]
          /\ pc'[c] = "dialPrimary" /\ args'[c] = [uuid |-> <<c, args[c].uuid[2] + 1>>, kind |-> kind, lock |-> l]
          /\ args[c].uuid[2] < MaxCalls
      BY <1>1 DEF Invoke, TypeOK
    <2>2. Outcome' = Outcome /\ Outcome \in Server
      BY <2>1 DEF Outcome, Server
    <2>3. AnswerOf(c)' = "none"
      <3>1. args[c].uuid[2] + 1 \in 0..MaxCalls /\ args[c].uuid[2] + 1 > args[c].uuid[2]
        BY <2>1, OwnUuid, LockServiceAssumption
      <3>2. replays[Outcome][<<c, args[c].uuid[2] + 1>>] = "none"
        BY <2>2, <3>1 DEF FreshInv
      <3>3. Outcome = "primary" => ~Unfinished(c)'
        <4>1. CASE mu = "free"
          BY <2>1, <4>1 DEF Unfinished
        <4>2. CASE mu # "free"
          <5>1. pc[current.uuid[1]] = "atPrimary"
            BY <4>2 DEF RequestInv, RequestOf
          <5>2. current.uuid[1] # c
            BY <2>1, <5>1
          <5> QED
            BY <2>1, <5>2 DEF Unfinished
        <4> QED
          BY <4>1, <4>2
      <3> QED
        BY <2>1, <2>2, <3>2, <3>3 DEF AnswerOf
    <2>4. ASSUME NEW d \in Client \ {c} PROVE CallOf(d)' = CallOf(d)
      BY <2>1, <2>4, AnswerStays DEF Unfinished, Outcome
    <2>5. AbstractCall' = [AbstractCall EXCEPT ![c] = CallOf(c)']
      BY <2>4, OneCall
    <2>6. CallOf(c)' = [kind |-> kind, lock |-> l, answer |-> "none", status |-> "pending"]
      BY <2>1, <2>3 DEF CallOf
    <2>7. AbstractCall[c].status = "returned"
      BY <2>1 DEF AbstractCall, CallOf
    <2>8. UNCHANGED <<Held, Available>>
      BY <2>1, <2>2 DEF Held, Available
    <2> QED
      BY <2>5, <2>6, <2>7, <2>8 DEF Abstract!Invoke, Held, Available, AbstractCall, CallOf
  <1>2. ASSUME NEW c \in Client, DialPrimary(c) PROVE [Abstract!Next]_(Abstract!vars)
    <2>1. /\ UNCHANGED <<alive, mu, current, decided, locks, replays, args, reply>>
          /\ \A d \in Client \ {c} : pc'[d] = pc[d]
          /\ pc[c] = "dialPrimary" /\ pc'[c] = "atPrimary"
      BY <1>2 DEF DialPrimary, TypeOK
    <2>2. \A d \in Client : CallOf(d)' = CallOf(d)
      BY <2>1 DEF CallOf, AnswerOf, Unfinished, Outcome
    <2> QED
      BY <2>1, <2>2, Stutters DEF Held, Available, Outcome
  <1>3. ASSUME NEW c \in Client, DialBackup(c) PROVE [Abstract!Next]_(Abstract!vars)
    <2>1. /\ UNCHANGED <<alive, mu, current, decided, locks, replays, args, reply>>
          /\ \A d \in Client \ {c} : pc'[d] = pc[d]
          /\ pc[c] = "dialBackup" /\ pc'[c] = "atBackup"
      BY <1>3 DEF DialBackup, TypeOK
    <2>2. \A d \in Client : CallOf(d)' = CallOf(d)
      BY <2>1 DEF CallOf, AnswerOf, Unfinished, Outcome
    <2> QED
      BY <2>1, <2>2, Stutters DEF Held, Available, Outcome
  <1>4. ASSUME NEW c \in Client, PrimaryFails(c) PROVE [Abstract!Next]_(Abstract!vars)
    <2>1. /\ "primary" \notin alive /\ UNCHANGED <<alive, mu, current, decided, locks, replays, args>>
          /\ \A d \in Client \ {c} : pc'[d] = pc[d] /\ reply'[d] = reply[d]
          /\ pc[c] \in {"dialPrimary", "atPrimary", "repliedPrimary"} /\ pc'[c] = "dialBackup"
      BY <1>4 DEF PrimaryFails, TypeOK, CrashInv
    <2>2. UNCHANGED <<Held, Available>> /\ Outcome' = Outcome
      BY <2>1 DEF Held, Available, Outcome
    <2>3. \A d \in Client \ {c} : CallOf(d)' = CallOf(d)
      BY <2>1 DEF CallOf, AnswerOf, Unfinished, Outcome
    <2>4. CASE "backup" \in alive
      <3>1. CallOf(c)' = CallOf(c)
        BY <2>1, <2>4 DEF CallOf, AnswerOf, Unfinished, Outcome, ClerkInv
      <3> QED
        BY <2>2, <2>3, <3>1, Stutters
    <2>5. CASE "backup" \notin alive
      <3>1. alive = {}
        BY <2>1, <2>5 DEF TypeOK, Server
      <3>2. CallOf(c)' = [CallOf(c) EXCEPT !.answer = "none"] /\ CallOf(c).status = "pending"
        BY <2>1, <3>1 DEF CallOf, AnswerOf
      <3>3. AbstractCall[c] = CallOf(c) /\ AbstractCall' = [AbstractCall EXCEPT ![c].answer = "none"]
        BY <2>3, <3>2, OneCall DEF AbstractCall
      <3>4. Abstract!Lose(c)
        BY <2>2, <3>1, <3>2, <3>3 DEF Abstract!Lose, Held, Available, AbstractCall, CallOf
      <3> QED
        BY <3>4 DEF Abstract!Next
    <2> QED
      BY <2>4, <2>5
  <1>5. ASSUME NEW c \in Client, BackupFails(c) PROVE Abstract!GiveUp(c)
    <2>1. /\ alive = {} /\ UNCHANGED <<alive, mu, current, decided, locks, replays, args>>
          /\ \A d \in Client \ {c} : pc'[d] = pc[d] /\ reply'[d] = reply[d]
          /\ pc[c] # "idle" /\ pc'[c] = "idle" /\ reply'[c] = "no"
      BY <1>5 DEF BackupFails, TypeOK, CrashInv, ClerkInv, Server
    <2>2. UNCHANGED <<Held, Available>> /\ ~Available
      BY <2>1 DEF Held, Available
    <2>3. \A d \in Client \ {c} : CallOf(d)' = CallOf(d)
      BY <2>1 DEF CallOf, AnswerOf, Unfinished, Outcome
    <2>4. CallOf(c)' = [CallOf(c) EXCEPT !.status = "returned", !.answer = "no"] /\ CallOf(c).status = "pending"
      <3> DEFINE returned == [CallOf(c) EXCEPT !.status = "returned"]
      <3>1. AnswerOf(c)' = "no"
        BY <2>1 DEF AnswerOf
      <3>2. CallOf(c)' = [kind |-> args[c].kind, lock |-> args[c].lock, answer |-> "no", status |-> "returned"]
        BY <2>1, <3>1 DEF CallOf
      <3>3. CallOf(c) = [kind |-> args[c].kind, lock |-> args[c].lock, answer |-> AnswerOf(c), status |-> "pending"]
        BY <2>1 DEF CallOf
      <3>4. returned = [kind |-> args[c].kind, lock |-> args[c].lock, answer |-> AnswerOf(c), status |-> "returned"]
        BY <3>3
      <3>5. CallOf(c).status = "pending"
        BY <3>3
      <3>6. [CallOf(c) EXCEPT !.status = "returned", !.answer = "no"] = [returned EXCEPT !.answer = "no"]
        OBVIOUS
      <3> HIDE DEF returned
      <3>7. CallOf(c)' = [returned EXCEPT !.answer = "no"]
        BY <3>2, <3>4
      <3> QED
        BY <3>5, <3>6, <3>7
    <2>5. AbstractCall[c] = CallOf(c) /\ AbstractCall' = [AbstractCall EXCEPT ![c].status = "returned", ![c].answer = "no"]
      BY <2>3, <2>4, OneCall DEF AbstractCall
    <2> QED
      BY <2>2, <2>4, <2>5 DEF Abstract!GiveUp, Held, Available, AbstractCall, CallOf
  <1>6. ASSUME NEW c \in Client, Return(c) PROVE Abstract!Return(c)
    <2>1. /\ UNCHANGED <<alive, mu, current, decided, locks, replays, args, reply>>
          /\ \A d \in Client \ {c} : pc'[d] = pc[d]
          /\ pc[c] \in {"repliedPrimary", "repliedBackup"} /\ pc'[c] = "idle" /\ reply[c] # "none"
      BY <1>6 DEF Return, TypeOK, ClerkInv
    <2>2. UNCHANGED <<Held, Available>>
      BY <2>1 DEF Held, Available, Outcome
    <2>3. \A d \in Client \ {c} : CallOf(d)' = CallOf(d)
      BY <2>1 DEF CallOf, AnswerOf, Unfinished, Outcome
    <2>4. CallOf(c)' = [CallOf(c) EXCEPT !.status = "returned"] /\ CallOf(c).status = "pending" /\ CallOf(c).answer # "none"
      <3>1. AnswerOf(c) = reply[c] /\ AnswerOf(c)' = reply[c]
        BY <2>1 DEF AnswerOf
      <3>2. CallOf(c)' = [kind |-> args[c].kind, lock |-> args[c].lock, answer |-> reply[c], status |-> "returned"]
        BY <2>1, <3>1 DEF CallOf
      <3>3. CallOf(c) = [kind |-> args[c].kind, lock |-> args[c].lock, answer |-> reply[c], status |-> "pending"]
        BY <2>1, <3>1 DEF CallOf
      <3> QED
        BY <2>1, <3>2, <3>3
    <2>5. AbstractCall[c] = CallOf(c) /\ AbstractCall' = [AbstractCall EXCEPT ![c].status = "returned"]
      BY <2>3, <2>4, OneCall DEF AbstractCall
    <2> QED
      BY <2>2, <2>4, <2>5 DEF Abstract!Return, Held, Available, AbstractCall, CallOf
  <1>7. ASSUME NEW c \in Client, LockBackup(c) PROVE [Abstract!Next]_(Abstract!vars)
    <2>1. /\ pc[c] = "atBackup" /\ "backup" \in alive /\ UNCHANGED <<alive, mu, current, decided, args>>
          /\ Execute("backup", args[c])
          /\ replays' = [replays EXCEPT !["backup"][args[c].uuid] = Decide("backup", args[c])]
          /\ \A d \in Client \ {c} : pc'[d] = pc[d] /\ reply'[d] = reply[d]
          /\ pc'[c] = "repliedBackup" /\ reply'[c] = Decide("backup", args[c])
      BY <1>7 DEF LockBackup, Remember, TypeOK
    <2>2. Outcome = "backup" /\ Outcome' = "backup" /\ alive # {}
      BY <2>1 DEF Outcome
    <2>3. ASSUME NEW d \in Client \ {c} PROVE CallOf(d)' = CallOf(d)
      <3>1. args[d].uuid # args[c].uuid
        BY <2>3, OwnUuid
      <3>2. replays'["backup"][args[d].uuid] = replays["backup"][args[d].uuid]
        BY <2>1, <3>1, OwnUuid DEF TypeOK, Server
      <3> QED
        BY <2>1, <2>2, <3>2 DEF CallOf, AnswerOf, Unfinished
    <2>4. AnswerOf(c) = replays["backup"][args[c].uuid] /\ AnswerOf(c)' = Decide("backup", args[c])
      BY <2>1, <2>2 DEF AnswerOf
    <2>5. CASE replays["backup"][args[c].uuid] # "none"
      <3>1. Decide("backup", args[c]) = replays["backup"][args[c].uuid] /\ locks' = locks
        BY <2>1, <2>5, OwnUuid, DecideMeans DEF Server
      <3>2. CallOf(c)' = CallOf(c)
        BY <2>1, <2>4, <3>1 DEF CallOf
      <3> QED
        BY <2>1, <2>2, <2>3, <3>1, <3>2, Stutters DEF Held, Available
    <2>6. CASE replays["backup"][args[c].uuid] = "none"
      <3>1. /\ Decide("backup", args[c]) = IF Granted("backup", args[c]) THEN "ok" ELSE "no"
            /\ locks' = [locks EXCEPT !["backup"] = After("backup", args[c])]
        BY <2>1, <2>6, OwnUuid, DecideMeans DEF Server
      <3>2. Held' = After(Outcome, args[c])
        BY <2>1, <2>2, <3>1 DEF Held, TypeOK, Server
      <3>3. AnswerOf(c)' = IF Granted(Outcome, args[c]) THEN "ok" ELSE "no"
        BY <2>2, <2>4, <3>1
      <3>4. Abstract!Perform(c)
        BY <2>1, <2>2, <2>3, <2>4, <2>6, <3>2, <3>3, PerformStep DEF Replied
      <3> QED
        BY <3>4 DEF Abstract!Next
    <2> QED
      BY <2>5, <2>6
  <1>8. ASSUME NEW a \in inbox, LockPrimary(a) PROVE [Abstract!Next]_(Abstract!vars)
    <2> DEFINE c == a.uuid[1]
    <2>1. a \in Args /\ c \in Client /\ pc[c] = "atPrimary" /\ args[c] = a
      BY DEF TypeOK, Args, Uuid, RequestInv, RequestOf
    <2>2. /\ "primary" \in alive /\ mu = "free" /\ UNCHANGED <<alive, replays, pc, args, reply>>
          /\ Execute("primary", a) /\ decided' = Decide("primary", a)
          /\ current' = a /\ mu' \in {"calling", "called"}
      BY <1>8 DEF LockPrimary
    <2>3. Outcome' = Outcome /\ alive # {}
      BY <2>2 DEF Outcome
    <2>4. ASSUME NEW d \in Client \ {c} PROVE CallOf(d)' = CallOf(d)
      <3>1. args[d] # a
        BY <2>4, OwnUuid
      <3> QED
        BY <2>2, <2>3, <3>1 DEF CallOf, AnswerOf, Unfinished
    <2>5. CASE Outcome = "backup"
      <3>1. locks'["backup"] = locks["backup"]
        BY <2>1, <2>2, DecideMeans DEF Server, TypeOK
      <3>2. CallOf(c)' = CallOf(c)
        BY <2>2, <2>3, <2>5 DEF CallOf, AnswerOf
      <3> QED
        BY <2>2, <2>3, <2>4, <2>5, <3>1, <3>2, Stutters DEF Held, Available
    <2>6. CASE Outcome = "primary"
      <3>1. AnswerOf(c) = replays["primary"][a.uuid] /\ AnswerOf(c)' = Decide("primary", a)
        BY <2>1, <2>2, <2>3, <2>6 DEF AnswerOf, Unfinished
      <3>2. CASE replays["primary"][a.uuid] # "none"
        <4>1. Decide("primary", a) = replays["primary"][a.uuid] /\ locks' = locks
          BY <2>1, <2>2, <3>2, DecideMeans DEF Server
        <4>2. CallOf(c)' = CallOf(c)
          BY <2>2, <3>1, <4>1 DEF CallOf
        <4> QED
          BY <2>2, <2>3, <2>4, <4>1, <4>2, Stutters DEF Held, Available
      <3>3. CASE replays["primary"][a.uuid] = "none"
        <4>1. /\ Decide("primary", a) = IF Granted("primary", a) THEN "ok" ELSE "no"
              /\ locks' = [locks EXCEPT !["primary"] = After("primary", a)]
          BY <2>1, <2>2, <3>3, DecideMeans DEF Server
        <4>2. Held' = After(Outcome, args[c])
          BY <2>1, <2>2, <2>3, <2>6, <4>1 DEF Held, TypeOK, Server
        <4>3. AnswerOf(c)' = IF Granted(Outcome, args[c]) THEN "ok" ELSE "no"
          BY <2>1, <2>6, <3>1, <4>1
        <4>4. Abstract!Perform(c)
          <5> HIDE DEF c
          <5> QED
            BY <2>1, <2>2, <2>3, <2>4, <3>1, <3>3, <4>2, <4>3, PerformStep DEF Replied
        <4> QED
          BY <2>1, <4>4 DEF Abstract!Next
      <3> QED
        BY <3>2, <3>3
    <2> QED
      BY <2>5, <2>6 DEF Outcome
  <1>9. CASE CallBackup
    <2>0. PICK c \in Client : c = current.uuid[1]
      BY DEF TypeOK, Args, Uuid
    <2>1. /\ alive = Server /\ mu = "calling" /\ mu' = "called"
          /\ UNCHANGED <<alive, current, decided, pc, args, reply>>
          /\ Execute("backup", current)
          /\ replays' = [replays EXCEPT !["backup"][current.uuid] = Decide("backup", current)]
      BY <1>9 DEF CallBackup, Remember, CrashInv, RequestInv, TypeOK, Server
    <2>2. /\ current \in Args /\ current.uuid \in Uuid
          /\ pc[c] = "atPrimary" /\ args[c] = current
      BY <2>0, <2>1 DEF TypeOK, Args, RequestInv, RequestOf
    <2>3. Outcome = "backup" /\ Outcome' = "backup" /\ alive # {}
      BY <2>1 DEF Outcome, Server
    <2>4. replays["backup"][current.uuid] = "none"
      BY <2>1 DEF ReplicaInv
    <2>5. /\ Decide("backup", current) = IF Granted("backup", current) THEN "ok" ELSE "no"
          /\ locks' = [locks EXCEPT !["backup"] = After("backup", current)]
      BY <2>1, <2>2, <2>4, DecideMeans DEF Server
    <2>6. ASSUME NEW d \in Client \ {c} PROVE CallOf(d)' = CallOf(d)
      <3>1. args[d].uuid # current.uuid
        BY <2>2, <2>6, OwnUuid
      <3>2. replays'["backup"][args[d].uuid] = replays["backup"][args[d].uuid]
        BY <2>1, <2>2, <3>1, OwnUuid DEF TypeOK, Server
      <3> QED
        BY <2>1, <2>3, <3>2 DEF CallOf, AnswerOf
    <2>7. Held' = After(Outcome, args[c])
      BY <2>1, <2>2, <2>3, <2>5 DEF Held, TypeOK, Server
    <2>8. AnswerOf(c) = "none"
      BY <2>1, <2>2, <2>3, <2>4 DEF AnswerOf
    <2>9. AnswerOf(c)' = IF Granted(Outcome, args[c]) THEN "ok" ELSE "no"
      <3>1. replays'["backup"][current.uuid] = Decide("backup", current)
        BY <2>1, <2>2 DEF TypeOK, Server
      <3> QED
        BY <2>1, <2>2, <2>3, <2>5, <3>1 DEF AnswerOf
    <2>10. Abstract!Perform(c)
      BY <2>1, <2>2, <2>3, <2>6, <2>7, <2>8, <2>9, PerformStep DEF Replied
    <2> QED
      BY <2>2, <2>10 DEF Abstract!Next
  <1>10. CASE CallBackupFails
    <2>1. /\ "backup" \notin alive /\ mu # "free" /\ mu' # "free"
          /\ UNCHANGED <<alive, current, decided, locks, replays, pc, args, reply>>
      BY <1>10 DEF CallBackupFails, CrashInv
    <2>2. \A d \in Client : CallOf(d)' = CallOf(d)
      BY <2>1 DEF CallOf, AnswerOf, Unfinished, Outcome
    <2> QED
      BY <2>1, <2>2, Stutters DEF Held, Available, Outcome
  <1>11. CASE FinishPrimary
    <2>0. PICK c \in Client : c = current.uuid[1]
      BY DEF TypeOK, Args, Uuid
    <2>1. /\ "primary" \in alive /\ pc[c] = "atPrimary" /\ args[c] = current /\ mu = "called" /\ mu' = "free"
          /\ current \in Args /\ current.uuid \in Uuid
      BY <1>11, <2>0 DEF FinishPrimary, RequestInv, RequestOf, TypeOK, Args
    <2>2. /\ UNCHANGED <<alive, current, decided, locks, args>>
          /\ replays' = [replays EXCEPT !["primary"][current.uuid] = decided]
          /\ pc' = [pc EXCEPT ![c] = "repliedPrimary"] /\ reply' = [reply EXCEPT ![c] = decided]
      BY <1>11, <2>0, <2>1 DEF FinishPrimary, Remember, CrashInv
    <2>3. Outcome' = Outcome /\ Outcome \in Server /\ alive # {}
      BY <2>1, <2>2 DEF Outcome, Server
    <2>4. ASSUME NEW d \in Client \ {c} PROVE CallOf(d)' = CallOf(d)
      <3>1. args[d].uuid # current.uuid /\ args[d] # current
        BY <2>1, <2>4, OwnUuid
      <3>2. replays'[Outcome][args[d].uuid] = replays[Outcome][args[d].uuid]
        BY <2>1, <2>2, <2>3, <3>1, OwnUuid DEF TypeOK, Server
      <3>3. pc'[d] = pc[d] /\ reply'[d] = reply[d]
        BY <2>2, <2>4 DEF TypeOK
      <3> QED
        BY <2>1, <2>2, <2>3, <3>1, <3>2, <3>3 DEF CallOf, AnswerOf, Unfinished
    <2>5. AnswerOf(c) = decided
      <3>1. CASE "backup" \in alive
        <4>1. alive = Server
          BY <2>1, <3>1 DEF TypeOK, Server
        <4>2. replays["primary"] \in [Uuid -> Answer]
          BY DEF TypeOK, Server
        <4>3. replays["backup"][current.uuid] = decided
          BY <2>1, <4>1, <4>2 DEF ReplicaInv
        <4> QED
          BY <2>1, <2>3, <3>1, <4>3 DEF AnswerOf, Outcome
      <3>2. CASE "backup" \notin alive
        BY <2>1, <2>3, <3>2 DEF AnswerOf, Outcome, Unfinished
      <3> QED
        BY <3>1, <3>2
    <2>6. pc'[c] = "repliedPrimary" /\ reply'[c] = decided
      BY <2>1, <2>2 DEF TypeOK
    <2>7. CallOf(c)' = CallOf(c)
      BY <2>1, <2>2, <2>5, <2>6 DEF CallOf, AnswerOf
    <2> QED
      BY <2>2, <2>3, <2>4, <2>7, Stutters DEF Held, Available
  <1>12. ASSUME NEW s \in Server, Crash(s) PROVE [Abstract!Next]_(Abstract!vars)
    <2>1. /\ s \in alive /\ alive' = alive \ {s} /\ UNCHANGED <<locks, replays, current, decided, pc, args, reply>>
          /\ s = "backup" => mu' = mu
      BY <1>12 DEF Crash
    <2>2. CASE alive' = {}
      <3> DEFINE lost == {d \in Client : ~Replied(d)}
      <3>1. \A d \in Client : CallOf(d)' = IF d \in lost THEN [CallOf(d) EXCEPT !.answer = "none"] ELSE CallOf(d)
        BY <2>1, <2>2 DEF CallOf, AnswerOf, Replied
      <3>2. AbstractCall' = [d \in Client |-> IF d \in lost THEN [AbstractCall[d] EXCEPT !.answer = "none"]
                                                            ELSE AbstractCall[d]]
        BY <3>1 DEF AbstractCall
      <3>3. lost \in SUBSET {d \in Client : AbstractCall[d].status = "pending"}
        BY DEF AbstractCall, CallOf, Replied
      <3>4. Held' = {} /\ Available /\ Available' = FALSE
        BY <2>1, <2>2 DEF Held, Available
      <3> HIDE DEF lost
      <3>5. Abstract!Fail
        BY <3>2, <3>3, <3>4 DEF Abstract!Fail, Held, Available, AbstractCall, CallOf
      <3> QED
        BY <3>5 DEF Abstract!Next
    <2>3. CASE alive' # {} /\ s = "primary"
      <3>1. Outcome = "backup" /\ Outcome' = "backup" /\ alive # {}
        BY <2>1, <2>3 DEF Outcome, TypeOK, Server
      <3>2. \A d \in Client : CallOf(d)' = CallOf(d)
        BY <2>1, <2>3, <3>1 DEF CallOf, AnswerOf
      <3> QED
        BY <2>1, <2>3, <3>1, <3>2, Stutters DEF Held, Available
    <2>4. CASE alive' # {} /\ s = "backup"
      <3>1. Outcome = "backup" /\ Outcome' = "primary" /\ alive = Server
        BY <2>1, <2>4, ZenonT(60) DEF Outcome, TypeOK, Server
      <3>2. CASE mu = "free"
        <4>1. locks["primary"] = locks["backup"] /\ replays["primary"] = replays["backup"]
          BY <3>1, <3>2 DEF ReplicaInv
        <4>2. \A d \in Client : CallOf(d)' = CallOf(d)
          BY <2>1, <2>4, <3>1, <3>2, <4>1 DEF CallOf, AnswerOf, Unfinished, Server
        <4> QED
          BY <2>1, <2>4, <3>1, <4>1, <4>2, Stutters DEF Held, Available, Server
      <3>3. CASE mu = "called"
        <4>1. locks["primary"] = locks["backup"] /\ replays["backup"] = [replays["primary"] EXCEPT ![current.uuid] = decided]
          BY <3>1, <3>3 DEF ReplicaInv
        <4>2. replays["primary"] \in [Uuid -> Answer]
          BY DEF TypeOK, Server
        <4>3. ASSUME NEW d \in Client PROVE CallOf(d)' = CallOf(d)
          <5>1. Unfinished(d) => replays["backup"][args[d].uuid] = decided
            BY <4>1, <4>2, OwnUuid DEF Unfinished
          <5>2. ~Unfinished(d) => replays["backup"][args[d].uuid] = replays["primary"][args[d].uuid]
            <6>1. ~Unfinished(d) => args[d].uuid # current.uuid
              BY <3>3, OwnUuid DEF Unfinished, RequestInv, RequestOf
            <6> QED
              BY <4>1, <4>2, <6>1, OwnUuid
          <5>3. Unfinished(d)' = Unfinished(d)
            BY <2>1, <2>4 DEF Unfinished
          <5> QED
            BY <2>1, <2>4, <3>1, <5>1, <5>2, <5>3 DEF CallOf, AnswerOf, Server
        <4> QED
          BY <2>1, <2>4, <3>1, <4>1, <4>3, Stutters DEF Held, Available, Server
      <3>4. CASE mu = "calling"
        <4>0. PICK c \in Client : c = current.uuid[1]
          BY DEF TypeOK, Args, Uuid
        <4>1. pc[c] = "atPrimary" /\ args[c] = current
          BY <3>4, <4>0 DEF RequestInv, RequestOf
        <4>2. /\ locks["primary"] = After("backup", current)
              /\ decided = IF Granted("backup", current) THEN "ok" ELSE "no"
              /\ replays["primary"] = replays["backup"] /\ replays["backup"][current.uuid] = "none"
          BY <3>1, <3>4 DEF ReplicaInv
        <4>3. ASSUME NEW d \in Client \ {c} PROVE CallOf(d)' = CallOf(d)
          <5>1. args[d] # current
            BY <4>1, <4>3, OwnUuid
          <5> QED
            BY <2>1, <2>4, <3>1, <4>2, <5>1 DEF CallOf, AnswerOf, Unfinished, Server
        <4>4. /\ AnswerOf(c) = "none"
              /\ AnswerOf(c)' = IF Granted(Outcome, args[c]) THEN "ok" ELSE "no"
          BY <2>1, <2>4, <3>1, <3>4, <4>1, <4>2 DEF AnswerOf, Unfinished, Server
        <4>5. Held' = After(Outcome, args[c])
          BY <2>1, <2>4, <3>1, <4>1, <4>2 DEF Held
        <4>6. Abstract!Perform(c)
          BY <2>1, <2>4, <3>1, <4>1, <4>3, <4>4, <4>5, PerformStep DEF Replied, Server
        <4> QED
          BY <4>6 DEF Abstract!Next
      <3> QED
        BY <3>2, <3>3, <3>4 DEF TypeOK
    <2> QED
      BY <2>2, <2>3, <2>4 DEF Server
  <1>13. ASSUME NEW s \in Server, kill(s) \/ Dying PROVE FALSE
    BY <1>13 DEF CrashOnly, kill, Dying
  <1>14. CASE UNCHANGED vars
    BY <1>14, Stutters DEF vars, Held, Available, CallOf, AnswerOf, Unfinished, Outcome
  <1>15. \A c \in Client : (\E kind \in {"Lock", "Unlock"}, l \in Lockname : Invoke(c, kind, l)) => Abstract!Next
    BY <1>1 DEF Abstract!Next
  <1>16. \A c \in Client : BackupFails(c) \/ Return(c) => Abstract!Next
    BY <1>5, <1>6 DEF Abstract!Next
  <1> QED
    BY <1>2, <1>3, <1>4, <1>7, <1>8, <1>9, <1>10, <1>11, <1>12, <1>13, <1>14, <1>15, <1>16 DEF Next, Clerk, Handler, Server

\* Every Lock and Unlock takes effect exactly once, atomically, and is answered
\* by the state of the lock at that moment, across the retry at the backup
\* and the crash of either server, for any clerks, locks and number of calls
\* (LockServer.Lock and Unlock with their replays, Clerk.Lock and Unlock).
THEOREM LockServiceRefines == ASSUME CrashOnly PROVE Spec => ImplementsLockSpec
  <1>1. Spec => [](TypeOK /\ IInv)
    <2>1. Init => TypeOK /\ IInv
      BY InitTypeOK, InitIInv
    <2>2. (TypeOK /\ IInv) /\ [Next]_vars => (TypeOK /\ IInv)'
      BY NextTypeOK, NextIInv
    <2> QED
      BY <2>1, <2>2, PTL DEF Spec
  <1>2. Init => Abstract!Init
    BY InitRefines
  <1>3. (TypeOK /\ IInv) /\ [Next]_vars => [Abstract!Next]_(Abstract!vars)
    BY StepRefines
  <1> QED
    BY <1>1, <1>2, <1>3, PTL DEF Spec, ImplementsLockSpec, Abstract!Spec
=============================================================================
