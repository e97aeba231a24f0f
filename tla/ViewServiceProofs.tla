-------------------------- MODULE ViewServiceProofs --------------------------
(* Theorems about the view server, for any number of servers and any        *)
(* DeadPings, MaxLate and MaxViewnum.                                       *)
EXTENDS ViewService, TLAPS

\* The view number is that of the view as formed; until the primary
\* acknowledges it nothing of the view is struck out, so that the ping that
\* sets acked comes from the primary the view was formed with.
AckInv ==
    /\ formed.Viewnum = view.Viewnum
    /\ ~acked => formed = view
    /\ acked /\ view.Viewnum > 0 => view.Viewnum \in acks
    /\ \A n \in Nat : 0 < n /\ n < view.Viewnum => n \in acks

\* The note that the primary restarted outlives no tick() that can use it,
\* and the primary it is about pinged since the last one.
RestartInv ==
    /\ primaryRestarted /\ vsStatus # "panicked" =>
          /\ acked
          /\ view.Primary \in known \ dead
          /\ age[view.Primary] <= sinceTick
    /\ vsStatus = "panicked" => sinceTick > DeadPings

IInv == TypeOK /\ AckInv /\ RestartInv
-----------------------------------------------------------------------------
\* StartServer() establishes the invariant.
LEMMA InitIInv == Init => IInv
  <1> SUFFICES ASSUME Init PROVE IInv
    OBVIOUS
  <1>0. 0 \in 0..(DeadPings + 1) /\ 0 \in 0..MaxLate
    BY ViewServiceAssumption
  <1>1. view \in View /\ formed = view /\ view.Viewnum = 0
    BY DEF Init, View
  <1>2. TypeOK
    BY <1>0, <1>1 DEF Init, TypeOK
  <1>3. AckInv
    BY <1>1 DEF Init, AckInv
  <1>4. RestartInv
    BY DEF Init, RestartInv
  <1> QED BY <1>2, <1>3, <1>4 DEF IInv

\* What FillRoles does to the view, the flags and the history, when it is
\* called with roles that are vacant or held by known clients.
LEMMA FillRolesLemma ==
  ASSUME IInv, acked,
         NEW p \in known \cup {None}, NEW b \in known \cup {None},
         NEW idleFlags \in SUBSET known,
         FillRoles(p, b, idleFlags)
  PROVE  /\ idle' \in SUBSET known
         /\ acked' \in BOOLEAN
         /\ view' \in View /\ formed' \in View
         /\ {view'.Primary, view'.Backup} \subseteq known \cup {None}
         /\ \/ /\ view'.Viewnum = view.Viewnum
               /\ acked' = acked /\ formed' = formed
            \/ /\ view'.Viewnum = view.Viewnum + 1
               /\ acked' = FALSE /\ formed' = view'
  <1> DEFINE Goal == /\ idle' \in SUBSET known
                     /\ acked' \in BOOLEAN
                     /\ view' \in View /\ formed' \in View
                     /\ {view'.Primary, view'.Backup} \subseteq known \cup {None}
                     /\ \/ /\ view'.Viewnum = view.Viewnum
                           /\ acked' = acked /\ formed' = formed
                        \/ /\ view'.Viewnum = view.Viewnum + 1
                           /\ acked' = FALSE /\ formed' = view'
  <1>0. /\ view \in View /\ formed \in View /\ acked \in BOOLEAN
        /\ known \subseteq Server
    BY DEF IInv, TypeOK
  <1>1. IdleClients \subseteq known /\ InitedIdleClients \subseteq known
    BY DEF IInv, TypeOK, IdleClients, InitedIdleClients, IdleNow, TimedOut
  <1>2. ASSUME NEW q \in known \cup {None}, NEW c \in known \cup {None},
               NewView(q, c), idle' \in SUBSET known
        PROVE  Goal
    <2>1. /\ view' = [Viewnum |-> view.Viewnum + 1, Primary |-> q, Backup |-> c]
          /\ acked' = FALSE /\ formed' = view'
      BY <1>2 DEF NewView
    <2>2. view'.Viewnum = view.Viewnum + 1 /\ view'.Primary = q /\ view'.Backup = c
      BY <2>1
    <2>3. view.Viewnum + 1 \in Nat
      BY <1>0 DEF View
    <2>4. q \in Server \cup {None} /\ c \in Server \cup {None}
      BY <1>0
    <2>5. view' \in View
      BY <2>1, <2>3, <2>4 DEF View
    <2> QED BY <1>2, <2>1, <2>2, <2>5
  <1>3. ASSUME NEW q \in known \cup {None}, NEW c \in known \cup {None},
               SameView(q, c), idle' \in SUBSET known
        PROVE  Goal
    BY <1>0, <1>3 DEF SameView, View
  <1>4. CASE p = None /\ b = None
    <2>1. CASE \E s \in InitedIdleClients : NewView(s, None) /\ idle' = idleFlags \ {s}
      BY <2>1, <1>1, <1>2
    <2>2. CASE SameView(p, b) /\ idle' = idleFlags
      BY <2>2, <1>3
    <2> QED BY <2>1, <2>2, <1>4 DEF FillRoles
  <1>5. CASE p = None /\ b # None
    <2>1. idle' = idleFlags /\ (NewView(b, None) \/ SameView(p, b))
      BY <1>5 DEF FillRoles
    <2> QED BY <2>1, <1>2, <1>3
  <1>6. CASE p # None /\ b = None
    <2>1. CASE \E s \in IdleClients : NewView(p, s) /\ idle' = idleFlags \ {s}
      BY <2>1, <1>1, <1>2
    <2>2. CASE SameView(p, b) /\ idle' = idleFlags
      BY <2>2, <1>3
    <2> QED BY <2>1, <2>2, <1>6 DEF FillRoles
  <1>7. CASE p # None /\ b # None
    <2>1. idle' = idleFlags /\ SameView(p, b)
      BY <1>7 DEF FillRoles
    <2> QED BY <2>1, <1>3
  <1> QED BY <1>4, <1>5, <1>6, <1>7

\* The Ping handler preserves the invariant.
LEMMA PingIInv ==
  ASSUME IInv, NEW me \in Server, NEW num \in 0..view.Viewnum, Ping(me, num)
  PROVE  IInv'
  <1>0. num \in Nat
    BY DEF IInv, TypeOK, View
  <1>1. TypeOK'
    BY <1>0, ViewServiceAssumption DEF IInv, TypeOK, Ping, View
  <1>2. AckInv'
    <2>1. /\ view' = view /\ formed' = formed /\ acks \subseteq acks'
      BY DEF Ping
    <2>2. acked' /\ view.Viewnum > 0 => view.Viewnum \in acks'
      BY <2>1 DEF Ping, IInv, AckInv
    <2>3. ~acked' => ~acked
      BY DEF Ping
    <2> QED BY <2>1, <2>2, <2>3 DEF IInv, AckInv
  <1>3. RestartInv'
    <2>1. /\ vsStatus' = vsStatus /\ vsStatus = "up" /\ view' = view
          /\ sinceTick' = sinceTick /\ sinceTick \in Nat
      BY ViewServiceAssumption DEF Ping, IInv, TypeOK
    <2>2. ASSUME primaryRestarted'
          PROVE  /\ acked'
                 /\ view.Primary \in known' \ dead'
                 /\ age'[view.Primary] <= sinceTick
      <3>1. CASE primaryRestarted
        <4>1. /\ acked /\ view.Primary \in known \ dead
              /\ age[view.Primary] <= sinceTick /\ view.Primary \in Server
          BY <2>1, <3>1 DEF IInv, RestartInv, TypeOK
        <4>2. acked' /\ view.Primary \in known' \ dead'
          BY <4>1 DEF Ping
        <4>3. age'[view.Primary] = IF view.Primary = me THEN 0 ELSE age[view.Primary]
          BY <4>1 DEF Ping, IInv, TypeOK
        <4> QED BY <2>1, <4>1, <4>2, <4>3
      <3>2. CASE me = view.Primary /\ acked'
        BY <2>1, <3>2 DEF Ping, IInv, TypeOK, View
      <3> QED BY <2>2, <3>1, <3>2 DEF Ping
    <2> QED BY <2>1, <2>2 DEF RestartInv
  <1> QED BY <1>1, <1>2, <1>3 DEF IInv

\* The passing of time preserves the invariant.
LEMMA ElapseIInv ==
  ASSUME IInv, Elapse
  PROVE  IInv'
  <1>1. TypeOK'
    BY ViewServiceAssumption DEF IInv, TypeOK, Elapse, historyVars, View
  <1>2. AckInv'
    BY DEF IInv, AckInv, Elapse, historyVars
  <1>3. RestartInv'
    BY ViewServiceAssumption DEF IInv, TypeOK, RestartInv, Elapse, View
  <1> QED BY <1>1, <1>2, <1>3 DEF IInv

\* tick() preserves the invariant.
LEMMA TickIInv ==
  ASSUME IInv, tick
  PROVE  IInv'
  <1>0. /\ TimedOut \subseteq known /\ DeadNow \subseteq known /\ IdleNow \subseteq known
        /\ LivePrimary \in known \cup {None} /\ LiveBackup \in known \cup {None}
    BY DEF IInv, TypeOK, TimedOut, DeadNow, IdleNow, LivePrimary, LiveBackup
  <1>f. ASSUME TickFrame
        PROVE  /\ known' = known /\ lastViewnum' = lastViewnum /\ age' = age
               /\ acks' = acks /\ sinceTick' = 0 /\ sinceTick' \in 0..MaxLate
    BY <1>f, ViewServiceAssumption DEF TickFrame
  <1>1. CASE TickUnacked
    <2>1. TypeOK'
      <3>1. TickFrame
        BY <1>1 DEF TickUnacked
      <3>2. DeadNow \subseteq known /\ IdleNow \subseteq known
        BY <1>0
      <3> QED BY <1>1, <1>f, <3>1, <3>2 DEF IInv, TypeOK, TickUnacked
    <2>2. AckInv'
      BY <1>1, <1>f DEF IInv, AckInv, TickUnacked
    <2>3. RestartInv'
      BY <1>1 DEF IInv, RestartInv, TickUnacked, tick
    <2> QED BY <2>1, <2>2, <2>3 DEF IInv
  <1>2. ASSUME acked, TickFrame, dead' = DeadNow, vsStatus' = "up",
               primaryRestarted' = FALSE,
               NEW p \in known \cup {None}, NEW idleFlags \in SUBSET known,
               FillRoles(p, LiveBackup, idleFlags)
        PROVE  IInv'
    <2>1. /\ idle' \in SUBSET known
          /\ acked' \in BOOLEAN
          /\ view' \in View /\ formed' \in View
          /\ {view'.Primary, view'.Backup} \subseteq known \cup {None}
          /\ \/ /\ view'.Viewnum = view.Viewnum
                /\ acked' = acked /\ formed' = formed
             \/ /\ view'.Viewnum = view.Viewnum + 1
                /\ acked' = FALSE /\ formed' = view'
      BY <1>0, <1>2, FillRolesLemma
    <2>2. TypeOK'
      <3>1. DeadNow \subseteq known
        BY <1>0
      <3> QED BY <1>2, <1>f, <2>1, <3>1 DEF IInv, TypeOK
    <2>3. AckInv'
      <3>0. view.Viewnum \in Nat /\ acks' = acks
        BY <1>2, <1>f DEF IInv, TypeOK, View
      <3>1. CASE view'.Viewnum = view.Viewnum /\ acked' = acked /\ formed' = formed
        BY <1>2, <3>0, <3>1 DEF IInv, AckInv
      <3>2. CASE view'.Viewnum = view.Viewnum + 1 /\ acked' = FALSE /\ formed' = view'
        <4>1. \A n \in Nat : 0 < n /\ n < view'.Viewnum => n \in acks'
          <5>1. SUFFICES ASSUME NEW n \in Nat, 0 < n, n < view.Viewnum + 1
                         PROVE  n \in acks
            BY <3>0, <3>2
          <5>2. n < view.Viewnum \/ n = view.Viewnum
            BY <3>0, <5>1
          <5> QED BY <1>2, <3>0, <5>1, <5>2 DEF IInv, AckInv
        <4> QED BY <3>2, <4>1 DEF AckInv
      <3> QED BY <2>1, <3>1, <3>2
    <2>4. RestartInv'
      BY <1>2 DEF RestartInv
    <2> QED BY <2>2, <2>3, <2>4 DEF IInv
  <1>3. CASE TickAcked
    BY <1>0, <1>2, <1>3 DEF TickAcked, IInv, TypeOK, tick
  <1>4. CASE TickRestarted
    BY <1>0, <1>2, <1>4 DEF TickRestarted, IInv, TypeOK, tick
  <1>5. CASE TickPanic
    <2>1. view.Primary \in known \ dead /\ age[view.Primary] <= sinceTick
      BY <1>5 DEF IInv, RestartInv, TickPanic, tick
    <2>2. view.Primary \in TimedOut
      BY <1>5, <2>1, ViewServiceAssumption
         DEF TickPanic, LivePrimary, DeadNow, IInv, TypeOK
    <2>3. sinceTick > DeadPings
      BY <2>1, <2>2, ViewServiceAssumption DEF TimedOut, IInv, TypeOK
    <2> QED BY <1>5, <2>3 DEF TickPanic, IInv, TypeOK, AckInv, RestartInv,
                              clientVars, historyVars
  <1> QED BY <1>1, <1>3, <1>4, <1>5 DEF tick

\* Every step preserves the invariant.
LEMMA NextIInv == IInv /\ [Next]_vars => IInv'
  <1> SUFFICES ASSUME IInv, [Next]_vars PROVE IInv'
    OBVIOUS
  <1>1. ASSUME NEW s \in Server, NEW n \in 0..view.Viewnum, Ping(s, n) PROVE IInv'
    BY <1>1, PingIInv
  <1>2. CASE Elapse
    BY <1>2, ElapseIInv
  <1>3. CASE tick
    BY <1>3, TickIInv
  <1>4. CASE Kill
    BY <1>4 DEF Kill, IInv, TypeOK, AckInv, RestartInv, clientVars, historyVars
  <1>5. CASE UNCHANGED vars
    BY <1>5 DEF vars, IInv, TypeOK, AckInv, RestartInv, clientVars, historyVars
  <1> QED BY <1>1, <1>2, <1>3, <1>4, <1>5 DEF Next

\* What Ping and tick keep: clients, ticks since a ping and the view belong
\* together (viewservice/server.go).
THEOREM Invariance == Spec => []IInv
  BY InitIInv, NextIInv, PTL DEF Spec

\* Type correctness: in particular tick() never looks up a role of a client
\* that is not in vs.clients, except for the panic that TickPanic models.
THEOREM TypeCorrect == Spec => []TypeOK
  <1>1. IInv => TypeOK
    BY DEF IInv
  <1> QED BY <1>1, Invariance, PTL

\* The view server leaves no view that its primary did not acknowledge.
THEOREM ViewsAreAcknowledged == Spec => []PastViewsAcked
  <1>1. IInv => PastViewsAcked
    BY DEF IInv, AckInv, PastViewsAcked
  <1> QED BY <1>1, Invariance, PTL

\* The nil dereference in tick() needs a ticker more than DeadPings late.
THEOREM PanicNeedsLateTick == Spec => []PanicOnlyIfTickLate
  <1>1. IInv => PanicOnlyIfTickLate
    BY DEF IInv, RestartInv, PanicOnlyIfTickLate
  <1> QED BY <1>1, Invariance, PTL
=============================================================================
