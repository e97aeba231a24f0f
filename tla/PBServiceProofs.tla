--------------------------- MODULE PBServiceProofs ---------------------------
(* Theorems about the primary/backup key-value service, for any servers,    *)
(* clerks, numbers of Puts and views, and any timing of the view server.    *)
EXTENDS PBService, TLAPS

\* What is proved about the view server alone is used here.
VSP == INSTANCE ViewServiceProofs

\* No server is ahead of the view server, and views of one number differ only
\* in the roles that were struck out.
LearnedInv ==
    /\ \A s \in Server : pbView[s].Viewnum <= view.Viewnum
    /\ view.Primary \in {formed.Primary, None}
    /\ \A s \in Server : pbView[s].Viewnum = view.Viewnum
                            => pbView[s].Primary \in {formed.Primary, None}
    /\ \A s, t \in Server : pbView[s].Viewnum = pbView[t].Viewnum
                               => \/ pbView[s].Primary = pbView[t].Primary
                                  \/ None \in {pbView[s].Primary, pbView[t].Primary}

\* The handler that waits for the backup has the request of a clerk, and a
\* request whose reply reaches a server is the one that server waits for.
Handling(s) == mu[s] \in {"forward", "forwarded", "rejected"}
ServingInv == \A s \in Server : Handling(s) => serving[s] \in ClerkRequest
Sent(r, b) == /\ pbView[r.from].Backup = b
              /\ \/ mu[r.from] = "forward" /\ r = Forwarded(r.from, serving[r.from])
                 \/ mu[r.from] = "sync" /\ r = SyncOf(r.from)
SentInv == \A b \in Server : \A r \in inbox[b] : r.from \in Server /\ ~r.deaf => Sent(r, b)

IInv == TypeOK /\ VSP!IInv /\ LearnedInv /\ ServingInv /\ SentInv
-----------------------------------------------------------------------------
(* The view server in the composition.                                     *)

LEMMA ViewTypes == VSP!IInv => VS!TypeOK
  BY DEF VSP!IInv, VS!TypeOK, VSP!TypeOK, VS!View, VSP!View

LEMMA PingKeeps ==
    ASSUME VSP!IInv, NEW me \in Server, NEW num \in Nat, num <= view.Viewnum, VS!Ping(me, num)
    PROVE  VSP!IInv'
  <1>1. VSP!Ping(me, num)
    BY DEF VS!Ping, VSP!Ping
  <1>2. num \in 0..view.Viewnum
    BY DEF VSP!IInv, VSP!TypeOK, VSP!View
  <1> QED
    BY <1>1, <1>2, PBServiceAssumption, VSP!PingIInv

LEMMA ElapseKeeps == ASSUME VSP!IInv, VS!Elapse PROVE VSP!IInv'
  <1>1. VSP!Elapse
    BY DEF VS!Elapse, VSP!Elapse, VS!historyVars, VSP!historyVars
  <1> QED
    BY <1>1, PBServiceAssumption, VSP!ElapseIInv

LEMMA TickKeeps == ASSUME VSP!IInv, VS!tick PROVE VSP!IInv'
  <1>1. VSP!tick
    BY DEF VS!tick, VSP!tick, VS!TickUnacked, VSP!TickUnacked, VS!TickAcked, VSP!TickAcked,
           VS!TickRestarted, VSP!TickRestarted, VS!TickPanic, VSP!TickPanic, VS!TickFrame,
           VSP!TickFrame, VS!FillRoles, VSP!FillRoles, VS!NewView, VSP!NewView, VS!SameView,
           VSP!SameView, VS!DeadNow, VSP!DeadNow, VS!IdleNow, VSP!IdleNow, VS!TimedOut,
           VSP!TimedOut, VS!LivePrimary, VSP!LivePrimary, VS!LiveBackup, VSP!LiveBackup,
           VS!IdleClients, VSP!IdleClients, VS!InitedIdleClients, VSP!InitedIdleClients,
           VS!clientVars, VSP!clientVars, VS!historyVars, VSP!historyVars
  <1> QED
    BY <1>1, PBServiceAssumption, VSP!TickIInv

LEMMA IdleViewServer == ASSUME VSP!IInv, UNCHANGED vsVars PROVE VSP!IInv'
  BY DEF vsVars, VSP!IInv, VSP!TypeOK, VSP!AckInv, VSP!RestartInv

\* A tick() forms a view with the next number, or strikes roles out.
LEMMA TickView ==
    ASSUME VSP!IInv, VS!tick
    PROVE  \/ /\ formed' = formed /\ view'.Viewnum = view.Viewnum
              /\ view'.Primary \in {view.Primary, None}
           \/ formed' = view' /\ view'.Viewnum = view.Viewnum + 1
  <1>0. view \in VS!View
    BY ViewTypes DEF VS!TypeOK
  <1>1. ASSUME NEW p, NEW b, VS!SameView(p, b)
        PROVE  formed' = formed /\ view'.Viewnum = view.Viewnum /\ view'.Primary = p
    BY <1>0, <1>1 DEF VS!SameView, VS!View
  <1>2. ASSUME NEW p, NEW b, VS!NewView(p, b)
        PROVE  formed' = view' /\ view'.Viewnum = view.Viewnum + 1
    BY <1>2 DEF VS!NewView
  <1>3. ASSUME NEW p \in {view.Primary, None}, NEW b, NEW flags, VS!FillRoles(p, b, flags)
        PROVE  \/ /\ formed' = formed /\ view'.Viewnum = view.Viewnum
                  /\ view'.Primary \in {view.Primary, None}
               \/ formed' = view' /\ view'.Viewnum = view.Viewnum + 1
    BY <1>1, <1>2, <1>3 DEF VS!FillRoles
  <1>4. VS!LivePrimary \in {view.Primary, None}
    BY DEF VS!LivePrimary
  <1>5. CASE VS!TickUnacked \/ VS!TickPanic
    BY <1>5 DEF VS!TickUnacked, VS!TickPanic, VS!historyVars
  <1>6. CASE VS!TickAcked
    BY <1>3, <1>4, <1>6 DEF VS!TickAcked
  <1>7. CASE VS!TickRestarted
    BY <1>3, <1>7 DEF VS!TickRestarted
  <1> QED
    BY <1>5, <1>6, <1>7 DEF VS!tick
-----------------------------------------------------------------------------
(* Types, and what servers know of the views.                               *)

ClerkTypes ==
    /\ pc \in [Clerk -> {"idle", "update", "call", "waiting"}]
    /\ ckView \in [Clerk -> VS!View]
    /\ op \in [Clerk -> Op]
    /\ result \in [Clerk -> Value]
    /\ puts \in Value /\ returned \subseteq Value /\ before \in [Value -> SUBSET Value]
    /\ floor \in [Clerk -> SUBSET Value] /\ overtaken \in BOOLEAN
ServerTypes ==
    /\ up \subseteq started /\ started \subseteq Server
    /\ pbView \in [Server -> VS!View]
    /\ store \in [Server -> Value]
    /\ inbox \in [Server -> SUBSET Request]
    /\ mu \in [Server -> {"free", "forward", "forwarded", "rejected", "sync"}]
    /\ serving \in [Server -> Request \cup {None}]

LEMMA SplitTypes == /\ TypeOK = (VS!TypeOK /\ ServerTypes /\ ClerkTypes)
                    /\ TypeOK' = (VS!TypeOK /\ ServerTypes /\ ClerkTypes)'
  BY DEF TypeOK, ServerTypes, ClerkTypes

LEMMA ViewTypesNext == VSP!IInv' => VS!TypeOK'
  BY DEF VSP!IInv, VS!TypeOK, VSP!TypeOK, VS!View, VSP!View

LEMMA ZeroValue == 0 \in Value
  BY PBServiceAssumption DEF Value

LEMMA InitIInv == Init => IInv
  <1> SUFFICES ASSUME Init PROVE IInv
    OBVIOUS
  <1>1. VSP!Init
    BY DEF Init, VS!Init, VSP!Init
  <1>2. VSP!IInv
    BY <1>1, PBServiceAssumption, VSP!InitIInv
  <1>3. NoView \in VS!View
    BY PBServiceAssumption DEF NoView, VS!View
  <1>4. TypeOK
    BY <1>2, <1>3, ZeroValue, ViewTypes DEF Init, TypeOK, Op, Request
  <1>5. LearnedInv
    <2>1. view = NoView /\ formed = view
      BY DEF Init, VS!Init, NoView
    <2> QED
      BY <2>1 DEF Init, LearnedInv, NoView
  <1>6. ServingInv /\ SentInv
    BY DEF Init, ServingInv, SentInv, Handling
  <1> QED
    BY <1>2, <1>4, <1>5, <1>6 DEF IInv

\* A server takes the view as it is.
LEMMA AdoptKeeps ==
    ASSUME LearnedInv, NEW s \in Server, view \in VS!View, pbView \in [Server -> VS!View],
           view' = view, formed' = formed, pbView' \in {pbView, [pbView EXCEPT ![s] = view]}
    PROVE  LearnedInv' /\ pbView' \in [Server -> VS!View]
  BY DEF LearnedInv, VS!View

\* The kinds of requests that clerks and servers send.
LEMMA RequestKinds ==
    ASSUME NEW r \in Request
    PROVE  /\ r.value \in Value /\ r.deaf \in BOOLEAN
           /\ r.kind \in {"get", "put"} => r \in ClerkRequest /\ r.from \in Clerk
           /\ r.kind \in {"forwardGet", "forwardPut", "sync"} => r \in ServerRequest /\ r.from \in Server
           /\ r.from \in Server => r.kind \in {"forwardGet", "forwardPut", "sync"}
  <1>1. CASE r \in ClerkRequest
    BY <1>1, PBServiceAssumption DEF ClerkRequest
  <1>2. CASE r \in ServerRequest
    BY <1>2 DEF ServerRequest
  <1> QED
    BY <1>1, <1>2 DEF Request

LEMMA LateRequest ==
    ASSUME NEW r \in Request, NEW x \in Late(r)
    PROVE  /\ x \in Request /\ x.deaf = TRUE
           /\ x.from = r.from /\ x.kind = r.kind /\ x.value = r.value
  <1>1. x = [r EXCEPT !.deaf = TRUE]
    BY DEF Late
  <1>2. CASE r \in ClerkRequest
    BY <1>1, <1>2 DEF ClerkRequest, Request
  <1>3. CASE r \in ServerRequest
    BY <1>1, <1>3 DEF ServerRequest, Request
  <1> QED
    BY <1>2, <1>3 DEF Request

\* A call puts its request, or a deaf copy of it, where it goes.
LEMMA ArrivingRequest ==
    ASSUME NEW r \in Request, NEW b, NEW got \in Arrivals(b, r)
    PROVE  /\ got \subseteq Request
           /\ \A x \in got : x = r \/ (x.deaf = TRUE /\ x.from = r.from)
  <1>1. got \in {{}, {r}, Late(r)}
    BY DEF Arrivals
  <1> QED
    BY <1>1, LateRequest

LEMMA InboxTypes ==
    ASSUME ServerTypes, NEW s, NEW taken, NEW b, NEW got \in SUBSET Request,
           TakeAndCall(s, taken, b, got)
    PROVE  inbox' \in [Server -> SUBSET Request]
  BY DEF ServerTypes, TakeAndCall

LEMMA ForwardedRequest ==
    ASSUME NEW s \in Server, NEW r \in ClerkRequest
    PROVE  Forwarded(s, r) \in Request
  BY DEF Forwarded, ClerkRequest, ServerRequest, Request

LEMMA SyncRequest == ASSUME ServerTypes, NEW s \in Server PROVE SyncOf(s) \in Request
  BY DEF SyncOf, ServerTypes, ServerRequest, Request

\* The caller of a request gets the answer.
LEMMA ReplyTypes ==
    ASSUME ClerkTypes, NEW r \in ClerkRequest, NEW wrongServer \in BOOLEAN, NEW value \in Value,
           Reply(r, wrongServer, value)
    PROVE  ClerkTypes'
  BY DEF ClerkTypes, ClerkRequest, Reply, clerkVars, pastVars

LEMMA ValueAfterType ==
    ASSUME ServerTypes, NEW s \in Server, NEW r \in Request
    PROVE  ValueAfter(s, r) \in Value
  BY RequestKinds DEF ServerTypes, ValueAfter

\* What becomes of the requests that are answered to servers, in a step that
\* changes the states of the servers in moved only.
LEMMA SentKeeps ==
    ASSUME SentInv, NEW moved,
           \A t \in Server \ moved : /\ mu'[t] = mu[t] /\ serving'[t] = serving[t]
                                     /\ pbView'[t] = pbView[t] /\ store'[t] = store[t],
           \A b \in Server : \A r \in inbox'[b] :
               \/ r \in inbox[b] /\ r.from \notin moved
               \/ r.deaf \/ r.from \notin Server \/ Sent(r, b)'
    PROVE  SentInv'
  <1> SUFFICES ASSUME NEW b \in Server, NEW r \in inbox'[b], r.from \in Server, ~r.deaf
               PROVE  Sent(r, b)'
    BY DEF SentInv
  <1>1. CASE r \in inbox[b] /\ r.from \notin moved
    <2>1. Sent(r, b)
      BY <1>1 DEF SentInv
    <2> QED
      BY <1>1, <2>1 DEF Sent, Forwarded, SyncOf
  <1> QED
    BY <1>1

LEMMA SentKeepsBut ==
    ASSUME SentInv, NEW s \in Server,
           \A b \in Server : \A r \in inbox[b] : r.from = s => r.deaf,
           \A t \in Server \ {s} : /\ mu'[t] = mu[t] /\ serving'[t] = serving[t]
                                   /\ pbView'[t] = pbView[t] /\ store'[t] = store[t],
           \A b \in Server : \A r \in inbox'[b] :
               r \in inbox[b] \/ r.deaf \/ r.from \notin Server \/ Sent(r, b)'
    PROVE  SentInv'
  <1> DEFINE moved == {s}
  <1>1. \A b \in Server : \A r \in inbox'[b] :
               \/ r \in inbox[b] /\ r.from \notin moved
               \/ r.deaf \/ r.from \notin Server \/ Sent(r, b)'
    OBVIOUS
  <1>2. \A t \in Server \ moved : /\ mu'[t] = mu[t] /\ serving'[t] = serving[t]
                                  /\ pbView'[t] = pbView[t] /\ store'[t] = store[t]
    OBVIOUS
  <1> HIDE DEF moved
  <1> QED
    BY <1>1, <1>2, SentKeeps

\* Nothing is under way from a server that does not wait for its backup.
LEMMA NothingSent ==
    ASSUME SentInv, NEW s \in Server, mu[s] \notin {"forward", "sync"}
    PROVE  \A b \in Server : \A r \in inbox[b] : r.from = s => r.deaf
  BY DEF SentInv, Sent
LEMMA NothingUnanswered ==
    ASSUME SentInv, NEW s \in Server, Unanswered(s, pbView[s].Backup)
    PROVE  \A b \in Server : \A r \in inbox[b] : r.from = s => r.deaf
  BY DEF SentInv, Sent, Unanswered
\* A request that is answered is the only one of its caller.
LEMMA OnlySent ==
    ASSUME SentInv, NEW b \in Server, NEW r \in inbox[b], r.from \in Server, ~r.deaf
    PROVE  /\ Sent(r, b)
           /\ \A d \in Server : \A x \in inbox[d] : x.from = r.from /\ ~x.deaf => d = b /\ x = r
  <1>1. Sent(r, b)
    BY DEF SentInv
  <1>2. ASSUME NEW d \in Server, NEW x \in inbox[d], x.from = r.from, ~x.deaf PROVE d = b /\ x = r
    <2>1. Sent(x, d)
      BY <1>2 DEF SentInv
    <2> QED
      BY <1>1, <1>2, <2>1 DEF Sent
  <1> QED
    BY <1>1, <1>2

LEMMA NextIInv == IInv /\ [Next]_vars => IInv'
  <1> SUFFICES ASSUME IInv, [Next]_vars PROVE IInv'
    OBVIOUS
  <1> USE PBServiceAssumption
  <1>0. /\ VSP!IInv /\ VS!TypeOK /\ ServerTypes /\ ClerkTypes /\ LearnedInv /\ ServingInv
        /\ SentInv /\ view \in VS!View
    BY SplitTypes DEF IInv, VS!TypeOK
  <1>a. VSP!IInv' /\ ServerTypes' /\ ClerkTypes' /\ LearnedInv' /\ ServingInv' /\ SentInv' => IInv'
    BY SplitTypes, ViewTypesNext DEF IInv
  <1>b. UNCHANGED <<vsVars, pbView>> => VSP!IInv' /\ LearnedInv'
    BY <1>0, IdleViewServer DEF LearnedInv, vsVars
  <1>c. UNCHANGED pbVars => ServerTypes' /\ ServingInv' /\ SentInv'
    BY <1>0 DEF pbVars, ServerTypes, ServingInv, Handling, SentInv, Sent, Forwarded, SyncOf
  <1>d. UNCHANGED <<clerkVars, pastVars>> => ClerkTypes'
    BY <1>0 DEF clerkVars, pastVars, ClerkTypes
  <1>e. UNCHANGED <<mu, serving>> => ServingInv'
    BY <1>0 DEF ServingInv, Handling
  \* The clerks.
  <1>1. ASSUME NEW c \in Clerk, NEW o \in Op, Invoke(c, o),
               puts' \in Value, before' \in [Value -> SUBSET Value], floor' \in [Clerk -> SUBSET Value]
        PROVE  IInv'
    <2>1. ClerkTypes'
      BY <1>0, <1>1, ZeroValue DEF Invoke, ClerkTypes
    <2> QED
      BY <1>1, <1>a, <1>b, <1>c, <2>1 DEF Invoke, pbVars
  <1>2. ASSUME NEW c \in Clerk, InvokePut(c) PROVE IInv'
    <2>1. puts + 1 \in Value
      BY <1>0, <1>2 DEF InvokePut, Value, ClerkTypes
    <2>2. [kind |-> "put", value |-> puts + 1] \in Op
      BY <2>1 DEF Op
    <2>3. before' \in [Value -> SUBSET Value] /\ floor' \in [Clerk -> SUBSET Value]
      BY <1>0, <1>2 DEF InvokePut, ClerkTypes
    <2> QED
      BY <1>1, <1>2, <2>1, <2>2, <2>3 DEF InvokePut
  <1>3. ASSUME NEW c \in Clerk, InvokeGet(c) PROVE IInv'
    <2>1. [kind |-> "get", value |-> 0] \in Op
      BY ZeroValue DEF Op
    <2>2. Superseded \subseteq Value
      BY <1>0 DEF Superseded, ClerkTypes
    <2>3. floor' \in [Clerk -> SUBSET Value]
      BY <1>0, <1>3, <2>2 DEF InvokeGet, ClerkTypes
    <2> QED
      BY <1>0, <1>1, <1>3, <2>1, <2>3 DEF InvokeGet, ClerkTypes
  <1>4. ASSUME NEW c \in Clerk, UpdateView(c) PROVE IInv'
    <2>1. ClerkTypes'
      BY <1>0, <1>4 DEF UpdateView, ClerkTypes, pastVars
    <2> QED
      BY <1>4, <1>a, <1>b, <1>c, <2>1 DEF UpdateView, pbVars
  <1>5. ASSUME NEW c \in Clerk, Call(c) PROVE IInv'
    <2> DEFINE p == ckView[c].Primary
    <2>1. RequestOf(c) \in Request /\ RequestOf(c).from = c /\ c \notin Server
      BY <1>0 DEF ClerkTypes, RequestOf, Request, ClerkRequest, Op
    <2>2. PICK got \in Arrivals(p, RequestOf(c)) : TakeAndCall(None, {}, p, got)
      BY <1>5 DEF Call
    <2>3. got \subseteq Request /\ \A x \in got : x.from = c
      BY <2>1, ArrivingRequest
    <2>4. UNCHANGED <<vsVars, started, up, pbView, store, mu, serving, ckView, op, result, pastVars>>
      BY <1>5 DEF Call
    <2>5. inbox' \in [Server -> SUBSET Request]
      BY <1>0, <2>2, <2>3, InboxTypes
    <2>6. ServerTypes'
      BY <1>0, <2>4, <2>5 DEF ServerTypes
    <2>7. ClerkTypes'
      BY <1>0, <1>5, <2>4 DEF Call, ClerkTypes, pastVars
    <2>8. SentInv'
      <3>1. \A b \in Server : \A r \in inbox'[b] : r \in inbox[b] \/ r.from = c
        BY <2>2, <2>3 DEF TakeAndCall
      <3> QED
        BY <1>0, <2>1, <2>4, <3>1, SentKeeps
    <2> QED
      BY <1>a, <1>b, <1>e, <2>4, <2>6, <2>7, <2>8
  \* Get, Put and Forward.
  <1>6. ASSUME NEW s \in Server, NEW r \in inbox[s] PROVE r \in Request
    BY <1>0 DEF ServerTypes
  <1>7. ASSUME NEW s \in Server, NEW r \in inbox[s], Serve(s, r) PROVE IInv'
    <2>1. r \in ClerkRequest /\ ValueAfter(s, r) \in Value
      BY <1>0, <1>6, <1>7, RequestKinds, ValueAfterType DEF Serve
    <2>2. ClerkTypes'
      BY <1>0, <1>7, <2>1, ReplyTypes DEF Serve
    <2>3. ServerTypes'
      BY <1>0, <1>7, <2>1 DEF Serve, ServerTypes
    <2>4. SentInv'
      <3>1. \A b \in Server : \A x \in inbox'[b] : x \in inbox[b]
        BY <1>0, <1>7 DEF Serve, ServerTypes
      <3>2. \A b \in Server : \A x \in inbox[b] : x.from = s => x.deaf
        BY <1>0, <1>7, NothingSent DEF Serve
      <3>3. \A t \in Server \ {s} : /\ mu'[t] = mu[t] /\ serving'[t] = serving[t]
                                    /\ pbView'[t] = pbView[t] /\ store'[t] = store[t]
        BY <1>0, <1>7 DEF Serve, ServerTypes
      <3> QED
        BY <1>0, <3>1, <3>2, <3>3, SentKeepsBut
    <2> QED
      BY <1>7, <1>a, <1>b, <1>e, <2>2, <2>3, <2>4 DEF Serve
  <1>8. ASSUME NEW s \in Server, NEW r \in inbox[s], ServeForwarding(s, r) PROVE IInv'
    <2> DEFINE b == pbView[s].Backup
    <2>1. r \in ClerkRequest /\ Forwarded(s, r) \in Request
      BY <1>6, <1>8, RequestKinds, ForwardedRequest DEF ServeForwarding
    <2>2. PICK got \in Arrivals(b, Forwarded(s, r)) : TakeAndCall(s, {r}, b, got)
      BY <1>8 DEF ServeForwarding
    <2>3. got \subseteq Request /\ \A x \in got : x = Forwarded(s, r) \/ x.deaf = TRUE
      BY <2>1, ArrivingRequest
    <2>4. /\ UNCHANGED <<vsVars, started, up, pbView, store, clerkVars, pastVars>>
          /\ mu' = [mu EXCEPT ![s] = "forward"] /\ serving' = [serving EXCEPT ![s] = r]
          /\ mu[s] = "free"
      BY <1>8 DEF ServeForwarding
    <2>5. inbox' \in [Server -> SUBSET Request]
      BY <1>0, <2>2, <2>3, InboxTypes
    <2>6. ServerTypes' /\ ServingInv'
      BY <1>0, <2>1, <2>4, <2>5, <1>6 DEF ServerTypes, ServingInv, Handling
    <2>7. SentInv'
      <3>1. \A d : d = b => Sent(Forwarded(s, r), d)'
        BY <1>0, <2>4 DEF Sent, ServerTypes, Forwarded
      <3>2. \A d \in Server : \A x \in inbox'[d] : x \in inbox[d] \/ (d = b /\ x \in got)
        BY <2>2 DEF TakeAndCall
      <3>3. \A d \in Server : \A x \in inbox[d] : x.from = s => x.deaf
        BY <1>0, <2>4, NothingSent
      <3>4. \A t \in Server \ {s} : /\ mu'[t] = mu[t] /\ serving'[t] = serving[t]
                                    /\ pbView'[t] = pbView[t] /\ store'[t] = store[t]
        BY <1>0, <2>4 DEF ServerTypes
      <3>5. \A d \in Server : \A x \in inbox'[d] : x \in inbox[d] \/ x.deaf \/ Sent(x, d)'
        <4>1. ASSUME NEW d, d = b, NEW x \in got PROVE x.deaf \/ Sent(x, d)'
          BY <2>3, <3>1, <4>1
        <4> QED
          BY <3>2, <4>1
      <3> QED
        BY <1>0, <3>3, <3>4, <3>5, SentKeepsBut
    <2> QED
      BY <1>a, <1>b, <1>d, <2>4, <2>6, <2>7
  <1>9. ASSUME NEW b \in Server, NEW r \in inbox[b], Forward(b, r) PROVE IInv'
    <2>1. /\ r \in Request /\ r.from \in Server /\ mu[b] = "free" /\ ValueAfter(b, r) \in Value
          /\ r.kind # "sync"
      BY <1>0, <1>6, <1>9, RequestKinds, ValueAfterType DEF Forward
    <2>2. /\ UNCHANGED <<vsVars, started, up, pbView, serving, clerkVars, puts, returned, before, floor>>
          /\ inbox' = [inbox EXCEPT ![b] = @ \ {r}]
          /\ store' \in {store, [store EXCEPT ![b] = ValueAfter(b, r)]}
          /\ r.deaf => mu' = mu
          /\ ~r.deaf => mu' \in {[mu EXCEPT ![r.from] = "forwarded"], [mu EXCEPT ![r.from] = "rejected"]}
          /\ overtaken' \in BOOLEAN
      <3>1. overtaken' \in BOOLEAN
        <4>1. overtaken' = (overtaken \/ (pbView[b].Backup = b /\ r.deaf /\ r.value \in Superseded))
          BY <1>9 DEF Forward
        <4> QED
          BY <4>1
      <3>2. CASE r.deaf
        BY <1>9, <3>1, <3>2 DEF Forward
      <3>3. CASE ~r.deaf
        BY <1>9, <3>1, <3>3 DEF Forward
      <3> QED
        BY <3>2, <3>3
    <2>3. ServerTypes'
      BY <1>0, <2>1, <2>2 DEF ServerTypes
    <2>4. ClerkTypes'
      BY <1>0, <2>2 DEF ClerkTypes, clerkVars
    <2>5. ~r.deaf => mu[r.from] = "forward" /\ r.from # b
      BY <1>0, <2>1, OnlySent DEF Sent, SyncOf
    <2>6. ServingInv'
      BY <1>0, <2>1, <2>2, <2>5 DEF ServingInv, Handling, ServerTypes
    <2>7. SentInv'
      <3> DEFINE moved == IF r.deaf THEN {b} ELSE {b, r.from}
      <3>1. \A t \in Server \ moved : /\ mu'[t] = mu[t] /\ serving'[t] = serving[t]
                                      /\ pbView'[t] = pbView[t] /\ store'[t] = store[t]
        BY <1>0, <2>1, <2>2 DEF ServerTypes
      <3>2. \A d \in Server : \A x \in inbox'[d] : x \in inbox[d] /\ (d = b => x # r)
        BY <1>0, <2>2 DEF ServerTypes
      <3>3. \A d \in Server : \A x \in inbox[d] : x.from = b => x.deaf
        BY <1>0, <2>1, NothingSent
      <3>4. \A d \in Server : \A x \in inbox'[d] : x \in inbox[d] /\ (x.from \notin moved \/ x.deaf)
        <4>1. CASE r.deaf
          BY <3>2, <3>3, <4>1
        <4>2. CASE ~r.deaf
          BY <1>0, <2>1, <3>2, <3>3, <4>2, OnlySent
        <4> QED
          BY <4>1, <4>2
      <3> HIDE DEF moved
      <3> QED
        BY <1>0, <3>1, <3>4, SentKeeps
    <2> QED
      BY <1>a, <1>b, <2>2, <2>3, <2>4, <2>6, <2>7
  <1>10. ASSUME NEW s \in Server, ForwardFails(s) PROVE IInv'
    <2>1. serving[s] \in ClerkRequest /\ mu[s] = "forward" /\ mu' = [mu EXCEPT ![s] = "rejected"]
          /\ UNCHANGED <<vsVars, started, up, pbView, store, inbox, serving, clerkVars, pastVars>>
      BY <1>0, <1>10 DEF ForwardFails, ServingInv, Handling
    <2>2. ServerTypes' /\ ServingInv'
      BY <1>0, <2>1 DEF ServerTypes, ServingInv, Handling
    <2>3. SentInv'
      <3>1. \A b \in Server : \A x \in inbox[b] : x.from = s => x.deaf
        BY <1>0, <1>10, NothingUnanswered DEF ForwardFails
      <3>2. \A t \in Server \ {s} : mu'[t] = mu[t]
        BY <1>0, <2>1 DEF ServerTypes
      <3> QED
        BY <1>0, <2>1, <3>1, <3>2, SentKeepsBut
    <2> QED
      BY <1>a, <1>b, <1>d, <2>1, <2>2, <2>3
  <1>11. ASSUME NEW s \in Server, Finish(s) PROVE IInv'
    <2>1. serving[s] \in ClerkRequest
      BY <1>0, <1>11 DEF Finish, ServingInv, Handling
    <2>2. ValueAfter(s, serving[s]) \in Value /\ 0 \in Value
      BY <1>0, <2>1, ValueAfterType, ZeroValue DEF Request
    <2>3. ClerkTypes'
      BY <1>0, <1>11, <2>1, <2>2, ReplyTypes DEF Finish
    <2>4. /\ UNCHANGED <<vsVars, started, up, pbView, inbox>>
          /\ mu' = [mu EXCEPT ![s] = "free"] /\ serving' = [serving EXCEPT ![s] = None]
          /\ store' \in {store, [store EXCEPT ![s] = ValueAfter(s, serving[s])]}
          /\ mu[s] \notin {"forward", "sync"}
      BY <1>11 DEF Finish
    <2>5. ServerTypes' /\ ServingInv'
      BY <1>0, <2>2, <2>4 DEF ServerTypes, ServingInv, Handling
    <2>6. SentInv'
      <3>1. \A b \in Server : \A x \in inbox[b] : x.from = s => x.deaf
        BY <1>0, <2>4, NothingSent
      <3>2. \A t \in Server \ {s} : mu'[t] = mu[t] /\ serving'[t] = serving[t] /\ store'[t] = store[t]
        BY <1>0, <2>4 DEF ServerTypes
      <3> QED
        BY <1>0, <2>4, <3>1, <3>2, SentKeepsBut
    <2> QED
      BY <1>a, <1>b, <2>3, <2>4, <2>5, <2>6
  \* tick() and Sync.
  <1>12. ASSUME NEW s \in Server, Ping(s)
         PROVE  VSP!IInv' /\ view' = view /\ formed' = formed
    <2>1. pbView[s].Viewnum \in Nat /\ pbView[s].Viewnum <= view.Viewnum
      BY <1>0 DEF LearnedInv, ServerTypes, VS!View
    <2> QED
      BY <1>0, <1>12, <2>1, PingKeeps DEF Ping, VS!Ping
  <1>13. ASSUME NEW s \in Server, SyncBackup(s), UNCHANGED <<started, up, store, serving>>,
                \A b \in Server : \A x \in inbox[b] : x.from = s => x.deaf,
                pbView' = [pbView EXCEPT ![s] = view]
         PROVE  ServerTypes' /\ ServingInv' /\ SentInv'
    <2>1. CASE view.Backup = None
      <3>1. mu' = [mu EXCEPT ![s] = "free"] /\ inbox' = inbox
        BY <1>13, <2>1 DEF SyncBackup
      <3>2. ServerTypes' /\ ServingInv'
        BY <1>0, <1>13, <3>1 DEF ServerTypes, ServingInv, Handling
      <3>3. \A t \in Server \ {s} : mu'[t] = mu[t] /\ pbView'[t] = pbView[t]
        BY <1>0, <1>13, <3>1 DEF ServerTypes
      <3>4. SentInv'
        BY <1>0, <1>13, <3>1, <3>3, SentKeepsBut
      <3> QED
        BY <3>2, <3>4
    <2>2. CASE view.Backup # None
      <3>1. mu' = [mu EXCEPT ![s] = "sync"]
        BY <1>13, <2>2 DEF SyncBackup
      <3>2. PICK got \in Arrivals(view.Backup, SyncOf(s)) : TakeAndCall(None, {}, view.Backup, got)
        BY <1>13, <2>2 DEF SyncBackup
      <3>3. got \subseteq Request /\ \A x \in got : x = SyncOf(s) \/ x.deaf = TRUE
        BY <1>0, SyncRequest, ArrivingRequest
      <3>4. inbox' \in [Server -> SUBSET Request]
        BY <1>0, <3>2, <3>3, InboxTypes
      <3>5. ServerTypes' /\ ServingInv'
        BY <1>0, <1>13, <3>1, <3>4 DEF ServerTypes, ServingInv, Handling
      <3>6. \A t \in Server \ {s} : mu'[t] = mu[t] /\ pbView'[t] = pbView[t]
        BY <1>0, <1>13, <3>1 DEF ServerTypes
      <3>7. ASSUME NEW x, x = SyncOf(s), NEW b, b = view.Backup PROVE Sent(x, b)'
        BY <1>0, <1>13, <3>1, <3>7 DEF Sent, SyncOf, ServerTypes
      <3>8. \A d \in Server : \A x \in inbox'[d] : x \in inbox[d] \/ (d = view.Backup /\ x \in got)
        BY <3>2 DEF TakeAndCall
      <3>9. \A d \in Server : \A x \in inbox'[d] : x \in inbox[d] \/ x.deaf \/ Sent(x, d)'
        BY <3>3, <3>7, <3>8
      <3>10. SentInv'
        BY <1>0, <1>13, <3>6, <3>9, SentKeepsBut
      <3> QED
        BY <3>5, <3>10
    <2> QED
      BY <2>1, <2>2
  <1>14. ASSUME NEW s \in Server, tick(s) PROVE IInv'
    <2>1. VSP!IInv' /\ view' = view /\ formed' = formed
      BY <1>12, <1>14 DEF tick
    <2>2. /\ pbView' \in {pbView, [pbView EXCEPT ![s] = view]} /\ mu[s] = "free"
          /\ UNCHANGED <<started, up, store, serving, clerkVars, pastVars>>
      BY <1>14 DEF tick
    <2>3. LearnedInv' /\ pbView' \in [Server -> VS!View]
      BY <1>0, <2>1, <2>2, AdoptKeeps DEF ServerTypes
    <2>4. \A b \in Server : \A x \in inbox[b] : x.from = s => x.deaf
      BY <1>0, <2>2, NothingSent
    <2>5. ServerTypes' /\ ServingInv' /\ SentInv'
      <3>1. CASE UNCHANGED <<mu, inbox>>
        <4>1. ServerTypes' /\ ServingInv'
          BY <1>0, <1>e, <2>2, <2>3, <3>1 DEF ServerTypes
        <4>2. \A t \in Server \ {s} : pbView'[t] = pbView[t]
          BY <1>0, <2>2 DEF ServerTypes
        <4>3. SentInv'
          BY <1>0, <2>2, <2>4, <3>1, <4>2, SentKeepsBut
        <4> QED
          BY <4>1, <4>3
      <3>2. CASE SyncBackup(s) /\ pbView' = [pbView EXCEPT ![s] = view]
        BY <1>13, <2>2, <2>4, <3>2
      <3> QED
        BY <1>14, <3>1, <3>2 DEF tick
    <2> QED
      BY <1>a, <1>d, <2>1, <2>2, <2>3, <2>5
  <1>15. ASSUME NEW s \in Server, SyncFails(s) PROVE IInv'
    <2>1. VSP!IInv' /\ view' = view /\ formed' = formed
      BY <1>12, <1>15 DEF SyncFails
    <2>2. /\ pbView' = [pbView EXCEPT ![s] = view] /\ SyncBackup(s)
          /\ UNCHANGED <<started, up, store, serving, clerkVars, pastVars>>
      BY <1>15 DEF SyncFails
    <2>3. LearnedInv'
      BY <1>0, <2>1, <2>2, AdoptKeeps DEF ServerTypes
    <2>4. \A b \in Server : \A x \in inbox[b] : x.from = s => x.deaf
      BY <1>0, <1>15, NothingUnanswered DEF SyncFails
    <2>5. ServerTypes' /\ ServingInv' /\ SentInv'
      BY <1>13, <2>1, <2>2, <2>4
    <2> QED
      BY <1>a, <1>d, <2>1, <2>2, <2>3, <2>5
  <1>16. ASSUME NEW b \in Server, NEW r \in inbox[b], Sync(b, r) PROVE IInv'
    <2>1. VSP!IInv' /\ view' = view /\ formed' = formed
      BY <1>12, <1>16 DEF Sync
    <2>2. r.kind = "sync" /\ r.from \in Server /\ mu[b] = "free" /\ r.value \in Value
      BY <1>0, <1>6, <1>16, RequestKinds DEF Sync
    <2>3. /\ UNCHANGED <<started, up, serving, clerkVars, pastVars>>
          /\ inbox' = [inbox EXCEPT ![b] = @ \ {r}]
          /\ pbView' \in {pbView, [pbView EXCEPT ![b] = view]}
          /\ store' \in {store, [store EXCEPT ![b] = r.value]}
          /\ r.deaf => mu' = mu
          /\ ~r.deaf => mu' = [mu EXCEPT ![r.from] = "free"]
      <3>1. CASE r.deaf
        BY <1>16, <3>1 DEF Sync
      <3>2. CASE ~r.deaf
        BY <1>16, <3>2 DEF Sync
      <3> QED
        BY <3>1, <3>2
    <2>4. LearnedInv' /\ pbView' \in [Server -> VS!View]
      BY <1>0, <2>1, <2>3, AdoptKeeps DEF ServerTypes
    <2>5. ServerTypes' /\ ServingInv'
      BY <1>0, <2>2, <2>3, <2>4 DEF ServerTypes, ServingInv, Handling
    <2>6. SentInv'
      <3> DEFINE moved == IF r.deaf THEN {b} ELSE {b, r.from}
      <3>1. \A t \in Server \ moved : /\ mu'[t] = mu[t] /\ serving'[t] = serving[t]
                                      /\ pbView'[t] = pbView[t] /\ store'[t] = store[t]
        BY <1>0, <2>2, <2>3 DEF ServerTypes
      <3>2. \A d \in Server : \A x \in inbox'[d] : x \in inbox[d] /\ (d = b => x # r)
        BY <1>0, <2>3 DEF ServerTypes
      <3>3. \A d \in Server : \A x \in inbox[d] : x.from = b => x.deaf
        BY <1>0, <2>2, NothingSent
      <3>4. \A d \in Server : \A x \in inbox'[d] : x \in inbox[d] /\ (x.from \notin moved \/ x.deaf)
        <4>1. CASE r.deaf
          BY <3>2, <3>3, <4>1
        <4>2. CASE ~r.deaf
          BY <1>0, <2>2, <3>2, <3>3, <4>2, OnlySent
        <4> QED
          BY <4>1, <4>2
      <3> HIDE DEF moved
      <3> QED
        BY <1>0, <3>1, <3>4, SentKeeps
    <2> QED
      BY <1>a, <1>d, <2>1, <2>3, <2>4, <2>5, <2>6
  \* Processes and time.
  <1>17. ASSUME NEW s \in Server, StartServer(s) PROVE IInv'
    <2>1. ServerTypes' /\ ServingInv'
      <3>1. NoView \in VS!View
        BY DEF NoView, VS!View
      <3> QED
        BY <1>0, <1>17, <3>1, ZeroValue DEF StartServer, ServerTypes, ServingInv, Handling
    <2>2. VSP!IInv' /\ view' = view /\ formed' = formed
      BY <1>0, <1>17, IdleViewServer DEF StartServer, vsVars
    <2>3. LearnedInv'
      BY <1>0, <1>17, <2>2 DEF StartServer, LearnedInv, ServerTypes, NoView, VS!View
    <2>4. SentInv'
      <3>1. \A b \in Server : \A x \in inbox[b] : x.from = s => x.deaf
        BY <1>0, <1>17, NothingSent DEF StartServer
      <3>2. /\ inbox' = inbox
            /\ \A t \in Server \ {s} : /\ mu'[t] = mu[t] /\ serving'[t] = serving[t]
                                       /\ pbView'[t] = pbView[t] /\ store'[t] = store[t]
        BY <1>0, <1>17 DEF StartServer, ServerTypes
      <3> QED
        BY <1>0, <3>1, <3>2, SentKeepsBut
    <2> QED
      BY <1>17, <1>a, <1>d, <2>1, <2>2, <2>3, <2>4 DEF StartServer
  <1>18. ASSUME NEW s \in Server, Kill(s) PROVE IInv'
    <2>1. ServerTypes' /\ SentInv'
      BY <1>0, <1>18 DEF Kill, ServerTypes, SentInv, Sent, Forwarded, SyncOf
    <2> QED
      BY <1>18, <1>a, <1>b, <1>d, <1>e, <2>1 DEF Kill
  <1>19. ASSUME NEW s \in Server, Crash(s) PROVE IInv'
    <2>1. PICK written \in BOOLEAN :
             inbox' = [t \in Server |-> IF t = s THEN {} ELSE Left(inbox[t], s, written)]
      BY <1>19 DEF Crash
    <2>2. \A t \in Server : \A x \in inbox'[t] :
             x \in Request /\ ((x \in inbox[t] /\ (x.from # s \/ x.deaf)) \/ x.deaf = TRUE)
      <3>1. ASSUME NEW t \in Server \ {s}, NEW x \in Left(inbox[t], s, written)
            PROVE  x \in Request /\ ((x \in inbox[t] /\ (x.from # s \/ x.deaf)) \/ x.deaf = TRUE)
        <4>1. CASE \E r \in inbox[t] : x \in Late(r)
          BY <1>6, <4>1, LateRequest
        <4>2. CASE x \in inbox[t] /\ (x.from # s \/ x.deaf)
          BY <1>6, <4>2
        <4> QED
          BY <3>1, <4>1, <4>2 DEF Left
      <3> QED
        BY <2>1, <3>1
    <2>3. inbox' \in [Server -> SUBSET Request]
      BY <2>1, <2>2
    <2>4. /\ UNCHANGED <<vsVars, started, pbView, store, ckView, op, result, pastVars>>
          /\ up' = up \ {s} /\ mu' = [mu EXCEPT ![s] = "free"] /\ serving' = [serving EXCEPT ![s] = None]
      BY <1>19 DEF Crash
    <2>5. ServerTypes' /\ ServingInv'
      BY <1>0, <2>3, <2>4 DEF ServerTypes, ServingInv, Handling
    <2>6. ClerkTypes'
      BY <1>0, <1>19 DEF Crash, ClerkTypes, pastVars
    <2>7. SentInv'
      <3>1. \A t \in Server \ {s} : mu'[t] = mu[t] /\ serving'[t] = serving[t]
        BY <1>0, <2>4 DEF ServerTypes
      <3>2. /\ \A t \in Server \ {s} : pbView'[t] = pbView[t] /\ store'[t] = store[t]
            /\ \A b \in Server : \A x \in inbox'[b] : (x \in inbox[b] /\ x.from # s) \/ x.deaf
        BY <2>2, <2>4
      <3> DEFINE moved == {s}
      <3>3. \A t \in Server \ moved : /\ mu'[t] = mu[t] /\ serving'[t] = serving[t]
                                      /\ pbView'[t] = pbView[t] /\ store'[t] = store[t]
        BY <3>1, <3>2
      <3>4. \A b \in Server : \A x \in inbox'[b] : (x \in inbox[b] /\ x.from \notin moved) \/ x.deaf
        BY <3>2
      <3> HIDE DEF moved
      <3> QED
        BY <1>0, <3>3, <3>4, SentKeeps
    <2> QED
      BY <1>a, <1>b, <2>4, <2>5, <2>6, <2>7
  <1>20. CASE ViewServerTick
    <2>1. VSP!IInv' /\ view' \in VS!View
      BY <1>0, <1>20, TickKeeps, ViewTypesNext DEF ViewServerTick, VS!TypeOK
    <2>2. LearnedInv'
      <3>1. \/ /\ formed' = formed /\ view'.Viewnum = view.Viewnum
               /\ view'.Primary \in {view.Primary, None}
            \/ formed' = view' /\ view'.Viewnum = view.Viewnum + 1
        BY <1>0, <1>20, TickView DEF ViewServerTick
      <3>2. UNCHANGED pbView
        BY <1>20 DEF ViewServerTick, pbVars
      <3> QED
        BY <1>0, <2>1, <3>1, <3>2 DEF LearnedInv, ServerTypes, VS!View
    <2> QED
      BY <1>20, <1>a, <1>c, <1>d, <2>1, <2>2 DEF ViewServerTick
  <1>21. CASE Elapse
    <2>1. VSP!IInv' /\ UNCHANGED <<view, formed, pbView>>
      BY <1>0, <1>21, ElapseKeeps DEF Elapse, VS!Elapse, VS!historyVars, pbVars
    <2>2. LearnedInv'
      BY <1>0, <2>1 DEF LearnedInv
    <2> QED
      BY <1>21, <1>a, <1>c, <1>d, <2>1, <2>2 DEF Elapse
  <1>22. CASE UNCHANGED vars
    BY <1>22, <1>a, <1>b, <1>c, <1>d DEF vars, pbVars
  <1> QED
    BY <1>2, <1>3, <1>4, <1>5, <1>7, <1>8, <1>9, <1>10, <1>11, <1>14, <1>15, <1>16,
       <1>17, <1>18, <1>19, <1>20, <1>21, <1>22 DEF Next, ServerStep, Handler

\* Views, servers and requests in flight stay as the view server, Ping in
\* server.go and the calls of clerks and servers make them, whatever fails.
THEOREM Invariance == Spec => []IInv
  BY InitIInv, NextIInv, PTL DEF Spec

\* Types of the view server, the servers, the requests and the clerks.
THEOREM PBTypeCorrect == Spec => []TypeOK
  <1>1. IInv => TypeOK
    BY DEF IInv
  <1> QED
    BY <1>1, Invariance, PTL

\* Whatever crashes, restarts, is slow or loses messages, no two running
\* servers take themselves for the primary of views with the same number.
THEOREM AtMostOnePrimary == Spec => []OnePrimaryPerView
  <1>1. IInv => OnePrimaryPerView
    BY PBServiceAssumption DEF IInv, LearnedInv, OnePrimaryPerView, TypeOK
  <1> QED
    BY <1>1, Invariance, PTL
-----------------------------------------------------------------------------
(***************************************************************************)
(* Servers that crash, while their view is acknowledged or before that, as *)
(* long as one server of an acknowledged view runs.  The faults left out   *)
(* are those under which Puts are really lost.                             *)
(***************************************************************************)
CrashesOnly == Faults \subseteq {"crash", "early"}

\* The view server never takes a running server for dead, and one server of
\* an acknowledged view runs.
LifeInv ==
    /\ known \subseteq started /\ dead \cap up = {}
    /\ \A s \in up \cap known : age[s] <= 1
    /\ \A s \in up \cap {view.Primary, view.Backup} : s \notin idle
    /\ ~primaryRestarted
    /\ acked /\ view.Viewnum > 0 => view.Primary \in up \/ view.Backup \in up

\* A role is struck out of a view, or not in the view that someone learned,
\* only when its server is down.
Struck(role, ofFormed) == role = ofFormed \/ (role = None /\ ofFormed \notin up)
RolesInv ==
    /\ {formed.Primary, formed.Backup} \subseteq started \cup {None}
    /\ formed.Primary # None => formed.Primary # formed.Backup
    /\ view.Viewnum = 0 => formed.Primary = None /\ formed.Backup = None
    /\ Struck(view.Primary, formed.Primary) /\ Struck(view.Backup, formed.Backup)
    /\ \A s \in Server : pbView[s].Viewnum = view.Viewnum =>
          Struck(pbView[s].Primary, formed.Primary) /\ Struck(pbView[s].Backup, formed.Backup)

\* A server that runs and was the primary once still is, and its view does
\* not change as long as its backup runs too.
PrimaryInv ==
    /\ \A s \in Server : /\ {pbView[s].Primary, pbView[s].Backup} \subseteq started \cup {None}
                         /\ pbView[s].Primary \in up => pbView[s].Primary = view.Primary
    /\ \A c \in Clerk : /\ ckView[c].Primary \in started \cup {None}
                        /\ ckView[c].Primary \in up => ckView[c].Primary = view.Primary
    /\ \A s \in up : pbView[s].Primary = s /\ pbView[s].Backup \in up
                        => pbView[s].Viewnum = view.Viewnum
    /\ acked /\ view.Primary \in up => pbView[view.Primary].Viewnum = view.Viewnum

\* A clerk's request is that of a clerk that waits for it.
Waiting(r, s) == /\ r.from \in Clerk /\ pc[r.from] = "waiting" /\ ckView[r.from].Primary = s
                 /\ r = RequestOf(r.from)

\* A server's request outlives it.  A Sync does so only when the view was
\* not acknowledged and never will be, and a Forward at the backup only as
\* long as that is the backup of the view, without a primary, or once it was
\* promoted.
Orphan(r, b) ==
    /\ r.from \in started \ up
    /\ IF r.kind = "sync" THEN ~acked /\ view.Primary \notin up
       ELSE \/ view.Primary = b
            \/ /\ pbView[b].Backup = b /\ pbView[b].Viewnum = view.Viewnum
               /\ view.Primary \notin up
Accounted(r, s) == IF r.from \in Clerk THEN Waiting(r, s)
                   ELSE IF r.deaf THEN Orphan(r, s) ELSE r.from \in up

\* Each request is waited for or outlived its caller, and is handled once.
BusyInv == \A s \in Server : inbox[s] # {} \/ mu[s] # "free" => s \in up
InboxInv == \A s \in Server : \A r \in inbox[s] : Accounted(r, s)
HandlerInv == \A s \in Server : Handling(s) => Waiting(serving[s], s) /\ serving[s] \notin inbox[s]

\* Who waits for a backup is a primary, and a backup that runs has the call.
CallerInv == \A s \in Server :
    /\ mu[s] # "free" => pbView[s].Primary = s /\ pbView[s].Backup # None
    /\ pbView[s].Backup \in up =>
          /\ mu[s] = "forward" => Forwarded(s, serving[s]) \in inbox[pbView[s].Backup]
          /\ mu[s] = "sync" => ~acked /\ SyncOf(s) \in inbox[pbView[s].Backup]

\* A Put under way did not return, and each has a value of its own.
Putting(c) == pc[c] # "idle" /\ op[c].kind = "put"
PastInv ==
    /\ \A v \in returned : v <= puts
    /\ \A v \in Value : before[v] \subseteq returned
    /\ \A c \in Clerk : floor[c] \subseteq Superseded
    /\ \A c \in Clerk : Putting(c) => op[c].value <= puts /\ op[c].value \notin returned
    /\ \A c, d \in Clerk : Putting(c) /\ Putting(d) /\ c # d => op[c].value # op[d].value

\* The backup has the primary's store, or is one Put ahead, once the primary
\* handed its store over, which it does before it acknowledges the view.
HandedOver == /\ {view.Primary, view.Backup} \subseteq up
              /\ pbView[view.Primary].Viewnum = view.Viewnum /\ mu[view.Primary] # "sync"
StoreInv ==
    /\ view.Viewnum = 0 => Superseded = {}
    /\ acked /\ view.Backup \in up => pbView[view.Backup].Viewnum = view.Viewnum
    /\ HandedOver =>
          /\ pbView[view.Backup].Viewnum = view.Viewnum /\ mu[view.Primary] # "rejected"
          /\ store[view.Backup] = IF mu[view.Primary] = "forwarded"
                                  THEN ValueAfter(view.Primary, serving[view.Primary])
                                  ELSE store[view.Primary]
    /\ PutsArePreserved

CInv == /\ LifeInv /\ RolesInv /\ PrimaryInv /\ BusyInv /\ InboxInv /\ HandlerInv /\ CallerInv
        /\ PastInv /\ StoreInv /\ GetsAreFresh

LEMMA Typed ==
    ASSUME IInv
    PROVE  /\ VS!TypeOK /\ ServerTypes /\ ClerkTypes /\ SentInv /\ ServingInv
           /\ view \in VS!View /\ None \notin Server /\ Clerk \cap Server = {} /\ up \subseteq Server
  BY SplitTypes, PBServiceAssumption DEF IInv, VS!TypeOK, ServerTypes

\* What the invariants say of a primary that runs, and of its backup.
LEMMA RunningPrimary ==
    ASSUME IInv, CInv
    PROVE  /\ None \notin up /\ up \subseteq Server /\ view \in VS!View
           /\ view.Primary \in up => view.Primary # view.Backup
           /\ \A s \in up : pbView[s].Primary = s =>
                 /\ s = view.Primary
                 /\ pbView[s].Backup \in up => /\ pbView[s].Viewnum = view.Viewnum
                                               /\ pbView[s].Backup = view.Backup
           /\ HandedOver => /\ pbView[view.Primary].Primary = view.Primary
                            /\ pbView[view.Primary].Backup = view.Backup
           /\ view.Backup \in up /\ pbView[view.Backup].Viewnum = view.Viewnum
                 => pbView[view.Backup].Backup = view.Backup
           /\ \A s \in up : pbView[s].Viewnum = view.Viewnum /\ pbView[s].Backup = s
                 => view.Backup = s
  <1>1. None \notin up /\ up \subseteq Server /\ view \in VS!View
    BY Typed
  <1>2. view.Primary \in up => view.Primary = formed.Primary
    BY <1>1 DEF CInv, RolesInv, Struck
  <1>3. view.Backup \in up => view.Backup = formed.Backup
    BY <1>1 DEF CInv, RolesInv, Struck
  <1>4. formed.Backup \in up => view.Backup = formed.Backup
    BY DEF CInv, RolesInv, Struck
  <1>5. view.Primary \in up => view.Primary # view.Backup
    BY <1>1, <1>2, <1>3 DEF CInv, RolesInv
  <1>6. ASSUME NEW s \in up, pbView[s].Primary = s
        PROVE  /\ s = view.Primary
               /\ pbView[s].Backup \in up => /\ pbView[s].Viewnum = view.Viewnum
                                             /\ pbView[s].Backup = view.Backup
    BY <1>1, <1>4, <1>6 DEF CInv, PrimaryInv, RolesInv, Struck
  <1>7. HandedOver => /\ pbView[view.Primary].Primary = view.Primary
                      /\ pbView[view.Primary].Backup = view.Backup
    BY <1>1, <1>2, <1>3 DEF CInv, RolesInv, Struck, HandedOver
  <1>8. view.Backup \in up /\ pbView[view.Backup].Viewnum = view.Viewnum
           => pbView[view.Backup].Backup = view.Backup
    BY <1>1, <1>3 DEF CInv, RolesInv, Struck
  <1>9. \A s \in up : pbView[s].Viewnum = view.Viewnum /\ pbView[s].Backup = s => view.Backup = s
    BY <1>1, <1>4 DEF CInv, RolesInv, Struck
  <1> QED
    BY <1>1, <1>5, <1>6, <1>7, <1>8, <1>9

\* The requests at a server, by their callers.
LEMMA RequestAt ==
    ASSUME IInv, CInv, NEW s \in Server, NEW r \in inbox[s]
    PROVE  /\ s \in up /\ r \in Request
           /\ r.kind \in {"get", "put"} => Waiting(r, s)
           /\ r.kind \in {"forwardGet", "forwardPut", "sync"} =>
                 /\ r.from \in Server
                 /\ r.deaf => Orphan(r, s)
                 /\ ~r.deaf => r.from \in up /\ Sent(r, s)
  <1>1. s \in up /\ r \in Request /\ Accounted(r, s)
    BY Typed DEF CInv, BusyInv, InboxInv, ServerTypes
  <1>2. CASE r.kind \in {"get", "put"}
    BY <1>1, <1>2, RequestKinds DEF Accounted
  <1>3. CASE r.kind \in {"forwardGet", "forwardPut", "sync"}
    <2>1. r.from \in Server /\ r.from \notin Clerk
      BY <1>1, <1>3, Typed, RequestKinds
    <2>2. ~r.deaf => Sent(r, s)
      BY <2>1, Typed DEF SentInv
    <2> QED
      BY <1>1, <1>3, <2>1, <2>2 DEF Accounted
  <1> QED
    BY <1>1, <1>2, <1>3

\* Steps of clerks and handlers that concern no view.
LEMMA SameViews ==
    ASSUME CInv, UNCHANGED <<vsVars, started, up, pbView>>
    PROVE  LifeInv' /\ RolesInv' /\ (ckView' = ckView => PrimaryInv')
  BY DEF CInv, LifeInv, RolesInv, PrimaryInv, Struck, vsVars

LEMMA WaitOn == ASSUME UNCHANGED <<pc, ckView, op>>
                PROVE  \A x, t : Waiting(x, t) => Waiting(x, t)'
  BY DEF Waiting, RequestOf

LEMMA SamePast == ASSUME UNCHANGED <<pc, op, puts, returned, before, floor>>
                  PROVE  /\ Superseded' = Superseded
                         /\ CInv => PastInv'
                         /\ CInv /\ UNCHANGED <<result, overtaken>> => GetsAreFresh'
  BY DEF CInv, PastInv, Putting, Superseded, GetsAreFresh

\* Servers that keep what they have: their requests stay, and so do they.
LEMMA SameServers ==
    ASSUME CInv, UNCHANGED <<vsVars, pbVars>>, \A x, t : Waiting(x, t) => Waiting(x, t)'
    PROVE  BusyInv' /\ InboxInv' /\ HandlerInv' /\ CallerInv'
  <1>1. BusyInv' /\ CallerInv'
    BY DEF CInv, BusyInv, CallerInv, pbVars, vsVars, Forwarded, SyncOf
  <1>2. ASSUME NEW s \in Server, NEW r \in inbox'[s] PROVE Accounted(r, s)'
    <2>1. Accounted(r, s) /\ (Waiting(r, s) => Waiting(r, s)')
      BY DEF CInv, InboxInv, pbVars
    <2>2. Orphan(r, s) => Orphan(r, s)'
      BY DEF Orphan, pbVars, vsVars
    <2> QED
      BY <2>1, <2>2 DEF Accounted, pbVars
  <1>3. ASSUME NEW s \in Server, Handling(s)'
        PROVE  Waiting(serving[s], s)' /\ serving'[s] \notin inbox'[s]
    <2>1. serving'[s] = serving[s] /\ inbox'[s] = inbox[s] /\ Waiting(serving[s], s)
          /\ serving[s] \notin inbox[s]
      BY <1>3 DEF CInv, HandlerInv, Handling, pbVars
    <2>2. PICK x : x = serving[s]
      OBVIOUS
    <2>3. Waiting(x, s)'
      BY <2>1, <2>2
    <2> QED
      BY <2>1, <2>2, <2>3 DEF Waiting, RequestOf
  <1> QED
    BY <1>1, <1>2, <1>3 DEF InboxInv, HandlerInv

LEMMA InitCInv == Init => CInv
  <1> SUFFICES ASSUME Init PROVE CInv
    OBVIOUS
  <1>1. /\ view = NoView /\ formed = NoView /\ NoView.Primary = None /\ NoView.Backup = None
        /\ NoView.Viewnum = 0 /\ up = {} /\ started = {} /\ None \notin up
    BY DEF Init, VS!Init, NoView
  <1>2. LifeInv /\ RolesInv /\ PrimaryInv
    BY <1>1 DEF Init, VS!Init, LifeInv, RolesInv, Struck, PrimaryInv
  <1>3. BusyInv /\ InboxInv /\ HandlerInv /\ CallerInv
    BY <1>1 DEF Init, BusyInv, InboxInv, HandlerInv, CallerInv, Handling
  <1>4. Superseded = {}
    BY ZeroValue DEF Init, Superseded
  <1>5. PastInv
    BY <1>4, PBServiceAssumption DEF Init, PastInv, Putting
  <1>6. StoreInv /\ GetsAreFresh
    BY <1>1, <1>4 DEF Init, StoreInv, HandedOver, PutsArePreserved, GetsAreFresh
  <1> QED
    BY <1>2, <1>3, <1>5, <1>6 DEF CInv

\* The steps of clerks.
LEMMA InvokeCInv ==
    ASSUME IInv, CInv, NEW c \in Clerk, InvokePut(c) \/ InvokeGet(c)
    PROVE  CInv'
  <1>t. ClerkTypes /\ view \in VS!View
    BY Typed
  <1>0. PICK o : Invoke(c, o) /\ (o.kind = "put" => o.value = puts + 1)
    <2>1. CASE InvokePut(c)
      BY <2>1 DEF InvokePut
    <2>2. CASE InvokeGet(c)
      <3>1. Invoke(c, [kind |-> "get", value |-> 0]) /\ [kind |-> "get", value |-> 0].kind # "put"
        BY <2>2 DEF InvokeGet
      <3> QED
        BY <3>1
    <2> QED
      BY <2>1, <2>2
  <1>1. /\ UNCHANGED <<vsVars, pbVars, ckView, returned, overtaken>>
        /\ pc[c] = "idle" /\ pc'[c] \in {"update", "call"} /\ op'[c] = o
        /\ \A d \in Clerk \ {c} : pc'[d] = pc[d] /\ op'[d] = op[d] /\ result'[d] = result[d]
    BY <1>0, <1>t DEF Invoke, ClerkTypes
  <1>2. \A x, t : Waiting(x, t) => Waiting(x, t)'
    BY <1>1 DEF Waiting, RequestOf
  <1>3. /\ LifeInv' /\ RolesInv' /\ PrimaryInv'
        /\ BusyInv' /\ InboxInv' /\ HandlerInv' /\ CallerInv'
    BY <1>1, <1>2, SameViews, SameServers DEF pbVars
  <1>4. puts \in Nat /\ puts' \in Nat /\ \A v \in returned : v <= puts /\ v \in Nat
    BY <1>t, PBServiceAssumption DEF CInv, PastInv, ClerkTypes, Value, InvokePut, InvokeGet
  <1>5. /\ Superseded' = Superseded /\ puts <= puts'
        /\ \A v \in Value : before'[v] \subseteq returned
        /\ \A d \in Clerk : floor'[d] \subseteq Superseded
        /\ \A d \in Clerk \ {c} : floor'[d] = floor[d]
    <2>1. CASE InvokePut(c)
      <3>1. puts' = puts + 1 /\ before' = [before EXCEPT ![puts + 1] = returned]
            /\ floor' = [floor EXCEPT ![c] = {}]
        BY <2>1 DEF InvokePut
      <3>2. \A v \in Value : before'[v] \subseteq returned
        BY <1>t, <3>1 DEF CInv, PastInv, ClerkTypes
      <3>3. \A v \in returned : v # puts + 1
        BY <1>4
      <3>4. \A v \in returned : before'[v] = before[v]
        BY <1>t, <3>1, <3>3 DEF ClerkTypes
      <3>5. Superseded' = Superseded
        BY <1>1, <3>4 DEF Superseded
      <3> QED
        BY <1>t, <1>4, <3>1, <3>2, <3>5 DEF CInv, PastInv, ClerkTypes
    <2>2. CASE InvokeGet(c)
      <3>1. puts' = puts /\ before' = before /\ floor' = [floor EXCEPT ![c] = Superseded]
        BY <2>2 DEF InvokeGet
      <3>2. Superseded' = Superseded
        BY <1>1, <3>1 DEF Superseded
      <3> QED
        BY <1>t, <1>4, <3>1, <3>2 DEF CInv, PastInv, ClerkTypes
    <2> QED
      BY <2>1, <2>2
  <1>6. o.kind = "put" => o.value = puts' /\ puts' = puts + 1
    BY <1>0, <1>t DEF InvokePut, InvokeGet, Invoke, ClerkTypes
  <1>7. PastInv'
    <2>1. \A v \in returned' : v <= puts'
      BY <1>1, <1>4, <1>5
    <2>2. \A d \in Clerk \ {c} : Putting(d)' => /\ Putting(d) /\ op'[d].value = op[d].value
                                                /\ op[d].value <= puts /\ op[d].value \in Nat
                                                /\ op[d].value \notin returned
      BY <1>1, <1>t, PBServiceAssumption DEF Putting, CInv, PastInv, ClerkTypes, Op, Value
    <2>3. Putting(c)' => op'[c].value = puts + 1 /\ puts' = puts + 1
      BY <1>1, <1>0, <1>6 DEF Putting
    <2>4. \A d \in Clerk : Putting(d)' => op'[d].value <= puts' /\ op'[d].value \notin returned'
      BY <1>1, <1>4, <1>5, <2>2, <2>3
    <2>5. \A d, e \in Clerk : Putting(d)' /\ Putting(e)' /\ d # e => op'[d].value # op'[e].value
      BY <1>4, <2>2, <2>3 DEF CInv, PastInv
    <2> QED
      BY <1>1, <1>5, <2>1, <2>4, <2>5 DEF PastInv
  <1>8. StoreInv'
    BY <1>1, <1>5 DEF CInv, StoreInv, HandedOver, PutsArePreserved, ValueAfter, vsVars, pbVars
  <1>9. GetsAreFresh'
    BY <1>1, <1>5 DEF CInv, GetsAreFresh
  <1> QED
    BY <1>3, <1>7, <1>8, <1>9 DEF CInv

LEMMA UpdateViewCInv == ASSUME IInv, CInv, NEW c \in Clerk, UpdateView(c) PROVE CInv'
  <1>t. ClerkTypes /\ view \in VS!View
    BY Typed
  <1>1. /\ pc[c] = "update" /\ pc'[c] = "call" /\ ckView'[c] = view
        /\ \A d \in Clerk \ {c} : pc'[d] = pc[d] /\ ckView'[d] = ckView[d]
        /\ UNCHANGED <<vsVars, pbVars, op, result, pastVars>>
    BY <1>t DEF UpdateView, ClerkTypes
  <1>2. \A x, t : Waiting(x, t) => Waiting(x, t)'
    BY <1>1 DEF Waiting, RequestOf
  <1>3. LifeInv' /\ RolesInv' /\ BusyInv' /\ InboxInv' /\ HandlerInv' /\ CallerInv'
    BY <1>1, <1>2, SameViews, SameServers DEF pbVars
  <1>4. PrimaryInv'
    <2>1. view.Primary \in started \cup {None}
      BY DEF CInv, RolesInv, Struck
    <2> QED
      BY <1>1, <2>1 DEF CInv, PrimaryInv, vsVars, pbVars
  <1>5. PastInv' /\ GetsAreFresh'
    BY <1>1 DEF CInv, PastInv, Putting, Superseded, GetsAreFresh, pastVars
  <1>6. StoreInv'
    BY <1>1 DEF CInv, StoreInv, HandedOver, PutsArePreserved, Superseded, ValueAfter, vsVars, pbVars, pastVars
  <1> QED
    BY <1>3, <1>4, <1>5, <1>6 DEF CInv

\* Nothing is lost when servers only crash.
LEMMA Reliable ==
    ASSUME CrashesOnly, NEW b, NEW r, NEW got \in Arrivals(b, r)
    PROVE  got = IF b \in up THEN {r} ELSE {}
  BY DEF Arrivals, CrashesOnly

LEMMA CallCInv == ASSUME CrashesOnly, IInv, CInv, NEW c \in Clerk, Call(c) PROVE CInv'
  <1> DEFINE p == ckView[c].Primary
             r == RequestOf(c)
             got == IF p \in up THEN {r} ELSE {}
  <1>t. ClerkTypes /\ ServerTypes /\ c \notin Server /\ up \subseteq Server
    BY Typed
  <1>0. r.from = c
    BY DEF RequestOf
  <1>1. /\ TakeAndCall(None, {}, p, got) /\ pc[c] = "call"
        /\ pc'[c] = IF p \in up THEN "waiting" ELSE "update"
        /\ \A d \in Clerk \ {c} : pc'[d] = pc[d]
        /\ UNCHANGED <<vsVars, started, up, pbView, store, mu, serving, ckView, op, result, pastVars>>
    BY <1>t, Reliable DEF Call, ClerkTypes
  <1>2. \A s \in Server : inbox'[s] = inbox[s] \cup (IF s = p THEN got ELSE {})
    BY <1>1 DEF TakeAndCall
  <1>3. \A x, t : Waiting(x, t) => Waiting(x, t)' /\ x.from # c
    BY <1>1 DEF Waiting, RequestOf
  <1>4. p \in up => \A x, s : x = r /\ s = p => Waiting(x, s)'
    BY <1>1 DEF Waiting, RequestOf
  <1> HIDE DEF r
  <1>5. LifeInv' /\ RolesInv' /\ PrimaryInv'
    BY <1>1, SameViews
  <1>6. BusyInv'
    BY <1>1, <1>2 DEF CInv, BusyInv
  <1>7. InboxInv'
    <2>1. ASSUME NEW s \in Server, NEW x \in inbox[s] PROVE Accounted(x, s)'
      <3>1. Accounted(x, s) /\ (Waiting(x, s) => Waiting(x, s)')
        BY <1>3 DEF CInv, InboxInv
      <3>2. Orphan(x, s) => Orphan(x, s)'
        BY <1>1 DEF Orphan, vsVars
      <3> QED
        BY <1>1, <3>1, <3>2 DEF Accounted
    <2>2. ASSUME NEW s \in Server, NEW x \in inbox'[s], x \notin inbox[s] PROVE Accounted(x, s)'
      <3>1. s = p /\ p \in up /\ x = r
        BY <1>2, <2>2
      <3>2. Waiting(x, s)' /\ x.from \in Clerk
        BY <1>0, <1>4, <3>1
      <3> QED
        BY <3>2 DEF Accounted
    <2> QED
      BY <2>1, <2>2 DEF InboxInv
  <1>8. HandlerInv'
    <2>1. ASSUME NEW s \in Server, Handling(s)'
          PROVE  Waiting(serving[s], s)' /\ serving'[s] \notin inbox'[s]
      <3>1. Waiting(serving[s], s) /\ serving[s] \notin inbox[s] /\ serving'[s] = serving[s]
        BY <1>1, <2>1 DEF CInv, HandlerInv, Handling
      <3>2. serving[s] # r
        BY <1>0, <1>3, <3>1
      <3>3. Waiting(serving[s], s)'
        BY <1>1, <3>1 DEF Waiting, RequestOf
      <3> QED
        BY <1>2, <3>1, <3>2, <3>3
    <2> QED
      BY <2>1 DEF HandlerInv
  <1>9. CallerInv'
    <2>1. \A s \in Server : inbox[s] \subseteq inbox'[s]
      BY <1>2
    <2>2. \A s \in Server : Forwarded(s, serving[s])' = Forwarded(s, serving[s]) /\ SyncOf(s)' = SyncOf(s)
      BY <1>1 DEF Forwarded, SyncOf
    <2> QED
      BY <1>1, <1>t, <2>1, <2>2 DEF CInv, CallerInv, vsVars
  <1>10. PastInv' /\ GetsAreFresh'
    BY <1>1 DEF CInv, PastInv, Putting, Superseded, GetsAreFresh, pastVars
  <1>11. StoreInv'
    BY <1>1 DEF CInv, StoreInv, HandedOver, PutsArePreserved, Superseded, ValueAfter, vsVars, pastVars
  <1> QED
    BY <1>5, <1>6, <1>7, <1>8, <1>9, <1>10, <1>11 DEF CInv

\* The clerk of a request gets its answer.  Its Put has returned then, and a
\* Get does not return what was replaced before it began.
LEMMA ReplyCInv ==
    ASSUME IInv, CInv, NEW s \in Server, NEW r, Waiting(r, s), NEW wrongServer \in BOOLEAN, NEW value,
           ~overtaken /\ ~wrongServer /\ r.kind = "get" => value \notin Superseded,
           Reply(r, wrongServer, value)
    PROVE  /\ UNCHANGED <<ckView, op, puts, before, floor, overtaken>>
           /\ returned' = IF r.kind = "put" /\ ~wrongServer THEN returned \cup {r.value} ELSE returned
           /\ r.kind = "put" => r.value \notin Superseded /\ r.value \notin Superseded'
           /\ r.kind # "put" \/ wrongServer => Superseded' = Superseded
           /\ PastInv' /\ GetsAreFresh'
           /\ \A x, t : Waiting(x, t) /\ x # r => Waiting(x, t)'
  <1> DEFINE c == r.from
  <1>t. ClerkTypes
    BY Typed
  <1>1. /\ c \in Clerk /\ pc[c] = "waiting" /\ r = RequestOf(c) /\ ~r.deaf
        /\ r.kind = op[c].kind /\ r.value = op[c].value
    BY DEF Waiting, RequestOf
  <1>2. /\ pc'[c] = IF wrongServer THEN "update" ELSE "idle"
        /\ \A d \in Clerk \ {c} : pc'[d] = pc[d] /\ result'[d] = result[d]
        /\ r.kind # "put" /\ ~wrongServer => result'[c] = value
        /\ r.kind = "put" \/ wrongServer => result' = result
        /\ returned' = IF r.kind = "put" /\ ~wrongServer THEN returned \cup {r.value} ELSE returned
        /\ UNCHANGED <<ckView, op, puts, before, floor, overtaken>>
    BY <1>1, <1>t DEF Reply, ClerkTypes
  <1>3. r.kind = "put" => Putting(c) /\ r.value \notin returned /\ r.value <= puts /\ r.value \in Value
    BY <1>1, <1>t DEF CInv, PastInv, Putting, ClerkTypes, Op
  <1>4. Superseded \subseteq Superseded' /\ Superseded' \subseteq returned
    <2>1. \A v \in returned' : before'[v] \subseteq returned
      BY <1>2, <1>3, <1>t DEF CInv, PastInv, ClerkTypes
    <2> QED
      BY <1>2, <2>1 DEF Superseded
  <1>5. PastInv'
    <2>1. \A v \in returned' : v <= puts
      BY <1>2, <1>3 DEF CInv, PastInv
    <2>2. \A d \in Clerk : Putting(d)' => Putting(d) /\ (d = c => wrongServer) /\ op'[d] = op[d]
      BY <1>1, <1>2 DEF Putting
    <2>3. \A d \in Clerk : Putting(d)' => op'[d].value <= puts' /\ op'[d].value \notin returned'
      <3>1. ASSUME NEW d \in Clerk, Putting(d)' PROVE op[d].value \notin returned'
        <4>1. CASE d = c
          BY <1>2, <2>2, <3>1, <4>1 DEF CInv, PastInv
        <4>2. CASE d # c /\ r.kind = "put"
          <5>1. op[d].value # op[c].value /\ op[d].value \notin returned
            BY <1>1, <1>3, <2>2, <3>1, <4>2 DEF CInv, PastInv
          <5> QED
            BY <1>1, <1>2, <5>1
        <4>3. CASE r.kind # "put"
          BY <1>2, <2>2, <3>1, <4>3 DEF CInv, PastInv
        <4> QED
          BY <4>1, <4>2, <4>3
      <3> QED
        BY <1>2, <2>2, <3>1 DEF CInv, PastInv
    <2>4. \A v \in Value : before'[v] \subseteq returned'
      BY <1>2 DEF CInv, PastInv
    <2>5. \A d \in Clerk : floor'[d] \subseteq Superseded'
      BY <1>2, <1>4 DEF CInv, PastInv
    <2>6. \A d, e \in Clerk : Putting(d)' /\ Putting(e)' /\ d # e => op'[d].value # op'[e].value
      BY <2>2 DEF CInv, PastInv
    <2> QED
      BY <1>2, <2>1, <2>3, <2>4, <2>5, <2>6 DEF PastInv
  <1>6. GetsAreFresh'
    <2>1. ASSUME NEW d \in Clerk, ~overtaken', pc'[d] = "idle", op'[d].kind = "get"
          PROVE  result'[d] \notin floor'[d]
      <3>1. CASE d # c
        BY <1>2, <2>1, <3>1 DEF CInv, GetsAreFresh
      <3>2. CASE d = c
        <4>1. ~wrongServer /\ r.kind = "get" /\ ~overtaken
          BY <1>1, <1>2, <2>1, <3>2
        <4>2. result'[c] = value /\ value \notin Superseded /\ floor'[c] \subseteq Superseded
          BY <1>1, <1>2, <4>1 DEF CInv, PastInv
        <4> QED
          BY <3>2, <4>2
      <3> QED
        BY <3>1, <3>2
    <2> QED
      BY <2>1 DEF GetsAreFresh
  <1>7. ASSUME NEW x, NEW t, Waiting(x, t), x # r PROVE Waiting(x, t)'
    <2>1. x.from # c
      BY <1>1, <1>7 DEF Waiting
    <2> QED
      BY <1>2, <1>7, <2>1 DEF Waiting, RequestOf
  <1>8. r.kind # "put" \/ wrongServer => Superseded' = Superseded
    BY <1>2 DEF Superseded
  <1> QED
    BY <1>2, <1>3, <1>4, <1>5, <1>6, <1>7, <1>8

\* A request is answered by the primary, which has what was put.
LEMMA AtPrimary ==
    ASSUME IInv, CInv, NEW s \in up, NEW r, Waiting(r, s)
    PROVE  /\ s = view.Primary /\ s # view.Backup /\ view.Viewnum # 0 /\ s \in Server
           /\ r.from \in Clerk /\ r.kind \in {"get", "put"} /\ r \in ClerkRequest
           /\ r.kind = "put" => /\ r.value \notin returned /\ r.value \notin Superseded
                                /\ ValueAfter(s, r) = r.value
           /\ r.kind = "get" => ValueAfter(s, r) = store[s]
           /\ ~overtaken => store[s] \notin Superseded /\ ValueAfter(s, r) \notin Superseded
  <1>1. /\ r.from \in Clerk /\ r = RequestOf(r.from) /\ op[r.from] \in Op /\ s \in Server
        /\ r.kind = op[r.from].kind /\ r.value = op[r.from].value /\ pc[r.from] = "waiting"
        /\ ckView[r.from].Primary = s
    BY Typed DEF Waiting, RequestOf, ClerkTypes
  <1>2. s = view.Primary /\ s # view.Backup
    BY <1>1, RunningPrimary DEF CInv, PrimaryInv
  <1>3. view.Viewnum # 0
    BY <1>2, RunningPrimary DEF CInv, RolesInv, Struck
  <1>4. r.kind \in {"get", "put"} /\ r \in ClerkRequest
    <2>1. ASSUME NEW c \in Clerk, op[c] \in Op PROVE RequestOf(c) \in ClerkRequest
      BY <2>1 DEF RequestOf, Op, ClerkRequest
    <2> QED
      BY <1>1, <2>1 DEF Op
  <1>5. Superseded \subseteq returned
    BY Typed DEF CInv, PastInv, Superseded, ClerkTypes
  <1>6. r.kind = "put" => r.value \notin returned
    BY <1>1 DEF CInv, PastInv, Putting
  <1>7. ~overtaken => store[s] \notin Superseded
    BY <1>2 DEF CInv, StoreInv, PutsArePreserved
  <1> QED
    BY <1>1, <1>2, <1>3, <1>4, <1>5, <1>6, <1>7 DEF ValueAfter

\* The requests under way to backups are not disturbed by a step that adds
\* requests, removes one of a clerk, or the one of a caller that got further.
LEMMA CallersKeep ==
    ASSUME IInv, CInv, NEW moved, up' = up, acked' => acked,
           \A t \in Server \ moved : pbView'[t] = pbView[t],
           \A t \in Server \ moved : mu'[t] = mu[t] /\ serving'[t] = serving[t] /\ store'[t] = store[t],
           \A b \in Server : \A x \in inbox[b] : ~x.deaf /\ x.from \in Server \ moved => x \in inbox'[b]
    PROVE  \A t \in Server \ moved :
              /\ mu'[t] # "free" => pbView'[t].Primary = t /\ pbView'[t].Backup # None
              /\ pbView'[t].Backup \in up' =>
                    /\ mu'[t] = "forward" => Forwarded(t, serving[t])' \in inbox'[pbView'[t].Backup]
                    /\ mu'[t] = "sync" => ~acked' /\ SyncOf(t)' \in inbox'[pbView'[t].Backup]
  <1> SUFFICES ASSUME NEW t \in Server \ moved
               PROVE  /\ mu'[t] # "free" => pbView[t].Primary = t /\ pbView[t].Backup # None
                      /\ pbView[t].Backup \in up =>
                            /\ mu'[t] = "forward" => Forwarded(t, serving[t])' \in inbox'[pbView[t].Backup]
                            /\ mu'[t] = "sync" => ~acked' /\ SyncOf(t)' \in inbox'[pbView[t].Backup]
    OBVIOUS
  <1>1. Forwarded(t, serving[t])' = Forwarded(t, serving[t]) /\ SyncOf(t)' = SyncOf(t)
    BY DEF Forwarded, SyncOf
  <1>2. /\ Forwarded(t, serving[t]).from = t /\ ~Forwarded(t, serving[t]).deaf
        /\ SyncOf(t).from = t /\ ~SyncOf(t).deaf
    BY DEF Forwarded, SyncOf
  <1>3. up \subseteq Server
    BY Typed
  <1> QED
    BY <1>1, <1>2, <1>3 DEF CInv, CallerInv

\* Get or Put at a server that does not forward.
LEMMA ServeCInv ==
    ASSUME IInv, CInv, NEW s \in Server, NEW r \in inbox[s], Serve(s, r)
    PROVE  CInv'
  <1>t. ServerTypes /\ ClerkTypes /\ Clerk \cap Server = {} /\ up \subseteq Server
    BY Typed
  <1>0. /\ s \in up /\ mu[s] = "free" /\ ~Forwards(s) /\ Waiting(r, s) /\ r.kind \in {"get", "put"}
        /\ inbox' = [inbox EXCEPT ![s] = @ \ {r}] /\ store' = [store EXCEPT ![s] = ValueAfter(s, r)]
        /\ Reply(r, FALSE, ValueAfter(s, r))
        /\ UNCHANGED <<vsVars, started, up, pbView, mu, serving>>
    BY RequestAt DEF Serve
  <1>1. /\ s = view.Primary /\ s # view.Backup /\ view.Viewnum # 0 /\ r.from \in Clerk
        /\ r.kind = "put" => ValueAfter(s, r) = r.value
        /\ r.kind = "get" => ValueAfter(s, r) = store[s]
        /\ ~overtaken => ValueAfter(s, r) \notin Superseded
    BY <1>0, AtPrimary
  <1>2. /\ UNCHANGED <<ckView, op, puts, before, floor, overtaken>>
        /\ r.kind = "put" => r.value \notin Superseded'
        /\ r.kind = "get" => Superseded' = Superseded
        /\ PastInv' /\ GetsAreFresh'
        /\ \A x, t : Waiting(x, t) /\ x # r => Waiting(x, t)'
    BY <1>0, <1>1, ReplyCInv
  <1>3. LifeInv' /\ RolesInv' /\ PrimaryInv'
    BY <1>0, <1>2, SameViews
  <1>4. \A t \in Server : inbox'[t] = (IF t = s THEN inbox[s] \ {r} ELSE inbox[t])
    BY <1>0, <1>t DEF ServerTypes
  <1>5. \A t \in Server : inbox'[t] \subseteq inbox[t] /\ r \notin inbox'[t]
    <2>1. \A t \in Server : r \in inbox[t] => t = s
      BY <1>0, RequestAt DEF Waiting
    <2> QED
      BY <1>4, <2>1
  <1>6. BusyInv'
    BY <1>0, <1>5 DEF CInv, BusyInv
  <1>7. InboxInv'
    <2>1. ASSUME NEW t \in Server, NEW x \in inbox'[t] PROVE Accounted(x, t)'
      <3>1. Accounted(x, t) /\ (Waiting(x, t) => Waiting(x, t)')
        BY <1>2, <1>5 DEF CInv, InboxInv
      <3>2. Orphan(x, t) => Orphan(x, t)'
        BY <1>0 DEF Orphan, vsVars
      <3> QED
        BY <1>0, <3>1, <3>2 DEF Accounted
    <2> QED
      BY <2>1 DEF InboxInv
  <1>8. HandlerInv'
    <2>1. ASSUME NEW t \in Server, Handling(t)'
          PROVE  Waiting(serving[t], t)' /\ serving'[t] \notin inbox'[t]
      <3>1. Handling(t) /\ t # s /\ serving'[t] = serving[t]
        BY <1>0, <2>1 DEF Handling
      <3>2. Waiting(serving[t], t) /\ serving[t] \notin inbox[t]
        BY <3>1 DEF CInv, HandlerInv
      <3>3. serving[t] # r
        BY <1>0, <3>1, <3>2 DEF Waiting
      <3>4. Waiting(serving[t], t)'
        BY <1>0, <1>2, <3>2, <3>3 DEF Waiting, RequestOf
      <3> QED
        BY <1>5, <3>1, <3>2, <3>4
    <2> QED
      BY <2>1 DEF HandlerInv
  <1>9. CallerInv'
    <2> DEFINE moved == {s}
    <2>1. \A t \in Server \ moved : mu'[t] = mu[t] /\ serving'[t] = serving[t] /\ store'[t] = store[t]
      BY <1>0, <1>t DEF ServerTypes
    <2>2. \A b \in Server : \A x \in inbox[b] : ~x.deaf /\ x.from \in Server \ moved => x \in inbox'[b]
      BY <1>1, <1>4, <1>t
    <2>3. mu'[s] = "free"
      BY <1>0
    <2>4. \A t \in Server : t \in moved => t = s
      OBVIOUS
    <2> HIDE DEF moved
    <2> QED
      BY <1>0, <2>1, <2>2, <2>3, <2>4, CallersKeep DEF CallerInv, vsVars
  <1>10. ~HandedOver
    BY <1>0, <1>1, RunningPrimary DEF Forwards, HandedOver
  <1>11. StoreInv'
    <2>1. store'[s] = ValueAfter(s, r)
      BY <1>0, <1>t DEF ServerTypes
    <2>2. ~overtaken => store'[s] \notin Superseded'
      BY <1>0, <1>1, <1>2, <2>1
    <2>3. ~(acked /\ view.Backup \in up)
      BY <1>0, <1>1, <1>10, RunningPrimary DEF HandedOver, CInv, PrimaryInv
    <2>4. ~HandedOver'
      BY <1>0, <1>10 DEF HandedOver, vsVars
    <2> QED
      BY <1>0, <1>1, <1>2, <2>2, <2>3, <2>4 DEF StoreInv, PutsArePreserved, vsVars
  <1> QED
    BY <1>2, <1>3, <1>6, <1>7, <1>8, <1>9, <1>11 DEF CInv

\* Get or Put at a primary that calls its backup.
LEMMA ServeForwardingCInv ==
    ASSUME CrashesOnly, IInv, CInv, NEW s \in Server, NEW r \in inbox[s], ServeForwarding(s, r)
    PROVE  CInv'
  <1> DEFINE b == pbView[s].Backup
             f == Forwarded(s, r)
             got == IF b \in up THEN {f} ELSE {}
  <1>t. ServerTypes /\ ClerkTypes /\ Clerk \cap Server = {} /\ up \subseteq Server
    BY Typed
  <1>0. /\ s \in up /\ mu[s] = "free" /\ Forwards(s) /\ Waiting(r, s)
        /\ TakeAndCall(s, {r}, b, got) /\ mu' = [mu EXCEPT ![s] = "forward"]
        /\ serving' = [serving EXCEPT ![s] = r]
        /\ UNCHANGED <<vsVars, started, up, pbView, store, clerkVars, pastVars>>
    BY RequestAt, Reliable DEF ServeForwarding
  <1>1. /\ mu'[s] = "forward" /\ serving'[s] = r
        /\ \A t \in Server \ {s} : mu'[t] = mu[t] /\ serving'[t] = serving[t]
    BY <1>0, <1>t DEF ServerTypes
  <1>2. \A t \in Server : inbox'[t] = (IF t = s THEN inbox[s] \ {r} ELSE inbox[t])
                                      \cup (IF t = b THEN got ELSE {})
    BY <1>0 DEF TakeAndCall
  <1>3. \A x, t : Waiting(x, t) => Waiting(x, t)'
    BY <1>0, WaitOn DEF clerkVars
  <1>4. s = view.Primary /\ r.from \in Clerk
    BY <1>0, AtPrimary
  <1>5. f.from = s /\ ~f.deaf /\ s \notin Clerk
    BY <1>t DEF Forwarded
  <1>6. b \in up => b # s
    BY <1>0, <1>4, RunningPrimary DEF Forwards
  <1>7. LifeInv' /\ RolesInv' /\ PrimaryInv'
    BY <1>0, SameViews DEF clerkVars
  <1> HIDE DEF f
  <1>8. BusyInv'
    BY <1>0, <1>1, <1>2 DEF CInv, BusyInv
  <1>9. InboxInv'
    <2>1. ASSUME NEW t \in Server, NEW x \in inbox[t] PROVE Accounted(x, t)'
      <3>1. Accounted(x, t) /\ (Waiting(x, t) => Waiting(x, t)')
        BY <1>3 DEF CInv, InboxInv
      <3>2. Orphan(x, t) => Orphan(x, t)'
        BY <1>0 DEF Orphan, vsVars
      <3> QED
        BY <1>0, <3>1, <3>2 DEF Accounted
    <2>2. \A t \in Server : \A x \in inbox'[t] : x \in inbox[t] \/ x = f
      BY <1>2
    <2>3. ASSUME NEW t \in Server, NEW x \in inbox'[t] PROVE Accounted(x, t)'
      <3>1. x = f => Accounted(x, t)'
        BY <1>0, <1>5 DEF Accounted
      <3> QED
        BY <2>1, <2>2, <3>1
    <2> QED
      BY <2>3 DEF InboxInv
  <1>10. HandlerInv'
    <2>1. ASSUME NEW t \in Server, Handling(t)'
          PROVE  Waiting(serving[t], t)' /\ serving'[t] \notin inbox'[t]
      <3>1. CASE t = s
        <4>1. r \notin inbox'[s]
          BY <1>2, <1>5, <1>6, <1>4
        <4> QED
          BY <1>0, <1>1, <3>1, <4>1 DEF Waiting, RequestOf, clerkVars
      <3>2. CASE t # s
        <4>1. Waiting(serving[t], t) /\ serving[t] \notin inbox[t] /\ serving[t].from \in Clerk
          BY <1>1, <2>1, <3>2 DEF Handling, CInv, HandlerInv, Waiting
        <4>2. serving[t] # f
          BY <1>5, <4>1
        <4>3. serving[t] \notin inbox'[t]
          BY <1>2, <3>2, <4>1, <4>2
        <4> QED
          BY <1>0, <1>1, <3>2, <4>1, <4>3 DEF Waiting, RequestOf, clerkVars
      <3> QED
        BY <3>1, <3>2
    <2> QED
      BY <2>1 DEF HandlerInv
  <1>11. CallerInv'
    <2> DEFINE moved == {s}
    <2>1. \A t \in Server \ moved : mu'[t] = mu[t] /\ serving'[t] = serving[t] /\ store'[t] = store[t]
      BY <1>0, <1>1
    <2>2. \A d \in Server : \A x \in inbox[d] : ~x.deaf /\ x.from \in Server \ moved => x \in inbox'[d]
      BY <1>2, <1>4, <1>t
    <2>3. \A t \in Server : t \in moved => t = s
      OBVIOUS
    <2>4. /\ mu'[s] = "forward" /\ pbView[s].Primary = s /\ pbView[s].Backup # None
          /\ Forwarded(s, serving[s])' = f
      BY <1>0, <1>1 DEF Forwards, Forwarded, f
    <2>5. b \in up => f \in inbox'[b]
      BY <1>2, <1>t
    <2> HIDE DEF moved
    <2>6. \A t \in Server \ moved :
              /\ mu'[t] # "free" => pbView'[t].Primary = t /\ pbView'[t].Backup # None
              /\ pbView'[t].Backup \in up' =>
                    /\ mu'[t] = "forward" => Forwarded(t, serving[t])' \in inbox'[pbView'[t].Backup]
                    /\ mu'[t] = "sync" => ~acked' /\ SyncOf(t)' \in inbox'[pbView'[t].Backup]
      BY <1>0, <2>1, <2>2, CallersKeep DEF vsVars
    <2> QED
      BY <1>0, <2>3, <2>4, <2>5, <2>6 DEF CallerInv
  <1>12. PastInv' /\ GetsAreFresh' /\ Superseded' = Superseded
    BY <1>0, SamePast DEF clerkVars, pastVars
  <1>13. StoreInv'
    <2>1. HandedOver' => HandedOver
      BY <1>0, <1>1, <1>4 DEF HandedOver, vsVars
    <2> QED
      BY <1>0, <1>1, <1>4, <1>12, <2>1 DEF CInv, StoreInv, PutsArePreserved, vsVars, pastVars
  <1> QED
    BY <1>7, <1>8, <1>9, <1>10, <1>11, <1>12, <1>13 DEF CInv

\* The call of Forward fails: the backup is down.
LEMMA ForwardFailsCInv == ASSUME IInv, CInv, NEW s \in Server, ForwardFails(s) PROVE CInv'
  <1>t. ServerTypes /\ ClerkTypes /\ up \subseteq Server
    BY Typed
  <1>0. /\ mu[s] = "forward" /\ Unanswered(s, pbView[s].Backup)
        /\ mu'[s] = "rejected" /\ \A t \in Server \ {s} : mu'[t] = mu[t]
        /\ UNCHANGED <<vsVars, started, up, pbView, store, inbox, serving, clerkVars, pastVars>>
    BY <1>t DEF ForwardFails, ServerTypes
  <1>1. pbView[s].Backup \notin up
    <2>1. Forwarded(s, serving[s]).from = s /\ ~Forwarded(s, serving[s]).deaf
      BY DEF Forwarded
    <2> QED
      BY <1>0, <2>1 DEF CInv, CallerInv, Unanswered
  <1>2. s \in up /\ pbView[s].Primary = s /\ s = view.Primary
    <2>1. s \in up /\ pbView[s].Primary = s
      BY <1>0 DEF CInv, BusyInv, CallerInv
    <2> QED
      BY <2>1, RunningPrimary
  <1>3. LifeInv' /\ RolesInv' /\ PrimaryInv'
    BY <1>0, SameViews DEF clerkVars
  <1>4. \A x, t : Waiting(x, t) => Waiting(x, t)'
    BY <1>0, WaitOn DEF clerkVars
  <1>5. BusyInv'
    BY <1>0, <1>2 DEF CInv, BusyInv
  <1>6. InboxInv'
    <2>1. ASSUME NEW t \in Server, NEW x \in inbox[t] PROVE Accounted(x, t)'
      <3>1. Accounted(x, t) /\ (Waiting(x, t) => Waiting(x, t)')
        BY <1>4 DEF CInv, InboxInv
      <3>2. Orphan(x, t) => Orphan(x, t)'
        BY <1>0 DEF Orphan, vsVars
      <3> QED
        BY <1>0, <3>1, <3>2 DEF Accounted
    <2> QED
      BY <1>0, <2>1 DEF InboxInv
  <1>7. HandlerInv'
    BY <1>0 DEF CInv, HandlerInv, Handling, Waiting, RequestOf, clerkVars
  <1>8. CallerInv'
    <2>1. \A t \in Server : Forwarded(t, serving[t])' = Forwarded(t, serving[t]) /\ SyncOf(t)' = SyncOf(t)
      BY <1>0 DEF Forwarded, SyncOf
    <2> QED
      BY <1>0, <2>1 DEF CInv, CallerInv, vsVars
  <1>9. PastInv' /\ GetsAreFresh' /\ Superseded' = Superseded
    BY <1>0, SamePast DEF clerkVars, pastVars
  <1>10. StoreInv'
    <2>1. ~HandedOver /\ ~HandedOver'
      BY <1>0, <1>1, <1>2, RunningPrimary DEF HandedOver, vsVars
    <2> QED
      BY <1>0, <1>9, <2>1 DEF CInv, StoreInv, PutsArePreserved, vsVars, pastVars
  <1> QED
    BY <1>3, <1>5, <1>6, <1>7, <1>8, <1>9, <1>10 DEF CInv

\* The steps that take a server's request at b: Forward and Sync.
LEMMA TakenAt ==
    ASSUME IInv, CInv, NEW b \in Server, NEW r \in inbox[b], r.from \in Server,
           inbox' = [inbox EXCEPT ![b] = @ \ {r}],
           UNCHANGED <<view, started, up, serving, clerkVars>>,
           view.Primary \notin up => acked' = acked, acked' => acked,
           \A t \in Server \ {b} : pbView'[t] = pbView[t],
           pbView'[b] \in {pbView[b], view},
           r.deaf => mu' = mu,
           ~r.deaf => /\ \A t \in Server \ {r.from} : mu'[t] = mu[t]
                      /\ mu'[r.from] = "free" \/ (r.kind # "sync" /\ mu'[r.from] \in {"forwarded", "rejected"})
    PROVE  /\ BusyInv' /\ InboxInv' /\ HandlerInv'
           /\ \A t \in Server : \A x \in inbox'[t] : x \in inbox[t]
           /\ \A t \in Server : \A x \in inbox[t] : x # r => x \in inbox'[t]
  <1>t. ServerTypes /\ ClerkTypes /\ Clerk \cap Server = {} /\ up \subseteq Server /\ SentInv
    BY Typed
  <1>1. /\ \A t \in Server : \A x \in inbox'[t] : x \in inbox[t]
        /\ \A t \in Server : \A x \in inbox[t] : x # r => x \in inbox'[t]
    BY <1>t DEF ServerTypes
  <1>2. ~r.deaf => Sent(r, b)
    BY <1>t DEF SentInv
  <1>3. \A t \in Server : mu'[t] # "free" => mu[t] # "free"
    BY <1>2 DEF Sent
  <1>4. BusyInv'
    BY <1>1, <1>3 DEF CInv, BusyInv
  <1>5. InboxInv'
    <2>1. ASSUME NEW t \in Server, NEW x \in inbox'[t] PROVE Accounted(x, t)'
      <3>1. Accounted(x, t) /\ (Waiting(x, t) => Waiting(x, t)') /\ t \in up
        BY <1>1, WaitOn DEF CInv, InboxInv, BusyInv, clerkVars
      <3>2. ASSUME Orphan(x, t) PROVE Orphan(x, t)'
        <4>1. CASE x.kind = "sync" \/ view.Primary = t
          BY <3>2, <4>1 DEF Orphan
        <4>2. CASE pbView[t].Backup = t /\ pbView[t].Viewnum = view.Viewnum /\ view.Primary \notin up
          <5>1. view.Backup = t
            BY <3>1, <4>2, RunningPrimary
          <5>2. pbView'[t].Backup = t /\ pbView'[t].Viewnum = view.Viewnum
            BY <4>2, <5>1
          <5> QED
            BY <3>2, <4>2, <5>2 DEF Orphan
        <4> QED
          BY <3>2, <4>1, <4>2 DEF Orphan
      <3> QED
        BY <3>1, <3>2 DEF Accounted
    <2> QED
      BY <2>1 DEF InboxInv
  <1>6. HandlerInv'
    <2>1. ASSUME NEW t \in Server, Handling(t)'
          PROVE  Waiting(serving[t], t)' /\ serving'[t] \notin inbox'[t]
      <3>1. ~r.deaf /\ t = r.from => mu[t] = "forward"
        BY <1>2, <2>1 DEF Handling, Sent, SyncOf
      <3>2. Handling(t)
        BY <2>1, <3>1 DEF Handling
      <3>3. Waiting(serving[t], t) /\ serving[t] \notin inbox[t]
        BY <3>2 DEF CInv, HandlerInv
      <3> QED
        BY <1>1, <3>3 DEF Waiting, RequestOf, clerkVars
    <2> QED
      BY <2>1 DEF HandlerInv
  <1> QED
    BY <1>1, <1>4, <1>5, <1>6

\* What Forward does with an orphan, at a backup that was promoted or has no
\* primary any more: unless it stores what was replaced, nothing is lost.
LEMMA OrphanForward ==
    ASSUME IInv, CInv, NEW b \in Server, NEW r \in inbox[b], Orphan(r, b), r.kind # "sync",
           NEW value, ~overtaken' => ~overtaken /\ (value = store[b] \/ value \notin Superseded),
           \A t \in Server \ {b} : store'[t] = store[t], store'[b] = value,
           pbView[b].Backup = b,
           UNCHANGED <<vsVars, up, pbView, mu, serving>>, Superseded' = Superseded
    PROVE  StoreInv'
  <1>t. ServerTypes /\ up \subseteq Server /\ b \in up
    BY Typed, RequestAt
  <1>1. ~HandedOver
    <2>1. CASE view.Primary = b
      BY <1>t, <2>1, RunningPrimary DEF HandedOver
    <2>2. CASE view.Primary \notin up
      BY <2>2 DEF HandedOver
    <2> QED
      BY <2>1, <2>2 DEF Orphan
  <1>2. ~HandedOver'
    BY <1>1 DEF HandedOver, vsVars
  <1>3. PutsArePreserved'
    BY <1>t DEF CInv, StoreInv, PutsArePreserved, vsVars
  <1> QED
    BY <1>2, <1>3 DEF CInv, StoreInv, vsVars

LEMMA ForwardCInv ==
    ASSUME IInv, CInv, NEW b \in Server, NEW r \in inbox[b], Forward(b, r)
    PROVE  CInv'
  <1> DEFINE s == r.from
             ok == pbView[b].Backup = b
  <1>t. ServerTypes /\ ClerkTypes /\ Clerk \cap Server = {} /\ up \subseteq Server /\ SentInv
    BY Typed
  <1>0. /\ mu[b] = "free" /\ r.kind \in {"forwardGet", "forwardPut"} /\ b \in up
        /\ s \in Server /\ (r.deaf => Orphan(r, b)) /\ (~r.deaf => s \in up /\ Sent(r, b))
        /\ inbox' = [inbox EXCEPT ![b] = @ \ {r}]
        /\ UNCHANGED <<vsVars, started, up, pbView, serving, clerkVars, puts, returned, before, floor>>
    BY RequestAt DEF Forward
  <1>1. /\ store'[b] = (IF ok THEN ValueAfter(b, r) ELSE store[b])
        /\ \A t \in Server \ {b} : store'[t] = store[t]
    BY <1>t DEF Forward, ServerTypes
  <1>2. r.deaf => mu' = mu
    BY DEF Forward
  <1>3. ~r.deaf => /\ \A t \in Server \ {s} : mu'[t] = mu[t]
                   /\ mu'[s] = IF ok THEN "forwarded" ELSE "rejected"
    BY <1>t, <1>0 DEF Forward, ServerTypes
  <1>4. /\ (~overtaken' => ~overtaken /\ ~(ok /\ r.deaf /\ r.value \in Superseded))
        /\ (~r.deaf => overtaken' = overtaken)
    <2>1. overtaken' = (overtaken \/ (ok /\ r.deaf /\ r.value \in Superseded))
      BY DEF Forward
    <2>2. overtaken \in BOOLEAN
      BY <1>t DEF ClerkTypes
    <2> QED
      BY <2>1, <2>2
  <1>5. /\ BusyInv' /\ InboxInv' /\ HandlerInv'
        /\ \A t \in Server : \A x \in inbox[t] : x # r => x \in inbox'[t]
    <2>1. ~r.deaf => mu'[s] \in {"forwarded", "rejected"}
      BY <1>3
    <2> HIDE DEF ok
    <2> QED
      BY <1>0, <1>2, <1>3, <2>1, TakenAt DEF vsVars
  <1>6. LifeInv' /\ RolesInv' /\ PrimaryInv'
    BY <1>0, SameViews DEF clerkVars
  <1>7. CallerInv'
    <2> DEFINE moved == IF r.deaf THEN {b} ELSE {b, s}
    <2>1. \A t \in Server \ moved : mu'[t] = mu[t] /\ serving'[t] = serving[t] /\ store'[t] = store[t]
      BY <1>0, <1>1, <1>2, <1>3
    <2>2. \A d \in Server : \A x \in inbox[d] : ~x.deaf /\ x.from \in Server \ moved => x \in inbox'[d]
      BY <1>5
    <2>3. mu'[b] = "free" \/ (~r.deaf /\ b = s)
      BY <1>0, <1>2, <1>3
    <2>4. ~r.deaf => /\ mu'[s] \in {"forwarded", "rejected"} /\ pbView[s].Primary = s
                     /\ pbView[s].Backup # None
      BY <1>0, <1>3 DEF CInv, CallerInv, Sent
    <2>5. \A t \in Server : t \in moved => t = b \/ (~r.deaf /\ t = s)
      OBVIOUS
    <2> HIDE DEF moved
    <2>6. \A t \in Server \ moved :
              /\ mu'[t] # "free" => pbView'[t].Primary = t /\ pbView'[t].Backup # None
              /\ pbView'[t].Backup \in up' =>
                    /\ mu'[t] = "forward" => Forwarded(t, serving[t])' \in inbox'[pbView'[t].Backup]
                    /\ mu'[t] = "sync" => ~acked' /\ SyncOf(t)' \in inbox'[pbView'[t].Backup]
      BY <1>0, <2>1, <2>2, CallersKeep DEF vsVars
    <2> QED
      BY <1>0, <2>3, <2>4, <2>5, <2>6 DEF CallerInv
  <1>8. PastInv' /\ Superseded' = Superseded
    BY <1>0, SamePast DEF clerkVars
  <1>9. GetsAreFresh'
    BY <1>0, <1>4 DEF CInv, GetsAreFresh, clerkVars
  <1>10. CASE r.deaf
    <2>1. CASE ok
      <3>1. ValueAfter(b, r) \in {r.value, store[b]}
        BY DEF ValueAfter
      <3> DEFINE value == ValueAfter(b, r)
      <3>2. ~overtaken' => ~overtaken /\ (value = store[b] \/ value \notin Superseded)
        BY <1>4, <1>10, <2>1, <3>1
      <3>3. store'[b] = value
        BY <1>1, <2>1
      <3> HIDE DEF value
      <3>4. StoreInv'
        BY <1>0, <1>1, <1>2, <1>8, <1>10, <2>1, <3>2, <3>3, OrphanForward
      <3> QED
        BY <1>5, <1>6, <1>7, <1>8, <1>9, <3>4 DEF CInv
    <2>2. CASE ~ok
      <3>1. \A t \in Server : store'[t] = store[t] /\ mu' = mu
        BY <1>1, <1>2, <1>10, <2>2
      <3>2. HandedOver' = HandedOver
        BY <1>0, <3>1 DEF HandedOver, vsVars
      <3>3. HandedOver => view.Primary \in Server /\ view.Backup \in Server
        BY <1>t DEF HandedOver
      <3>4. \A t \in Server : ValueAfter(t, serving[t])' = ValueAfter(t, serving[t])
        BY <1>0, <3>1 DEF ValueAfter
      <3>5. StoreInv'
        BY <1>0, <1>4, <1>8, <1>t, <3>1, <3>2, <3>3, <3>4 DEF CInv, StoreInv, PutsArePreserved, vsVars
      <3> QED
        BY <1>5, <1>6, <1>7, <1>8, <1>9, <3>5 DEF CInv
    <2> QED
      BY <2>1, <2>2
  <1>11. CASE ~r.deaf
    <2>1. /\ s \in up /\ pbView[s].Backup = b /\ mu[s] = "forward" /\ r = Forwarded(s, serving[s])
          /\ pbView[s].Primary = s /\ Waiting(serving[s], s)
      <3>1. Sent(r, b) /\ s \in up /\ s \in Server /\ r.kind # "sync"
        BY <1>0, <1>11
      <3>2. SyncOf(s).kind = "sync"
        BY DEF SyncOf
      <3>3. pbView[s].Backup = b /\ mu[s] = "forward" /\ r = Forwarded(s, serving[s])
        BY <3>1, <3>2 DEF Sent
      <3>4. Waiting(serving[s], s) /\ pbView[s].Primary = s
        BY <3>1, <3>3 DEF CInv, CallerInv, HandlerInv, Handling
      <3> QED
        BY <3>1, <3>3, <3>4
    <2>2. s = view.Primary /\ pbView[s].Viewnum = view.Viewnum /\ b = view.Backup /\ b # s
      BY <1>0, <2>1, RunningPrimary
    <2>3. HandedOver
      BY <1>0, <2>1, <2>2 DEF HandedOver
    <2>4. pbView[b].Viewnum = view.Viewnum /\ ok /\ store[b] = store[s]
      BY <1>0, <2>1, <2>2, <2>3, RunningPrimary DEF CInv, StoreInv
    <2>5. /\ serving[s].kind \in {"get", "put"}
          /\ serving[s].kind = "put" => serving[s].value \notin Superseded
      BY <2>1, AtPrimary
    <2>6. store'[b] = ValueAfter(s, serving[s]) /\ store'[s] = store[s]
      BY <1>1, <2>1, <2>2, <2>4, <2>5, <1>0 DEF ValueAfter, Forwarded
    <2>7. ValueAfter(s, serving[s])' = ValueAfter(s, serving[s])
      BY <1>0, <2>6 DEF ValueAfter
    <2>8. mu'[s] = "forwarded"
      BY <1>3, <1>11, <2>4
    <2>9. ~overtaken => store'[b] \notin Superseded \/ ~acked
      BY <1>0, <2>2, <2>5, <2>6, <2>1 DEF ValueAfter, CInv, StoreInv, PutsArePreserved
    <2>10. PutsArePreserved'
      BY <1>0, <1>4, <1>8, <1>11, <2>2, <2>6, <2>9 DEF CInv, StoreInv, PutsArePreserved, vsVars
    <2> HIDE DEF s
    <2>11. StoreInv'
      BY <1>0, <1>8, <2>2, <2>3, <2>4, <2>6, <2>7, <2>8, <2>10 DEF CInv, StoreInv, vsVars
    <2> QED
      BY <1>5, <1>6, <1>7, <1>8, <1>9, <2>11 DEF CInv
  <1> QED
    BY <1>10, <1>11

\* Get or Put returns after the call to the backup.
LEMMA FinishCInv == ASSUME IInv, CInv, NEW s \in Server, Finish(s) PROVE CInv'
  <1> DEFINE r == serving[s]
             ok == mu[s] = "forwarded"
  <1>t. ServerTypes /\ ClerkTypes /\ Clerk \cap Server = {} /\ up \subseteq Server
    BY Typed
  <1>0. /\ mu[s] \in {"forwarded", "rejected"} /\ s \in up
        /\ mu'[s] = "free" /\ serving'[s] = None
        /\ \A t \in Server \ {s} : mu'[t] = mu[t] /\ serving'[t] = serving[t]
        /\ UNCHANGED <<vsVars, started, up, pbView, inbox>>
    BY <1>t DEF Finish, ServerTypes, CInv, BusyInv
  <1>1. Waiting(r, s) /\ pbView[s].Primary = s /\ r \notin inbox[s]
    BY <1>0 DEF CInv, HandlerInv, CallerInv, Handling
  <1>2. /\ s = view.Primary /\ s # view.Backup /\ view.Viewnum # 0 /\ r.kind \in {"get", "put"}
        /\ r.kind = "put" => ValueAfter(s, r) = r.value
        /\ ~overtaken => store[s] \notin Superseded /\ ValueAfter(s, r) \notin Superseded
    BY <1>0, <1>1, AtPrimary
  <1>3. /\ store'[s] = IF ok THEN ValueAfter(s, r) ELSE store[s]
        /\ \A t \in Server \ {s} : store'[t] = store[t]
    BY <1>t DEF Finish, ServerTypes
  <1>w. PICK wrongServer \in BOOLEAN :
            /\ wrongServer = ~ok
            /\ \E value : Reply(r, wrongServer, value) /\ (ok => value = ValueAfter(s, r))
    <2>1. CASE ok
      BY <2>1 DEF Finish
    <2>2. CASE ~ok
      BY <2>2, <1>0 DEF Finish
    <2> QED
      BY <2>1, <2>2
  <1>4. PICK value : Reply(r, wrongServer, value) /\ (ok => value = ValueAfter(s, r))
    BY <1>w
  <1> HIDE DEF r
  <1>5. /\ UNCHANGED <<ckView, op, puts, before, floor, overtaken>>
        /\ r.kind = "put" => r.value \notin Superseded'
        /\ r.kind # "put" \/ ~ok => Superseded' = Superseded
        /\ PastInv' /\ GetsAreFresh'
        /\ \A x, t : Waiting(x, t) /\ x # r => Waiting(x, t)'
    BY <1>1, <1>2, <1>4, <1>w, ReplyCInv
  <1>6. LifeInv' /\ RolesInv' /\ PrimaryInv'
    BY <1>0, <1>5, SameViews
  <1>7. BusyInv'
    BY <1>0 DEF CInv, BusyInv
  <1>8. InboxInv'
    <2>1. ASSUME NEW t \in Server, NEW x \in inbox[t] PROVE Accounted(x, t)'
      <3>1. Accounted(x, t) /\ (Waiting(x, t) => x # r)
        BY <1>1 DEF CInv, InboxInv, Waiting
      <3>2. Orphan(x, t) => Orphan(x, t)'
        BY <1>0 DEF Orphan, vsVars
      <3> QED
        BY <1>0, <1>5, <3>1, <3>2 DEF Accounted
    <2> QED
      BY <1>0, <2>1 DEF InboxInv
  <1>9. HandlerInv'
    <2>1. ASSUME NEW t \in Server, Handling(t)'
          PROVE  Waiting(serving[t], t)' /\ serving'[t] \notin inbox'[t]
      <3>1. Handling(t) /\ t # s /\ serving'[t] = serving[t]
        BY <1>0, <2>1 DEF Handling
      <3>2. Waiting(serving[t], t) /\ serving[t] \notin inbox[t]
        BY <3>1 DEF CInv, HandlerInv
      <3>3. serving[t] # r
        BY <1>1, <3>1, <3>2 DEF Waiting
      <3>4. PICK x : x = serving[t]
        OBVIOUS
      <3>5. Waiting(x, t)'
        BY <1>5, <3>2, <3>3, <3>4
      <3> QED
        BY <1>0, <3>1, <3>2, <3>4, <3>5 DEF Waiting, RequestOf
    <2> QED
      BY <2>1 DEF HandlerInv
  <1>10. CallerInv'
    <2> DEFINE moved == {s}
    <2>1. \A t \in Server \ moved : mu'[t] = mu[t] /\ serving'[t] = serving[t] /\ store'[t] = store[t]
      BY <1>0, <1>3
    <2>2. \A b \in Server : \A x \in inbox[b] : ~x.deaf /\ x.from \in Server \ moved => x \in inbox'[b]
      BY <1>0
    <2>3. \A t \in Server : t \in moved => t = s
      OBVIOUS
    <2> HIDE DEF moved
    <2> QED
      BY <1>0, <2>1, <2>2, <2>3, CallersKeep DEF CallerInv, vsVars
  <1>11. StoreInv'
    <2>1. view.Backup \in up => view.Backup \in Server \ {s}
      BY <1>2, <1>t
    <2>2. HandedOver' = HandedOver
      BY <1>0, <1>2 DEF HandedOver, vsVars
    <2>3. HandedOver => ok /\ store'[view.Backup] = store'[s]
      <3>1. HandedOver => store[view.Backup] = ValueAfter(s, r) /\ ok
        BY <1>0, <1>2 DEF CInv, StoreInv, r
      <3> QED
        BY <1>3, <2>1, <3>1 DEF HandedOver
    <2>4. acked /\ view.Backup \in up => HandedOver
      BY <1>0, <1>1, <1>2, RunningPrimary DEF HandedOver, CInv, PrimaryInv
    <2>5. ~overtaken => store'[s] \notin Superseded'
      <3>1. CASE ok
        BY <1>2, <1>3, <1>5, <3>1
      <3>2. CASE ~ok
        BY <1>2, <1>3, <1>5, <3>2
      <3> QED
        BY <3>1, <3>2
    <2>6. PutsArePreserved'
      BY <1>0, <1>2, <1>5, <2>3, <2>4, <2>5 DEF PutsArePreserved, vsVars
    <2> QED
      BY <1>0, <1>2, <2>2, <2>3, <2>6 DEF CInv, StoreInv, vsVars
  <1> QED
    BY <1>5, <1>6, <1>7, <1>8, <1>9, <1>10, <1>11 DEF CInv
\* A ping acknowledges the view if it is the primary's with the view's number.
Acks(s) == s = view.Primary /\ pbView[s].Viewnum = view.Viewnum
LEMMA PingCInv ==
    ASSUME IInv, CInv, NEW s \in up, Ping(s), UNCHANGED <<up, started>>
    PROVE  LifeInv' /\ view' = view /\ formed' = formed /\ acked' = (acked \/ Acks(s))
  <1>0. /\ view' = view /\ formed' = formed /\ acked' = (acked \/ Acks(s))
        /\ known' = known \cup {s} /\ dead' = dead \ {s} /\ age' = [age EXCEPT ![s] = 0]
        /\ idle' = IF s \in known THEN idle ELSE idle \cup {s}
        /\ primaryRestarted' = (\/ primaryRestarted
                                \/ /\ s = view.Primary /\ pbView[s].Viewnum = 0 /\ view.Viewnum # 0
                                   /\ acked')
    BY DEF Ping, VS!Ping, Acks
  <1>1. up \subseteq started /\ age \in [Server -> 0..(DeadPings + 1)] /\ s \in Server
        /\ {view.Primary, view.Backup} \subseteq known \cup {None} /\ None \notin up
    BY RunningPrimary DEF IInv, TypeOK, VS!TypeOK
  <1>2. ~primaryRestarted'
    BY <1>0 DEF CInv, LifeInv, PrimaryInv, Acks
  <1>3. known' \subseteq started /\ dead' \cap up = {}
    BY <1>0, <1>1 DEF CInv, LifeInv
  <1>4. \A t \in up \cap known' : age'[t] <= 1
    BY <1>0, <1>1 DEF CInv, LifeInv
  <1>5. \A t \in up \cap {view.Primary, view.Backup} : t \notin idle'
    BY <1>0, <1>1 DEF CInv, LifeInv
  <1>6. acked' /\ view.Viewnum > 0 => view.Primary \in up \/ view.Backup \in up
    BY <1>0 DEF CInv, LifeInv, Acks
  <1> QED
    BY <1>0, <1>2, <1>3, <1>4, <1>5, <1>6 DEF LifeInv

\* A server that pinged keeps its view, or takes that of the view server.
LEMMA LearnCInv ==
    ASSUME IInv, CInv, NEW s \in up, pbView' \in {pbView, [pbView EXCEPT ![s] = view]},
           UNCHANGED <<view, formed, up, started, ckView>>, acked' = (acked \/ Acks(s))
    PROVE  RolesInv' /\ PrimaryInv'
  <1>0. /\ pbView'[s] \in {pbView[s], view} /\ s \in Server
        /\ \A t \in Server \ {s} : pbView'[t] = pbView[t]
    BY DEF IInv, TypeOK
  <1>1. RolesInv'
    BY <1>0 DEF CInv, RolesInv, Struck
  <1>2. PrimaryInv'
    <2>1. {view.Primary, view.Backup} \subseteq started \cup {None}
      BY DEF CInv, RolesInv, Struck
    <2>2. \A t \in up : pbView'[t].Primary = t /\ pbView'[t].Backup \in up
                           => pbView'[t].Viewnum = view.Viewnum
      BY <1>0 DEF CInv, PrimaryInv, IInv, TypeOK
    <2>3. acked' /\ view.Primary \in up => pbView'[view.Primary].Viewnum = view.Viewnum
      BY <1>0, RunningPrimary DEF CInv, PrimaryInv, Acks
    <2> QED
      BY <1>0, <2>1, <2>2, <2>3 DEF CInv, PrimaryInv
  <1> QED
    BY <1>1, <1>2


\* The servers' requests and handlers while s ticks: it may have called Sync.
LEMMA TickingKeeps ==
    ASSUME IInv, CInv, NEW s \in up, UNCHANGED <<started, up, serving, clerkVars>>,
           \A t \in Server \ {s} : mu'[t] = mu[t],
           mu[s] \in {"free", "sync"}, mu'[s] \in {"free", "sync"},
           \A t \in Server : \A x \in inbox'[t] : x \in inbox[t] \/ (x = SyncOf(s) /\ t \in up),
           \A x : \A t \in up : Orphan(x, t) => Orphan(x, t)'
    PROVE  BusyInv' /\ InboxInv' /\ HandlerInv'
  <1>t. Clerk \cap Server = {} /\ up \subseteq Server
    BY Typed
  <1>0. SyncOf(s).from = s /\ ~SyncOf(s).deaf
    BY DEF SyncOf
  <1>1. BusyInv'
    BY <1>t DEF CInv, BusyInv
  <1>2. ASSUME NEW t \in Server, NEW x \in inbox'[t] PROVE Accounted(x, t)'
    <2>1. CASE x \in inbox[t]
      <3>1. Accounted(x, t) /\ t \in up
        BY <2>1 DEF CInv, InboxInv, BusyInv
      <3>2. Waiting(x, t) => Waiting(x, t)'
        BY WaitOn DEF clerkVars
      <3> QED
        BY <3>1, <3>2 DEF Accounted
    <2>2. CASE x = SyncOf(s)
      BY <1>t, <1>0, <2>2 DEF Accounted
    <2> QED
      BY <2>1, <2>2
  <1>3. ASSUME NEW t \in Server, Handling(t)'
        PROVE  Waiting(serving[t], t)' /\ serving'[t] \notin inbox'[t]
    <2>1. Handling(t)
      BY <1>3 DEF Handling
    <2>2. Waiting(serving[t], t) /\ serving[t] \notin inbox[t]
      BY <2>1 DEF CInv, HandlerInv
    <2>3. serving[t] # SyncOf(s)
      BY <1>t, <1>0, <2>2 DEF Waiting
    <2> QED
      BY <2>2, <2>3 DEF Waiting, RequestOf, clerkVars
  <1> QED
    BY <1>1, <1>2, <1>3 DEF InboxInv, HandlerInv

\* The call of Sync waits at a backup that runs.
LEMMA SyncCalled ==
    ASSUME CrashesOnly, IInv, NEW s \in Server, SyncBackup(s)
    PROVE  /\ \A t \in Server \ {s} : mu'[t] = mu[t]
           /\ mu'[s] = IF view.Backup # None THEN "sync" ELSE "free"
           /\ \A t \in Server : inbox[t] \subseteq inbox'[t]
           /\ \A t \in Server : \A x \in inbox'[t] : x \in inbox[t] \/ (x = SyncOf(s) /\ t \in up)
           /\ view.Backup \in up => SyncOf(s) \in inbox'[view.Backup]
  <1>t. ServerTypes /\ None \notin up /\ up \subseteq Server
    BY Typed
  <1>1. CASE view.Backup = None
    BY <1>t, <1>1 DEF SyncBackup, ServerTypes
  <1>2. CASE view.Backup # None
    <2> DEFINE got == IF view.Backup \in up THEN {SyncOf(s)} ELSE {}
    <2>1. mu' = [mu EXCEPT ![s] = "sync"] /\ TakeAndCall(None, {}, view.Backup, got)
      BY <1>2, Reliable DEF SyncBackup
    <2>2. \A t \in Server : inbox'[t] = inbox[t] \cup (IF t = view.Backup THEN got ELSE {})
      BY <2>1 DEF TakeAndCall
    <2> QED
      BY <1>t, <1>2, <2>1, <2>2 DEF ServerTypes
  <1> QED
    BY <1>1, <1>2

\* tick() of a p/b server.
LEMMA ServerTickCInv == ASSUME CrashesOnly, IInv, CInv, NEW s \in Server, tick(s) PROVE CInv'
  <1>t. ServerTypes /\ ClerkTypes /\ view \in VS!View /\ up \subseteq Server /\ None \notin up
    BY Typed
  <1>0. /\ s \in up /\ mu[s] = "free" /\ Ping(s)
        /\ pbView' \in {pbView, [pbView EXCEPT ![s] = view]}
        /\ UNCHANGED <<started, up, store, serving, clerkVars, pastVars>>
    BY DEF tick
  <1>1. LifeInv' /\ view' = view /\ formed' = formed /\ acked' = (acked \/ Acks(s))
    BY <1>0, PingCInv
  <1>2. RolesInv' /\ PrimaryInv'
    BY <1>0, <1>1, LearnCInv DEF clerkVars
  <1>3. \A t \in Server \ {s} : mu'[t] = mu[t] /\ pbView'[t] = pbView[t]
    <2>1. mu' = mu \/ SyncBackup(s)
      BY DEF tick
    <2> QED
      BY <1>t, <1>0, <2>1, SyncCalled DEF ServerTypes
  <1>4. \/ /\ view.Viewnum = pbView[s].Viewnum /\ pbView' = pbView /\ UNCHANGED <<mu, inbox>>
        \/ /\ view.Viewnum # pbView[s].Viewnum /\ pbView'[s] = view
           /\ IF view.Primary = s THEN SyncBackup(s) ELSE UNCHANGED <<mu, inbox>>
    BY <1>0, <1>t DEF tick, ServerTypes
  <1>5. /\ mu'[s] \in {"free", "sync"} /\ (mu'[s] = "sync" => view.Primary = s /\ view.Backup # None
                                                              /\ pbView'[s] = view /\ ~acked')
        /\ mu'[s] = "free" /\ view.Primary = s /\ pbView' # pbView => view.Backup = None
        /\ \A t \in Server : inbox[t] \subseteq inbox'[t]
        /\ \A t \in Server : \A x \in inbox'[t] : x \in inbox[t] \/ (x = SyncOf(s) /\ t \in up)
        /\ mu'[s] = "sync" /\ view.Backup \in up => SyncOf(s) \in inbox'[view.Backup]
    <2>1. CASE UNCHANGED <<mu, inbox>> /\ (pbView' = pbView \/ view.Primary # s)
      BY <1>0, <2>1
    <2>2. CASE view.Viewnum # pbView[s].Viewnum /\ pbView'[s] = view /\ view.Primary = s /\ SyncBackup(s)
      <3>1. ~acked'
        BY <1>0, <1>1, <2>2 DEF Acks, CInv, PrimaryInv
      <3> QED
        BY <2>2, <3>1, SyncCalled
    <2> QED
      BY <1>4, <2>1, <2>2
  <1>6. ASSUME NEW x, NEW t \in up, Orphan(x, t) PROVE Orphan(x, t)'
    <2>1. view.Primary \notin up => acked' = acked
      <3>1. view.Primary \notin up => ~Acks(s)
        BY <1>0 DEF Acks
      <3>2. acked \in BOOLEAN
        BY Typed DEF VS!TypeOK
      <3> QED
        BY <1>1, <3>1, <3>2
    <2>2. pbView[t].Viewnum = view.Viewnum => pbView'[t] = pbView[t]
      BY <1>t, <1>3, <1>4
    <2> QED
      BY <1>0, <1>1, <1>6, <2>1, <2>2 DEF Orphan
  <1>7. BusyInv' /\ InboxInv' /\ HandlerInv'
    BY <1>0, <1>3, <1>5, <1>6, TickingKeeps
  <1>8. CallerInv'
    <2>1. \A t \in Server : Forwarded(t, serving[t])' = Forwarded(t, serving[t]) /\ SyncOf(t)' = SyncOf(t)
      BY <1>0 DEF Forwarded, SyncOf
    <2>2. ASSUME NEW t \in Server \ {s}, mu[t] = "sync", pbView[t].Backup \in up PROVE ~acked'
      <3>1. t \in up /\ pbView[t].Primary = t /\ ~acked
        BY <2>2 DEF CInv, CallerInv, BusyInv
      <3>2. t = view.Primary
        BY <3>1, RunningPrimary
      <3> QED
        BY <1>1, <3>1, <3>2 DEF Acks
    <2>3. ASSUME NEW t \in Server \ {s}
          PROVE  /\ mu'[t] # "free" => pbView'[t].Primary = t /\ pbView'[t].Backup # None
                 /\ pbView'[t].Backup \in up' =>
                       /\ mu'[t] = "forward" => Forwarded(t, serving[t])' \in inbox'[pbView'[t].Backup]
                       /\ mu'[t] = "sync" => ~acked' /\ SyncOf(t)' \in inbox'[pbView'[t].Backup]
      BY <1>0, <1>3, <1>5, <1>t, <2>1, <2>2 DEF CInv, CallerInv
    <2>4. /\ mu'[s] # "free" => pbView'[s].Primary = s /\ pbView'[s].Backup # None
          /\ pbView'[s].Backup \in up' =>
                /\ mu'[s] # "forward"
                /\ mu'[s] = "sync" => ~acked' /\ SyncOf(s)' \in inbox'[pbView'[s].Backup]
      BY <1>0, <1>5, <2>1
    <2> QED
      BY <2>3, <2>4 DEF CallerInv
  <1>9. PastInv' /\ GetsAreFresh' /\ Superseded' = Superseded
    BY <1>0, SamePast DEF clerkVars, pastVars
  <1>10. StoreInv'
    <2>1. HandedOver' => HandedOver
      <3>1. ASSUME HandedOver' PROVE pbView[view.Primary].Viewnum = view.Viewnum /\ mu[view.Primary] # "sync"
        <4>1. /\ view.Primary \in up /\ view.Backup \in up /\ pbView'[view.Primary].Viewnum = view.Viewnum
              /\ mu'[view.Primary] # "sync" /\ view.Primary \in Server /\ view.Backup # None
          BY <1>0, <1>1, <1>t, <3>1 DEF HandedOver
        <4>2. CASE view.Primary # s
          BY <1>3, <4>1, <4>2
        <4>3. CASE view.Primary = s
          BY <1>0, <1>4, <1>5, <4>1, <4>3
        <4> QED
          BY <4>2, <4>3
      <3> QED
        BY <1>0, <1>1, <3>1 DEF HandedOver
    <2>2. view.Backup \in up /\ pbView[view.Backup].Viewnum = view.Viewnum
             => pbView'[view.Backup].Viewnum = view.Viewnum
      BY <1>3, <1>4, <1>t
    <2>3. acked' /\ view.Backup \in up => /\ pbView[view.Backup].Viewnum = view.Viewnum
                                          /\ ~overtaken => store[view.Backup] \notin Superseded
      <3>1. CASE acked
        BY <3>1 DEF CInv, StoreInv, PutsArePreserved
      <3>2. CASE Acks(s)
        <4>1. view.Backup \in up => HandedOver /\ mu[view.Primary] = "free"
          BY <1>0, <3>2 DEF HandedOver, Acks
        <4> QED
          BY <1>0, <3>2, <4>1 DEF CInv, StoreInv, PutsArePreserved, Acks
      <3> QED
        BY <1>1, <3>1, <3>2
    <2>4. HandedOver /\ HandedOver' => mu'[view.Primary] = mu[view.Primary]
      <3>1. CASE view.Primary # s
        BY <1>t, <1>3, <3>1 DEF HandedOver
      <3>2. CASE view.Primary = s
        BY <1>0, <1>1, <1>5, <3>2 DEF HandedOver
      <3> QED
        BY <3>1, <3>2
    <2>5. PutsArePreserved'
      BY <1>0, <1>1, <1>9, <2>3 DEF CInv, StoreInv, PutsArePreserved, pastVars
    <2>6. \A t \in Server : ValueAfter(t, serving[t])' = ValueAfter(t, serving[t])
      BY <1>0 DEF ValueAfter
    <2>7. HandedOver => view.Primary \in Server /\ view.Backup \in up
      BY <1>t DEF HandedOver
    <2> QED
      BY <1>0, <1>1, <1>9, <2>1, <2>2, <2>3, <2>4, <2>5, <2>6, <2>7 DEF CInv, StoreInv
  <1> QED
    BY <1>1, <1>2, <1>7, <1>8, <1>9, <1>10 DEF CInv

\* Sync fails because the backup is down; the primary pings and tries again.
LEMMA SyncFailsCInv ==
    ASSUME CrashesOnly, IInv, CInv, NEW s \in Server, SyncFails(s)
    PROVE  CInv'
  <1>t. ServerTypes /\ ClerkTypes /\ view \in VS!View /\ up \subseteq Server /\ None \notin up
    BY Typed
  <1>0. /\ s \in up /\ mu[s] = "sync" /\ Ping(s) /\ pbView' = [pbView EXCEPT ![s] = view]
        /\ SyncBackup(s) /\ pbView[s].Backup \notin up
        /\ UNCHANGED <<started, up, store, serving, clerkVars, pastVars>>
    <2>1. SyncOf(s).from = s /\ ~SyncOf(s).deaf
      BY DEF SyncOf
    <2> QED
      BY <2>1 DEF SyncFails, Unanswered, CInv, CallerInv, BusyInv
  <1>1. s = view.Primary /\ pbView[s].Primary = s /\ pbView[s].Backup # None
    BY <1>0, RunningPrimary DEF CInv, CallerInv
  <1>2. LifeInv' /\ view' = view /\ formed' = formed /\ acked' = (acked \/ Acks(s))
    BY <1>0, PingCInv
  <1>3. RolesInv' /\ PrimaryInv'
    BY <1>0, <1>2, LearnCInv DEF clerkVars
  <1>4. /\ pbView'[s] = view /\ \A t \in Server \ {s} : pbView'[t] = pbView[t] /\ mu'[t] = mu[t]
        /\ mu'[s] = IF view.Backup # None THEN "sync" ELSE "free"
        /\ \A t \in Server : inbox[t] \subseteq inbox'[t]
        /\ \A t \in Server : \A x \in inbox'[t] : x \in inbox[t] \/ (x = SyncOf(s) /\ t \in up)
        /\ view.Backup \in up => SyncOf(s) \in inbox'[view.Backup]
    BY <1>0, <1>t, SyncCalled DEF ServerTypes
  <1>5. acked' => view.Backup \notin up
    <2>1. acked => Acks(s)
      BY <1>0, <1>1 DEF CInv, PrimaryInv, Acks
    <2>2. Acks(s) => view.Backup \notin up
      BY <1>0, <1>1, <1>t DEF CInv, RolesInv, Struck, Acks
    <2> QED
      BY <1>2, <2>1, <2>2
  <1>6. ASSUME NEW x, NEW t \in up, Orphan(x, t) PROVE Orphan(x, t)'
    BY <1>0, <1>1, <1>2, <1>6 DEF Orphan
  <1>7. BusyInv' /\ InboxInv' /\ HandlerInv'
    BY <1>0, <1>4, <1>6, TickingKeeps
  <1>8. CallerInv'
    <2>1. \A t \in Server : Forwarded(t, serving[t])' = Forwarded(t, serving[t]) /\ SyncOf(t)' = SyncOf(t)
      BY <1>0 DEF Forwarded, SyncOf
    <2>2. \A t \in Server \ {s} : mu[t] # "sync"
      BY <1>1, RunningPrimary DEF CInv, CallerInv, BusyInv
    <2>3. ASSUME NEW t \in Server \ {s}
          PROVE  /\ mu'[t] # "free" => pbView'[t].Primary = t /\ pbView'[t].Backup # None
                 /\ pbView'[t].Backup \in up' =>
                       /\ mu'[t] = "forward" => Forwarded(t, serving[t])' \in inbox'[pbView'[t].Backup]
                       /\ mu'[t] # "sync"
      BY <1>0, <1>4, <1>t, <2>1, <2>2 DEF CInv, CallerInv
    <2>4. /\ mu'[s] # "free" => pbView'[s].Primary = s /\ pbView'[s].Backup # None
          /\ pbView'[s].Backup \in up' =>
                /\ mu'[s] # "forward"
                /\ mu'[s] = "sync" => ~acked' /\ SyncOf(s)' \in inbox'[pbView'[s].Backup]
      BY <1>0, <1>1, <1>4, <1>5, <2>1
    <2> QED
      BY <2>3, <2>4 DEF CallerInv
  <1>9. PastInv' /\ GetsAreFresh' /\ Superseded' = Superseded
    BY <1>0, SamePast DEF clerkVars, pastVars
  <1>10. StoreInv'
    <2>1. ~HandedOver'
      BY <1>0, <1>1, <1>2, <1>4, <1>t DEF HandedOver
    <2>2. PutsArePreserved'
      BY <1>0, <1>2, <1>5, <1>9 DEF CInv, StoreInv, PutsArePreserved, pastVars
    <2> QED
      BY <1>0, <1>2, <1>5, <1>9, <2>1, <2>2 DEF CInv, StoreInv
  <1> QED
    BY <1>2, <1>3, <1>7, <1>8, <1>9, <1>10 DEF CInv

\* The backup takes the store of a primary whose view is not acknowledged.
LEMMA SyncCInv == ASSUME IInv, CInv, NEW b \in Server, NEW r \in inbox[b], Sync(b, r) PROVE CInv'
  <1> DEFINE s == r.from
  <1>t. ServerTypes /\ ClerkTypes /\ view \in VS!View /\ up \subseteq Server /\ None \notin up
    BY Typed
  <1>0. /\ b \in up /\ mu[b] = "free" /\ r.kind = "sync" /\ s \in Server /\ Ping(b)
        /\ (r.deaf => Orphan(r, b)) /\ (~r.deaf => s \in up /\ Sent(r, b))
        /\ inbox' = [inbox EXCEPT ![b] = @ \ {r}]
        /\ UNCHANGED <<started, up, serving, clerkVars, pastVars>>
    BY RequestAt DEF Sync
  <1>1. LifeInv' /\ view' = view /\ formed' = formed /\ acked' = (acked \/ Acks(b))
    BY <1>0, PingCInv
  <1>2. /\ pbView' \in {pbView, [pbView EXCEPT ![b] = view]}
        /\ pbView'[b] \in {pbView[b], view} /\ pbView'[b].Viewnum = view.Viewnum
        /\ \A t \in Server \ {b} : pbView'[t] = pbView[t]
    BY <1>t DEF Sync, ServerTypes
  <1>3. /\ store'[b] = IF pbView'[b].Backup = b THEN r.value ELSE store[b]
        /\ \A t \in Server \ {b} : store'[t] = store[t]
    BY <1>t DEF Sync, ServerTypes
  <1>4. /\ r.deaf => mu' = mu
        /\ ~r.deaf => mu'[s] = "free" /\ \A t \in Server \ {s} : mu'[t] = mu[t]
    BY <1>t, <1>0 DEF Sync, ServerTypes
  <1>5. RolesInv' /\ PrimaryInv'
    BY <1>0, <1>1, <1>2, LearnCInv DEF clerkVars
  <1>6. r.deaf => ~acked /\ view.Primary \notin up
    BY <1>0 DEF Orphan
  <1>7. ~r.deaf => /\ s = view.Primary /\ b = view.Backup /\ s # b /\ ~acked
                   /\ pbView[s].Viewnum = view.Viewnum /\ pbView[s].Primary = s /\ r.value = store[s]
    <2> SUFFICES ASSUME ~r.deaf
                 PROVE  /\ s = view.Primary /\ b = view.Backup /\ s # b /\ ~acked
                        /\ pbView[s].Viewnum = view.Viewnum /\ pbView[s].Primary = s
                        /\ r.value = store[s]
      OBVIOUS
    <2>1. Sent(r, b) /\ s \in up /\ Forwarded(s, serving[s]).kind # "sync"
      BY <1>0 DEF Forwarded
    <2>2. pbView[s].Backup = b /\ mu[s] = "sync" /\ r = SyncOf(s)
      BY <1>0, <2>1 DEF Sent
    <2>3. pbView[s].Primary = s /\ ~acked
      BY <1>0, <2>1, <2>2 DEF CInv, CallerInv
    <2>4. r.value = store[s]
      BY <2>2 DEF SyncOf
    <2> QED
      BY <1>0, <2>1, <2>2, <2>3, <2>4, RunningPrimary
  <1>8. ~acked'
    BY <1>0, <1>1, <1>6, <1>7 DEF Acks
  <1>9. BusyInv' /\ InboxInv' /\ HandlerInv' /\ \A t \in Server : \A x \in inbox[t] : x # r => x \in inbox'[t]
    <2>1. acked' = acked
      <3>1. ~acked /\ acked \in BOOLEAN
        BY <1>6, <1>7, Typed DEF VS!TypeOK
      <3>2. ~Acks(b)
        BY <1>1, <1>8
      <3> QED
        BY <1>1, <3>1, <3>2
    <2>2. ~r.deaf => /\ \A t \in Server \ {r.from} : mu'[t] = mu[t]
                     /\ \/ mu'[r.from] = "free"
                        \/ r.kind # "sync" /\ mu'[r.from] \in {"forwarded", "rejected"}
      BY <1>4
    <2>3. r.deaf => mu' = mu
      BY <1>4
    <2>4. /\ r.from \in Server /\ inbox' = [inbox EXCEPT ![b] = @ \ {r}]
          /\ UNCHANGED <<view, started, up, serving, clerkVars>>
      BY <1>0, <1>1
    <2> HIDE DEF s
    <2> QED
      BY <1>2, <2>1, <2>2, <2>3, <2>4, TakenAt
  <1>10. CallerInv'
    <2> DEFINE moved == IF r.deaf THEN {b} ELSE {b, s}
    <2>1. \A t \in Server \ moved : /\ mu'[t] = mu[t] /\ serving'[t] = serving[t] /\ store'[t] = store[t]
                                    /\ pbView'[t] = pbView[t]
      BY <1>0, <1>2, <1>3, <1>4
    <2>2. \A d \in Server : \A x \in inbox[d] : ~x.deaf /\ x.from \in Server \ moved => x \in inbox'[d]
      BY <1>9
    <2>3. mu'[b] = "free" /\ (~r.deaf => mu'[s] = "free")
      BY <1>0, <1>4, <1>7
    <2>4. \A t \in Server : t \in moved => t = b \/ (~r.deaf /\ t = s)
      OBVIOUS
    <2> HIDE DEF moved
    <2>5. \A t \in Server \ moved :
              /\ mu'[t] # "free" => pbView'[t].Primary = t /\ pbView'[t].Backup # None
              /\ pbView'[t].Backup \in up' =>
                    /\ mu'[t] = "forward" => Forwarded(t, serving[t])' \in inbox'[pbView'[t].Backup]
                    /\ mu'[t] = "sync" => ~acked' /\ SyncOf(t)' \in inbox'[pbView'[t].Backup]
      BY <1>0, <1>8, <2>1, <2>2, CallersKeep
    <2>6. \A t \in moved \cap Server : mu'[t] = "free"
      BY <2>3, <2>4
    <2> QED
      BY <2>5, <2>6 DEF CallerInv
  <1>11. PastInv' /\ GetsAreFresh' /\ Superseded' = Superseded
    BY <1>0, SamePast DEF clerkVars, pastVars
  <1>12. StoreInv'
    <2>1. CASE r.deaf
      <3>1. ~HandedOver' /\ PutsArePreserved'
        BY <1>0, <1>1, <1>6, <1>8, <2>1 DEF HandedOver, PutsArePreserved
      <3> QED
        BY <1>1, <1>8, <1>11, <3>1 DEF CInv, StoreInv
    <2>2. CASE ~r.deaf
      <3>1. pbView'[b].Backup = b
        BY <1>0, <1>1, <1>2, <1>5, <1>7, <1>t, <2>2 DEF RolesInv, CInv, Struck
      <3>2. store'[b] = store[s] /\ store'[s] = store[s] /\ mu'[s] = "free"
        BY <1>0, <1>3, <1>4, <1>7, <2>2, <3>1
      <3>3. PutsArePreserved'
        BY <1>0, <1>1, <1>7, <1>8, <1>11, <2>2, <3>2 DEF CInv, StoreInv, PutsArePreserved, pastVars
      <3> HIDE DEF s
      <3> QED
        BY <1>0, <1>1, <1>2, <1>7, <1>8, <1>11, <2>2, <3>2, <3>3 DEF CInv, StoreInv
    <2> QED
      BY <2>1, <2>2
  <1> QED
    BY <1>1, <1>5, <1>9, <1>10, <1>11, <1>12 DEF CInv

\* A server that was never started starts.
LEMMA StartServerCInv ==
    ASSUME CrashesOnly, IInv, CInv, NEW s \in Server, StartServer(s)
    PROVE  CInv'
  <1>t. ServerTypes /\ ClerkTypes /\ view \in VS!View /\ up \subseteq Server /\ None \notin Server
    BY Typed
  <1>0. /\ s \notin started /\ s \notin up /\ up' = up \cup {s} /\ started' = started \cup {s}
        /\ pbView' = [pbView EXCEPT ![s] = NoView] /\ store' = [store EXCEPT ![s] = 0]
        /\ UNCHANGED <<vsVars, inbox, mu, serving, clerkVars, pastVars>>
    BY <1>t DEF StartServer, CrashesOnly, ServerTypes
  <1>1. /\ pbView'[s] = NoView /\ \A t \in Server \ {s} : pbView'[t] = pbView[t] /\ store'[t] = store[t]
        /\ NoView.Primary = None /\ NoView.Backup = None /\ NoView.Viewnum = 0
        /\ up \subseteq started /\ started \subseteq Server
        /\ {view.Primary, view.Backup} \subseteq known \cup {None} /\ dead \subseteq known
    BY <1>0, <1>t, Typed DEF NoView, ServerTypes, VS!TypeOK
  <1>2. s \notin known /\ s # view.Primary /\ s # view.Backup /\ s # formed.Primary /\ s # formed.Backup
    BY <1>0, <1>1, <1>t DEF CInv, LifeInv, RolesInv
  <1>3. LifeInv'
    BY <1>0, <1>1, <1>2 DEF CInv, LifeInv, vsVars
  <1>4. RolesInv'
    BY <1>0, <1>1, <1>2, <1>t DEF CInv, RolesInv, Struck, vsVars
  <1>5. PrimaryInv'
    BY <1>0, <1>1, <1>2, <1>t DEF CInv, PrimaryInv, vsVars, clerkVars
  <1>6. BusyInv' /\ \A t \in Server : inbox[t] # {} \/ mu[t] # "free" => t \in up /\ t # s
    BY <1>0 DEF CInv, BusyInv
  <1>7. InboxInv'
    <2>1. ASSUME NEW t \in Server, NEW x \in inbox[t] PROVE Accounted(x, t)'
      <3>1. Accounted(x, t) /\ t # s
        BY <1>6 DEF CInv, InboxInv
      <3>2. Waiting(x, t) => Waiting(x, t)'
        BY <1>0, WaitOn DEF clerkVars
      <3>3. Orphan(x, t) => Orphan(x, t)'
        BY <1>0, <1>1, <1>2, <3>1 DEF Orphan, vsVars
      <3> QED
        BY <1>0, <3>1, <3>2, <3>3 DEF Accounted
    <2> QED
      BY <1>0, <2>1 DEF InboxInv
  <1>8. HandlerInv'
    BY <1>0 DEF CInv, HandlerInv, Handling, Waiting, RequestOf, clerkVars
  <1>9. CallerInv'
    <2>1. ASSUME NEW t \in Server, mu[t] # "free"
          PROVE  /\ t # s /\ pbView'[t] = pbView[t] /\ store'[t] = store[t]
                 /\ pbView[t].Backup \in up' => pbView[t].Backup \in up
      BY <1>0, <1>1, <1>6, <1>t, <2>1 DEF CInv, PrimaryInv
    <2>2. \A t \in Server : mu[t] # "free" => /\ Forwarded(t, serving[t])' = Forwarded(t, serving[t])
                                              /\ SyncOf(t)' = SyncOf(t)
      BY <1>0, <2>1 DEF Forwarded, SyncOf
    <2> QED
      BY <1>0, <2>1, <2>2 DEF CInv, CallerInv, vsVars
  <1>10. PastInv' /\ GetsAreFresh' /\ Superseded' = Superseded
    BY <1>0, SamePast DEF clerkVars, pastVars
  <1>11. StoreInv'
    <2>1. /\ view.Primary \in up' => view.Primary \in up /\ view.Primary \in Server \ {s}
          /\ view.Backup \in up' => view.Backup \in up /\ view.Backup \in Server \ {s}
      BY <1>0, <1>1, <1>2
    <2>2. HandedOver' => HandedOver
      BY <1>0, <1>1, <2>1 DEF HandedOver, vsVars
    <2>3. PutsArePreserved'
      BY <1>0, <1>1, <1>10, <2>1 DEF CInv, StoreInv, PutsArePreserved, vsVars, pastVars
    <2>4. \A t \in Server \ {s} : ValueAfter(t, serving[t])' = ValueAfter(t, serving[t])
      BY <1>0, <1>1 DEF ValueAfter
    <2>5. HandedOver' => view.Primary \in Server \ {s} /\ view.Backup \in Server \ {s}
      BY <1>0, <2>1 DEF HandedOver, vsVars
    <2> QED
      BY <1>0, <1>1, <1>10, <2>1, <2>2, <2>3, <2>4, <2>5 DEF CInv, StoreInv, vsVars
  <1> QED
    BY <1>3, <1>4, <1>5, <1>6, <1>7, <1>8, <1>9, <1>10, <1>11 DEF CInv

\* A process dies.  What it had sent to its backup stays there.
LEMMA CrashCInv == ASSUME CrashesOnly, IInv, CInv, NEW s \in Server, Crash(s) PROVE CInv'
  <1>t. ServerTypes /\ ClerkTypes /\ SentInv /\ Clerk \cap Server = {} /\ up \subseteq started /\ up \subseteq Server
    BY Typed DEF ServerTypes
  <1>0. /\ s \in up /\ up' = up \ {s}
        /\ acked => \E r \in {view.Primary, view.Backup} \ {s} : r \in up
        /\ mu' = [mu EXCEPT ![s] = "free"] /\ serving' = [serving EXCEPT ![s] = None]
        /\ pc' = [c \in Clerk |-> IF pc[c] = "waiting" /\ ckView[c].Primary = s THEN "update" ELSE pc[c]]
        /\ UNCHANGED <<vsVars, started, pbView, store, ckView, op, result, pastVars>>
    BY DEF Crash
  <1>1. PICK written \in BOOLEAN :
            inbox' = [t \in Server |-> IF t = s THEN {} ELSE Left(inbox[t], s, written)]
    BY DEF Crash
  <1>2. /\ mu'[s] = "free" /\ \A t \in Server \ {s} : mu'[t] = mu[t] /\ serving'[t] = serving[t]
    BY <1>0, <1>t DEF ServerTypes
  <1>3. /\ inbox'[s] = {}
        /\ \A t \in Server \ {s} : \A x \in inbox[t] : x.from # s => x \in inbox'[t]
        /\ \A t \in Server \ {s} : \A x \in inbox'[t] :
              \/ x \in inbox[t] /\ (x.from # s \/ x.deaf)
              \/ \E y \in inbox[t] : y.from = s /\ x \in Late(y)
    BY <1>1, <1>t DEF Left
  <1>4. LifeInv' /\ RolesInv' /\ PrimaryInv'
    <2>1. LifeInv'
      BY <1>0 DEF CInv, LifeInv, vsVars
    <2>2. RolesInv'
      BY <1>0 DEF CInv, RolesInv, Struck, vsVars
    <2>3. PrimaryInv'
      BY <1>0 DEF CInv, PrimaryInv, vsVars
    <2> QED
      BY <2>1, <2>2, <2>3
  <1>5. ASSUME NEW x, NEW t, t # s, Waiting(x, t) PROVE Waiting(x, t)'
    BY <1>0, <1>5 DEF Waiting, RequestOf
  <1>6. ASSUME NEW x, NEW t, Orphan(x, t) PROVE Orphan(x, t)'
    BY <1>0, <1>6 DEF Orphan, vsVars
  <1>7. ASSUME NEW t \in Server \ {s}, NEW y \in inbox[t], y.from = s, NEW x \in Late(y)
        PROVE  x.deaf = TRUE /\ x.from = s /\ Orphan(x, t)'
    <2>1. y \in Request /\ y.kind \in {"forwardGet", "forwardPut", "sync"} /\ s \in Server /\ t \in up
      BY <1>0, <1>7, <1>t, RequestKinds, RequestAt
    <2>2. x.deaf = TRUE /\ x.from = s /\ x.kind = y.kind
      BY <1>7, <2>1, LateRequest
    <2>3. Sent(y, t)
      <3>1. ~Orphan(y, t)
        BY <1>0, <1>7 DEF Orphan
      <3> QED
        BY <2>1, <3>1, RequestAt
    <2>4. pbView[s].Backup = t /\ mu[s] \in {"forward", "sync"} /\ (y.kind = "sync" <=> mu[s] = "sync")
      BY <1>7, <2>3 DEF Sent, Forwarded, SyncOf
    <2>5. pbView[s].Primary = s /\ (mu[s] = "sync" => ~acked)
      BY <2>1, <2>4 DEF CInv, CallerInv
    <2>6. s = view.Primary /\ pbView[s].Viewnum = view.Viewnum /\ t = view.Backup
      BY <1>0, <2>1, <2>4, <2>5, RunningPrimary
    <2>7. mu[s] = "forward" => pbView[t].Viewnum = view.Viewnum /\ pbView[t].Backup = t
      <3>1. mu[s] = "forward" => HandedOver
        BY <1>0, <2>1, <2>6 DEF HandedOver
      <3> QED
        BY <2>1, <2>6, <3>1, RunningPrimary DEF CInv, StoreInv
    <2>8. s \in started /\ s \notin up' /\ UNCHANGED <<started, pbView, view, acked>>
      BY <1>0, <1>t DEF vsVars
    <2>9. CASE mu[s] = "sync"
      BY <2>2, <2>4, <2>5, <2>6, <2>8, <2>9 DEF Orphan
    <2>10. CASE mu[s] = "forward"
      BY <2>2, <2>4, <2>6, <2>7, <2>8, <2>10 DEF Orphan
    <2> QED
      BY <2>2, <2>4, <2>9, <2>10
  <1>8. BusyInv'
    BY <1>0, <1>2, <1>3 DEF CInv, BusyInv
  <1>9. InboxInv'
    <2>1. ASSUME NEW t \in Server, NEW x \in inbox'[t] PROVE Accounted(x, t)'
      <3>1. t # s
        BY <1>3
      <3>2. CASE x \in inbox[t] /\ (x.from # s \/ x.deaf)
        <4>1. Accounted(x, t) /\ (Waiting(x, t) => Waiting(x, t)') /\ (Orphan(x, t) => Orphan(x, t)')
          BY <1>5, <1>6, <3>1, <3>2 DEF CInv, InboxInv
        <4> QED
          BY <1>0, <3>2, <4>1 DEF Accounted
      <3>3. CASE \E y \in inbox[t] : y.from = s /\ x \in Late(y)
        <4>1. x.deaf = TRUE /\ x.from = s /\ Orphan(x, t)'
          BY <1>7, <3>1, <3>3
        <4> QED
          BY <1>0, <1>t, <4>1 DEF Accounted
      <3> QED
        BY <1>3, <3>1, <3>2, <3>3
    <2> QED
      BY <2>1 DEF InboxInv
  <1>10. HandlerInv'
    <2>1. ASSUME NEW t \in Server, Handling(t)'
          PROVE  Waiting(serving[t], t)' /\ serving'[t] \notin inbox'[t]
      <3>1. Handling(t) /\ t # s /\ serving'[t] = serving[t]
        BY <1>2, <2>1 DEF Handling
      <3>2. Waiting(serving[t], t) /\ serving[t] \notin inbox[t] /\ serving[t].from \in Clerk
        BY <3>1 DEF CInv, HandlerInv, Waiting
      <3>3. serving[t] \notin inbox'[t]
        <4>1. ASSUME NEW x, x = serving[t], x \in inbox'[t] PROVE FALSE
          <5>1. PICK y \in inbox[t] : y.from = s /\ x \in Late(y)
            BY <1>3, <3>1, <3>2, <4>1
          <5> QED
            BY <1>0, <1>7, <1>t, <3>1, <3>2, <4>1, <5>1
        <4> QED
          BY <4>1
      <3> QED
        BY <1>0, <3>1, <3>2, <3>3 DEF Waiting, RequestOf
    <2> QED
      BY <2>1 DEF HandlerInv
  <1>11. CallerInv'
    <2>1. ASSUME NEW t \in Server \ {s}
          PROVE  /\ Forwarded(t, serving[t])' = Forwarded(t, serving[t]) /\ SyncOf(t)' = SyncOf(t)
                 /\ Forwarded(t, serving[t]).from = t /\ SyncOf(t).from = t
      BY <1>0, <1>2 DEF Forwarded, SyncOf
    <2>2. \A t \in Server \ {s} : pbView[t].Backup \in up' => pbView[t].Backup \in up /\ pbView[t].Backup \in Server \ {s}
      BY <1>0, <1>t
    <2> QED
      BY <1>0, <1>2, <1>3, <2>1, <2>2 DEF CInv, CallerInv, vsVars
  <1>12. PastInv' /\ GetsAreFresh' /\ Superseded' = Superseded
    <2>1. \A c \in Clerk : (pc'[c] = "idle" <=> pc[c] = "idle")
      BY <1>0
    <2> QED
      BY <1>0, <2>1 DEF CInv, PastInv, Putting, Superseded, GetsAreFresh, pastVars
  <1>13. StoreInv'
    <2>1. HandedOver' => HandedOver /\ view.Primary \in Server \ {s}
      BY <1>0, <1>2, <1>t DEF HandedOver, vsVars
    <2>2. PutsArePreserved'
      BY <1>0, <1>12 DEF CInv, StoreInv, PutsArePreserved, vsVars, pastVars
    <2>3. \A t \in Server \ {s} : ValueAfter(t, serving[t])' = ValueAfter(t, serving[t])
      BY <1>0, <1>2 DEF ValueAfter
    <2> QED
      BY <1>0, <1>2, <1>12, <2>1, <2>2, <2>3 DEF CInv, StoreInv, vsVars
  <1> QED
    BY <1>4, <1>8, <1>9, <1>10, <1>11, <1>12, <1>13 DEF CInv

\* Steps of the view server concern no request.
LEMMA ServersWait ==
    ASSUME CInv, UNCHANGED <<pbVars, clerkVars>>, acked' => acked,
           \A x : \A t \in up : Orphan(x, t) => Orphan(x, t)'
    PROVE  BusyInv' /\ InboxInv' /\ HandlerInv' /\ CallerInv'
  <1>1. BusyInv'
    BY DEF CInv, BusyInv, pbVars
  <1>2. ASSUME NEW t \in Server, NEW x \in inbox'[t] PROVE Accounted(x, t)'
    <2>1. Accounted(x, t) /\ t \in up
      BY DEF CInv, InboxInv, BusyInv, pbVars
    <2>2. Waiting(x, t) => Waiting(x, t)'
      BY WaitOn DEF clerkVars
    <2> QED
      BY <2>1, <2>2 DEF Accounted, pbVars
  <1>3. HandlerInv'
    BY DEF CInv, HandlerInv, Handling, Waiting, RequestOf, pbVars, clerkVars
  <1>4. CallerInv'
    <2>1. \A t \in Server : Forwarded(t, serving[t])' = Forwarded(t, serving[t]) /\ SyncOf(t)' = SyncOf(t)
      BY DEF Forwarded, SyncOf, pbVars
    <2> QED
      BY <2>1 DEF CInv, CallerInv, pbVars
  <1> QED
    BY <1>1, <1>2, <1>3, <1>4 DEF InboxInv

\* An interval passes, in which every running server pinged.
LEMMA ElapseCInv == ASSUME CrashesOnly, IInv, CInv, Elapse PROVE CInv'
  <1>0. /\ \A s \in up : age[s] = 0
        /\ age' = [s \in Server |-> IF s \in known /\ age[s] <= DeadPings THEN age[s] + 1 ELSE age[s]]
        /\ UNCHANGED <<view, acked, primaryRestarted, known, dead, idle, formed>>
        /\ UNCHANGED <<pbVars, clerkVars, pastVars>>
    BY DEF Elapse, VS!Elapse, VS!historyVars, CrashesOnly
  <1>1. LifeInv'
    <2>1. \A s \in up : age'[s] <= 1
      BY <1>0, RunningPrimary
    <2> QED
      BY <1>0, <2>1 DEF CInv, LifeInv, pbVars
  <1>2. RolesInv' /\ PrimaryInv'
    BY <1>0 DEF CInv, RolesInv, Struck, PrimaryInv, pbVars, clerkVars
  <1>3. BusyInv' /\ InboxInv' /\ HandlerInv' /\ CallerInv'
    <2>1. \A x : \A t \in up : Orphan(x, t) => Orphan(x, t)'
      BY <1>0 DEF Orphan, pbVars
    <2> QED
      BY <1>0, <2>1, ServersWait
  <1>4. PastInv' /\ GetsAreFresh' /\ Superseded' = Superseded
    BY <1>0, SamePast DEF clerkVars, pastVars
  <1>5. StoreInv'
    BY <1>0, <1>4 DEF CInv, StoreInv, HandedOver, PutsArePreserved, ValueAfter, pbVars, pastVars
  <1> QED
    BY <1>1, <1>2, <1>3, <1>4, <1>5 DEF CInv

\* The view server's tick() takes no running server for dead.
LEMMA SweepSparesRunning ==
    ASSUME IInv, CInv
    PROVE  /\ VS!DeadNow \cap up = {} /\ VS!IdleNow \cap up \subseteq idle
           /\ VS!LivePrimary \in {view.Primary, None} /\ VS!LiveBackup \in {view.Backup, None}
           /\ view.Primary \in up => VS!LivePrimary = view.Primary
           /\ view.Backup \in up => VS!LiveBackup = view.Backup
           /\ VS!IdleClients \subseteq known /\ VS!InitedIdleClients \subseteq known
  <1>0. /\ age \in [Server -> 0..(DeadPings + 1)] /\ DeadPings \in Nat \ {0}
        /\ known \subseteq Server /\ dead \subseteq known /\ idle \subseteq known
    BY PBServiceAssumption DEF IInv, TypeOK, VS!TypeOK
  <1>1. VS!TimedOut \cap up = {}
    <2>1. \A s \in up \cap known : ~(age[s] > DeadPings)
      <3>1. \A s \in up \cap known : age[s] <= 1 /\ age[s] \in Nat
        BY <1>0 DEF CInv, LifeInv
      <3> QED
        BY <1>0, <3>1
    <2> QED
      BY <2>1 DEF VS!TimedOut
  <1>2. VS!DeadNow \cap up = {} /\ VS!IdleNow \cap up \subseteq idle
    BY <1>1 DEF VS!DeadNow, VS!IdleNow, CInv, LifeInv
  <1>3. /\ VS!LivePrimary \in {view.Primary, None} /\ VS!LiveBackup \in {view.Backup, None}
        /\ view.Primary \in up => VS!LivePrimary = view.Primary
        /\ view.Backup \in up => VS!LiveBackup = view.Backup
    BY <1>2 DEF VS!LivePrimary, VS!LiveBackup
  <1>4. VS!IdleClients \subseteq known /\ VS!InitedIdleClients \subseteq known
    BY <1>0 DEF VS!IdleClients, VS!InitedIdleClients, VS!IdleNow, VS!TimedOut
  <1> QED
    BY <1>2, <1>3, <1>4

\* What a tick() leaves alone, and the flags it may set.
SweepOnly == /\ UNCHANGED <<primaryRestarted, known, age, pbVars, clerkVars, pastVars>>
             /\ dead' = VS!DeadNow

\* A view is formed with a primary that has what was put: the primary of the
\* last one, if it runs, or else its backup.
LEMMA NewViewCInv ==
    ASSUME IInv, CInv, NEW p \in known, NEW b \in known \cup {None}, SweepOnly, VS!NewView(p, b),
           acked, p # b, \A s \in up \cap {p, b} : s \notin idle',
           p \in up /\ ~overtaken => store[p] \notin Superseded,
           \A s \in up : s = view.Primary \/ (view.Primary \notin up /\ s = view.Backup) => p = s,
           \A s \in Server : pbView[s].Primary \in up => pbView[s].Primary = p,
           \A c \in Clerk : ckView[c].Primary \in up => ckView[c].Primary = p,
           \A s \in up : pbView[s].Primary = s => pbView[s].Backup \notin up
    PROVE  CInv'
  <1>0. /\ view' = [Viewnum |-> view.Viewnum + 1, Primary |-> p, Backup |-> b] /\ ~acked'
        /\ formed' = view' /\ dead' = VS!DeadNow
        /\ UNCHANGED <<primaryRestarted, known, age, started, up, pbView, store, inbox, mu, serving>>
        /\ UNCHANGED <<pc, ckView, op, result, pastVars>> /\ UNCHANGED <<pbVars, clerkVars>>
    BY DEF SweepOnly, VS!NewView, pbVars, clerkVars
  <1>1. /\ view'.Viewnum = view.Viewnum + 1 /\ view'.Primary = p /\ view'.Backup = b
        /\ view.Viewnum \in Nat /\ known \subseteq Server /\ None \notin Server /\ known \subseteq started
        /\ \A s \in Server : pbView[s].Viewnum <= view.Viewnum /\ pbView[s].Viewnum \in Nat
    BY <1>0, Typed DEF IInv, ServerTypes, VS!TypeOK, VS!View, LearnedInv, CInv, LifeInv
  <1>2. \A s \in Server : pbView[s].Viewnum # view'.Viewnum
    BY <1>1
  <1>3. LifeInv'
    BY <1>0, <1>1, SweepSparesRunning DEF CInv, LifeInv
  <1>4. RolesInv'
    <2>1. view'.Viewnum # 0
      BY <1>1
    <2> QED
      BY <1>0, <1>1, <1>2, <2>1 DEF RolesInv, Struck
  <1>5. PrimaryInv'
    <2>1. \A s \in Server : {pbView[s].Primary, pbView[s].Backup} \subseteq started \cup {None}
      BY DEF CInv, PrimaryInv
    <2>2. \A c \in Clerk : ckView[c].Primary \in started \cup {None}
      BY DEF CInv, PrimaryInv
    <2> QED
      BY <1>0, <1>1, <2>1, <2>2 DEF PrimaryInv
  <1>6. BusyInv' /\ InboxInv' /\ HandlerInv' /\ CallerInv'
    <2>1. ASSUME NEW x, NEW t \in up, Orphan(x, t) PROVE Orphan(x, t)'
      <3>1. t = view.Primary \/ (view.Primary \notin up /\ t = view.Backup)
        BY <2>1, RunningPrimary DEF Orphan
      <3>2. view'.Primary = t /\ x.kind # "sync"
        BY <1>1, <2>1, <3>1 DEF Orphan
      <3> QED
        BY <1>0, <2>1, <3>2 DEF Orphan
    <2> QED
      BY <1>0, <2>1, ServersWait
  <1>7. PastInv' /\ GetsAreFresh' /\ Superseded' = Superseded
    BY <1>0, SamePast DEF pastVars
  <1>8. StoreInv'
    <2>1. ~HandedOver'
      BY <1>0, <1>1, <1>2, RunningPrimary DEF HandedOver
    <2>2. view'.Viewnum # 0
      BY <1>1
    <2>3. PutsArePreserved'
      BY <1>0, <1>1, <1>7 DEF PutsArePreserved, pastVars
    <2> QED
      BY <1>0, <2>1, <2>2, <2>3 DEF StoreInv
  <1> QED
    BY <1>3, <1>4, <1>5, <1>6, <1>7, <1>8 DEF CInv

\* Roles of servers that are down are struck out.
LEMMA SameViewCInv ==
    ASSUME IInv, CInv, NEW p \in {view.Primary, None}, NEW b \in {view.Backup, None}, SweepOnly,
           VS!SameView(p, b), \A s \in up \cap {view.Primary, view.Backup} : s \notin idle',
           view.Primary \in up => p = view.Primary, view.Backup \in up => b = view.Backup
    PROVE  CInv'
  <1>0. /\ view' = [view EXCEPT !.Primary = p, !.Backup = b] /\ dead' = VS!DeadNow
        /\ UNCHANGED <<primaryRestarted, known, age, started, up, pbView, store, inbox, mu, serving>>
        /\ UNCHANGED <<pc, ckView, op, result, pastVars, acked, formed>> /\ UNCHANGED <<pbVars, clerkVars>>
    BY DEF SweepOnly, VS!SameView, pbVars, clerkVars
  <1>1. view'.Viewnum = view.Viewnum /\ view'.Primary = p /\ view'.Backup = b /\ None \notin up
    BY <1>0, RunningPrimary DEF VS!View
  <1>2. LifeInv'
    BY <1>0, <1>1, SweepSparesRunning DEF CInv, LifeInv
  <1>3. RolesInv'
    BY <1>0, <1>1 DEF CInv, RolesInv, Struck
  <1>4. PrimaryInv'
    BY <1>0, <1>1 DEF CInv, PrimaryInv
  <1>5. BusyInv' /\ InboxInv' /\ HandlerInv' /\ CallerInv'
    <2>1. ASSUME NEW x, NEW t \in up, Orphan(x, t) PROVE Orphan(x, t)'
      BY <1>0, <1>1, <2>1 DEF Orphan
    <2> QED
      BY <1>0, <2>1, ServersWait
  <1>6. PastInv' /\ GetsAreFresh' /\ Superseded' = Superseded
    BY <1>0, SamePast DEF pastVars
  <1>7. StoreInv'
    <2>1. HandedOver' => HandedOver /\ p = view.Primary /\ b = view.Backup
      BY <1>0, <1>1 DEF HandedOver
    <2>2. PutsArePreserved'
      BY <1>0, <1>1, <1>6 DEF CInv, StoreInv, PutsArePreserved, pastVars
    <2> QED
      BY <1>0, <1>1, <1>6, <2>1, <2>2 DEF CInv, StoreInv, ValueAfter
  <1> QED
    BY <1>2, <1>3, <1>4, <1>5, <1>6, <1>7 DEF CInv

\* tick() of the view server.
LEMMA ViewServerTickCInv == ASSUME IInv, CInv, ViewServerTick PROVE CInv'
  <1>0. UNCHANGED <<pbVars, clerkVars, pastVars>> /\ ~primaryRestarted
    BY DEF ViewServerTick, CInv, LifeInv
  <1>t. /\ {view.Primary, view.Backup} \subseteq known \cup {None} /\ view \in VS!View
        /\ known \subseteq Server /\ None \notin Server /\ up \subseteq Server
    BY Typed DEF VS!TypeOK
  <1>1. CASE VS!TickUnacked
    <2>1. SweepOnly /\ UNCHANGED <<view, acked, formed>> /\ idle' = VS!IdleNow
      BY <1>0, <1>1 DEF SweepOnly, VS!TickUnacked, VS!TickFrame
    <2>2. LifeInv'
      BY <2>1, SweepSparesRunning DEF CInv, LifeInv, SweepOnly, pbVars
    <2>3. RolesInv' /\ PrimaryInv'
      BY <2>1 DEF CInv, RolesInv, Struck, PrimaryInv, SweepOnly, pbVars, clerkVars
    <2>4. BusyInv' /\ InboxInv' /\ HandlerInv' /\ CallerInv'
      <3>1. \A x : \A t \in up : Orphan(x, t) => Orphan(x, t)'
        BY <1>0, <2>1 DEF Orphan, pbVars
      <3> QED
        BY <1>0, <2>1, <3>1, ServersWait
    <2>5. PastInv' /\ GetsAreFresh' /\ Superseded' = Superseded
      BY <1>0, SamePast DEF clerkVars, pastVars
    <2>6. StoreInv'
      BY <1>0, <2>1, <2>5 DEF CInv, StoreInv, HandedOver, PutsArePreserved, ValueAfter, pbVars, pastVars
    <2> QED
      BY <2>2, <2>3, <2>4, <2>5, <2>6 DEF CInv
  <1>2. CASE VS!TickAcked
    <2> DEFINE p == VS!LivePrimary
               b == VS!LiveBackup
               flags == VS!IdleNow
    <2>1. SweepOnly /\ acked /\ VS!FillRoles(p, b, flags)
      BY <1>0, <1>2 DEF SweepOnly, VS!TickAcked, VS!TickFrame
    <2>2. /\ p \in {view.Primary, None} /\ b \in {view.Backup, None}
          /\ view.Primary \in up => p = view.Primary
          /\ view.Backup \in up => b = view.Backup
          /\ \A s \in up \cap {view.Primary, view.Backup} : s \notin flags
      BY SweepSparesRunning DEF CInv, LifeInv
    <2>3. \A s \in Server : pbView[s].Primary \in up => pbView[s].Primary = view.Primary
      BY DEF CInv, PrimaryInv
    <2>4. \A c \in Clerk : ckView[c].Primary \in up => ckView[c].Primary = view.Primary
      BY DEF CInv, PrimaryInv
    <2>5. view.Viewnum > 0 => view.Primary \in up \/ view.Backup \in up
      BY <2>1 DEF CInv, LifeInv
    <2>6. view.Viewnum = 0 => view.Primary = None /\ view.Backup = None /\ Superseded = {}
      BY DEF CInv, RolesInv, StoreInv, Struck
    <2> HIDE DEF p, b, flags
    <2>7. CASE VS!SameView(p, b) /\ idle' = flags
      BY <2>1, <2>2, <2>7, SameViewCInv
    <2>8. ASSUME p = None, b = None, NEW s \in VS!InitedIdleClients, VS!NewView(s, None), idle' = flags \ {s}
          PROVE  CInv'
      <3>1. Superseded = {} /\ view.Primary \notin up /\ view.Backup \notin up
        BY <1>t, <2>2, <2>5, <2>6, <2>8 DEF VS!View
      <3>2. s \in known /\ s \in Server /\ s # None
        BY <1>t, SweepSparesRunning
      <3>3. /\ s \in up /\ ~overtaken => store[s] \notin Superseded
            /\ \A t \in up : t = view.Primary \/ (view.Primary \notin up /\ t = view.Backup) => s = t
        BY <3>1
      <3>4. \A t \in Server : pbView[t].Primary \notin up
        BY <2>3, <3>1
      <3>5. \A c \in Clerk : ckView[c].Primary \notin up
        BY <2>4, <3>1
      <3>6. \A t \in up : pbView[t].Primary # t
        BY <1>t, <3>4
      <3>7. \A t \in up \cap {s, None} : t \notin idle'
        BY <1>t, <2>8
      <3> QED
        BY <2>1, <2>8, <3>2, <3>3, <3>4, <3>5, <3>6, <3>7, NewViewCInv
    <2>9. CASE p = None /\ b # None /\ VS!NewView(b, None) /\ idle' = flags
      <3>1. view.Primary \notin up /\ b = view.Backup /\ b \in known
        BY <1>t, <2>2, <2>9
      <3>2. b \in up
        <4>1. view.Viewnum # 0
          BY <2>6, <2>9, <3>1
        <4> QED
          BY <1>t, <2>5, <3>1, <4>1 DEF VS!View
      <3>3. /\ ~overtaken => store[b] \notin Superseded
            /\ \A t \in up : t = view.Primary \/ (view.Primary \notin up /\ t = view.Backup) => b = t
        BY <2>1, <3>1, <3>2 DEF CInv, StoreInv, PutsArePreserved
      <3>4. \A t \in Server : pbView[t].Primary \notin up
        BY <2>3, <3>1
      <3>5. \A c \in Clerk : ckView[c].Primary \notin up
        BY <2>4, <3>1
      <3>6. \A t \in up : pbView[t].Primary # t
        BY <1>t, <3>4
      <3>7. \A t \in up \cap {b, None} : t \notin idle'
        BY <1>t, <2>2, <2>9, <3>1
      <3> QED
        BY <2>1, <2>9, <3>1, <3>3, <3>4, <3>5, <3>6, <3>7, NewViewCInv
    <2>10. ASSUME p # None, b = None, NEW s \in VS!IdleClients, VS!NewView(p, s), idle' = flags \ {s}
           PROVE  CInv'
      <3>1. p = view.Primary /\ p \in known /\ view.Backup \notin up
        <4>1. None \notin up
          BY <1>t
        <4> QED
          BY <1>t, <2>2, <2>10, <4>1
      <3>2. p \in up
        <4>1. view.Viewnum # 0
          BY <2>6, <2>10, <3>1
        <4> QED
          BY <1>t, <2>5, <3>1, <4>1 DEF VS!View
      <3>3. s \in known /\ s # p
        <4>1. s \in flags
          BY <2>10 DEF VS!IdleClients, flags
        <4> QED
          BY <2>2, <3>1, <3>2, <4>1, SweepSparesRunning
      <3>4. /\ ~overtaken => store[p] \notin Superseded
            /\ \A t \in up : t = view.Primary \/ (view.Primary \notin up /\ t = view.Backup) => p = t
        BY <3>1, <3>2 DEF CInv, StoreInv, PutsArePreserved
      <3>5. \A t \in up : pbView[t].Primary = t => pbView[t].Backup \notin up
        BY <3>1, RunningPrimary
      <3>6. \A t \in up \cap {p, s} : t \notin idle'
        BY <2>2, <2>10, <3>1
      <3> QED
        BY <2>1, <2>3, <2>4, <2>10, <3>1, <3>3, <3>4, <3>5, <3>6, NewViewCInv
    <2> QED
      BY <2>1, <2>7, <2>8, <2>9, <2>10 DEF VS!FillRoles
  <1> QED
    BY <1>0, <1>1, <1>2 DEF ViewServerTick, VS!tick, VS!TickRestarted, VS!TickPanic

LEMMA NextCInv == ASSUME CrashesOnly PROVE IInv /\ CInv /\ [Next]_vars => CInv'
  <1> SUFFICES ASSUME IInv, CInv, [Next]_vars PROVE CInv'
    OBVIOUS
  <1>1. CASE UNCHANGED vars
    <2>1. LifeInv' /\ RolesInv' /\ PrimaryInv' /\ BusyInv' /\ InboxInv' /\ HandlerInv' /\ CallerInv'
      BY <1>1, SameViews, SameServers, WaitOn DEF vars, pbVars, clerkVars
    <2>2. PastInv' /\ GetsAreFresh' /\ Superseded' = Superseded
      BY <1>1, SamePast DEF vars, clerkVars, pastVars
    <2>3. StoreInv'
      BY <1>1, <2>2 DEF vars, CInv, StoreInv, HandedOver, PutsArePreserved, ValueAfter, vsVars,
                        pbVars, pastVars
    <2> QED
      BY <2>1, <2>2, <2>3 DEF CInv
  <1>2. ASSUME NEW c \in Clerk, InvokePut(c) \/ InvokeGet(c) \/ UpdateView(c) \/ Call(c) PROVE CInv'
    BY <1>2, InvokeCInv, UpdateViewCInv, CallCInv
  <1>3. ASSUME NEW s \in Server, ServerStep(s) PROVE CInv'
    <2>1. ASSUME NEW r \in inbox[s], Handler(s, r) PROVE CInv'
      BY <2>1, ServeCInv, ServeForwardingCInv, ForwardCInv, SyncCInv DEF Handler
    <2> QED
      BY <1>3, <2>1, ForwardFailsCInv, FinishCInv, ServerTickCInv, SyncFailsCInv DEF ServerStep
  <1>4. \A s \in Server : ~Kill(s)
    BY DEF Kill, CrashesOnly
  <1> QED
    BY <1>1, <1>2, <1>3, <1>4, StartServerCInv, CrashCInv, ViewServerTickCInv, ElapseCInv DEF Next

\* When servers only crash, the stores stay one store: the servers of the
\* acknowledged view agree, whatever Forwards the dead have left behind (Put,
\* Forward and Sync in server.go).
THEOREM CrashInvariance == ASSUME CrashesOnly PROVE Spec => [](IInv /\ CInv)
  <1>1. Init => IInv /\ CInv
    BY InitIInv, InitCInv
  <1>2. (IInv /\ CInv) /\ [Next]_vars => (IInv /\ CInv)'
    BY NextIInv, NextCInv
  <1> QED
    BY <1>1, <1>2, PTL DEF Spec

\* No Get returns a value that a Put had replaced when it began, while
\* servers crash and backups are promoted, unless a dead primary's Forward
\* stored such a value (Get, Put, Forward and Sync in server.go, Get in
\* client.go).
THEOREM PBGetsAreFresh == ASSUME CrashesOnly PROVE Spec => []GetsAreFresh
  <1>1. CInv => GetsAreFresh
    BY DEF CInv
  <1> QED
    BY <1>1, CrashInvariance, PTL

\* What a Put stored that returned is not undone at a primary that runs, nor
\* at the backup of an acknowledged view, with the same exception (Put,
\* Forward, tick() and Sync in server.go).
THEOREM PBPutsArePreserved == ASSUME CrashesOnly PROVE Spec => []PutsArePreserved
  <1>1. CInv => PutsArePreserved
    BY DEF CInv, StoreInv
  <1> QED
    BY <1>1, CrashInvariance, PTL

\* The servers of an acknowledged view have the same store whenever the
\* primary is not in Get, Put or tick(), whoever put concurrently and whatever
\* a dead primary's Forward did (Put, Forward, tick() and Sync in server.go).
THEOREM PBReplicasIdentical == ASSUME CrashesOnly PROVE Spec => []ReplicasIdentical
  <1>1. IInv /\ CInv => ReplicasIdentical
    <2> SUFFICES ASSUME IInv, CInv, acked, {view.Primary, view.Backup} \subseteq up,
                        mu[view.Primary] = "free"
                 PROVE  store[view.Primary] = store[view.Backup]
      BY DEF ReplicasIdentical
    <2>1. HandedOver /\ mu[view.Primary] = "free"
      BY RunningPrimary DEF HandedOver, CInv, PrimaryInv
    <2> QED
      BY <2>1 DEF CInv, StoreInv
  <1> QED
    BY <1>1, CrashInvariance, PTL
=============================================================================
