-------------------------------- MODULE Lsp --------------------------------
(***************************************************************************)
(* The live sequence protocol of 15-440/P1-F11/lsp: a server and clients   *)
(* that exchange numbered payloads over UDP, stop and wait, with an epoch  *)
(* timer at each end that repeats what was not acknowledged and gives up   *)
(* on a silent peer.                                                       *)
(*                                                                         *)
(* Each connection has two ends, <<"client", c>> and <<"server", c>>, each *)
(* a goroutine running lspConn.serve.  In front of the ends stand the two  *)
(* kinds of loopServe: one per client and a single one for the server.     *)
(* loopServe hands packets and payloads to an end through channels of one  *)
(* element and blocks when they are full, and an end that gives up blocks  *)
(* until its loopServe takes the notice, so the model keeps every channel  *)
(* and every place where a goroutine waits.  The loopRead goroutines only  *)
(* move one packet from the socket to loopServe and are part of the        *)
(* network.                                                                *)
(***************************************************************************)
EXTENDS Integers, Sequences, FiniteSets

CONSTANTS Clients,      \* client addresses
          SeqMod,       \* sequence numbers are a byte: 2^8 in the code
          EpochLimit,   \* LspParams.EpochLimit
          MaxWrites,    \* bound: payloads the client and the server write on a connection
          MaxConns,     \* bound: connections the server creates
          MaxFaults     \* bound: packets lost, hasty epochs and calls of Close and CloseAll

ASSUME LspAssumption == /\ EpochLimit \in Nat \ {0} /\ SeqMod \in Nat /\ SeqMod > 1
                        /\ MaxConns \in Nat /\ MaxFaults \in Nat
                        /\ MaxWrites \in [{"client", "server"} -> Nat]

VARIABLES conn,      \* the lspConn of every end
          net,       \* packets on their way to each end, oldest first
          srv,       \* the server's loopServe: where it stands, for whom, with which message
          connMap,   \* the clients in the server's connMap
          nextConnId,
          stop,      \* closeAll was received
          cli,       \* each client's loopServe
          cliId,     \* the first ConnId that loopServe saw, 0 before: what ConnId() returns
          wrote,     \* number of payloads the application of an end has written on this connection
          got,       \* what that application has read: ids and payloads
          faults,    \* packets lost, hasty epochs and closes so far
          turn       \* whose epoch timer is next to run out when nobody is slow

vars == <<conn, net, srv, connMap, nextConnId, stop, cli, cliId, wrote, got, faults, turn>>
serverVars == <<srv, connMap, nextConnId, stop>>
appVars == <<wrote, got>>
envVars == <<faults, turn>>

Sides == {"client", "server"}
Ends == Sides \X Clients
Peer(k) == <<IF k[1] = "client" THEN "server" ELSE "client", k[2]>>

Msg(type, id, seq, payload) == [type |-> type, connId |-> id, seq |-> seq, payload |-> payload]
genConnMsg(id) == Msg("CONNECT", id, 0, 0)
genAckMsg(id, seq) == Msg("ACK", id, seq, 0)
genDataMsg(id, payload) == Msg("DATA", id, 0, payload)
Nil == Msg("NONE", 0, 0, 0)

Message == [type : {"NONE", "CONNECT", "DATA", "ACK"}, connId : 0 .. MaxConns,
            seq : 0 .. SeqMod - 1, payload : 0 .. MaxWrites["client"] + MaxWrites["server"]]

(***************************************************************************)
(* An lspConn.  "at" is where its goroutine stands: in the select of       *)
(* serve, blocked on removeChan, blocked on its own writeDone, or returned *)
(* (also before it exists).  silent counts the epochs since lastTime.      *)
(***************************************************************************)
newLspConn(id) ==
    [at |-> "serve", connId |-> id, sendBuf |-> <<>>, recvBuf |-> <<>>,
     sendChan |-> <<IF id = 0 THEN genConnMsg(0) ELSE genAckMsg(id, 0)>>, recvChan |-> <<>>,
     closed |-> FALSE, nextRecvSeqNum |-> 1 % SeqMod, nextSendSeqNum |-> 1 % SeqMod,
     lastAck |-> genAckMsg(id, 0), silent |-> 0]

NoConn == [newLspConn(0) EXCEPT !.at = "gone", !.sendChan = <<>>]

(***************************************************************************)
(* bufi.Buf: Insert, Front, Remove and Empty of the linked list.           *)
(***************************************************************************)
Insert(buf, m) == Append(buf, m)
Front(buf) == Head(buf)
Remove(buf) == Tail(buf)
Empty(buf) == buf = <<>>

Loop == [at |-> "select", who |-> "none", msg |-> Nil, todo |-> {}]

Init ==
    /\ conn = [k \in Ends |-> IF k[1] = "client" THEN newLspConn(0) ELSE NoConn]
    /\ net = [k \in Ends |-> <<>>]
    /\ srv = Loop /\ connMap = {} /\ nextConnId = 1 /\ stop = FALSE
    /\ cli = [c \in Clients |-> Loop] /\ cliId = [c \in Clients |-> 0]
    /\ wrote = [k \in Ends |-> 0] /\ got = [k \in Ends |-> <<>>]
    /\ faults = [loss |-> 0, connect |-> 0, hasty |-> 0, close |-> 0] /\ turn = [c \in Clients |-> "client"]

(***************************************************************************)
(* lspConn.send and receive: the connection after the message.             *)
(***************************************************************************)
\* Mutant: the sequence number is an int and does not wrap.
AfterSendWide(q, m) ==
    IF m.type = "DATA"
    THEN [q EXCEPT !.sendBuf = Insert(@, [m EXCEPT !.seq = q.nextSendSeqNum]), !.nextSendSeqNum = @ + 1]
    ELSE IF m.type = "CONNECT" THEN [q EXCEPT !.sendBuf = Insert(@, m)] ELSE q

AfterSend(q, m) ==
    CASE m.type = "CONNECT" -> [q EXCEPT !.sendBuf = Insert(@, m)]
      [] m.type = "DATA" ->
           [q EXCEPT !.sendBuf = Insert(@, [m EXCEPT !.seq = q.nextSendSeqNum]),
                     !.nextSendSeqNum = (@ + 1) % SeqMod]
      [] OTHER -> q

\* Mutant: receive does not compare the sequence number of DATA.
AfterDataAny(q, m) ==
    [q EXCEPT !.recvBuf = Insert(@, m), !.nextRecvSeqNum = (@ + 1) % SeqMod, !.lastAck = genAckMsg(q.connId, m.seq)]

\* Mutant: receive does not renew lastAck.
AfterDataSameAck(q, m) ==
    IF m.seq = q.nextRecvSeqNum THEN [q EXCEPT !.recvBuf = Insert(@, m), !.nextRecvSeqNum = (@ + 1) % SeqMod] ELSE q

AfterData(q, m) ==
    IF m.seq = q.nextRecvSeqNum
    THEN [q EXCEPT !.recvBuf = Insert(@, m), !.nextRecvSeqNum = (@ + 1) % SeqMod,
                   !.lastAck = genAckMsg(q.connId, m.seq)]
    ELSE q

\* Mutant: any acknowledgement removes the front of sendBuf.
AfterAckAny(q, m) ==
    IF Empty(q.sendBuf) THEN q
    ELSE [q EXCEPT !.sendBuf = Remove(@), !.connId = IF m.seq = 0 THEN m.connId ELSE @]

AfterAck(q, m) ==
    IF Empty(q.sendBuf) \/ m.seq # Front(q.sendBuf).seq THEN q
    ELSE [q EXCEPT !.sendBuf = Remove(@), !.connId = IF m.seq = 0 THEN m.connId ELSE @]

\* receive ends with conn.writeDone <- nil, which only this goroutine would receive.
AfterDrain(q) == IF Empty(q.sendBuf) /\ q.closed THEN [q EXCEPT !.at = "writeDone"] ELSE q

FrontOf(buf) == IF Empty(buf) THEN <<>> ELSE <<Front(buf)>>

\* udpWrite of several messages in a row; lspnet may lose any of them (Lose).
udpWrite(k, ms) == net' = [net EXCEPT ![Peer(k)] = @ \o ms]

Serving(k) == conn[k].at = "serve"

\* A hasty epoch or a close counts as two lost packets; a lost CONNECT is counted apart.
Lost(f) == f.loss + f.connect
Weight(f) == Lost(f) + 2 * (f.hasty + f.close)
Fault(kind) == /\ faults' = [faults EXCEPT ![kind] = @ + 1]
               /\ Weight(faults') <= MaxFaults

\* The channels of one element between loopServe and an end.
Chan(k, name) == IF name = "recvChan" THEN conn[k].recvChan ELSE conn[k].sendChan
Filled(k, name, m) == IF name = "recvChan" THEN [conn EXCEPT ![k].recvChan = <<m>>]
                                           ELSE [conn EXCEPT ![k].sendChan = <<m>>]

(***************************************************************************)
(* The cases of the select in lspConn.serve.                               *)
(***************************************************************************)
Send(k) ==
    /\ Serving(k) /\ conn[k].sendChan # <<>>
    /\ LET m == Head(conn[k].sendChan)
           q == [conn[k] EXCEPT !.sendChan = <<>>]
           r == IF q.closed THEN q ELSE AfterSend(q, m)
       IN /\ conn' = [conn EXCEPT ![k] = r]
          /\ udpWrite(k, IF q.closed THEN <<>> ELSE IF m.type = "DATA" THEN <<Front(r.sendBuf)>> ELSE <<m>>)
    /\ UNCHANGED <<serverVars, cli, cliId, appVars, envVars>>

\* Mutant: serve does not set lastTime.
TakenSilently(k) == [conn[k] EXCEPT !.recvChan = <<>>]

Taken(k) == [conn[k] EXCEPT !.recvChan = <<>>, !.silent = 0]

ReceiveData(k) ==
    /\ Serving(k) /\ conn[k].recvChan # <<>> /\ Head(conn[k].recvChan).type = "DATA"
    /\ conn' = [conn EXCEPT ![k] = AfterData(Taken(k), Head(@.recvChan))]
    /\ udpWrite(k, <<conn'[k].lastAck>>)
    /\ UNCHANGED <<serverVars, cli, cliId, appVars, envVars>>

ReceiveAck(k) ==
    /\ Serving(k) /\ conn[k].recvChan # <<>> /\ Head(conn[k].recvChan).type = "ACK"
    /\ LET q == AfterAck(Taken(k), Head(conn[k].recvChan))
       IN /\ conn' = [conn EXCEPT ![k] = IF Empty(@.sendBuf) THEN q ELSE AfterDrain(q)]
          /\ udpWrite(k, FrontOf(q.sendBuf))
    /\ UNCHANGED <<serverVars, cli, cliId, appVars, envVars>>

\* readChan <- first: an application is reading
Deliver(k) ==
    /\ Serving(k) /\ ~Empty(conn[k].recvBuf)
    /\ got' = [got EXCEPT ![k] = Append(@, [id |-> Front(conn[k].recvBuf).connId,
                                            payload |-> Front(conn[k].recvBuf).payload])]
    /\ conn' = [conn EXCEPT ![k].recvBuf = Remove(@)]
    /\ UNCHANGED <<net, serverVars, cli, cliId, wrote, envVars>>

\* What epochTrigger repeats: the message that waits for its acknowledgement and the last acknowledgement.
Repeated(q) == Append(FrontOf(q.sendBuf), q.lastAck)

(***************************************************************************)
(* The epoch timer runs out.  An epoch is seconds long, so as a rule it    *)
(* runs out when every packet has arrived and every channel is empty, and  *)
(* the timers of the two ends take turns; a hasty epoch breaks the rule.   *)
(* The time since lastTime reaches EpochLimit epochs in the epoch numbered *)
(* EpochLimit or in the next one.                                          *)
(***************************************************************************)
\* The end loopServe is handing something to, if any, and whether k has anything left to take.
Server(c) == <<"server", c>>
Client(c) == <<"client", c>>
LoopOf(k) == IF k[1] = "server" THEN srv ELSE [cli[k[2]] EXCEPT !.who = k[2]]
Handing(k) == /\ LoopOf(k).at \in {"recvChan", "sendChan"} \cup (IF k[1] = "server" THEN {"closeChan"} ELSE {})
              /\ Serving(<<k[1], LoopOf(k).who>>)
Quiet(k) == /\ Serving(k) => conn[k].sendChan = <<>> /\ conn[k].recvChan = <<>>
            /\ LoopOf(k).at = "select" => net[k] = <<>>
            /\ ~Handing(k)

InTime(k) == /\ Quiet(k) /\ Quiet(Peer(k))
             /\ turn[k[2]] = k[1] \/ ~Serving(Peer(k))

epochTrigger(k) ==
    /\ Serving(k)
    /\ \/ InTime(k) /\ UNCHANGED faults
       \/ ~InTime(k) /\ conn[k].sendChan = <<>> /\ Fault("hasty")
    /\ turn' = [turn EXCEPT ![k[2]] = Peer(k)[1]]
    /\ udpWrite(k, Repeated(conn[k]))
    /\ \/ /\ conn[k].silent < EpochLimit
          /\ conn' = [conn EXCEPT ![k].silent = @ + 1]
       \/ /\ conn[k].silent + 1 >= EpochLimit
          /\ conn' = [conn EXCEPT ![k].at = "removeChan"]
    /\ UNCHANGED <<serverVars, cli, cliId, appVars>>

\* lspnet drops a packet.
Lose(k) ==
    /\ net[k] # <<>> /\ Fault(IF Head(net[k]).type = "CONNECT" THEN "connect" ELSE "loss")
    /\ net' = [net EXCEPT ![k] = Tail(@)]
    /\ UNCHANGED <<conn, serverVars, cli, cliId, appVars, turn>>

(***************************************************************************)
(* The server's loopServe.  A DATA or ACK packet from an address that is   *)
(* not in connMap dereferences a nil connection: the process is gone.      *)
(***************************************************************************)
\* conn.recvChan <- msg or conn.sendChan <- msg: loopServe blocks while the channel is full.
ServerPut(c, chan, m) ==
    IF Chan(Server(c), chan) = <<>>
    THEN conn' = Filled(Server(c), chan, m) /\ srv' = Loop
    ELSE srv' = [Loop EXCEPT !.at = chan, !.who = c, !.msg = m] /\ UNCHANGED conn

Accept(c) ==
    /\ nextConnId <= MaxConns
    /\ conn' = [conn EXCEPT ![Server(c)] = newLspConn(nextConnId)]
    /\ connMap' = connMap \cup {c} /\ nextConnId' = nextConnId + 1
    /\ wrote' = [wrote EXCEPT ![Server(c)] = 0] /\ got' = [got EXCEPT ![Server(c)] = <<>>]
    /\ UNCHANGED srv

handleUdpPacket(c) ==
    /\ srv.at = "select" /\ net[Server(c)] # <<>>
    /\ net' = [net EXCEPT ![Server(c)] = Tail(@)]
    /\ LET m == Head(net[Server(c)])
       IN \/ m.type = "CONNECT" /\ c \notin connMap /\ Accept(c)
          \/ /\ m.type = "CONNECT" /\ c \in connMap
             /\ UNCHANGED <<conn, srv, connMap, nextConnId, appVars>>
          \/ /\ m.type # "CONNECT" /\ c \in connMap
             /\ ServerPut(c, "recvChan", m)
             /\ UNCHANGED <<connMap, nextConnId, appVars>>
          \/ /\ m.type # "CONNECT" /\ c \notin connMap
             /\ srv' = [srv EXCEPT !.at = "panic"]
             /\ conn' = [k \in Ends |-> IF k[1] = "server" THEN [conn[k] EXCEPT !.at = "gone"] ELSE conn[k]]
             /\ UNCHANGED <<connMap, nextConnId, appVars>>
    /\ UNCHANGED <<stop, cli, cliId, envVars>>

getConnById(id) == {c \in connMap : conn[Server(c)].connId = id}

\* The ids an application of the server can know: it read them, or a client reports its ConnId().
KnownIds == {cliId[c] : c \in Clients}
                \cup UNION {{got[Server(c)][i].id : i \in DOMAIN got[Server(c)]} : c \in Clients}

\* Write(id, payload).  With an unknown id loopServe drops the payload and nothing changes.
ServerWrite(c) ==
    /\ srv.at = "select" /\ wrote[Server(c)] < MaxWrites["server"]
    /\ \E id \in KnownIds : c \in getConnById(id)
    /\ wrote' = [wrote EXCEPT ![Server(c)] = @ + 1]
    /\ ServerPut(c, "sendChan", genDataMsg(conn[Server(c)].connId, wrote[Server(c)] + 1))
    /\ UNCHANGED <<net, connMap, nextConnId, stop, cli, cliId, got, envVars>>

ServerClose(c) ==
    /\ srv.at = "select" /\ Fault("close")
    /\ \E id \in KnownIds : c \in getConnById(id)
    /\ srv' = [srv EXCEPT !.at = "closeChan", !.who = c]
    /\ UNCHANGED <<conn, net, connMap, nextConnId, stop, cli, cliId, appVars, turn>>

\* loopServe goes on to close the next connection of closeAll, or back to its select.
NextToClose(todo) ==
    IF todo = {} THEN srv' = Loop
    ELSE \E c \in todo : srv' = [Loop EXCEPT !.at = "closeChan", !.who = c, !.todo = todo \ {c}]

\* CloseAll is called once.
ServerCloseAll ==
    /\ srv.at = "select" /\ ~stop /\ Fault("close")
    /\ stop' = TRUE /\ NextToClose(connMap)
    /\ UNCHANGED <<conn, net, connMap, nextConnId, cli, cliId, appVars, turn>>

\* The blocked send of loopServe goes through: the one-element channel is
\* empty, or (closeChan) serve is at its select.
ServerHandOver ==
    LET k == Server(srv.who)
    IN /\ \/ /\ srv.at \in {"recvChan", "sendChan"} /\ Chan(k, srv.at) = <<>>
             /\ conn' = Filled(k, srv.at, srv.msg) /\ srv' = Loop
          \/ /\ srv.at = "closeChan" /\ Serving(k)
             /\ conn' = [conn EXCEPT ![k].closed = TRUE] /\ NextToClose(srv.todo)
       /\ UNCHANGED <<net, connMap, nextConnId, stop, cli, cliId, appVars, envVars>>

\* id := <-removeConnChan: the end returns and the connection with that id is deleted.
ServerRemove(c) ==
    /\ srv.at = "select" /\ conn[Server(c)].at = "removeChan"
    /\ conn' = [conn EXCEPT ![Server(c)].at = "gone"]
    /\ LET found == getConnById(conn[Server(c)].connId)
       IN IF found = {} THEN UNCHANGED connMap ELSE \E d \in found : connMap' = connMap \ {d}
    /\ srv' = IF stop /\ connMap' = {} THEN [srv EXCEPT !.at = "exit"] ELSE srv
    /\ UNCHANGED <<net, nextConnId, stop, cli, cliId, appVars, envVars>>

(***************************************************************************)
(* A client's loopServe.                                                   *)
(***************************************************************************)
ClientPut(c, chan, m) ==
    IF Chan(Client(c), chan) = <<>>
    THEN conn' = Filled(Client(c), chan, m) /\ cli' = [cli EXCEPT ![c] = Loop]
    ELSE cli' = [cli EXCEPT ![c].at = chan, ![c].msg = m] /\ UNCHANGED conn

\* loopServe notes the first ConnId once the packet is handed over.
NoteId(c, m, done) == cliId' = [cliId EXCEPT ![c] = IF @ = 0 /\ done THEN m.connId ELSE @]

ClientRead(c) ==
    /\ cli[c].at = "select" /\ net[Client(c)] # <<>>
    /\ ClientPut(c, "recvChan", Head(net[Client(c)]))
    /\ NoteId(c, Head(net[Client(c)]), cli'[c].at = "select")
    /\ net' = [net EXCEPT ![Client(c)] = Tail(@)]
    /\ UNCHANGED <<serverVars, appVars, envVars>>

ClientWrite(c) ==
    /\ cli[c].at = "select" /\ wrote[Client(c)] < MaxWrites["client"]
    /\ wrote' = [wrote EXCEPT ![Client(c)] = @ + 1]
    /\ ClientPut(c, "sendChan", genDataMsg(conn[Client(c)].connId, wrote[Client(c)] + 1))
    /\ UNCHANGED <<net, serverVars, cliId, got, envVars>>

\* loopServe answers on closeChan, where nobody receives: it never comes back.
ClientClose(c) ==
    /\ cli[c].at = "select" /\ Fault("close")
    /\ cli' = [cli EXCEPT ![c].at = "closeChan"]
    /\ UNCHANGED <<conn, net, serverVars, cliId, appVars, turn>>

ClientHandOver(c) ==
    /\ cli[c].at \in {"recvChan", "sendChan"} /\ Chan(Client(c), cli[c].at) = <<>>
    /\ conn' = Filled(Client(c), cli[c].at, cli[c].msg)
    /\ NoteId(c, cli[c].msg, cli[c].at = "recvChan")
    /\ cli' = [cli EXCEPT ![c] = Loop]
    /\ UNCHANGED <<net, serverVars, appVars, envVars>>

ClientRemove(c) ==
    /\ cli[c].at = "select" /\ conn[Client(c)].at = "removeChan"
    /\ conn' = [conn EXCEPT ![Client(c)].at = "gone"]
    /\ cli' = [cli EXCEPT ![c].at = "exit"]
    /\ UNCHANGED <<net, serverVars, cliId, appVars, envVars>>

ServeStep(k) == Send(k) \/ ReceiveData(k) \/ ReceiveAck(k)
ServerLoop == ServerHandOver \/ \E c \in Clients : handleUdpPacket(c) \/ ServerRemove(c)
ClientLoop(c) == ClientRead(c) \/ ClientHandOver(c) \/ ClientRemove(c)
Application(c) == ServerWrite(c) \/ ServerClose(c) \/ ClientWrite(c) \/ ClientClose(c)

Next ==
    \/ \E k \in Ends : ServeStep(k) \/ Deliver(k) \/ epochTrigger(k) \/ Lose(k)
    \/ ServerLoop \/ ServerCloseAll
    \/ \E c \in Clients : ClientLoop(c) \/ Application(c)

Spec == Init /\ [][Next]_vars

(***************************************************************************)
(* A goroutine that can run does run, its timer runs out when nothing else *)
(* is left to do, and the applications keep reading.  Nobody has to write, *)
(* close or lose anything.                                                 *)
(***************************************************************************)
Fairness ==
    /\ \A k \in Ends : WF_vars(ServeStep(k) \/ (epochTrigger(k) /\ InTime(k))) /\ WF_vars(Deliver(k))
    /\ WF_vars(ServerLoop)
    /\ \A c \in Clients : WF_vars(ClientLoop(c))

FairSpec == Spec /\ Fairness

(***************************************************************************)
(* Properties                                                              *)
(***************************************************************************)
\* Type invariant of the state the lsp package keeps.
TypeOK ==
    /\ \A k \in Ends :
          /\ conn[k].at \in {"serve", "removeChan", "writeDone", "gone"}
          /\ conn[k].connId \in 0 .. MaxConns /\ conn[k].silent \in 0 .. EpochLimit
          /\ conn[k].sendBuf \in Seq(Message) /\ conn[k].recvBuf \in Seq(Message)
          /\ Len(conn[k].sendChan) <= 1 /\ conn[k].sendChan \in Seq(Message)
          /\ Len(conn[k].recvChan) <= 1 /\ conn[k].recvChan \in Seq(Message)
          /\ {conn[k].nextRecvSeqNum, conn[k].nextSendSeqNum} \subseteq 0 .. SeqMod - 1
          /\ conn[k].lastAck \in Message /\ conn[k].closed \in BOOLEAN
          /\ net[k] \in Seq(Message) /\ wrote[k] \in 0 .. MaxWrites[k[1]]
    /\ srv.at \in {"select", "recvChan", "sendChan", "closeChan", "panic", "exit"} /\ srv.msg \in Message
    /\ connMap \subseteq Clients /\ nextConnId \in 1 .. MaxConns + 1 /\ stop \in BOOLEAN
    /\ \A c \in Clients : /\ cli[c].at \in {"select", "recvChan", "sendChan", "closeChan", "exit"}
                          /\ cli[c].msg \in Message /\ cliId[c] \in 0 .. MaxConns
    /\ faults \in [{"loss", "connect", "hasty", "close"} -> 0 .. MaxFaults] /\ turn \in [Clients -> Sides]

\* What has reached an end: read by its application or waiting in recvBuf.
Payloads(s) == [i \in DOMAIN s |-> s[i].payload]
Received(k) == Payloads(got[k]) \o Payloads(conn[k].recvBuf)

\* The payloads written at an end that its connection still has to send or to see acknowledged.
DataIn(s) == Cardinality({i \in DOMAIN s : s[i].type = "DATA"})
AtLoop(k) == IF LoopOf(k).at = "sendChan" /\ LoopOf(k).who = k[2] THEN 1 ELSE 0
Pending(k) == DataIn(conn[k].sendBuf) + DataIn(conn[k].sendChan) + AtLoop(k)

\* Each application reads what the other one wrote on the connection, in that
\* order, nothing twice and nothing missing in between, whatever packets are
\* lost, repeated by an epoch or late, and across the wrap of the byte that
\* numbers them (receive, send, epochTrigger).  A second connection of the same
\* address starts both streams anew at the server only: this is about clients
\* the server accepts once.
StreamsInOrder ==
    \A k \in Ends : \A i \in DOMAIN Received(k) : Received(k)[i] = i /\ i <= wrote[Peer(k)]

\* A payload that send queued leaves sendBuf only after the other end has it
\* (receive, case MsgACK): an acknowledgement of CONNECT, of an earlier payload
\* or one that an epoch repeated never stands for the payload at the front,
\* although 0 numbers both CONNECT and the payload after the wrap.
AckedMeansReceived ==
    \A k \in Ends : ~conn[k].closed => wrote[k] - Pending(k) <= Len(Received(Peer(k)))

\* More happened than the epochs are meant to bridge.
Disturbed == faults.hasty + faults.close > 0 \/ faults.connect > 1 \/ Lost(faults) >= EpochLimit - 1

\* As long as fewer than EpochLimit - 1 packets are lost, at most one of them a
\* CONNECT, and nobody closes, no end gives up on its peer (epochTrigger) and
\* the server never meets a DATA or ACK packet from an address that is not in
\* connMap (handleUdpPacket, which would dereference nil).  After two lost
\* CONNECTs it may: the epoch repeats lastAck with the CONNECT, and it arrives alone.
ConnectionsKept ==
    ~Disturbed => /\ srv.at # "panic"
                  /\ \A c \in Clients : Serving(Client(c)) /\ (c \in connMap => Serving(Server(c)))

\* Under the same condition every payload that Write accepted is read at the
\* other end: an end repeats its front message every epoch (epochTrigger), and
\* no loopServe stays blocked on a channel of an end.
WritesDelivered ==
    (\E k \in Ends : Len(got[Peer(k)]) < wrote[k])
        ~> (Disturbed \/ \A k \in Ends : Len(got[Peer(k)]) = wrote[k])
=============================================================================
