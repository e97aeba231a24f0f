------------------------------ MODULE Buffers ------------------------------
(***************************************************************************)
(* Three buffers that serialise concurrent callers around a linked list:   *)
(*   abuf     a director goroutine hands out a token (class05/chanbuf)     *)
(*   sserver  a goroutine executes requests, and defers reads of an empty  *)
(*            buffer (class05/srvbuf)                                      *)
(*   dserver  the same behind net/rpc (class07), with Contents and List    *)
(* server selects the one that runs.                                       *)
(***************************************************************************)
EXTENDS Integers, Sequences

CONSTANTS Servers,      \* the buffers to look at
          Users,        \* goroutines
          Remote,       \* those of them that are rpc clients of dserver
          MaxInserts    \* bound: values inserted; each is new

ASSUME BufferAssumption == 0 \notin Users /\ MaxInserts \in Nat

VARIABLES server,
          sb,           \* the bufi.Buf of values
          db,           \* the bufi.Buf of deferred requests, by user
          serving,      \* the user with the token, or that gets a reply, or Nil
          user,
          inserts,
          dead          \* the server process has panicked

bufferVars == <<server, sb, db, serving, user, inserts, dead>>

Nil == 0
deferOnEmpty == {"remove", "front"}
AllOps == {"insert", "remove", "front", "empty", "flush", "contents", "list"}
OpsOf(s) == IF s = "dserver" THEN AllOps ELSE AllOps \ {"contents", "list"}

(***************************************************************************)
(* bufi: a list of elements, each known by what it holds.  The list of     *)
(* class07 is that of class05 with a count, cnt.                           *)
(***************************************************************************)
NewBuf == [head |-> Nil, tail |-> Nil, cnt |-> 0, next |-> [e \in {} |-> Nil]]

BufEmpty(b) == b.head = Nil
BufFront(b) == b.head

Link(b, e) ==
    [b EXCEPT !.head = IF BufEmpty(b) THEN e ELSE @, !.tail = e,
              !.next = [x \in DOMAIN @ \cup {e} |-> IF x = b.tail THEN e ELSE IF x = e THEN Nil ELSE @[x]]]
BufInsert(b, e) == [Link(b, e) EXCEPT !.cnt = @ + 1]

Unlink(b) ==
    [b EXCEPT !.head = b.next[@], !.tail = IF @ = b.head THEN Nil ELSE @,
              !.next = [x \in DOMAIN @ \ {b.head} |-> @[x]]]
BufRemove(b) == IF BufEmpty(b) THEN b ELSE [Unlink(b) EXCEPT !.cnt = @ - 1]

BufContents(b) == LET ele[i \in 1 .. b.cnt] == IF i = 1 THEN b.head ELSE b.next[ele[i - 1]]
                  IN [i \in 1 .. b.cnt |-> ele[i]]

(***************************************************************************)
(* Users.  pc: out, want (the token, or the server to receive), work (with *)
(* the token), wait (for a reply), read (the list), gone (the client has   *)
(* panicked).  req is the request the server sees: the operation, or       *)
(* string, for the log line that follows it.                               *)
(***************************************************************************)
Out == [pc |-> "out", op |-> "none", req |-> "none", val |-> 0, result |-> <<>>, raced |-> FALSE]
Is(u, pc) == user[u].pc = pc

BufferInit ==
    /\ server \in Servers
    /\ sb = NewBuf /\ db = NewBuf /\ serving = Nil
    /\ user = [u \in Users |-> Out]
    /\ inserts = 0 /\ dead = FALSE

CallOp(u, op) ==
    /\ Is(u, "out") /\ op \in OpsOf(server) /\ (server = "dserver" => u \in Remote)
    /\ op = "insert" => inserts < MaxInserts
    /\ inserts' = IF op = "insert" THEN inserts + 1 ELSE inserts
    /\ user' = [user EXCEPT ![u] = [pc |-> "want", op |-> op, req |-> op, val |-> IF op = "insert" THEN inserts' ELSE 0,
                                    result |-> <<>>, raced |-> FALSE]]
    /\ UNCHANGED <<server, sb, db, serving, dead>>

\* The list after the request of u, and what the request yields.
AfterOp(u) ==
    CASE user[u].req = "insert" -> BufInsert(sb, user[u].val)
      [] user[u].req = "remove" -> BufRemove(sb)
      [] user[u].req = "flush" -> NewBuf
      [] OTHER -> sb

\* gob does not send the unexported cnt: Contents of a list that was sent is
\* empty.  A log line leaves the result of the operation.
ResultOp(u) ==
    CASE user[u].req \in {"insert", "flush"} -> <<"nil">>
      [] user[u].req \in {"remove", "front"} -> <<BufFront(sb)>>
      [] user[u].req = "empty" -> <<BufEmpty(sb)>>
      [] user[u].req = "contents" -> <<BufContents(sb)>>
      [] user[u].req = "list" -> <<<<>>>>
      [] OTHER -> user[u].result

(***************************************************************************)
(* abuf                                                                    *)
(***************************************************************************)
Director(u) == /\ server = "abuf" /\ serving = Nil /\ Is(u, "want") /\ serving' = u
               /\ user' = [user EXCEPT ![u].pc = "work"]
               /\ UNCHANGED <<server, sb, db, inserts, dead>>

startop(u) == user[u].op \notin deferOnEmpty /\ Director(u)

\* Mutant: readchan is offered without a look at the list.
startreadAlways(u) == user[u].op \in deferOnEmpty /\ Director(u)

startread(u) == user[u].op \in deferOnEmpty /\ ~BufEmpty(sb) /\ Director(u)

Operate(u) ==
    /\ Is(u, "work") /\ user[u].result = <<>>
    /\ sb' = AfterOp(u) /\ user' = [user EXCEPT ![u].result = ResultOp(u)]
    /\ UNCHANGED <<server, db, serving, inserts, dead>>

\* Mutant: the director is not told.
finishSilently(u) == /\ Is(u, "work") /\ user[u].result # <<>>
                     /\ user' = [user EXCEPT ![u] = Out]
                     /\ UNCHANGED <<server, sb, db, serving, inserts, dead>>

finish(u) == /\ Is(u, "work") /\ user[u].result # <<>> /\ serving' = Nil
             /\ user' = [user EXCEPT ![u] = Out]
             /\ UNCHANGED <<server, sb, db, inserts, dead>>

(***************************************************************************)
(* sserver and dserver                                                     *)
(***************************************************************************)
\* The switch, up to the send to replyc.  Those that read the list at the
\* time read what is being changed.
Execute(u) ==
    /\ serving' = u /\ sb' = AfterOp(u)
    /\ user' = [w \in Users |->
                  IF w = u THEN [user[u] EXCEPT !.pc = "wait", !.result = ResultOp(u)]
                  ELSE [user[w] EXCEPT !.raced = @ \/ (Is(w, "read") /\ sb' # sb)]]

ServeDeferred ==
    /\ server # "abuf" /\ ~dead /\ serving = Nil /\ ~BufEmpty(sb) /\ ~BufEmpty(db)
    /\ Execute(BufFront(db)) /\ db' = BufRemove(db)
    /\ UNCHANGED <<server, inserts, dead>>

Receives(u) == /\ server # "abuf" /\ ~dead /\ serving = Nil /\ Is(u, "want")
               /\ BufEmpty(sb) \/ BufEmpty(db)

Defer(u) ==
    /\ Receives(u) /\ BufEmpty(sb) /\ user[u].req \in deferOnEmpty
    /\ db' = BufInsert(db, u) /\ user' = [user EXCEPT ![u].pc = "wait"]
    /\ UNCHANGED <<server, sb, serving, inserts, dead>>

Receive(u) ==
    /\ Receives(u) /\ ~(BufEmpty(sb) /\ user[u].req \in deferOnEmpty)
    /\ Execute(u)
    /\ UNCHANGED <<server, db, inserts, dead>>

\* The reply, and what the rpc handler does next: most ask for a String to
\* log, at any verbosity, and List looks at the list; or the call returns.
Reply(u) ==
    /\ serving = u /\ Is(u, "wait") /\ ~dead /\ serving' = Nil
    /\ user' = [user EXCEPT ![u] =
                  IF server = "sserver" \/ user[u].req \in {"contents", "string"} THEN Out
                  ELSE IF user[u].req = "list" THEN [@ EXCEPT !.pc = "read"]
                  ELSE [@ EXCEPT !.pc = "want", !.req = "string"]]
    /\ UNCHANGED <<server, sb, db, inserts, dead>>

\* SrvBuf.List reads the list it was given, and so does gob.
ReadList(u) ==
    /\ Is(u, "read") /\ ~dead
    /\ user' = [user EXCEPT ![u] = Out]
    /\ UNCHANGED <<server, sb, db, serving, inserts, dead>>

\* ... an index is out of range or an element nil, and the process panics.
ReadRaced(u) ==
    /\ Is(u, "read") /\ ~dead /\ user[u].raced /\ dead' = TRUE
    /\ UNCHANGED <<server, sb, db, serving, user, inserts>>

\* The rpc call of a client fails: it reports that, except that Contents and
\* List assert the type of a missing reply.
CallFails(u) ==
    /\ dead /\ user[u].pc \notin {"out", "gone"}
    /\ user' = [user EXCEPT ![u] = [Out EXCEPT !.pc = IF user[u].op \in {"contents", "list"} THEN "gone" ELSE "out"]]
    /\ UNCHANGED <<server, sb, db, serving, inserts, dead>>

UserStep(u) ==
    \/ startop(u) \/ startread(u) \/ Operate(u) \/ finish(u)
    \/ Defer(u) \/ Receive(u) \/ Reply(u) \/ ReadList(u) \/ ReadRaced(u)
    \/ CallFails(u)

BufferNext ==
    \/ \E u \in Users : UserStep(u) \/ \E op \in AllOps : CallOp(u, op)
    \/ ServeDeferred

BuffersSpec == BufferInit /\ [][BufferNext]_bufferVars

(***************************************************************************)
(* Properties                                                              *)
(***************************************************************************)
\* A buffer implements BufferSpec: the operations of concurrent callers take
\* effect once each, in order, and Remove and Front never find the list empty
\* (director, runServer with its deferred requests, the handlers of SrvBuf).
Promise == INSTANCE BufferSpec
             WITH Ops <- AllOps, Vals <- 0 .. MaxInserts, queue <- BufContents(sb), broken <- dead,
                  calls <- [u \in Users |-> [op |-> user[u].op, val |-> user[u].val, result |-> user[u].result]]
BufferImplements == Promise!Init /\ [][Promise!Next]_Promise!specVars

\* An operation that does not wait for an element returns, whatever the other
\* users do, and although deferred reads go first (runServer, director).
OpsReturn == \A u \in Users : (user[u].op \in AllOps \ deferOnEmpty) ~> Is(u, "out") \/ Is(u, "gone")
=============================================================================
