----------------------------- MODULE LspProofs -----------------------------
(***************************************************************************)
(* Proofs about LSP, for any number of clients, payloads and faults and    *)
(* any modulus above 1 of the sequence numbers: the types; while the       *)
(* server accepts no address twice (OnceSpec), that each application reads *)
(* what the other one wrote, in that order, and that what is acknowledged  *)
(* has been received; and, last, that no end gives up on its peer and the  *)
(* server does not panic while few packets are lost.                       *)
(*                                                                         *)
(* The argument follows one connection.  A message has the place in its    *)
(* stream as its payload, CONNECT being message 0; f is the place of the   *)
(* front of the sender's sendBuf and r how many payloads the receiver has. *)
(* Stop and wait keeps r <= f <= r + 1, so that what is on the way forward *)
(* are copies of messages r and r + 1, in this order, and what is on the   *)
(* way back acknowledges at most f; a number modulo 2 tells two            *)
(* consecutive messages apart.  The invariant Pair says this of the two    *)
(* ends of a connection, of everything between them and of what their      *)
(* loopServes still hold; the lemmas Pair... show that each kind of step   *)
(* keeps it, the lemmas Flow... and ...Streams that each action is of one  *)
(* of these kinds.                                                         *)
(***************************************************************************)
EXTENDS Lsp, FiniteSetTheorems, SequenceTheorems, TLAPS

\* What an application has read.
ReadT == [id : 0 .. MaxConns, payload : 0 .. MaxWrites["client"] + MaxWrites["server"]]

\* Sequences of elements of S.
LEMMA SeqTypes ==
  ASSUME NEW S
  PROVE  /\ \A s \in Seq(S) : s # <<>> => Head(s) \in S /\ Tail(s) \in Seq(S)
         /\ \A s \in Seq(S) : \A m \in S : Append(s, m) \in Seq(S)
         /\ \A s, t \in Seq(S) : s \o t \in Seq(S)
         /\ \A m \in S : <<m>> \in Seq(S) /\ Len(<<m>>) = 1
         /\ <<>> \in Seq(S)
  OBVIOUS

(***************************************************************************)
(* Sequence numbers.                                                       *)
(***************************************************************************)
\* The byte that numbers the j-th message of a stream; CONNECT is message 0.
Num(j) == j % SeqMod

\* A number is determined by its quotient and its remainder.
LEMMA ModIs ==
  ASSUME NEW M \in Nat \ {0}, NEW x \in Nat, NEW q \in Nat, NEW a \in 0 .. M - 1, x = M * q + a
  PROVE  x % M = a
  OBVIOUS

\* Counting on wraps at the modulus.
LEMMA ModNext ==
  ASSUME NEW M \in Nat \ {0}, NEW x \in Nat, NEW y \in Nat, y = x + 1
  PROVE  y % M = IF x % M = M - 1 THEN 0 ELSE (x % M) + 1
  <1>1. PICK q \in Nat, a \in 0 .. M - 1 : q = x \div M /\ a = x % M
    OBVIOUS
  <1>2. x = M * q + a
    BY <1>1
  <1>3. CASE a = M - 1
    <2>1. PICK p \in Nat, b \in 0 .. M - 1 : p = q + 1 /\ b = 0
      OBVIOUS
    <2>2. y = M * p + b
      BY <1>2, <1>3, <2>1
    <2>3. y % M = b
      BY ONLY <2>2, ModIs, M \in Nat \ {0}, y \in Nat
    <2> QED BY <2>1, <2>3, <1>1, <1>3
  <1>4. CASE a # M - 1
    <2>1. PICK b \in 0 .. M - 1 : b = a + 1
      BY <1>4
    <2>2. y = M * q + b
      BY <1>2, <2>1
    <2>3. y % M = b
      BY ONLY <2>2, ModIs, M \in Nat \ {0}, y \in Nat
    <2> QED BY <2>1, <2>3, <1>1, <1>4
  <1> QED BY <1>3, <1>4

\* What the proofs use of the numbers: two consecutive ones differ, and each is
\* computed from the one before (send, receive).
LEMMA NumFacts ==
  /\ Num(0) = 0
  /\ \A j \in Nat : /\ Num(j) \in 0 .. SeqMod - 1 /\ Num(j) # Num(j + 1)
                    /\ (Num(j) + 1) % SeqMod = Num(j + 1)
  <1>1. SeqMod \in Nat \ {0} /\ SeqMod > 1
    BY LspAssumption
  <1>2. 0 % SeqMod = 0
    BY ONLY <1>1
  <1>3. ASSUME NEW j \in Nat
        PROVE  j % SeqMod \in 0 .. SeqMod - 1 /\ j % SeqMod # (j + 1) % SeqMod
               /\ ((j % SeqMod) + 1) % SeqMod = (j + 1) % SeqMod
    <2>1. PICK a \in 0 .. SeqMod - 1 : a = j % SeqMod
      BY ONLY <1>1, j \in Nat
    <2>2. PICK i \in Nat, b \in Nat : i = j + 1 /\ b = a + 1
      BY <1>1
    <2>3. i % SeqMod = IF j % SeqMod = SeqMod - 1 THEN 0 ELSE (j % SeqMod) + 1
      BY ONLY <1>1, <2>2, ModNext, j \in Nat
    <2>4. b % SeqMod = IF a % SeqMod = SeqMod - 1 THEN 0 ELSE (a % SeqMod) + 1
      <3>1. a \in Nat
        BY <1>1
      <3> QED BY ONLY <1>1, <2>2, <3>1, ModNext
    <2>5. a % SeqMod = a
      BY ONLY <1>1, a \in 0 .. SeqMod - 1
    <2> QED BY <1>1, <2>1, <2>2, <2>3, <2>4, <2>5
  <1> QED BY <1>2, <1>3 DEF Num

(***************************************************************************)
(* The two flows from one end to the other.  f is the number of the        *)
(* message at the front of the sender's sendBuf, r how many payloads the   *)
(* receiver has, n the number the sender gives out next.                   *)
(***************************************************************************)
\* m is message j of its stream.
Item(m, j) == m.payload = j /\ m.seq = Num(j) /\ m.type = (IF j = 0 THEN "CONNECT" ELSE "DATA")

\* sendBuf holds consecutive messages.
Buffered(s, f) == \A i \in 1 .. Len(s) : Item(s[i], f + i - 1)

\* On the way to the receiver are the last message it has and the next one, in this order.
DataFlow(s, f, r, n) ==
    \A i \in 1 .. Len(s) : s[i].type # "ACK" =>
        /\ Item(s[i], s[i].payload) /\ r <= s[i].payload /\ s[i].payload <= f /\ s[i].payload < n
        /\ \A j \in 1 .. i : s[j].type # "ACK" => s[j].payload <= s[i].payload

\* On the way back to the sender an acknowledgement of the front follows its
\* reception, and behind one there are no others.
AckFlow(s, f, r) ==
    \A i \in 1 .. Len(s) : s[i].type = "ACK" /\ s[i].seq = Num(f) =>
        /\ r = f
        /\ \A j \in i .. Len(s) : s[j].type = "ACK" => s[j].seq = Num(f)

\* t is s without some of its elements.
Sub(t, s) == \E g \in [1 .. Len(t) -> 1 .. Len(s)] :
                /\ \A i \in 1 .. Len(t) : t[i] = s[g[i]]
                /\ \A i, j \in 1 .. Len(t) : i <= j => g[i] <= g[j]

\* Losing packets disturbs neither flow.
LEMMA FlowSub ==
  ASSUME NEW s \in Seq(Message), NEW t \in Seq(Message), Sub(t, s), NEW f \in Nat, NEW r \in Nat, NEW n \in Nat
  PROVE  /\ DataFlow(s, f, r, n) => DataFlow(t, f, r, n)
         /\ AckFlow(s, f, r) => AckFlow(t, f, r)
  <1>1. PICK g \in [1 .. Len(t) -> 1 .. Len(s)] :
               /\ \A i \in 1 .. Len(t) : t[i] = s[g[i]]
               /\ \A i, j \in 1 .. Len(t) : i <= j => g[i] <= g[j]
    BY DEF Sub
  <1>2. ASSUME DataFlow(s, f, r, n) PROVE DataFlow(t, f, r, n)
    <2> SUFFICES ASSUME NEW i \in 1 .. Len(t), t[i].type # "ACK"
                 PROVE  /\ Item(t[i], t[i].payload) /\ r <= t[i].payload /\ t[i].payload <= f /\ t[i].payload < n
                        /\ \A j \in 1 .. i : t[j].type # "ACK" => t[j].payload <= t[i].payload
      BY DEF DataFlow
    <2>1. g[i] \in 1 .. Len(s) /\ t[i] = s[g[i]]
      BY <1>1
    <2>2. /\ Item(t[i], t[i].payload) /\ r <= t[i].payload /\ t[i].payload <= f /\ t[i].payload < n
          /\ \A j \in 1 .. g[i] : s[j].type # "ACK" => s[j].payload <= s[g[i]].payload
      BY <1>2, <2>1 DEF DataFlow
    <2>3. ASSUME NEW j \in 1 .. i, t[j].type # "ACK" PROVE t[j].payload <= t[i].payload
      <3>1. j \in 1 .. Len(t)
        OBVIOUS
      <3>2. g[j] \in 1 .. g[i] /\ t[j] = s[g[j]]
        BY <1>1, <2>1, <3>1
      <3> QED BY <2>1, <2>2, <2>3, <3>2
    <2> QED BY <2>2, <2>3
  <1>3. ASSUME AckFlow(s, f, r) PROVE AckFlow(t, f, r)
    <2> SUFFICES ASSUME NEW i \in 1 .. Len(t), t[i].type = "ACK", t[i].seq = Num(f)
                 PROVE  r = f /\ \A j \in i .. Len(t) : t[j].type = "ACK" => t[j].seq = Num(f)
      BY DEF AckFlow
    <2>1. g[i] \in 1 .. Len(s) /\ t[i] = s[g[i]]
      BY <1>1
    <2>2. r = f /\ \A j \in g[i] .. Len(s) : s[j].type = "ACK" => s[j].seq = Num(f)
      BY <1>3, <2>1 DEF AckFlow
    <2>3. ASSUME NEW j \in i .. Len(t), t[j].type = "ACK" PROVE t[j].seq = Num(f)
      <3>1. j \in 1 .. Len(t)
        OBVIOUS
      <3>2. g[j] \in g[i] .. Len(s) /\ t[j] = s[g[j]]
        BY <1>1, <2>1, <3>1
      <3> QED BY <2>2, <2>3, <3>2
    <2> QED BY <2>2, <2>3
  <1> QED BY <1>2, <1>3

\* So does taking the first message.
LEMMA TailSub == ASSUME NEW S, NEW s \in Seq(S), s # <<>> PROVE Sub(Tail(s), s) /\ Tail(s) \in Seq(S)
  <1> DEFINE g == [i \in 1 .. Len(Tail(s)) |-> i + 1]
  <1>1. Tail(s) \in Seq(S) /\ Len(Tail(s)) = Len(s) - 1 /\ \A i \in 1 .. Len(Tail(s)) : Tail(s)[i] = s[i + 1]
    OBVIOUS
  <1>2. Len(s) \in Nat
    OBVIOUS
  <1>3. g \in [1 .. Len(Tail(s)) -> 1 .. Len(s)]
    BY <1>1, <1>2
  <1>4. (\A i \in 1 .. Len(Tail(s)) : Tail(s)[i] = s[g[i]]) /\ \A i, j \in 1 .. Len(Tail(s)) : i <= j => g[i] <= g[j]
    BY <1>1
  <1> HIDE DEF g
  <1> QED BY <1>1, <1>3, <1>4 DEF Sub

\* The sender repeats its front, or the receiver acknowledges what it has last.
LEMMA FlowAppend ==
  ASSUME NEW s \in Seq(Message), NEW m \in Message, NEW f \in Nat, NEW r \in Nat, NEW n \in Nat
  PROVE  /\ DataFlow(s, f, r, n) /\ (m.type # "ACK" => Item(m, f) /\ r <= f /\ f < n) => DataFlow(Append(s, m), f, r, n)
         /\ AckFlow(s, f, r) /\ r <= f /\ f <= r + 1 /\ (m.type = "ACK" => m.seq = Num(r)) => AckFlow(Append(s, m), f, r)
  <1> DEFINE t == Append(s, m)
  <1>1. Len(s) \in Nat /\ Len(t) = Len(s) + 1 /\ t[Len(t)] = m /\ \A i \in 1 .. Len(s) : t[i] = s[i]
    OBVIOUS
  <1>2. ASSUME DataFlow(s, f, r, n), m.type # "ACK" => Item(m, f) /\ r <= f /\ f < n PROVE DataFlow(t, f, r, n)
    <2> HIDE DEF t
    <2> SUFFICES ASSUME NEW i \in 1 .. Len(t), t[i].type # "ACK"
                 PROVE  /\ Item(t[i], t[i].payload) /\ r <= t[i].payload /\ t[i].payload <= f /\ t[i].payload < n
                        /\ \A j \in 1 .. i : t[j].type # "ACK" => t[j].payload <= t[i].payload
      BY DEF DataFlow
    <2>1. CASE i \in 1 .. Len(s)
      <3>1. \A j \in 1 .. i : j \in 1 .. Len(s)
        BY <1>1, <2>1
      <3> QED BY <1>1, <1>2, <2>1, <3>1 DEF DataFlow
    <2>2. CASE i = Len(t)
      <3>1. t[i] = m /\ Item(m, f) /\ m.payload = f /\ r <= f /\ f < n
        BY <1>1, <1>2, <2>2 DEF Item
      <3>2. ASSUME NEW j \in 1 .. i, t[j].type # "ACK" PROVE t[j].payload <= f
        <4>1. j = i \/ j \in 1 .. Len(s)
          BY <1>1, <2>2
        <4>2. j \in 1 .. Len(s) => t[j].payload <= f
          BY <1>1, <1>2, <3>2 DEF DataFlow
        <4> QED BY <3>1, <4>1, <4>2
      <3> QED BY <3>1, <3>2
    <2> QED BY <1>1, <2>1, <2>2
  <1>3. ASSUME AckFlow(s, f, r), r <= f, f <= r + 1, m.type = "ACK" => m.seq = Num(r) PROVE AckFlow(t, f, r)
    <2> HIDE DEF t
    <2>0. m.type = "ACK" /\ m.seq = Num(f) => r = f
      <3>1. r = f \/ f = r + 1
        BY <1>3
      <3> QED BY <1>3, <3>1, NumFacts
    <2> SUFFICES ASSUME NEW i \in 1 .. Len(t), t[i].type = "ACK", t[i].seq = Num(f)
                 PROVE  r = f /\ \A j \in i .. Len(t) : t[j].type = "ACK" => t[j].seq = Num(f)
      BY DEF AckFlow
    <2>1. CASE i \in 1 .. Len(s)
      <3>1. r = f /\ \A j \in i .. Len(s) : s[j].type = "ACK" => s[j].seq = Num(f)
        BY <1>1, <1>3, <2>1 DEF AckFlow
      <3>2. ASSUME NEW j \in i .. Len(t), t[j].type = "ACK" PROVE t[j].seq = Num(f)
        <4>1. j = Len(t) \/ j \in i .. Len(s)
          BY <1>1, <2>1
        <4>2. j \in i .. Len(s) => t[j] = s[j]
          BY <1>1, <2>1
        <4> QED BY <1>1, <1>3, <3>1, <3>2, <4>1, <4>2
      <3> QED BY <3>1, <3>2
    <2>2. CASE i = Len(t)
      <3>1. \A j \in i .. Len(t) : j = i
        BY <1>1, <2>2
      <3> QED BY <1>1, <2>0, <2>2, <3>1
    <2> QED BY <1>1, <2>1, <2>2
  <1> QED BY <1>2, <1>3

\* The receiver takes the next message: it was the front, and all behind it are repetitions.
LEMMA FlowReceive ==
  ASSUME NEW s \in Seq(Message), s # <<>>, Head(s).type = "DATA",
         NEW f \in Nat, NEW r \in Nat, NEW n \in Nat, DataFlow(s, f, r, n), f <= r + 1
  PROVE  /\ Head(s).payload \in {r, r + 1} /\ Head(s).payload >= 1 /\ Item(Head(s), Head(s).payload)
         /\ Head(s).payload = r + 1 => r + 1 = f /\ f < n /\ DataFlow(Tail(s), f, r + 1, n)
  <1>1. Head(s) = s[1] /\ 1 \in 1 .. Len(s) /\ s[1] \in Message
    OBVIOUS
  <1>2. /\ Item(s[1], s[1].payload) /\ r <= s[1].payload /\ s[1].payload <= f /\ s[1].payload < n
        /\ s[1].payload \in Nat
    BY <1>1 DEF DataFlow, Message
  <1>3. s[1].payload # 0
    BY <1>1, <1>2 DEF Item
  <1>4. ASSUME s[1].payload = r + 1 PROVE DataFlow(Tail(s), f, r + 1, n)
    <2>1. Len(Tail(s)) = Len(s) - 1 /\ \A i \in 1 .. Len(Tail(s)) : Tail(s)[i] = s[i + 1] /\ i + 1 \in 1 .. Len(s)
      OBVIOUS
    <2>2. Sub(Tail(s), s) /\ Tail(s) \in Seq(Message)
      BY TailSub
    <2>3. DataFlow(Tail(s), f, r, n)
      BY <2>2, FlowSub
    <2>4. ASSUME NEW i \in 1 .. Len(Tail(s)), Tail(s)[i].type # "ACK" PROVE r + 1 <= Tail(s)[i].payload
      <3>1. i + 1 \in 1 .. Len(s) /\ 1 \in 1 .. i + 1 /\ s[i + 1].type # "ACK" /\ s[1].type # "ACK"
        BY <1>1, <2>1, <2>4
      <3>2. s[1].payload <= s[i + 1].payload
        BY <3>1 DEF DataFlow
      <3> QED BY <1>4, <2>1, <3>2
    <2> QED BY <2>3, <2>4 DEF DataFlow
  <1> QED BY <1>1, <1>2, <1>3, <1>4

\* What a flow is about may move on.
LEMMA FlowMoves ==
  ASSUME NEW s \in Seq(Message), NEW f \in Nat, NEW r \in Nat, NEW n \in Nat
  PROVE  /\ AckFlow(s, f, r) /\ f = r + 1 => AckFlow(s, f, r + 1)
         /\ \A p \in Nat : DataFlow(s, f, r, n) /\ n <= p => DataFlow(s, f, r, p)
         /\ DataFlow(s, f, r, n) => DataFlow(s, f + 1, r, n)
  <1>0. \A i \in 1 .. Len(s) : s[i].payload \in Int
    <2>1. \A i \in 1 .. Len(s) : s[i] \in Message
      OBVIOUS
    <2> QED BY <2>1 DEF Message
  <1>1. ASSUME AckFlow(s, f, r), f = r + 1 PROVE AckFlow(s, f, r + 1)
    BY <1>1 DEF AckFlow
  <1>2. ASSUME NEW p \in Nat, DataFlow(s, f, r, n), n <= p PROVE DataFlow(s, f, r, p)
    BY <1>0, <1>2 DEF DataFlow
  <1>3. ASSUME DataFlow(s, f, r, n) PROVE DataFlow(s, f + 1, r, n)
    BY <1>0, <1>3 DEF DataFlow
  <1> QED BY <1>1, <1>2, <1>3

\* The sender takes the acknowledgement of its front: the receiver has the front, and no
\* acknowledgement behind this one stands for the next message.
LEMMA FlowAcked ==
  ASSUME NEW s \in Seq(Message), s # <<>>, Head(s).type = "ACK", NEW f \in Nat, NEW r \in Nat,
         Head(s).seq = Num(f), AckFlow(s, f, r)
  PROVE  r = f /\ AckFlow(Tail(s), f + 1, r)
  <1>1. Head(s) = s[1] /\ 1 \in 1 .. Len(s)
    OBVIOUS
  <1>2. r = f /\ \A j \in 1 .. Len(s) : s[j].type = "ACK" => s[j].seq = Num(f)
    BY <1>1 DEF AckFlow
  <1>3. \A i \in 1 .. Len(Tail(s)) : Tail(s)[i] = s[i + 1] /\ i + 1 \in 1 .. Len(s)
    OBVIOUS
  <1>4. Num(f) # Num(f + 1)
    BY NumFacts
  <1> QED BY <1>2, <1>3, <1>4 DEF AckFlow

\* sendBuf grows at its end and shrinks at its front.
LEMMA BufferedMoves ==
  ASSUME NEW s \in Seq(Message), NEW f \in Nat, Buffered(s, f)
  PROVE  /\ \A m \in Message : Item(m, f + Len(s)) => Buffered(Append(s, m), f)
         /\ s # <<>> => Item(Head(s), f) /\ Buffered(Tail(s), f + 1)
  <1>1. ASSUME NEW m \in Message, Item(m, f + Len(s)) PROVE Buffered(Append(s, m), f)
    <2> DEFINE t == Append(s, m)
    <2>1. Len(s) \in Nat /\ Len(t) = Len(s) + 1 /\ t[Len(t)] = m /\ \A i \in 1 .. Len(s) : t[i] = s[i]
      OBVIOUS
    <2> HIDE DEF t
    <2>2. \A i \in 1 .. Len(t) : Item(t[i], f + i - 1)
      <3> TAKE i \in 1 .. Len(t)
      <3>1. CASE i \in 1 .. Len(s)
        BY <2>1, <3>1 DEF Buffered
      <3>2. CASE i = Len(t)
        <4>1. f + i - 1 = f + Len(s)
          BY <2>1, <3>2
        <4> QED BY <1>1, <2>1, <3>2, <4>1
      <3> QED BY <2>1, <3>1, <3>2
    <2> QED BY <2>2 DEF Buffered, t
  <1>2. ASSUME s # <<>> PROVE Item(Head(s), f) /\ Buffered(Tail(s), f + 1)
    <2>1. Head(s) = s[1] /\ 1 \in 1 .. Len(s) /\ f + 1 - 1 = f
      BY <1>2
    <2>2. \A i \in 1 .. Len(Tail(s)) : Tail(s)[i] = s[i + 1] /\ i + 1 \in 1 .. Len(s) /\ (f + 1) + i - 1 = f + (i + 1) - 1
      BY <1>2
    <2> QED BY <2>1, <2>2 DEF Buffered
  <1> QED BY <1>1, <1>2

(***************************************************************************)
(* One connection.  The view of an end is what its stream depends on:      *)
(* sendBuf, recvBuf, what was read, what is on the way to it, sendChan,    *)
(* the payload loopServe waits with, and the numbers.  fresh is an end of  *)
(* the server that does not exist yet.                                     *)
(***************************************************************************)
Short == {s \in Seq(Message) : Len(s) <= 1}

ViewT == [side : Sides, fresh : BOOLEAN, buf : Seq(Message), rbuf : Seq(Message), read : Seq(ReadT),
          in : Seq(Message), chan : Short, wait : Short, closed : BOOLEAN,
          nextSend : Nat, nextRecv : Nat, lastAck : Message, wrote : Nat]

\* Payloads received.
Count(x) == Len(x.read) + Len(x.rbuf)

\* The server's acknowledgement of CONNECT, the first message of newLspConn, is still in sendChan.
AckFirst(x) == x.chan # <<>> /\ Head(x.chan).type = "ACK"

\* What was written, or CONNECT, and has not reached sendBuf.
ToSend(x) == (IF AckFirst(x) THEN <<>> ELSE x.chan) \o x.wait

\* m is message j before send numbers it.
Unnumbered(m, j) == m.payload = j /\ m.seq = 0 /\ m.type = (IF j = 0 THEN "CONNECT" ELSE "DATA")

Sending(x, n) ==
    /\ x.nextSend = Num(IF n = 0 THEN 1 ELSE n)
    /\ n <= x.wrote + 1
    /\ ~x.closed => /\ x.wrote + 1 = n + Len(ToSend(x))
                    /\ \A i \in 1 .. Len(ToSend(x)) : Unnumbered(ToSend(x)[i], n + i - 1)
    /\ x.wait # <<>> => Head(x.wait).type # "ACK"
    /\ x.side = "server" => n >= 1

Receiving(x) ==
    /\ x.nextRecv = Num(Count(x) + 1) /\ x.lastAck.type = "ACK" /\ x.lastAck.seq = Num(Count(x))
    /\ \A i \in 1 .. Len(x.read) : x.read[i].payload = i
    /\ \A i \in 1 .. Len(x.rbuf) : x.rbuf[i].payload = Len(x.read) + i

\* The receiver has the front, or all before it.
Linked(f, r, n) == r <= f /\ f <= r + 1 /\ (r = 0 \/ r < n)

\* The stream from x to y, when the message at the front of x's sendBuf has number f.
Half(x, y, f) ==
    /\ Buffered(x.buf, f) /\ Linked(f, Count(y), f + Len(x.buf))
    /\ DataFlow(y.in, f, Count(y), f + Len(x.buf)) /\ AckFlow(x.in, f, Count(y))
    /\ Sending(x, f + Len(x.buf)) /\ Receiving(x)
    /\ x.side = "server" => f >= 1

\* Until the server has answered CONNECT the client has received nothing, and the server only CONNECT.
Unanswered(x, y, g) ==
    x.fresh \/ AckFirst(x) =>
        /\ x.side = "server" /\ y.in = <<>> /\ x.buf = <<>> /\ Count(x) = 0 /\ g = 0
        /\ AckFirst(x) => Head(x.chan).seq = 0

Pair(x, y, f, g) == Half(x, y, f) /\ Half(y, x, g) /\ Unanswered(x, y, g) /\ Unanswered(y, x, f)

\* What x may send: its front, or an acknowledgement of what it has received.
Fits(x, f, m) == IF m.type = "ACK" THEN m.seq = Num(Count(x)) ELSE Item(m, f) /\ f < f + Len(x.buf)

\* z differs from x at most in what is on the way, received, or to be sent.
SameOut(z, x) == /\ z.side = x.side /\ z.fresh = x.fresh /\ z.buf = x.buf /\ z.chan = x.chan /\ z.wait = x.wait
                 /\ z.closed = x.closed /\ z.nextSend = x.nextSend /\ z.wrote = x.wrote
SameIn(z, x) == /\ z.rbuf = x.rbuf /\ z.read = x.read /\ z.nextRecv = x.nextRecv /\ z.lastAck = x.lastAck

\* The parts of a view.
LEMMA ViewFacts ==
  ASSUME NEW x \in ViewT
  PROVE  /\ x.side \in Sides /\ x.fresh \in BOOLEAN /\ x.closed \in BOOLEAN
         /\ x.buf \in Seq(Message) /\ x.rbuf \in Seq(Message) /\ x.read \in Seq(ReadT) /\ x.in \in Seq(Message)
         /\ x.chan \in Short /\ x.wait \in Short /\ x.lastAck \in Message
         /\ x.nextSend \in Nat /\ x.nextRecv \in Nat /\ x.wrote \in Nat
         /\ Count(x) \in Nat /\ Len(x.buf) \in Nat
  BY DEF ViewT, Count

\* Packets on the way to y are lost.
LEMMA PairSkip ==
  ASSUME NEW x \in ViewT, NEW y \in ViewT, NEW f \in Nat, NEW g \in Nat, Pair(x, y, f, g),
         NEW t \in Seq(Message), Sub(t, y.in), NEW z \in ViewT, z.in = t, SameOut(z, y), SameIn(z, y)
  PROVE  Pair(x, z, f, g)
  <1>1. /\ z.in = t /\ z.side = y.side /\ z.fresh = y.fresh /\ z.buf = y.buf /\ z.rbuf = y.rbuf /\ z.read = y.read
        /\ z.chan = y.chan /\ z.wait = y.wait /\ z.closed = y.closed /\ z.nextSend = y.nextSend
        /\ z.nextRecv = y.nextRecv /\ z.lastAck = y.lastAck /\ z.wrote = y.wrote
    BY DEF SameOut, SameIn
  <1>2. Count(z) = Count(y) /\ AckFirst(z) = AckFirst(y) /\ ToSend(z) = ToSend(y)
    BY <1>1 DEF Count, AckFirst, ToSend
  <1>3. DataFlow(y.in, f, Count(y), f + Len(x.buf)) /\ AckFlow(y.in, g, Count(x))
    BY DEF Pair, Half
  <1>4. DataFlow(t, f, Count(y), f + Len(x.buf)) /\ AckFlow(t, g, Count(x))
    <2>1. f + Len(x.buf) \in Nat /\ Count(y) \in Nat /\ Count(x) \in Nat /\ y.in \in Seq(Message)
      BY ViewFacts
    <2> QED BY <1>3, <2>1, FlowSub
  <1>5. Half(x, z, f)
    BY <1>1, <1>2, <1>4 DEF Pair, Half
  <1>6. Half(z, x, g)
    <2>1. Sending(z, g + Len(z.buf)) /\ Receiving(z)
      BY <1>1, <1>2 DEF Pair, Half, Sending, Receiving
    <2> QED BY <1>1, <1>2, <1>4, <2>1 DEF Pair, Half
  <1>7. y.in = <<>> => t = <<>>
    <2>1. Len(t) = 0 => t = <<>>
      OBVIOUS
    <2>2. Len(t) \in Nat /\ (Len(t) # 0 => 1 \in 1 .. Len(t))
      OBVIOUS
    <2>3. y.in = <<>> /\ Len(t) # 0 => FALSE
      <3> SUFFICES ASSUME y.in = <<>>, 1 \in 1 .. Len(t) PROVE FALSE
        BY <2>2
      <3>1. PICK h \in [1 .. Len(t) -> 1 .. Len(y.in)] : TRUE
        BY DEF Sub
      <3>2. h[1] \in 1 .. 0
        BY <3>1
      <3> QED BY <3>2
    <2> QED BY <2>1, <2>3
  <1>8. Unanswered(x, z, g) /\ Unanswered(z, x, f)
    BY <1>1, <1>2, <1>7 DEF Pair, Unanswered
  <1> QED BY <1>5, <1>6, <1>8 DEF Pair

\* x sends a packet to y.
LEMMA PairPost ==
  ASSUME NEW x \in ViewT, NEW y \in ViewT, NEW f \in Nat, NEW g \in Nat, Pair(x, y, f, g),
         ~x.fresh, ~AckFirst(x), NEW m \in Message, Fits(x, f, m),
         NEW z \in ViewT, z.in = Append(y.in, m), SameOut(z, y), SameIn(z, y)
  PROVE  Pair(x, z, f, g)
  <1> DEFINE t == Append(y.in, m)
  <1>0. y.in \in Seq(Message) /\ t \in Seq(Message)
    BY ViewFacts
  <1>1. /\ z.in = t /\ z.side = y.side /\ z.fresh = y.fresh /\ z.buf = y.buf /\ z.rbuf = y.rbuf /\ z.read = y.read
        /\ z.chan = y.chan /\ z.wait = y.wait /\ z.closed = y.closed /\ z.nextSend = y.nextSend
        /\ z.nextRecv = y.nextRecv /\ z.lastAck = y.lastAck /\ z.wrote = y.wrote
    BY DEF SameOut, SameIn
  <1>2. Count(z) = Count(y) /\ AckFirst(z) = AckFirst(y) /\ ToSend(z) = ToSend(y)
    BY <1>1 DEF Count, AckFirst, ToSend
  <1>3. /\ DataFlow(y.in, f, Count(y), f + Len(x.buf)) /\ AckFlow(y.in, g, Count(x))
        /\ Count(y) <= f /\ Count(x) <= g /\ g <= Count(x) + 1
    BY DEF Pair, Half, Linked
  <1>4. DataFlow(t, f, Count(y), f + Len(x.buf)) /\ AckFlow(t, g, Count(x))
    <2>1. Count(x) \in Nat /\ Count(y) \in Nat /\ f + Len(x.buf) \in Nat
      BY ViewFacts
    <2>2. (m.type # "ACK" => Item(m, f) /\ f < f + Len(x.buf)) /\ (m.type = "ACK" => m.seq = Num(Count(x)))
      BY DEF Fits
    <2>3. DataFlow(t, f, Count(y), f + Len(x.buf))
      BY ONLY <1>0, <1>3, <2>1, <2>2, FlowAppend, m \in Message, f \in Nat
    <2>4. AckFlow(t, g, Count(x))
      BY ONLY <1>0, <1>3, <2>1, <2>2, FlowAppend, m \in Message, g \in Nat
    <2> QED BY <2>3, <2>4
  <1> HIDE DEF t
  <1>5. Half(x, z, f)
    BY <1>1, <1>2, <1>4 DEF Pair, Half
  <1>6. Half(z, x, g)
    <2>1. Sending(z, g + Len(z.buf)) /\ Receiving(z)
      BY <1>1, <1>2 DEF Pair, Half, Sending, Receiving
    <2> QED BY <1>1, <1>2, <1>4, <2>1 DEF Pair, Half
  <1>8. Unanswered(x, z, g) /\ Unanswered(z, x, f)
    BY <1>1, <1>2 DEF Pair, Unanswered
  <1> QED BY <1>5, <1>6, <1>8 DEF Pair

\* The two ends play the same parts.
LEMMA PairSwap == ASSUME NEW x, NEW y, NEW f, NEW g PROVE Pair(x, y, f, g) <=> Pair(y, x, g, f)
  BY DEF Pair

\* The front of sendBuf may be sent, and the last acknowledgement may be repeated.
LEMMA PairFits ==
  ASSUME NEW x \in ViewT, NEW y \in ViewT, NEW f \in Nat, NEW g \in Nat, Pair(x, y, f, g)
  PROVE  /\ x.buf # <<>> => Head(x.buf) \in Message /\ Fits(x, f, Head(x.buf))
         /\ x.lastAck \in Message /\ Fits(x, f, x.lastAck)
  <1>1. ASSUME x.buf # <<>> PROVE Head(x.buf) \in Message /\ Fits(x, f, Head(x.buf))
    <2>1. x.buf \in Seq(Message) /\ Buffered(x.buf, f)
      BY ViewFacts DEF Pair, Half
    <2>2. Head(x.buf) \in Message /\ Len(x.buf) \in Nat /\ Len(x.buf) > 0
      BY <1>1, <2>1
    <2>3. Item(Head(x.buf), f)
      BY <1>1, <2>1, BufferedMoves
    <2>4. Head(x.buf).type # "ACK"
      BY <2>3 DEF Item
    <2> QED BY <2>2, <2>3, <2>4 DEF Fits
  <1>2. x.lastAck \in Message /\ Fits(x, f, x.lastAck)
    BY ViewFacts DEF Pair, Half, Receiving, Fits
  <1> QED BY <1>1, <1>2

\* receive of DATA: the next payload, or one x already has.
LEMMA PairData ==
  ASSUME NEW x \in ViewT, NEW y \in ViewT, NEW f \in Nat, NEW g \in Nat, Pair(x, y, f, g),
         x.in # <<>>, Head(x.in).type = "DATA", NEW a \in Message, a.type = "ACK", a.seq = Head(x.in).seq,
         NEW z \in ViewT, SameOut(z, x), z.in = Tail(x.in),
         IF Head(x.in).seq = x.nextRecv
         THEN /\ z.rbuf = Append(x.rbuf, Head(x.in)) /\ z.nextRecv = (x.nextRecv + 1) % SeqMod /\ z.lastAck = a
              /\ z.read = x.read
         ELSE SameIn(z, x)
  PROVE  Pair(z, y, f, g) /\ ~z.fresh /\ ~AckFirst(z)
  <1> DEFINE m == Head(x.in)
             r == Count(x)
             n == g + Len(y.buf)
  <1>0. /\ x.in \in Seq(Message) /\ m \in Message /\ Tail(x.in) \in Seq(Message) /\ Sub(Tail(x.in), x.in)
        /\ x.rbuf \in Seq(Message) /\ r \in Nat /\ n \in Nat /\ Count(y) \in Nat
    <2>1. x.in \in Seq(Message) /\ x.rbuf \in Seq(Message) /\ r \in Nat /\ Count(y) \in Nat /\ Len(y.buf) \in Nat
      BY ViewFacts
    <2>2. n \in Nat
      BY <2>1
    <2>3. Head(x.in) \in Message /\ Tail(x.in) \in Seq(Message) /\ Sub(Tail(x.in), x.in)
      BY ONLY <2>1, x.in # <<>>, SeqTypes, TailSub
    <2> QED BY <2>1, <2>2, <2>3
  <1>1. /\ DataFlow(x.in, g, r, n) /\ Linked(g, r, n) /\ AckFlow(x.in, f, Count(y)) /\ AckFlow(y.in, g, r)
        /\ x.nextRecv = Num(r + 1)
    BY DEF Pair, Half, Receiving
  <1>2. /\ m.payload \in {r, r + 1} /\ m.payload >= 1 /\ Item(m, m.payload)
        /\ m.payload = r + 1 => r + 1 = g /\ g < n /\ DataFlow(Tail(x.in), g, r + 1, n)
    BY <1>0, <1>1, FlowReceive DEF Linked
  <1>3. ~x.fresh /\ ~AckFirst(x)
    <2>1. m.payload <= g
      <3>1. Head(x.in) = x.in[1] /\ 1 \in 1 .. Len(x.in)
        BY <1>0
      <3> QED BY <1>1, <3>1 DEF DataFlow
    <2>2. g # 0
      BY <1>0, <1>2, <2>1
    <2> QED BY <2>2 DEF Pair, Unanswered
  <1>4. m.seq = x.nextRecv <=> m.payload = r + 1
    <2>1. m.payload \in Nat /\ m.seq = Num(m.payload) /\ Num(r) # Num(r + 1)
      BY <1>0, <1>2, NumFacts DEF Item
    <2> QED BY <1>1, <1>2, <2>1
  <1>5. CASE m.payload # r + 1
    <2>1. SameIn(z, x)
      BY <1>4, <1>5
    <2>2. Pair(y, x, g, f)
      BY PairSwap
    <2>3. Pair(y, z, g, f)
      BY <1>0, <2>1, <2>2, PairSkip
    <2> QED BY <1>3, <2>3, PairSwap DEF AckFirst, SameOut
  <1>6. CASE m.payload = r + 1
    <2>1. z.rbuf = Append(x.rbuf, m) /\ z.nextRecv = (x.nextRecv + 1) % SeqMod /\ z.lastAck = a /\ z.read = x.read
      BY <1>4, <1>6
    <2>2. (x.nextRecv + 1) % SeqMod = Num(r + 2) /\ Num(r + 2) \in Nat
      <3>1. r + 1 \in Nat /\ (r + 1) + 1 = r + 2
        BY <1>0
      <3>2. (Num(r + 1) + 1) % SeqMod = Num((r + 1) + 1)
        BY <3>1, NumFacts
      <3>3. Num(r + 2) \in 0 .. SeqMod - 1
        <4>1. r + 2 \in Nat
          BY <1>0
        <4> QED BY <4>1, NumFacts
      <3> QED BY <1>1, <3>1, <3>2, <3>3
    <2>3. /\ z.in = Tail(x.in) /\ z.rbuf = Append(x.rbuf, m) /\ z.nextRecv = Num(r + 2) /\ z.lastAck = a
          /\ z.side = x.side /\ z.fresh = x.fresh /\ z.buf = x.buf /\ z.read = x.read /\ z.chan = x.chan /\ z.wait = x.wait
          /\ z.closed = x.closed /\ z.nextSend = x.nextSend /\ z.wrote = x.wrote
      BY <2>1, <2>2 DEF SameOut
    <2>5. Count(z) = r + 1 /\ AckFirst(z) = AckFirst(x) /\ ToSend(z) = ToSend(x)
      <3>1. Len(Append(x.rbuf, m)) = Len(x.rbuf) + 1 /\ Len(x.rbuf) \in Nat /\ Len(x.read) \in Nat
        <4>1. x.rbuf \in Seq(Message) /\ x.read \in Seq(ReadT)
          BY ViewFacts
        <4> QED BY ONLY <1>0, <4>1
      <3>2. Count(z) = Len(x.read) + Len(Append(x.rbuf, m))
        BY <2>3 DEF Count
      <3>3. r = Len(x.read) + Len(x.rbuf)
        BY DEF Count
      <3>4. AckFirst(z) = AckFirst(x) /\ ToSend(z) = ToSend(x)
        BY <2>3 DEF AckFirst, ToSend
      <3>5. PICK u \in Nat, v \in Nat : u = Len(x.read) /\ v = Len(x.rbuf)
        BY <3>1
      <3>6. Count(z) = u + (v + 1) /\ r = u + v
        BY <3>1, <3>2, <3>3, <3>5
      <3> QED BY <3>4, <3>6
    <2>6. r + 1 = g /\ g < n /\ DataFlow(z.in, g, r + 1, n) /\ AckFlow(y.in, g, r + 1) /\ AckFlow(z.in, f, Count(y))
      <3>1. r + 1 = g /\ g < n /\ DataFlow(z.in, g, r + 1, n)
        BY <1>2, <1>6, <2>3
      <3>2. AckFlow(y.in, g, r + 1)
        <4>1. y.in \in Seq(Message)
          BY ViewFacts
        <4> QED BY <1>0, <1>1, <3>1, <4>1, FlowMoves
      <3>3. AckFlow(z.in, f, Count(y))
        BY <1>0, <1>1, <2>3, FlowSub
      <3> QED BY <3>1, <3>2, <3>3
    <2>7. Receiving(z)
      <3>1. z.lastAck.seq = Num(r + 1) /\ z.nextRecv = Num((r + 1) + 1)
        BY <1>0, <1>2, <1>6, <2>3 DEF Item
      <3>2. ASSUME NEW i \in 1 .. Len(z.rbuf) PROVE z.rbuf[i].payload = Len(z.read) + i
        <4>1. x.rbuf \in Seq(Message) /\ Len(z.rbuf) = Len(x.rbuf) + 1 /\ Len(x.rbuf) \in Nat /\ r = Len(x.read) + Len(x.rbuf)
          BY <1>0, <2>3, ViewFacts DEF Count
        <4>2. CASE i \in 1 .. Len(x.rbuf)
          <5>1. z.rbuf[i] = x.rbuf[i]
            BY <2>3, <4>1, <4>2
          <5> QED BY <2>3, <4>2, <5>1 DEF Pair, Half, Receiving
        <4>3. CASE i = Len(x.rbuf) + 1
          <5>1. z.rbuf[i] = m
            BY <1>0, <2>3, <4>1, <4>3
          <5>2. Len(x.read) \in Nat /\ z.read = x.read
            BY <2>3, ViewFacts
          <5>3. PICK u \in Nat, v \in Nat : u = Len(x.read) /\ v = Len(x.rbuf) /\ r = u + v
            BY <4>1, <5>2
          <5>4. m.payload = u + (v + 1)
            <6>1. PICK w \in Nat : w = r
              BY <1>0
            <6>2. w = u + v
              BY <5>3, <6>1
            <6>3. w + 1 = u + (v + 1)
              BY ONLY <6>2, u \in Nat, v \in Nat, w \in Nat
            <6> QED BY ONLY <1>6, <6>1, <6>3
          <5> QED BY <4>3, <5>1, <5>2, <5>3, <5>4
        <4> QED BY <4>1, <4>2, <4>3
      <3> QED BY <2>3, <2>5, <3>1, <3>2 DEF Pair, Half, Receiving
    <2>8. Half(z, y, f)
      <3>1. Sending(z, f + Len(z.buf))
        BY <2>3, <2>5 DEF Pair, Half, Sending
      <3> QED BY <2>3, <2>5, <2>6, <2>7, <3>1 DEF Pair, Half
    <2>9. Half(y, z, g)
      <3>1. Linked(g, r + 1, n)
        BY <1>0, <2>6 DEF Linked
      <3> QED BY <2>3, <2>5, <2>6, <3>1 DEF Pair, Half
    <2>10. Unanswered(z, y, g) /\ Unanswered(y, z, f)
      <3>1. ~(y.fresh \/ AckFirst(y))
        BY DEF Pair, Unanswered
      <3> QED BY <1>3, <2>3, <2>5, <3>1 DEF Unanswered
    <2> QED BY <1>3, <2>3, <2>5, <2>8, <2>9, <2>10 DEF Pair
  <1> QED BY <1>5, <1>6

\* receive of an acknowledgement: of the front, which y then has, or of an older message.
LEMMA PairAck ==
  ASSUME NEW x \in ViewT, NEW y \in ViewT, NEW f \in Nat, NEW g \in Nat, Pair(x, y, f, g),
         x.in # <<>>, Head(x.in).type = "ACK",
         NEW z \in ViewT, SameIn(z, x), z.in = Tail(x.in), z.side = x.side, z.fresh = x.fresh, z.chan = x.chan,
         z.wait = x.wait, z.closed = x.closed, z.nextSend = x.nextSend, z.wrote = x.wrote,
         z.buf = IF x.buf = <<>> \/ Head(x.in).seq # Head(x.buf).seq THEN x.buf ELSE Tail(x.buf)
  PROVE  (z.buf # <<>> => ~z.fresh /\ ~AckFirst(z)) /\ \E e \in Nat : Pair(z, y, e, g)
  <1> DEFINE m == Head(x.in)
             r == Count(y)
             n == f + Len(x.buf)
  <1>0. /\ x.in \in Seq(Message) /\ m \in Message /\ Tail(x.in) \in Seq(Message) /\ Sub(Tail(x.in), x.in)
        /\ x.buf \in Seq(Message) /\ y.in \in Seq(Message) /\ r \in Nat /\ n \in Nat /\ Count(x) \in Nat
    BY ViewFacts, SeqTypes, TailSub
  <1>1. x.buf # <<>> => ~x.fresh /\ ~AckFirst(x)
    BY DEF Pair, Unanswered
  <1>2. CASE x.buf = <<>> \/ m.seq # Head(x.buf).seq
    <2>1. SameOut(z, x)
      BY <1>2 DEF SameOut
    <2>2. Pair(y, x, g, f)
      BY PairSwap
    <2>3. Pair(y, z, g, f)
      BY <1>0, <2>1, <2>2, PairSkip
    <2> QED BY <1>1, <2>1, <2>3, PairSwap DEF AckFirst, SameOut
  <1>3. CASE x.buf # <<>> /\ m.seq = Head(x.buf).seq
    <2>2. Tail(x.buf) \in Seq(Message) /\ Len(Tail(x.buf)) = Len(x.buf) - 1 /\ Len(x.buf) \in Nat
      BY <1>0, <1>3
    <2>3. /\ z.in = Tail(x.in) /\ z.buf = Tail(x.buf) /\ z.rbuf = x.rbuf /\ z.nextRecv = x.nextRecv /\ z.lastAck = x.lastAck
          /\ z.side = x.side /\ z.fresh = x.fresh /\ z.read = x.read /\ z.chan = x.chan /\ z.wait = x.wait
          /\ z.closed = x.closed /\ z.nextSend = x.nextSend /\ z.wrote = x.wrote
      BY <1>3 DEF SameIn
    <2>5. Count(z) = Count(x) /\ AckFirst(z) = AckFirst(x) /\ ToSend(z) = ToSend(x) /\ (f + 1) + Len(z.buf) = n
      <3>1. Count(z) = Count(x) /\ AckFirst(z) = AckFirst(x) /\ ToSend(z) = ToSend(x)
        BY <2>3 DEF Count, AckFirst, ToSend
      <3>2. (f + 1) + Len(z.buf) = n
        <4>1. PICK u \in Nat, v \in Nat : u = Len(x.buf) /\ v = Len(z.buf) /\ u = v + 1
          <5>1. Len(x.buf) \in Nat /\ Len(z.buf) = Len(x.buf) - 1 /\ Len(x.buf) > 0
            BY <1>0, <1>3, <2>3
          <5> QED BY ONLY <5>1
        <4>2. u = v + 1
          BY <4>1
        <4>3. (f + 1) + v = f + u
          BY ONLY <4>2, f \in Nat, u \in Nat, v \in Nat
        <4> QED BY ONLY <4>1, <4>3
      <3> QED BY <3>1, <3>2
    <2>6. Buffered(x.buf, f) /\ AckFlow(x.in, f, r) /\ DataFlow(y.in, f, r, n) /\ Linked(f, r, n)
          /\ DataFlow(x.in, g, Count(x), g + Len(y.buf))
      BY DEF Pair, Half
    <2>7. Item(Head(x.buf), f) /\ Buffered(z.buf, f + 1)
      BY <1>0, <1>3, <2>3, <2>6, BufferedMoves
    <2>8. r = f /\ AckFlow(z.in, f + 1, r)
      <3>1. m.seq = Num(f)
        BY <1>3, <2>7 DEF Item
      <3>2. r = f /\ AckFlow(Tail(x.in), f + 1, r)
        BY <1>0, <2>6, <3>1, FlowAcked
      <3> QED BY <2>3, <3>2
    <2>9. DataFlow(y.in, f + 1, r, n) /\ DataFlow(z.in, g, Count(x), g + Len(y.buf))
      <3>1. DataFlow(y.in, f + 1, r, n)
        BY <1>0, <2>6, FlowMoves
      <3>2. g + Len(y.buf) \in Nat
        BY ViewFacts
      <3>3. DataFlow(Tail(x.in), g, Count(x), g + Len(y.buf))
        BY <1>0, <2>6, <3>2, FlowSub
      <3> QED BY <2>3, <3>1, <3>3
    <2>10. Linked(f + 1, r, n)
      BY <1>0, <2>2, <2>5, <2>8 DEF Linked
    <2>11. Half(z, y, f + 1)
      <3>1. Sending(z, n) /\ Receiving(z)
        BY <2>3, <2>5 DEF Pair, Half, Sending, Receiving
      <3>2. (z.side = "server" => f + 1 >= 1) /\ (f + 1) + Len(z.buf) = n /\ AckFlow(z.in, f + 1, Count(y))
        <4>1. f + 1 >= 1
          BY ONLY f \in Nat
        <4>2. (f + 1) + Len(z.buf) = n
          BY ONLY <2>5
        <4>3. AckFlow(z.in, f + 1, Count(y))
          BY ONLY <2>8
        <4> QED BY ONLY <4>1, <4>2, <4>3
      <3>3. Linked(f + 1, Count(y), n) /\ DataFlow(y.in, f + 1, Count(y), n)
        BY <2>9, <2>10
      <3> HIDE DEF n
      <3> QED BY ONLY <2>7, <3>1, <3>2, <3>3 DEF Half
    <2>12. Half(y, z, g)
      BY <2>3, <2>5, <2>9 DEF Pair, Half
    <2>13. Unanswered(z, y, g) /\ Unanswered(y, z, f + 1)
      <3>1. ~(y.fresh \/ AckFirst(y))
        BY DEF Pair, Unanswered
      <3> QED BY <1>1, <1>3, <2>3, <2>5, <3>1 DEF Unanswered
    <2>14. Pair(z, y, f + 1, g) /\ f + 1 \in Nat
      BY <2>11, <2>12, <2>13 DEF Pair
    <2> QED BY <1>1, <1>3, <2>3, <2>5, <2>14
  <1> QED BY <1>2, <1>3

\* Channels of one element.
LEMMA ShortFacts ==
  /\ <<>> \in Short /\ \A m \in Message : <<m>> \in Short
  /\ \A s \in Short : s # <<>> => Head(s) \in Message /\ s = <<Head(s)>> /\ Len(s) = 1
  <1>1. <<>> \in Short /\ \A m \in Message : <<m>> \in Short
    BY DEF Short
  <1>2. ASSUME NEW s \in Short, s # <<>> PROVE Head(s) \in Message /\ s = <<Head(s)>> /\ Len(s) = 1
    <2>0. s \in Seq(Message) /\ Len(s) <= 1
      BY DEF Short
    <2>1. s \in Seq(Message) /\ Len(s) = 1
      <3>1. Len(s) \in Nat /\ Len(s) # 0
        BY ONLY <1>2, <2>0
      <3> QED BY ONLY <2>0, <3>1, SMTT(30)
    <2>2. Head(s) = s[1] /\ s[1] \in Message
      BY <1>2, <2>1
    <2>3. <<s[1]>> \in Seq(Message) /\ Len(<<s[1]>>) = Len(s) /\ \A i \in 1 .. Len(s) : <<s[1]>>[i] = s[i]
      BY <2>1, <2>2
    <2>4. s = <<s[1]>>
      BY <2>1, <2>3, SeqEqual
    <2> QED BY <2>1, <2>2, <2>4
  <1> QED BY <1>1, <1>2

\* send takes a message from sendChan and drops it, because the end is closed, or
\* sends it as it is, the server's acknowledgement of CONNECT.
LEMMA PairTaken ==
  ASSUME NEW x \in ViewT, NEW y \in ViewT, NEW f \in Nat, NEW g \in Nat, Pair(x, y, f, g), ~x.fresh,
         x.chan # <<>>, x.closed \/ AckFirst(x), NEW z \in ViewT, z.chan = <<>>, z.in = x.in, SameIn(z, x),
         z.side = x.side, z.fresh = x.fresh, z.buf = x.buf, z.wait = x.wait, z.closed = x.closed,
         z.nextSend = x.nextSend, z.wrote = x.wrote
  PROVE  /\ Pair(z, y, f, g) /\ ~z.fresh /\ ~AckFirst(z)
         /\ AckFirst(x) => Fits(z, f, Head(x.chan))
  <1>1. /\ z.chan = <<>> /\ z.in = x.in /\ z.rbuf = x.rbuf /\ z.nextRecv = x.nextRecv /\ z.lastAck = x.lastAck
        /\ z.side = x.side /\ z.fresh = x.fresh /\ z.buf = x.buf /\ z.read = x.read /\ z.wait = x.wait
        /\ z.closed = x.closed /\ z.nextSend = x.nextSend /\ z.wrote = x.wrote
    BY DEF SameIn
  <1>3. Count(z) = Count(x) /\ ~AckFirst(z) /\ (AckFirst(x) => ToSend(z) = ToSend(x))
    BY <1>1 DEF Count, AckFirst, ToSend
  <1>4. Sending(z, f + Len(z.buf)) /\ Receiving(z)
    BY <1>1, <1>3 DEF Pair, Half, Sending, Receiving
  <1>5. Half(z, y, f) /\ Half(y, z, g)
    BY <1>1, <1>3, <1>4 DEF Pair, Half
  <1>6. Unanswered(z, y, g) /\ Unanswered(y, z, f)
    BY <1>1, <1>3 DEF Pair, Unanswered
  <1>7. AckFirst(x) => Fits(z, f, Head(x.chan))
    BY <1>3, NumFacts DEF Pair, Unanswered, Fits, AckFirst
  <1> QED BY <1>1, <1>3, <1>5, <1>6, <1>7 DEF Pair

\* The message in sendChan, when it is not that acknowledgement, is the next one of the stream.
LEMMA PairNext ==
  ASSUME NEW x \in ViewT, NEW y \in ViewT, NEW f \in Nat, NEW g \in Nat, Pair(x, y, f, g),
         x.chan # <<>>, ~x.closed, ~AckFirst(x)
  PROVE  Unnumbered(Head(x.chan), f + Len(x.buf))
  <1> DEFINE n == f + Len(x.buf)
             m == Head(x.chan)
             T == ToSend(x)
  <1>0. n \in Nat /\ x.wait \in Seq(Message) /\ m \in Message /\ x.chan = <<m>> /\ Len(x.wait) \in Nat
    <2>1. n \in Nat /\ x.wait \in Short /\ x.chan \in Short
      BY ViewFacts
    <2>2. m \in Message /\ x.chan = <<m>>
      BY <2>1, ShortFacts
    <2> QED BY <2>1, <2>2 DEF Short
  <1>1. T = <<m>> \o x.wait
    BY <1>0 DEF ToSend
  <1>2. \A i \in 1 .. Len(T) : Unnumbered(T[i], n + i - 1)
    BY DEF Pair, Half, Sending
  <1> HIDE DEF T, n, m
  <1>3. Len(T) = 1 + Len(x.wait) /\ T[1] = m
    <2>1. <<m>> \in Seq(Message) /\ Len(<<m>>) = 1 /\ <<m>>[1] = m
      BY <1>0
    <2> QED BY ONLY <1>0, <1>1, <2>1
  <1>4. 1 \in 1 .. Len(T) /\ n + 1 - 1 = n
    BY <1>0, <1>3
  <1>5. Unnumbered(m, n)
    BY <1>2, <1>3, <1>4
  <1> QED BY <1>5 DEF m, n

\* send queues a message: CONNECT, or a payload with the next number.
LEMMA PairQueue ==
  ASSUME NEW x \in ViewT, NEW y \in ViewT, NEW f \in Nat, NEW g \in Nat, Pair(x, y, f, g), ~x.fresh,
         x.chan # <<>>, ~x.closed, ~AckFirst(x), NEW m, m = Head(x.chan), NEW d,
         d = IF m.type = "CONNECT" THEN m ELSE [m EXCEPT !.seq = x.nextSend],
         NEW s, s = IF m.type = "CONNECT" THEN x.nextSend ELSE (x.nextSend + 1) % SeqMod,
         NEW z \in ViewT, z.chan = <<>>, z.buf = Append(x.buf, d), z.nextSend = s, z.in = x.in, SameIn(z, x),
         z.side = x.side, z.fresh = x.fresh, z.wait = x.wait, z.closed = x.closed, z.wrote = x.wrote
  PROVE  /\ m.type \in {"CONNECT", "DATA"} /\ Pair(z, y, f, g) /\ ~z.fresh /\ ~AckFirst(z)
         /\ z.buf # <<>> /\ (m.type = "CONNECT" => m = Head(z.buf))
  <1> DEFINE n == f + Len(x.buf)
             T == ToSend(x)
  <1>0. /\ n \in Nat /\ x.buf \in Seq(Message) /\ x.wait \in Seq(Message) /\ m \in Message /\ x.chan = <<m>> /\ x.wrote \in Nat
        /\ x.nextSend \in Nat /\ Len(x.wait) \in Nat
    <2>1. n \in Nat /\ x.buf \in Seq(Message) /\ x.wait \in Short /\ x.chan \in Short /\ x.wrote \in Nat /\ x.nextSend \in Nat
      BY ViewFacts
    <2>2. m \in Message /\ x.chan = <<m>>
      BY <2>1, ShortFacts
    <2>3. x.wait \in Seq(Message)
      BY <2>1 DEF Short
    <2> QED BY <2>1, <2>2, <2>3
  <1>1. T = <<m>> \o x.wait
    BY <1>0 DEF ToSend
  <1>2. Len(T) = 1 + Len(x.wait) /\ T[1] = m /\ \A i \in 1 .. Len(x.wait) : T[i + 1] = x.wait[i] /\ i + 1 \in 1 .. Len(T)
    <2> HIDE DEF T
    <2>1. <<m>> \in Seq(Message) /\ Len(<<m>>) = 1 /\ <<m>>[1] = m
      BY <1>0
    <2> QED BY ONLY <1>0, <1>1, <2>1
  <1>3. /\ x.nextSend = Num(IF n = 0 THEN 1 ELSE n) /\ n <= x.wrote + 1 /\ x.wrote + 1 = n + Len(T)
        /\ \A i \in 1 .. Len(T) : Unnumbered(T[i], n + i - 1)
    BY DEF Pair, Half, Sending
  <1> HIDE DEF T, n
  <1>4. Unnumbered(m, n)
    BY PairNext DEF n
  <1>5. d \in Message /\ Item(d, n)
    <2>1. CASE n = 0
      BY <1>0, <1>4, <2>1, NumFacts DEF Unnumbered, Item
    <2>2. CASE n # 0
      <3>1. m.type = "DATA" /\ m.payload = n /\ x.nextSend = Num(n) /\ Num(n) \in 0 .. SeqMod - 1
        BY <1>0, <1>3, <1>4, <2>2, NumFacts DEF Unnumbered
      <3>2. d = [m EXCEPT !.seq = x.nextSend]
        BY <3>1
      <3>3. [m EXCEPT !.seq = x.nextSend] \in Message /\ Item([m EXCEPT !.seq = x.nextSend], n)
        BY <1>0, <2>2, <3>1 DEF Message, Item
      <3> QED BY <3>2, <3>3
    <2> QED BY <2>1, <2>2
  <1>6. s = Num(n + 1) /\ s \in Nat
    <2>0. n + 1 \in Nat
      BY <1>0
    <2>1. n + 1 \in Nat /\ Num(n + 1) \in 0 .. SeqMod - 1
      BY <2>0, NumFacts
    <2>2. CASE n = 0
      BY <1>3, <1>4, <2>1, <2>2 DEF Unnumbered
    <2>3. CASE n # 0
      <3>1. m.type = "DATA" /\ (Num(n) + 1) % SeqMod = Num(n + 1)
        BY <1>0, <1>4, <2>3, NumFacts DEF Unnumbered
      <3> QED BY <1>3, <2>1, <2>3, <3>1
    <2> QED BY <2>2, <2>3
  <1>8. /\ z.chan = <<>> /\ z.in = x.in /\ z.rbuf = x.rbuf /\ z.nextRecv = x.nextRecv /\ z.lastAck = x.lastAck
        /\ z.side = x.side /\ z.fresh = x.fresh /\ z.buf = Append(x.buf, d) /\ z.read = x.read /\ z.wait = x.wait
        /\ z.closed = x.closed /\ z.nextSend = s /\ z.wrote = x.wrote
    BY DEF SameIn
  <1>9. Count(z) = Count(x) /\ ~AckFirst(z) /\ ToSend(z) = x.wait
    <2>1. <<>> \o x.wait = x.wait
      BY <1>0
    <2> QED BY <1>8, <2>1 DEF Count, AckFirst, ToSend
  <1>10. f + Len(z.buf) = n + 1 /\ z.buf # <<>>
    <2>1. Len(z.buf) = Len(x.buf) + 1 /\ Len(x.buf) \in Nat
      BY <1>0, <1>5, <1>8
    <2>2. PICK u \in Nat, v \in Nat : u = Len(x.buf) /\ v = Len(z.buf)
      BY ONLY <2>1
    <2>3. v = u + 1
      BY <2>1, <2>2
    <2>4. f + v = (f + u) + 1
      BY ONLY <2>3, f \in Nat, u \in Nat, v \in Nat
    <2>5. z.buf # <<>>
      BY ONLY <2>1, Len(<<>>) = 0
    <2>6. f + Len(z.buf) = (f + Len(x.buf)) + 1
      BY ONLY <2>2, <2>4
    <2> QED BY ONLY <2>5, <2>6 DEF n
  <1>11. Sending(z, n + 1)
    <2>1. n + 1 # 0 /\ n + 1 <= x.wrote + 1 /\ x.wrote + 1 = (n + 1) + Len(x.wait)
      <3>1. PICK l \in Nat, w \in Nat : l = Len(x.wait) /\ w = x.wrote
        BY <1>0
      <3>2. w + 1 = n + (1 + l) /\ n \in Nat
        BY <1>0, <1>2, <1>3, <3>1
      <3>3. n + 1 # 0 /\ n + 1 <= w + 1 /\ w + 1 = (n + 1) + l
        BY ONLY <3>2, l \in Nat, w \in Nat
      <3> QED BY ONLY <3>1, <3>3
    <2>2. \A i \in 1 .. Len(x.wait) : Unnumbered(x.wait[i], (n + 1) + i - 1)
      <3> TAKE i \in 1 .. Len(x.wait)
      <3>1. Unnumbered(T[i + 1], n + (i + 1) - 1) /\ T[i + 1] = x.wait[i]
        BY <1>2, <1>3
      <3>2. n + (i + 1) - 1 = (n + 1) + i - 1
        BY ONLY <1>0, i \in 1 .. Len(x.wait)
      <3> QED BY <3>1, <3>2
    <2>3. (x.wait # <<>> => Head(x.wait).type # "ACK") /\ n + 1 >= 1
      BY <1>0 DEF Pair, Half, Sending
    <2> QED BY <1>6, <1>8, <1>9, <2>1, <2>2, <2>3 DEF Sending
  <1>12. Half(z, y, f)
    <2>1. Buffered(z.buf, f)
      <3>1. Buffered(x.buf, f)
        BY DEF Pair, Half
      <3> QED BY <1>0, <1>5, <1>8, <3>1, BufferedMoves DEF n
    <2>2. Linked(f, Count(y), n + 1) /\ DataFlow(y.in, f, Count(y), n + 1)
      <3>1. Linked(f, Count(y), n) /\ DataFlow(y.in, f, Count(y), n)
        BY DEF Pair, Half, n
      <3>2. Count(y) \in Nat /\ y.in \in Seq(Message) /\ n + 1 \in Nat /\ n <= n + 1
        BY <1>0, ViewFacts
      <3>3. DataFlow(y.in, f, Count(y), n + 1)
        BY <1>0, <3>1, <3>2, FlowMoves
      <3>4. Linked(f, Count(y), n + 1)
        BY <1>0, <3>1, <3>2 DEF Linked
      <3> QED BY <3>3, <3>4
    <2>3. Receiving(z)
      BY <1>8, <1>9 DEF Pair, Half, Receiving
    <2>4. AckFlow(z.in, f, Count(y)) /\ (z.side = "server" => f >= 1)
      BY <1>8 DEF Pair, Half
    <2> QED BY <1>10, <1>11, <2>1, <2>2, <2>3, <2>4 DEF Half
  <1>13. Half(y, z, g)
    BY <1>8, <1>9 DEF Pair, Half
  <1>14. Unanswered(z, y, g) /\ Unanswered(y, z, f)
    BY <1>8, <1>9 DEF Pair, Unanswered
  <1>15. ASSUME m.type = "CONNECT" PROVE m = Head(z.buf)
    <2>1. n = 0 /\ d = m
      BY <1>4, <1>15 DEF Unnumbered
    <2>2. Len(x.buf) = 0
      <3>1. PICK u \in Nat : u = Len(x.buf)
        BY ViewFacts
      <3>2. f + u = 0
        BY <2>1, <3>1 DEF n
      <3>3. u = 0
        BY ONLY <3>2, f \in Nat, u \in Nat
      <3> QED BY ONLY <3>1, <3>3
    <2>3. x.buf = <<>>
      BY <1>0, <2>2
    <2>4. Append(<<>>, m) = <<m>> /\ Head(<<m>>) = m
      OBVIOUS
    <2>5. z.buf = Append(<<>>, m)
      BY <1>8, <2>1, <2>3
    <2> QED BY <2>4, <2>5
  <1>16. m.type \in {"CONNECT", "DATA"}
    BY <1>4 DEF Unnumbered
  <1> QED BY <1>8, <1>9, <1>10, <1>12, <1>13, <1>14, <1>15, <1>16 DEF Pair

\* The application reads the front of recvBuf.
LEMMA PairDeliver ==
  ASSUME NEW x \in ViewT, NEW y \in ViewT, NEW f \in Nat, NEW g \in Nat, Pair(x, y, f, g), x.rbuf # <<>>,
         NEW e \in ReadT, e.payload = Head(x.rbuf).payload,
         NEW z \in ViewT, z.rbuf = Tail(x.rbuf), z.read = Append(x.read, e), z.in = x.in, SameOut(z, x),
         z.nextRecv = x.nextRecv, z.lastAck = x.lastAck
  PROVE  Pair(z, y, f, g)
  <1>0. /\ x.rbuf \in Seq(Message) /\ x.read \in Seq(ReadT) /\ Tail(x.rbuf) \in Seq(Message) /\ Append(x.read, e) \in Seq(ReadT)
    BY ViewFacts, SeqTypes
  <1>2. /\ z.chan = x.chan /\ z.in = x.in /\ z.rbuf = Tail(x.rbuf) /\ z.nextRecv = x.nextRecv /\ z.lastAck = x.lastAck
        /\ z.side = x.side /\ z.fresh = x.fresh /\ z.buf = x.buf /\ z.read = Append(x.read, e) /\ z.wait = x.wait
        /\ z.closed = x.closed /\ z.nextSend = x.nextSend /\ z.wrote = x.wrote
    BY DEF SameOut
  <1>3. PICK u \in Nat, v \in Nat : u = Len(x.read) /\ v + 1 = Len(x.rbuf)
    <2>1. Len(x.read) \in Nat /\ Len(x.rbuf) \in Nat /\ Len(x.rbuf) # 0
      BY <1>0
    <2>2. Len(x.rbuf) - 1 \in Nat /\ (Len(x.rbuf) - 1) + 1 = Len(x.rbuf)
      BY ONLY <2>1
    <2> QED BY ONLY <2>1, <2>2, Zenon
  <1>4. Len(z.read) = u + 1 /\ Len(z.rbuf) = v
    <2>1. Len(z.read) = Len(x.read) + 1 /\ Len(z.rbuf) = Len(x.rbuf) - 1 /\ Len(x.rbuf) \in Nat
      BY <1>0, <1>2
    <2> QED BY ONLY <1>3, <2>1
  <1>5. Count(z) = Count(x) /\ AckFirst(z) = AckFirst(x) /\ ToSend(z) = ToSend(x)
    <2>1. AckFirst(z) = AckFirst(x) /\ ToSend(z) = ToSend(x)
      BY <1>2 DEF AckFirst, ToSend
    <2>2. (u + 1) + v = u + (v + 1)
      OBVIOUS
    <2> QED BY <1>3, <1>4, <2>1, <2>2 DEF Count
  <1>6. Receiving(z)
    <2>1. /\ \A i \in 1 .. Len(x.read) : x.read[i].payload = i
          /\ \A i \in 1 .. Len(x.rbuf) : x.rbuf[i].payload = Len(x.read) + i
      BY DEF Pair, Half, Receiving
    <2>2. \A i \in 1 .. Len(z.read) : z.read[i].payload = i
      <3> TAKE i \in 1 .. Len(z.read)
      <3>1. CASE i \in 1 .. Len(x.read)
        <4>1. z.read[i] = x.read[i]
          BY <1>0, <1>2, <3>1
        <4> QED BY <2>1, <3>1, <4>1
      <3>2. CASE i = u + 1
        <4>1. z.read[i] = e
          BY <1>0, <1>2, <1>3, <3>2
        <4>2. Head(x.rbuf) = x.rbuf[1] /\ 1 \in 1 .. Len(x.rbuf)
          BY <1>0
        <4>3. x.rbuf[1].payload = u + 1
          BY <1>3, <2>1, <4>2
        <4> QED BY <3>2, <4>1, <4>2, <4>3
      <3>3. i \in 1 .. u + 1 /\ Len(x.read) = u
        BY <1>3, <1>4
      <3> QED BY <3>1, <3>2, <3>3
    <2>3. \A i \in 1 .. Len(z.rbuf) : z.rbuf[i].payload = Len(z.read) + i
      <3> TAKE i \in 1 .. Len(z.rbuf)
      <3>1. z.rbuf[i] = x.rbuf[i + 1] /\ i + 1 \in 1 .. Len(x.rbuf)
        BY <1>0, <1>2
      <3>2. x.rbuf[i + 1].payload = Len(x.read) + (i + 1)
        BY <2>1, <3>1
      <3>3. u + (i + 1) = (u + 1) + i
        BY ONLY <1>4, u \in Nat, v \in Nat, i \in 1 .. Len(z.rbuf)
      <3> QED BY ONLY <1>3, <1>4, <3>1, <3>2, <3>3
    <2> QED BY <1>2, <1>5, <2>2, <2>3 DEF Pair, Half, Receiving
  <1>7. Half(z, y, f)
    <2>1. Sending(z, f + Len(z.buf))
      BY <1>2, <1>5 DEF Pair, Half, Sending
    <2> QED BY <1>2, <1>5, <1>6, <2>1 DEF Pair, Half
  <1>8. Half(y, z, g) /\ Unanswered(z, y, g) /\ Unanswered(y, z, f)
    BY <1>2, <1>5 DEF Pair, Half, Unanswered
  <1> QED BY <1>7, <1>8 DEF Pair

\* The application writes: the payload enters sendChan, or loopServe waits with it.
LEMMA PairWrite ==
  ASSUME NEW x \in ViewT, NEW y \in ViewT, NEW f \in Nat, NEW g \in Nat, Pair(x, y, f, g), x.wait = <<>>,
         NEW d \in Message, d.type = "DATA", d.seq = 0, d.payload = x.wrote + 1,
         NEW z \in ViewT, z.wrote = x.wrote + 1, z.in = x.in, SameIn(z, x), z.side = x.side, z.fresh = x.fresh,
         z.buf = x.buf, z.closed = x.closed, z.nextSend = x.nextSend,
         IF x.chan = <<>> THEN z.chan = <<d>> /\ z.wait = <<>> ELSE z.chan = x.chan /\ z.wait = <<d>>
  PROVE  Pair(z, y, f, g)
  <1> DEFINE n == f + Len(x.buf)
             T == ToSend(x)
  <1>0. n \in Nat /\ x.wrote \in Nat /\ x.chan \in Seq(Message) /\ x.chan \in Short /\ <<d>> \in Short /\ T \in Seq(Message)
        /\ Len(T) \in Nat
    <2>1. n \in Nat /\ x.wrote \in Nat /\ x.chan \in Seq(Message) /\ x.chan \in Short /\ <<d>> \in Short
      BY ViewFacts, ShortFacts DEF Short
    <2>2. x.wait \in Seq(Message)
      BY ViewFacts DEF Short
    <2>3. T \in Seq(Message)
      BY <2>1, <2>2 DEF ToSend
    <2> QED BY <2>1, <2>3
  <1>2. /\ z.in = x.in /\ z.rbuf = x.rbuf /\ z.nextRecv = x.nextRecv /\ z.lastAck = x.lastAck
        /\ z.side = x.side /\ z.fresh = x.fresh /\ z.buf = x.buf /\ z.read = x.read
        /\ z.closed = x.closed /\ z.nextSend = x.nextSend /\ z.wrote = x.wrote + 1
        /\ (x.chan = <<>> => z.chan = <<d>> /\ z.wait = <<>>) /\ (x.chan # <<>> => z.chan = x.chan /\ z.wait = <<d>>)
    BY DEF SameIn
  <1>3. Count(z) = Count(x) /\ AckFirst(z) = AckFirst(x)
    <2>1. Head(<<d>>) = d
      OBVIOUS
    <2> QED BY <1>2, <2>1 DEF Count, AckFirst
  <1>4. ToSend(z) = Append(T, d)
    <2>1. CASE x.chan = <<>>
      <3>1. ~AckFirst(z) /\ T = <<>> \o <<>> /\ ToSend(z) = <<d>> \o <<>>
        BY <1>2, <1>3, <2>1 DEF AckFirst, ToSend
      <3> QED BY <3>1
    <2>2. CASE x.chan # <<>>
      <3>1. AckFirst(x) => T = <<>> \o <<>> /\ ToSend(z) = <<>> \o <<d>>
        BY <1>2, <1>3, <2>2 DEF ToSend
      <3>2. ~AckFirst(x) => T = x.chan \o <<>> /\ ToSend(z) = x.chan \o <<d>>
        BY <1>2, <1>3, <2>2 DEF ToSend
      <3>3. x.chan \o <<>> = x.chan /\ x.chan \o <<d>> = Append(x.chan, d)
        BY <1>0
      <3>4. <<>> \o <<>> = <<>> /\ <<>> \o <<d>> = Append(<<>>, d)
        OBVIOUS
      <3> QED BY ONLY <3>1, <3>2, <3>3, <3>4
    <2> QED BY <2>1, <2>2
  <1>5. Sending(z, n)
    <2>1. /\ x.nextSend = Num(IF n = 0 THEN 1 ELSE n) /\ n <= x.wrote + 1
          /\ ~x.closed => /\ x.wrote + 1 = n + Len(T)
                          /\ \A i \in 1 .. Len(T) : Unnumbered(T[i], n + i - 1)
          /\ x.side = "server" => n >= 1
      BY DEF Pair, Half, Sending
    <2> HIDE DEF n, T
    <2>2. Len(Append(T, d)) = Len(T) + 1 /\ Append(T, d)[Len(T) + 1] = d /\ \A i \in 1 .. Len(T) : Append(T, d)[i] = T[i]
      BY <1>0
    <2>3. ASSUME ~x.closed
          PROVE  /\ z.wrote + 1 = n + Len(Append(T, d))
                 /\ \A i \in 1 .. Len(Append(T, d)) : Unnumbered(Append(T, d)[i], n + i - 1)
      <3>1. PICK l \in Nat, w \in Nat : l = Len(T) /\ w = x.wrote
        BY <1>0
      <3>2. w + 1 = n + l /\ z.wrote = w + 1 /\ Len(Append(T, d)) = l + 1
        BY <1>2, <2>1, <2>2, <2>3, <3>1
      <3>3. z.wrote + 1 = n + Len(Append(T, d))
        BY ONLY <1>0, <3>2, l \in Nat, w \in Nat
      <3>4. ASSUME NEW i \in 1 .. Len(Append(T, d)) PROVE Unnumbered(Append(T, d)[i], n + i - 1)
        <4>1. CASE i \in 1 .. Len(T)
          BY <2>1, <2>2, <2>3, <4>1
        <4>2. CASE i = l + 1
          <5>1. Append(T, d)[i] = d /\ d.payload = w + 1
            BY <2>2, <3>1, <4>2
          <5>2. n + i - 1 = w + 1 /\ w + 1 # 0
            BY ONLY <1>0, <3>2, <4>2, l \in Nat, w \in Nat
          <5>3. Unnumbered(d, w + 1)
            BY <5>1, <5>2 DEF Unnumbered
          <5> QED BY ONLY <5>1, <5>2, <5>3
        <4> QED BY <3>1, <3>2, <4>1, <4>2
      <3> QED BY <3>3, <3>4
    <2>4. z.wait # <<>> => Head(z.wait).type # "ACK"
      <3>1. Head(<<d>>) = d
        OBVIOUS
      <3> QED BY <1>2, <3>1
    <2>5. n <= z.wrote + 1
      BY <1>0, <1>2, <2>1
    <2> QED BY <1>2, <1>4, <2>1, <2>3, <2>4, <2>5 DEF Sending
  <1>6. Half(z, y, f)
    <2>1. Receiving(z)
      BY <1>2, <1>3 DEF Pair, Half, Receiving
    <2> QED BY <1>2, <1>3, <1>5, <2>1 DEF Pair, Half
  <1>7. Half(y, z, g) /\ Unanswered(z, y, g) /\ Unanswered(y, z, f)
    <2>1. AckFirst(z) => z.chan = x.chan
      BY <1>2, <1>3 DEF AckFirst
    <2> QED BY <1>2, <1>3, <2>1 DEF Pair, Half, Unanswered
  <1> QED BY <1>6, <1>7 DEF Pair

\* loopServe hands over the payload it waited with.
LEMMA PairHand ==
  ASSUME NEW x \in ViewT, NEW y \in ViewT, NEW f \in Nat, NEW g \in Nat, Pair(x, y, f, g), x.chan = <<>>, x.wait # <<>>,
         NEW z \in ViewT, z.chan = x.wait, z.wait = <<>>, z.in = x.in, SameIn(z, x), z.side = x.side, z.fresh = x.fresh,
         z.buf = x.buf, z.closed = x.closed, z.nextSend = x.nextSend, z.wrote = x.wrote
  PROVE  Pair(z, y, f, g)
  <1>2. /\ z.in = x.in /\ z.rbuf = x.rbuf /\ z.nextRecv = x.nextRecv /\ z.lastAck = x.lastAck
        /\ z.side = x.side /\ z.fresh = x.fresh /\ z.buf = x.buf /\ z.read = x.read
        /\ z.closed = x.closed /\ z.nextSend = x.nextSend /\ z.wrote = x.wrote
        /\ z.chan = x.wait /\ z.wait = <<>>
    BY DEF SameIn
  <1>3. Head(x.wait).type # "ACK"
    BY DEF Pair, Half, Sending
  <1>4. Count(z) = Count(x) /\ ~AckFirst(z) /\ ~AckFirst(x)
    BY <1>2, <1>3 DEF Count, AckFirst
  <1>5. ToSend(z) = ToSend(x)
    <2>1. x.wait \in Seq(Message)
      BY ViewFacts DEF Short
    <2>2. x.wait \o <<>> = x.wait /\ <<>> \o x.wait = x.wait
      BY <2>1
    <2> QED BY <1>2, <1>4, <2>2 DEF ToSend
  <1>6. Sending(z, f + Len(z.buf)) /\ Receiving(z)
    BY <1>2, <1>4, <1>5 DEF Pair, Half, Sending, Receiving
  <1>7. Half(z, y, f) /\ Half(y, z, g) /\ Unanswered(z, y, g) /\ Unanswered(y, z, f)
    BY <1>2, <1>4, <1>6 DEF Pair, Half, Unanswered
  <1> QED BY <1>7 DEF Pair

\* The end is closed.
LEMMA PairClose ==
  ASSUME NEW x \in ViewT, NEW y \in ViewT, NEW f \in Nat, NEW g \in Nat, Pair(x, y, f, g),
         NEW z \in ViewT, z.closed, z.in = x.in, SameIn(z, x), z.side = x.side, z.fresh = x.fresh,
         z.buf = x.buf, z.chan = x.chan, z.wait = x.wait, z.nextSend = x.nextSend, z.wrote = x.wrote
  PROVE  Pair(z, y, f, g)
  <1>2. /\ z.in = x.in /\ z.rbuf = x.rbuf /\ z.nextRecv = x.nextRecv /\ z.lastAck = x.lastAck
        /\ z.side = x.side /\ z.fresh = x.fresh /\ z.buf = x.buf /\ z.read = x.read
        /\ z.closed /\ z.nextSend = x.nextSend /\ z.wrote = x.wrote
        /\ z.chan = x.chan /\ z.wait = x.wait
    BY DEF SameIn
  <1>4. Count(z) = Count(x) /\ AckFirst(z) = AckFirst(x)
    BY <1>2 DEF Count, AckFirst
  <1>6. Sending(z, f + Len(z.buf)) /\ Receiving(z)
    BY <1>2, <1>4 DEF Pair, Half, Sending, Receiving
  <1>7. Half(z, y, f) /\ Half(y, z, g) /\ Unanswered(z, y, g) /\ Unanswered(y, z, f)
    BY <1>2, <1>4, <1>6 DEF Pair, Half, Unanswered
  <1> QED BY <1>7 DEF Pair

\* The server accepts the client: newLspConn puts its acknowledgement a into sendChan.
LEMMA PairAccept ==
  ASSUME NEW x \in ViewT, NEW y \in ViewT, NEW f \in Nat, NEW g \in Nat, Pair(x, y, f, g), x.fresh, x.chan = <<>>,
         NEW a \in Message, a.type = "ACK", a.seq = 0,
         NEW z \in ViewT, z.chan = <<a>>, z.lastAck = a, z.in = x.in, z.rbuf = x.rbuf, z.read = x.read,
         z.nextRecv = x.nextRecv, z.side = x.side, z.buf = x.buf, z.wait = x.wait, z.closed = x.closed,
         z.nextSend = x.nextSend, z.wrote = x.wrote
  PROVE  Pair(z, y, f, g)
  <1>2. /\ z.in = x.in /\ z.rbuf = x.rbuf /\ z.nextRecv = x.nextRecv /\ z.lastAck = a
        /\ z.side = x.side /\ z.buf = x.buf /\ z.read = x.read
        /\ z.closed = x.closed /\ z.nextSend = x.nextSend /\ z.wrote = x.wrote
        /\ z.chan = <<a>> /\ z.wait = x.wait
    OBVIOUS
  <1>3. Head(<<a>>) = a
    OBVIOUS
  <1>4. Count(z) = Count(x) /\ AckFirst(z) /\ ~AckFirst(x) /\ ToSend(z) = ToSend(x)
    <2>1. <<a>> # <<>>
      OBVIOUS
    <2>2. Count(z) = Count(x) /\ AckFirst(z) /\ ~AckFirst(x)
      BY <1>2, <1>3, <2>1 DEF Count, AckFirst
    <2> QED BY <1>2, <2>2 DEF ToSend
  <1>5. Count(x) = 0
    BY DEF Pair, Unanswered
  <1>6. Sending(z, f + Len(z.buf)) /\ Receiving(z)
    <2>1. Sending(z, f + Len(z.buf))
      BY <1>2, <1>4 DEF Pair, Half, Sending
    <2>2. a.seq = Num(Count(z))
      BY <1>4, <1>5, NumFacts
    <2> QED BY <1>2, <1>4, <2>1, <2>2 DEF Pair, Half, Receiving
  <1>7. Half(z, y, f) /\ Half(y, z, g)
    BY <1>2, <1>4, <1>6 DEF Pair, Half
  <1>8. Unanswered(z, y, g) /\ Unanswered(y, z, f)
    BY <1>2, <1>3, <1>4 DEF Pair, Unanswered
  <1> QED BY <1>7, <1>8 DEF Pair

(***************************************************************************)
(* Types.                                                                  *)
(***************************************************************************)
ConnT == [at : {"serve", "removeChan", "writeDone", "gone"}, connId : 0 .. MaxConns,
          sendBuf : Seq(Message), recvBuf : Seq(Message),
          sendChan : {s \in Seq(Message) : Len(s) <= 1}, recvChan : {s \in Seq(Message) : Len(s) <= 1},
          closed : BOOLEAN, nextRecvSeqNum : 0 .. SeqMod - 1, nextSendSeqNum : 0 .. SeqMod - 1,
          lastAck : Message, silent : 0 .. EpochLimit]

LoopT == [at : {"select", "recvChan", "sendChan", "closeChan", "panic", "exit"},
          who : Clients \cup {"none"}, msg : Message, todo : SUBSET Clients]

\* What faults counts.
Kinds == {"loss", "connect", "hasty", "close"}

\* TypeOK with the sets the variables are functions on, and two facts about loopServe
\* that it needs: whom it waits for, and that a client's never panics.
Types ==
    /\ conn \in [Ends -> ConnT] /\ net \in [Ends -> Seq(Message)]
    /\ srv \in LoopT /\ (srv.at \in {"recvChan", "sendChan", "closeChan"} => srv.who \in Clients)
    /\ connMap \subseteq Clients /\ nextConnId \in 1 .. MaxConns + 1 /\ stop \in BOOLEAN
    /\ cli \in [Clients -> LoopT] /\ (\A c \in Clients : cli[c].at # "panic")
    /\ cliId \in [Clients -> 0 .. MaxConns]
    /\ wrote \in [Ends -> Nat] /\ (\A k \in Ends : wrote[k] <= MaxWrites[k[1]])
    /\ got \in [Ends -> Seq(ReadT)]
    /\ faults \in [Kinds -> 0 .. MaxFaults] /\ turn \in [Clients -> Sides]

\* The messages the code makes are messages.
LEMMA MessageTypes ==
  /\ Nil \in Message /\ genConnMsg(0) \in Message
  /\ \A id \in 0 .. MaxConns : \A s \in 0 .. SeqMod - 1 : genAckMsg(id, s) \in Message
  /\ \A id \in 0 .. MaxConns : \A p \in 0 .. MaxWrites["client"] + MaxWrites["server"] : genDataMsg(id, p) \in Message
  BY LspAssumption DEF Message, Nil, genConnMsg, genAckMsg, genDataMsg, Msg

\* So is what newLspConn makes.
LEMMA ConnTypes ==
  /\ \A id \in 0 .. MaxConns : newLspConn(id) \in ConnT
  /\ NoConn \in ConnT
  <1>1. ASSUME NEW id \in 0 .. MaxConns PROVE newLspConn(id) \in ConnT
    <2>1. 1 % SeqMod \in 0 .. SeqMod - 1 /\ 0 \in 0 .. SeqMod - 1 /\ 0 \in 0 .. MaxConns /\ 0 \in 0 .. EpochLimit
      BY LspAssumption
    <2>2. genAckMsg(id, 0) \in Message /\ genConnMsg(0) \in Message
      BY <2>1, MessageTypes
    <2>3. <<>> \in {s \in Seq(Message) : Len(s) <= 1}
      OBVIOUS
    <2>4. \A m \in Message : <<m>> \in {s \in Seq(Message) : Len(s) <= 1}
      OBVIOUS
    <2> QED BY <2>1, <2>2, <2>3, <2>4 DEF newLspConn, ConnT
  <1>2. 0 \in 0 .. MaxConns
    BY LspAssumption
  <1>3. newLspConn(0) \in ConnT
    BY <1>1, <1>2
  <1>4. <<>> \in {s \in Seq(Message) : Len(s) <= 1}
    OBVIOUS
  <1> QED BY <1>1, <1>3, <1>4 DEF NoConn, ConnT

\* loopServe at its select.
LEMMA LoopType == Loop \in LoopT
  BY MessageTypes DEF Loop, LoopT

\* The two ends of a connection.
LEMMA EndsFacts ==
  /\ \A k \in Ends : Peer(k) \in Ends /\ Peer(Peer(k)) = k /\ Peer(k) # k /\ k[1] \in Sides /\ k[2] \in Clients
                     /\ Peer(k)[2] = k[2] /\ (k = Server(k[2]) \/ k = Client(k[2]))
  /\ \A c \in Clients : /\ Server(c) \in Ends /\ Client(c) \in Ends /\ Server(c) # Client(c)
                        /\ Peer(Server(c)) = Client(c) /\ Peer(Client(c)) = Server(c)
                        /\ Server(c)[1] = "server" /\ Client(c)[1] = "client" /\ Server(c)[2] = c /\ Client(c)[2] = c
  /\ \A c, d \in Clients : (Server(c) = Server(d) => c = d) /\ (Client(c) = Client(d) => c = d) /\ Server(c) # Client(d)
  BY DEF Ends, Sides, Peer, Server, Client

\* The connection after a message.
LEMMA AfterTypes ==
  ASSUME NEW q \in ConnT, NEW m \in Message
  PROVE  /\ AfterSend(q, m) \in ConnT /\ AfterData(q, m) \in ConnT /\ AfterAck(q, m) \in ConnT
         /\ AfterDrain(q) \in ConnT /\ FrontOf(q.sendBuf) \in Seq(Message) /\ Repeated(q) \in Seq(Message)
         /\ \A a \in {"serve", "removeChan", "writeDone", "gone"} : [q EXCEPT !.at = a] \in ConnT
         /\ [q EXCEPT !.closed = TRUE] \in ConnT
         /\ q.silent < EpochLimit => [q EXCEPT !.silent = @ + 1] \in ConnT
  <1> USE DEF Insert, Remove, Front, Empty
  <1>1. /\ (q.nextSendSeqNum + 1) % SeqMod \in 0 .. SeqMod - 1
        /\ (q.nextRecvSeqNum + 1) % SeqMod \in 0 .. SeqMod - 1
    <2>1. q.nextSendSeqNum \in Nat /\ q.nextRecvSeqNum \in Nat /\ SeqMod \in Nat \ {0}
      BY LspAssumption DEF ConnT
    <2> QED BY ONLY <2>1
  <1>2. [m EXCEPT !.seq = q.nextSendSeqNum] \in Message /\ genAckMsg(q.connId, m.seq) \in Message
    <2>1. q.nextSendSeqNum \in 0 .. SeqMod - 1 /\ q.connId \in 0 .. MaxConns /\ m.seq \in 0 .. SeqMod - 1
      BY DEF ConnT, Message
    <2>2. [m EXCEPT !.seq = q.nextSendSeqNum] \in Message
      BY <2>1 DEF Message
    <2> QED BY <2>1, <2>2, MessageTypes
  <1>3. AfterSend(q, m) \in ConnT
    BY <1>1, <1>2, SeqTypes DEF AfterSend, ConnT
  <1>4. AfterData(q, m) \in ConnT
    BY <1>1, <1>2, SeqTypes DEF AfterData, ConnT
  <1>5. AfterAck(q, m) \in ConnT
    BY SeqTypes DEF AfterAck, ConnT, Message
  <1>6. AfterDrain(q) \in ConnT
    BY DEF AfterDrain, ConnT
  <1>7. q.sendBuf \in Seq(Message) /\ q.lastAck \in Message
    BY DEF ConnT
  <1>8. FrontOf(q.sendBuf) \in Seq(Message)
    BY <1>7, SeqTypes DEF FrontOf
  <1>9. Repeated(q) \in Seq(Message)
    BY <1>7, <1>8, SeqTypes DEF Repeated
  <1>10. \A a \in {"serve", "removeChan", "writeDone", "gone"} : [q EXCEPT !.at = a] \in ConnT
    BY DEF ConnT
  <1>11. [q EXCEPT !.closed = TRUE] \in ConnT
    BY DEF ConnT
  <1>12. ASSUME q.silent < EpochLimit PROVE [q EXCEPT !.silent = @ + 1] \in ConnT
    <2>1. q.silent + 1 \in 0 .. EpochLimit
      BY <1>12, LspAssumption DEF ConnT
    <2> QED BY <2>1 DEF ConnT
  <1> QED BY <1>3, <1>4, <1>5, <1>6, <1>8, <1>9, <1>10, <1>11, <1>12

\* Parts of the actions.
LEMMA PartTypes ==
  ASSUME Types
  PROVE  /\ \A k \in Ends : \A m \in Message : \A name : Filled(k, name, m) \in [Ends -> ConnT]
         /\ \A k \in Ends : \A q \in ConnT : [conn EXCEPT ![k] = q] \in [Ends -> ConnT]
         /\ \A k \in Ends : \A ms \in Seq(Message) : udpWrite(k, ms) => net' \in [Ends -> Seq(Message)]
         /\ \A k \in Ends : net[k] # <<>> => /\ Head(net[k]) \in Message
                                            /\ [net EXCEPT ![k] = Tail(@)] \in [Ends -> Seq(Message)]
         /\ \A kind \in Kinds :
               Fault(kind) => faults' \in [Kinds -> 0 .. MaxFaults]
         /\ \A k \in Ends : Taken(k) \in ConnT /\ [conn[k] EXCEPT !.sendChan = <<>>] \in ConnT
         /\ \A k \in Ends : conn[k] \in ConnT /\ conn[k].connId \in 0 .. MaxConns
  <1>0. <<>> \in {s \in Seq(Message) : Len(s) <= 1} /\ \A m \in Message : <<m>> \in {s \in Seq(Message) : Len(s) <= 1}
    OBVIOUS
  <1>1. ASSUME NEW k \in Ends, NEW m \in Message, NEW name PROVE Filled(k, name, m) \in [Ends -> ConnT]
    <2>1. conn[k] \in ConnT
      BY DEF Types
    <2>2. [conn[k] EXCEPT !.recvChan = <<m>>] \in ConnT /\ [conn[k] EXCEPT !.sendChan = <<m>>] \in ConnT
      BY <1>0, <2>1 DEF ConnT
    <2> QED BY <2>2 DEF Filled, Types
  <1>2. \A k \in Ends : \A q \in ConnT : [conn EXCEPT ![k] = q] \in [Ends -> ConnT]
    BY DEF Types
  <1>3. ASSUME NEW k \in Ends, NEW ms \in Seq(Message), udpWrite(k, ms) PROVE net' \in [Ends -> Seq(Message)]
    <2>1. net[Peer(k)] \in Seq(Message)
      BY EndsFacts DEF Types
    <2>2. net[Peer(k)] \o ms \in Seq(Message)
      BY <2>1
    <2> QED BY <1>3, <2>2 DEF Types, udpWrite
  <1>4. ASSUME NEW k \in Ends, net[k] # <<>>
        PROVE  Head(net[k]) \in Message /\ [net EXCEPT ![k] = Tail(@)] \in [Ends -> Seq(Message)]
    <2>1. net[k] \in Seq(Message)
      BY DEF Types
    <2>2. Head(net[k]) \in Message /\ Tail(net[k]) \in Seq(Message)
      BY <1>4, <2>1
    <2> QED BY <2>2 DEF Types
  <1>5. ASSUME NEW kind \in Kinds, Fault(kind)
        PROVE  faults' \in [Kinds -> 0 .. MaxFaults]
    <2>1. faults' = [faults EXCEPT ![kind] = @ + 1] /\ Weight(faults') <= MaxFaults
      BY <1>5 DEF Fault
    <2>2. faults' \in [Kinds -> Nat]
      BY <2>1, LspAssumption DEF Types
    <2>3. (faults'["loss"] + faults'["connect"]) + 2 * (faults'["hasty"] + faults'["close"]) <= MaxFaults
      BY <2>1 DEF Weight, Lost
    <2>4. \A x \in Kinds : faults'[x] \in 0 .. MaxFaults
      <3>1. PICK w \in Nat, x \in Nat, y \in Nat, z \in Nat :
                 w = faults'["loss"] /\ x = faults'["connect"] /\ y = faults'["hasty"] /\ z = faults'["close"]
        BY <2>2 DEF Kinds
      <3>2. (w + x) + 2 * (y + z) <= MaxFaults
        BY <2>3, <3>1
      <3>3. w <= MaxFaults /\ x <= MaxFaults /\ y <= MaxFaults /\ z <= MaxFaults
        BY ONLY <3>2, LspAssumption, w \in Nat, x \in Nat, y \in Nat, z \in Nat
      <3> QED BY <3>1, <3>3, LspAssumption DEF Kinds
    <2> QED BY <2>2, <2>4
  <1>6. \A k \in Ends : conn[k] \in ConnT /\ conn[k].connId \in 0 .. MaxConns
    BY DEF Types, ConnT
  <1>7. \A k \in Ends : Taken(k) \in ConnT /\ [conn[k] EXCEPT !.sendChan = <<>>] \in ConnT
    <2>1. 0 \in 0 .. EpochLimit
      BY LspAssumption
    <2> QED BY <1>0, <1>6, <2>1 DEF Taken, ConnT
  <1> QED BY <1>1, <1>2, <1>3, <1>4, <1>5, <1>6, <1>7

\* Init makes states of these types.
LEMMA TypesInit == Init => Types
  <1> SUFFICES ASSUME Init PROVE Types
    OBVIOUS
  <1>1. conn \in [Ends -> ConnT]
    <2>1. 0 \in 0 .. MaxConns
      BY LspAssumption
    <2> QED BY <2>1, ConnTypes DEF Init
  <1>2. srv \in LoopT /\ srv.at = "select" /\ cli \in [Clients -> LoopT] /\ \A c \in Clients : cli[c].at # "panic"
    BY LoopType DEF Init, Loop
  <1>3. faults \in [Kinds -> 0 .. MaxFaults]
    BY LspAssumption DEF Init, Kinds
  <1>4. \A k \in Ends : wrote[k] <= MaxWrites[k[1]]
    BY LspAssumption, EndsFacts DEF Init, Sides
  <1>5. net \in [Ends -> Seq(Message)] /\ got \in [Ends -> Seq(ReadT)]
    BY SeqTypes DEF Init
  <1>6. wrote \in [Ends -> Nat] /\ cliId \in [Clients -> 0 .. MaxConns] /\ turn \in [Clients -> Sides]
    <2>1. 0 \in Nat /\ 0 \in 0 .. MaxConns /\ "client" \in Sides
      BY LspAssumption DEF Sides
    <2> QED BY <2>1 DEF Init
  <1>7. connMap \subseteq Clients /\ nextConnId \in 1 .. MaxConns + 1 /\ stop \in BOOLEAN
    <2>1. 1 \in 1 .. MaxConns + 1
      BY LspAssumption
    <2> QED BY <2>1 DEF Init
  <1> QED BY <1>1, <1>2, <1>3, <1>4, <1>5, <1>6, <1>7 DEF Types

\* loopServe after it handed something over, or began to wait.
LEMMA PutTypes ==
  ASSUME Types, NEW c \in Clients, NEW chan \in {"recvChan", "sendChan"}, NEW m \in Message
  PROVE  /\ ServerPut(c, chan, m) => /\ conn' \in [Ends -> ConnT] /\ srv' \in LoopT
                                     /\ (srv'.at \in {"recvChan", "sendChan", "closeChan"} => srv'.who \in Clients)
         /\ ClientPut(c, chan, m) => /\ conn' \in [Ends -> ConnT] /\ cli' \in [Clients -> LoopT]
                                     /\ \A d \in Clients : cli'[d].at # "panic"
  <1>1. Server(c) \in Ends /\ Client(c) \in Ends
    BY EndsFacts
  <1>2. conn \in [Ends -> ConnT] /\ Filled(Server(c), chan, m) \in [Ends -> ConnT] /\ Filled(Client(c), chan, m) \in [Ends -> ConnT]
    BY <1>1, PartTypes DEF Types
  <1>3. [Loop EXCEPT !.at = chan, !.who = c, !.msg = m] \in LoopT /\ [Loop EXCEPT !.at = chan, !.who = c, !.msg = m].who = c
    BY LoopType DEF LoopT, Loop
  <1>4. [cli[c] EXCEPT !.at = chan, !.msg = m] \in LoopT /\ [cli[c] EXCEPT !.at = chan, !.msg = m].at # "panic"
    BY DEF LoopT, Types
  <1>5. Loop.at = "select"
    BY DEF Loop
  <1>6. ServerPut(c, chan, m) => /\ conn' \in [Ends -> ConnT] /\ srv' \in LoopT
                                 /\ (srv'.at \in {"recvChan", "sendChan", "closeChan"} => srv'.who \in Clients)
    BY <1>2, <1>3, <1>5, LoopType DEF ServerPut
  <1>7. ASSUME ClientPut(c, chan, m)
        PROVE  conn' \in [Ends -> ConnT] /\ cli' \in [Clients -> LoopT] /\ \A d \in Clients : cli'[d].at # "panic"
    <2>1. conn' \in [Ends -> ConnT]
      BY <1>2, <1>7 DEF ClientPut
    <2>2. \E l \in LoopT : l.at # "panic" /\ cli' = [cli EXCEPT ![c] = l]
      BY <1>4, <1>5, <1>7, LoopType DEF ClientPut
    <2> QED BY <2>1, <2>2 DEF Types
  <1> QED BY <1>6, <1>7

\* The ends: the cases of the select in serve, and the loss of a packet.
LEMMA EndTypes ==
  ASSUME Types, NEW k \in Ends, ServeStep(k) \/ Deliver(k) \/ epochTrigger(k) \/ Lose(k)
  PROVE  Types'
  <1> DEFINE q == conn[k]
  <1>0. q \in ConnT /\ Taken(k) \in ConnT /\ k[2] \in Clients /\ Peer(k)[1] \in Sides
    BY PartTypes, EndsFacts
  <1>1. CASE Send(k)
    <2> DEFINE m == Head(q.sendChan)
               e == [q EXCEPT !.sendChan = <<>>]
               r == IF e.closed THEN e ELSE AfterSend(e, m)
               ms == IF e.closed THEN <<>> ELSE IF m.type = "DATA" THEN <<Front(r.sendBuf)>> ELSE <<m>>
    <2>1. m \in Message
      BY <1>0, <1>1, SeqTypes DEF Send, ConnT
    <2>2. e \in ConnT
      BY PartTypes
    <2>3. r \in ConnT
      BY <2>1, <2>2, AfterTypes
    <2>4. ~e.closed /\ m.type = "DATA" => Front(r.sendBuf) \in Message
      <3>1. e.sendBuf \in Seq(Message) /\ [m EXCEPT !.seq = e.nextSendSeqNum] \in Message
        BY <2>1, <2>2 DEF ConnT, Message
      <3>2. ~e.closed /\ m.type = "DATA" => r.sendBuf = Append(e.sendBuf, [m EXCEPT !.seq = e.nextSendSeqNum])
        BY <2>2 DEF AfterSend, Insert, ConnT
      <3>3. \A s \in Seq(Message) : \A d \in Message : Head(Append(s, d)) \in Message
        OBVIOUS
      <3>4. Head(Append(e.sendBuf, [m EXCEPT !.seq = e.nextSendSeqNum])) \in Message
        BY ONLY <3>1, <3>3
      <3> QED BY <3>2, <3>4 DEF Front
    <2>5. ms \in Seq(Message)
      BY <2>1, <2>4, SeqTypes
    <2>6. conn' = [conn EXCEPT ![k] = r] /\ udpWrite(k, ms)
      BY <1>1 DEF Send
    <2> HIDE DEF r, ms
    <2>7. conn' \in [Ends -> ConnT] /\ net' \in [Ends -> Seq(Message)]
      BY <2>3, <2>5, <2>6, PartTypes
    <2> QED BY <1>1, <2>7 DEF Send, Types, serverVars, appVars, envVars
  <1>2. CASE ReceiveData(k)
    <2> DEFINE m == Head(q.recvChan)
               r == AfterData(Taken(k), m)
    <2>1. m \in Message
      BY <1>0, <1>2, SeqTypes DEF ReceiveData, ConnT
    <2>2. r \in ConnT
      BY <1>0, <2>1, AfterTypes
    <2>3. conn' = [conn EXCEPT ![k] = r] /\ udpWrite(k, <<conn'[k].lastAck>>)
      BY <1>2 DEF ReceiveData
    <2> HIDE DEF r
    <2>4. conn'[k] = r
      BY <2>3 DEF Types
    <2>5. <<conn'[k].lastAck>> \in Seq(Message)
      BY <2>2, <2>4, SeqTypes DEF ConnT
    <2>6. conn' \in [Ends -> ConnT] /\ net' \in [Ends -> Seq(Message)]
      BY <2>2, <2>3, <2>5, PartTypes
    <2> QED BY <1>2, <2>6 DEF ReceiveData, Types, serverVars, appVars, envVars
  <1>3. CASE ReceiveAck(k)
    <2> DEFINE m == Head(q.recvChan)
               a == AfterAck(Taken(k), m)
               r == IF Empty(q.sendBuf) THEN a ELSE AfterDrain(a)
    <2>1. m \in Message
      BY <1>0, <1>3, SeqTypes DEF ReceiveAck, ConnT
    <2>2. a \in ConnT
      BY <1>0, <2>1, AfterTypes
    <2> HIDE DEF m
    <2>3. r \in ConnT /\ FrontOf(a.sendBuf) \in Seq(Message)
      BY <2>1, <2>2, AfterTypes
    <2>4. conn' = [conn EXCEPT ![k] = r] /\ udpWrite(k, FrontOf(a.sendBuf))
      BY <1>3 DEF ReceiveAck, m
    <2> HIDE DEF r, a
    <2>5. conn' \in [Ends -> ConnT] /\ net' \in [Ends -> Seq(Message)]
      BY <2>3, <2>4, PartTypes
    <2> QED BY <1>3, <2>5 DEF ReceiveAck, Types, serverVars, appVars, envVars
  <1>4. CASE Deliver(k)
    <2>1. q.recvBuf \in Seq(Message) /\ q.recvBuf # <<>>
      BY <1>0, <1>4 DEF ConnT, Deliver, Empty
    <2>2. Head(q.recvBuf) \in Message /\ Tail(q.recvBuf) \in Seq(Message)
      BY <2>1, SeqTypes
    <2>3. [q EXCEPT !.recvBuf = Tail(@)] \in ConnT
      BY <1>0, <2>2 DEF ConnT
    <2>4. [id |-> Head(q.recvBuf).connId, payload |-> Head(q.recvBuf).payload] \in ReadT
      BY <2>2 DEF Message, ReadT
    <2>5. got[k] \in Seq(ReadT)
      BY DEF Types
    <2>6. Append(got[k], [id |-> Head(q.recvBuf).connId, payload |-> Head(q.recvBuf).payload]) \in Seq(ReadT)
      BY <2>4, <2>5, SeqTypes
    <2>7. conn' \in [Ends -> ConnT] /\ got' \in [Ends -> Seq(ReadT)]
      BY <1>4, <2>3, <2>6 DEF Deliver, Types, Front, Remove
    <2> QED BY <1>4, <2>7 DEF Deliver, Types, serverVars, envVars
  <1>5. CASE epochTrigger(k)
    <2>1. Repeated(q) \in Seq(Message)
      BY <1>0, AfterTypes, MessageTypes
    <2>2. net' \in [Ends -> Seq(Message)]
      BY <1>5, <2>1, PartTypes DEF epochTrigger
    <2>3. q.silent < EpochLimit => [q EXCEPT !.silent = @ + 1] \in ConnT
      BY <1>0, AfterTypes, MessageTypes
    <2>4. [q EXCEPT !.at = "removeChan"] \in ConnT
      BY <1>0 DEF ConnT
    <2>5. conn' \in [Ends -> ConnT]
      BY <1>5, <2>3, <2>4 DEF epochTrigger, Types
    <2>6. faults' \in [Kinds -> 0 .. MaxFaults]
      <3>1. UNCHANGED faults \/ Fault("hasty")
        BY <1>5 DEF epochTrigger
      <3> QED BY <3>1, PartTypes DEF Types, Kinds
    <2>7. turn' \in [Clients -> Sides]
      BY <1>0, <1>5 DEF epochTrigger, Types
    <2> QED BY <1>5, <2>2, <2>5, <2>6, <2>7 DEF epochTrigger, Types, serverVars, appVars
  <1>6. CASE Lose(k)
    <2>1. net' \in [Ends -> Seq(Message)] /\ faults' \in [Kinds -> 0 .. MaxFaults]
      BY <1>6, PartTypes DEF Lose, Kinds
    <2> QED BY <1>6, <2>1 DEF Lose, Types, serverVars, appVars
  <1> QED BY <1>1, <1>2, <1>3, <1>4, <1>5, <1>6 DEF ServeStep

\* The server's loopServe.
LEMMA ServerTypes ==
  ASSUME Types,
         \/ \E c \in Clients : handleUdpPacket(c) \/ ServerRemove(c) \/ ServerWrite(c) \/ ServerClose(c)
         \/ ServerHandOver \/ ServerCloseAll
  PROVE  Types'
  <1>0. ASSUME NEW todo \in SUBSET Clients, NextToClose(todo)
        PROVE  srv' \in LoopT /\ (srv'.at \in {"recvChan", "sendChan", "closeChan"} => srv'.who \in Clients)
    <2>1. ASSUME NEW c \in todo
          PROVE  LET s == [Loop EXCEPT !.at = "closeChan", !.who = c, !.todo = todo \ {c}]
                 IN s \in LoopT /\ s.who \in Clients
      BY MessageTypes DEF LoopT, Loop
    <2>2. Loop.at = "select"
      BY DEF Loop
    <2> QED BY <1>0, <2>1, <2>2, LoopType DEF NextToClose
  <1>1. ASSUME NEW c \in Clients, handleUdpPacket(c) PROVE Types'
    <2> DEFINE k == Server(c)
               m == Head(net[k])
    <2>0. k \in Ends /\ k[1] = "server"
      BY EndsFacts
    <2>1. m \in Message /\ net' \in [Ends -> Seq(Message)]
      BY <1>1, <2>0, PartTypes DEF handleUdpPacket
    <2>2. CASE m.type = "CONNECT" /\ c \notin connMap /\ Accept(c)
      <3>1. /\ nextConnId \in 0 .. MaxConns /\ connMap' \subseteq Clients /\ nextConnId' \in 1 .. MaxConns + 1
        BY <2>2, LspAssumption DEF Accept, Types
      <3>2. newLspConn(nextConnId) \in ConnT
        BY <3>1, ConnTypes
      <3>3. conn' \in [Ends -> ConnT]
        BY <2>0, <2>2, <3>2 DEF Accept, Types
      <3>4. wrote' \in [Ends -> Nat] /\ \A e \in Ends : wrote'[e] <= MaxWrites[e[1]]
        BY <2>0, <2>2, LspAssumption, SMTT(30) DEF Accept, Types
      <3>5. got' \in [Ends -> Seq(ReadT)]
        BY <2>0, <2>2, SeqTypes DEF Accept, Types
      <3> QED BY <1>1, <2>1, <2>2, <3>1, <3>3, <3>4, <3>5 DEF handleUdpPacket, Accept, Types, envVars
    <2>3. CASE UNCHANGED <<conn, srv, connMap, nextConnId, appVars>>
      BY <1>1, <2>1, <2>3 DEF handleUdpPacket, Types, appVars, envVars
    <2>4. CASE ServerPut(c, "recvChan", m) /\ UNCHANGED <<connMap, nextConnId, appVars>>
      <3>1. /\ conn' \in [Ends -> ConnT] /\ srv' \in LoopT
            /\ (srv'.at \in {"recvChan", "sendChan", "closeChan"} => srv'.who \in Clients)
        BY <2>1, <2>4, PutTypes
      <3> QED BY <1>1, <2>1, <2>4, <3>1 DEF handleUdpPacket, Types, appVars, envVars
    <2>5. CASE /\ srv' = [srv EXCEPT !.at = "panic"]
               /\ conn' = [e \in Ends |-> IF e[1] = "server" THEN [conn[e] EXCEPT !.at = "gone"] ELSE conn[e]]
               /\ UNCHANGED <<connMap, nextConnId, appVars>>
      <3>1. srv' \in LoopT /\ srv'.at = "panic"
        BY <2>5 DEF Types, LoopT
      <3>2. \A e \in Ends : [conn[e] EXCEPT !.at = "gone"] \in ConnT /\ conn[e] \in ConnT
        <4>1. \A q \in ConnT : [q EXCEPT !.at = "gone"] \in ConnT
          BY AfterTypes, MessageTypes
        <4> QED BY <4>1 DEF Types
      <3>3. conn' \in [Ends -> ConnT]
        BY <2>5, <3>2
      <3> QED BY <1>1, <2>1, <2>5, <3>1, <3>3 DEF handleUdpPacket, Types, appVars, envVars
    <2> QED BY <1>1, <2>2, <2>3, <2>4, <2>5 DEF handleUdpPacket
  <1>2. ASSUME NEW c \in Clients, ServerRemove(c) PROVE Types'
    <2>0. Server(c) \in Ends
      BY EndsFacts
    <2>1. conn' \in [Ends -> ConnT]
      <3>1. [conn[Server(c)] EXCEPT !.at = "gone"] \in ConnT
        BY <2>0, PartTypes, AfterTypes, MessageTypes
      <3> QED BY <1>2, <2>0, <3>1 DEF ServerRemove, Types
    <2>2. srv' \in LoopT /\ (srv'.at \in {"recvChan", "sendChan", "closeChan"} => srv'.who \in Clients)
      BY <1>2 DEF ServerRemove, Types, LoopT
    <2>3. connMap' \subseteq Clients
      BY <1>2 DEF ServerRemove, Types
    <2> QED BY <1>2, <2>1, <2>2, <2>3 DEF ServerRemove, Types, appVars, envVars
  <1>3. ASSUME NEW c \in Clients, ServerWrite(c) PROVE Types'
    <2>0. Server(c) \in Ends /\ Server(c)[1] = "server"
      BY EndsFacts
    <2>1. /\ wrote[Server(c)] \in Nat /\ wrote[Server(c)] + 1 <= MaxWrites["server"]
          /\ wrote[Server(c)] + 1 \in 0 .. MaxWrites["client"] + MaxWrites["server"]
      BY <1>3, <2>0, LspAssumption DEF ServerWrite, Types
    <2>2. genDataMsg(conn[Server(c)].connId, wrote[Server(c)] + 1) \in Message
      BY <2>0, <2>1, PartTypes, MessageTypes
    <2>3. /\ conn' \in [Ends -> ConnT] /\ srv' \in LoopT
          /\ (srv'.at \in {"recvChan", "sendChan", "closeChan"} => srv'.who \in Clients)
      BY <1>3, <2>2, PutTypes DEF ServerWrite
    <2>4. wrote' \in [Ends -> Nat] /\ \A e \in Ends : wrote'[e] <= MaxWrites[e[1]]
      BY <1>3, <2>0, <2>1 DEF ServerWrite, Types
    <2> QED BY <1>3, <2>3, <2>4 DEF ServerWrite, Types, envVars
  <1>4. ASSUME NEW c \in Clients, ServerClose(c) PROVE Types'
    <2>1. faults' \in [Kinds -> 0 .. MaxFaults]
      BY <1>4, PartTypes DEF ServerClose, Kinds
    <2>2. srv' \in LoopT /\ srv'.who \in Clients
      BY <1>4 DEF ServerClose, Types, LoopT
    <2> QED BY <1>4, <2>1, <2>2 DEF ServerClose, Types, appVars
  <1>5. CASE ServerHandOver
    <2>1. CASE /\ srv.at \in {"recvChan", "sendChan"} /\ Chan(Server(srv.who), srv.at) = <<>>
               /\ conn' = Filled(Server(srv.who), srv.at, srv.msg) /\ srv' = Loop
      <3>1. srv.who \in Clients /\ srv.msg \in Message
        BY <2>1 DEF Types, LoopT
      <3>2. Server(srv.who) \in Ends
        BY <3>1, EndsFacts
      <3>3. conn' \in [Ends -> ConnT]
        BY <2>1, <3>1, <3>2, PartTypes
      <3>4. srv' \in LoopT /\ srv'.at = "select"
        BY <2>1, LoopType DEF Loop
      <3> QED BY <1>5, <3>3, <3>4 DEF ServerHandOver, Types, appVars, envVars
    <2>2. CASE /\ srv.at = "closeChan"
               /\ conn' = [conn EXCEPT ![Server(srv.who)].closed = TRUE] /\ NextToClose(srv.todo)
      <3>1. srv.who \in Clients /\ srv.todo \in SUBSET Clients
        BY <2>2 DEF Types, LoopT
      <3>2. Server(srv.who) \in Ends
        BY <3>1, EndsFacts
      <3>3. [conn[Server(srv.who)] EXCEPT !.closed = TRUE] \in ConnT
        BY <3>2, PartTypes, AfterTypes, MessageTypes
      <3>4. conn' \in [Ends -> ConnT]
        BY <2>2, <3>2, <3>3 DEF Types
      <3> QED BY <1>0, <1>5, <2>2, <3>1, <3>4 DEF ServerHandOver, Types, appVars, envVars
    <2> QED BY <1>5, <2>1, <2>2 DEF ServerHandOver
  <1>6. CASE ServerCloseAll
    <2>1. faults' \in [Kinds -> 0 .. MaxFaults]
      BY <1>6, PartTypes DEF ServerCloseAll, Kinds
    <2>2. connMap \in SUBSET Clients
      BY DEF Types
    <2> QED BY <1>0, <1>6, <2>1, <2>2 DEF ServerCloseAll, Types, appVars
  <1> QED BY <1>1, <1>2, <1>3, <1>4, <1>5, <1>6

\* A client's loopServe.
LEMMA ClientTypes ==
  ASSUME Types, NEW c \in Clients, ClientLoop(c) \/ ClientWrite(c) \/ ClientClose(c)
  PROVE  Types'
  <1> DEFINE k == Client(c)
  <1>0. k \in Ends /\ k[1] = "client"
    BY EndsFacts
  <1>1. ASSUME NEW m \in Message, NEW done, NoteId(c, m, done) PROVE cliId' \in [Clients -> 0 .. MaxConns]
    BY <1>1 DEF NoteId, Types, Message
  <1>2. CASE ClientRead(c)
    <2>1. Head(net[k]) \in Message /\ net' \in [Ends -> Seq(Message)]
      BY <1>0, <1>2, PartTypes DEF ClientRead
    <2>2. conn' \in [Ends -> ConnT] /\ cli' \in [Clients -> LoopT] /\ \A d \in Clients : cli'[d].at # "panic"
      BY <1>2, <2>1, PutTypes DEF ClientRead
    <2>3. cliId' \in [Clients -> 0 .. MaxConns]
      BY <1>1, <1>2, <2>1 DEF ClientRead
    <2> QED BY <1>2, <2>1, <2>2, <2>3 DEF ClientRead, Types, serverVars, appVars, envVars
  <1>3. CASE ClientHandOver(c)
    <2>1. cli[c].msg \in Message
      BY DEF Types, LoopT
    <2>2. conn' \in [Ends -> ConnT]
      BY <1>0, <1>3, <2>1, PartTypes DEF ClientHandOver
    <2>3. cliId' \in [Clients -> 0 .. MaxConns]
      BY <1>1, <1>3, <2>1 DEF ClientHandOver
    <2>4. cli' \in [Clients -> LoopT] /\ \A d \in Clients : cli'[d].at # "panic"
      <3>1. Loop.at # "panic"
        BY DEF Loop
      <3> QED BY <1>3, <3>1, LoopType DEF ClientHandOver, Types
    <2> QED BY <1>3, <2>2, <2>3, <2>4 DEF ClientHandOver, Types, serverVars, appVars, envVars
  <1>4. CASE ClientRemove(c)
    <2>1. [conn[k] EXCEPT !.at = "gone"] \in ConnT
      BY <1>0, PartTypes, AfterTypes, MessageTypes
    <2>2. conn' \in [Ends -> ConnT]
      BY <1>0, <1>4, <2>1 DEF ClientRemove, Types
    <2>3. [cli[c] EXCEPT !.at = "exit"] \in LoopT /\ [cli[c] EXCEPT !.at = "exit"].at # "panic"
      BY DEF Types, LoopT
    <2>4. cli' \in [Clients -> LoopT] /\ \A d \in Clients : cli'[d].at # "panic"
      BY <1>4, <2>3 DEF ClientRemove, Types
    <2> QED BY <1>4, <2>2, <2>4 DEF ClientRemove, Types, serverVars, appVars, envVars
  <1>5. CASE ClientWrite(c)
    <2>1. /\ wrote[k] \in Nat /\ wrote[k] + 1 <= MaxWrites["client"]
          /\ wrote[k] + 1 \in 0 .. MaxWrites["client"] + MaxWrites["server"]
      BY <1>0, <1>5, LspAssumption DEF ClientWrite, Types
    <2>2. genDataMsg(conn[k].connId, wrote[k] + 1) \in Message
      BY <1>0, <2>1, PartTypes, MessageTypes
    <2>3. conn' \in [Ends -> ConnT] /\ cli' \in [Clients -> LoopT] /\ \A d \in Clients : cli'[d].at # "panic"
      BY <1>5, <2>2, PutTypes DEF ClientWrite
    <2>4. wrote' \in [Ends -> Nat] /\ \A e \in Ends : wrote'[e] <= MaxWrites[e[1]]
      BY <1>0, <1>5, <2>1 DEF ClientWrite, Types
    <2> QED BY <1>5, <2>3, <2>4 DEF ClientWrite, Types, serverVars, envVars
  <1>6. CASE ClientClose(c)
    <2>1. faults' \in [Kinds -> 0 .. MaxFaults]
      BY <1>6, PartTypes DEF ClientClose, Kinds
    <2>2. [cli[c] EXCEPT !.at = "closeChan"] \in LoopT /\ [cli[c] EXCEPT !.at = "closeChan"].at # "panic"
      BY DEF Types, LoopT
    <2>3. cli' \in [Clients -> LoopT] /\ \A d \in Clients : cli'[d].at # "panic"
      BY <1>6, <2>2 DEF ClientClose, Types
    <2> QED BY <1>6, <2>1, <2>3 DEF ClientClose, Types, serverVars, appVars
  <1> QED BY <1>2, <1>3, <1>4, <1>5, <1>6 DEF ClientLoop

\* Every step keeps the types.
LEMMA TypesStep == Types /\ [Next]_vars => Types'
  <1> SUFFICES ASSUME Types, [Next]_vars PROVE Types'
    OBVIOUS
  <1>1. ASSUME NEW k \in Ends, ServeStep(k) \/ Deliver(k) \/ epochTrigger(k) \/ Lose(k) PROVE Types'
    BY <1>1, EndTypes
  <1>2. ASSUME NEW c \in Clients, ClientLoop(c) \/ Application(c) PROVE Types'
    BY <1>2, ClientTypes, ServerTypes DEF Application
  <1>3. CASE ServerLoop \/ ServerCloseAll
    BY <1>3, ServerTypes DEF ServerLoop
  <1>4. CASE UNCHANGED vars
    BY <1>4 DEF vars, Types
  <1> QED BY <1>1, <1>2, <1>3, <1>4 DEF Next

\* Types is TypeOK and more.
LEMMA TypesMeans == Types => TypeOK
  <1> SUFFICES ASSUME Types PROVE TypeOK
    OBVIOUS
  <1>1. ASSUME NEW k \in Ends
        PROVE  /\ conn[k].at \in {"serve", "removeChan", "writeDone", "gone"}
               /\ conn[k].connId \in 0 .. MaxConns /\ conn[k].silent \in 0 .. EpochLimit
               /\ conn[k].sendBuf \in Seq(Message) /\ conn[k].recvBuf \in Seq(Message)
               /\ Len(conn[k].sendChan) <= 1 /\ conn[k].sendChan \in Seq(Message)
               /\ Len(conn[k].recvChan) <= 1 /\ conn[k].recvChan \in Seq(Message)
               /\ {conn[k].nextRecvSeqNum, conn[k].nextSendSeqNum} \subseteq 0 .. SeqMod - 1
               /\ conn[k].lastAck \in Message /\ conn[k].closed \in BOOLEAN
               /\ net[k] \in Seq(Message) /\ wrote[k] \in 0 .. MaxWrites[k[1]]
    <2>1. conn[k] \in ConnT /\ net[k] \in Seq(Message) /\ wrote[k] \in Nat /\ wrote[k] <= MaxWrites[k[1]]
      BY DEF Types
    <2>2. MaxWrites[k[1]] \in Nat
      BY LspAssumption, EndsFacts DEF Sides
    <2> QED BY <2>1, <2>2 DEF ConnT
  <1>2. srv.at \in {"select", "recvChan", "sendChan", "closeChan", "panic", "exit"} /\ srv.msg \in Message
    BY DEF Types, LoopT
  <1>3. \A c \in Clients : /\ cli[c].at \in {"select", "recvChan", "sendChan", "closeChan", "exit"}
                            /\ cli[c].msg \in Message /\ cliId[c] \in 0 .. MaxConns
    BY DEF Types, LoopT
  <1> QED BY <1>1, <1>2, <1>3 DEF Types, TypeOK, Kinds

\* The state of the lsp package has its type, for any number of clients, payloads and faults.
THEOREM LspTypeCorrect == Spec => []TypeOK
  <1>1. Spec => []Types
    BY TypesInit, TypesStep, PTL DEF Spec
  <1> QED BY <1>1, TypesMeans, PTL

(***************************************************************************)
(* The system.  met are the addresses the server has had in connMap, a     *)
(* history of the behaviour: Once says that it accepts each once.          *)
(***************************************************************************)
VARIABLE met

\* The server enters into connMap only an address it has not met.  Every behaviour of Spec that
\* enters each address once at most has such a history, and no other has.
Once == met' = met \cup connMap' /\ (connMap' \ connMap) \cap met = {}
OnceSpec == Spec /\ met = {} /\ [][Once]_<<connMap, met>>

\* The message loopServe waits with for a channel of k.
Waiting(k, chan) ==
    IF k[1] = "server" THEN (IF srv.at = chan /\ srv.who = k[2] THEN <<srv.msg>> ELSE <<>>)
                       ELSE (IF cli[k[2]].at = chan THEN <<cli[k[2]].msg>> ELSE <<>>)

\* What is on the way to k, the next first.
In(k) == conn[k].recvChan \o (Waiting(k, "recvChan") \o net[k])

\* The end of the server for a client it has not met.
IsFresh(k) == k[1] = "server" /\ k[2] \notin met

\* The end k as its streams depend on it.
View(k) ==
    [side |-> k[1], fresh |-> IsFresh(k), buf |-> conn[k].sendBuf, rbuf |-> conn[k].recvBuf, read |-> got[k],
     in |-> In(k), chan |-> conn[k].sendChan, wait |-> Waiting(k, "sendChan"), closed |-> conn[k].closed,
     nextSend |-> conn[k].nextSendSeqNum, nextRecv |-> conn[k].nextRecvSeqNum, lastAck |-> conn[k].lastAck,
     wrote |-> wrote[k]]

\* Each connection has two streams, the fronts of which are f and g.
Streams == \A k \in Ends : \E f, g \in Nat : Pair(View(k), View(Peer(k)), f, g)

\* The server's loopServe waits only for clients it has met, and an end of a client that it has
\* not met is as it was made.
Met ==
    /\ connMap \subseteq met /\ srv.todo \subseteq met
    /\ srv.at \in {"recvChan", "sendChan", "closeChan"} => srv.who \in met
    /\ \A c \in Clients : c \notin met => conn[Server(c)] = NoConn /\ got[Server(c)] = <<>> /\ wrote[Server(c)] = 0

\* The inductive invariant.
Inv == Types /\ Met /\ Streams

\* loopServe waits with at most one message for an end.
LEMMA WaitingTypes == Types => \A k \in Ends : \A chan : Waiting(k, chan) \in Short
  <1> SUFFICES ASSUME Types, NEW k \in Ends, NEW chan PROVE Waiting(k, chan) \in Short
    OBVIOUS
  <1>1. k[2] \in Clients
    BY EndsFacts
  <1>2. srv.msg \in Message /\ cli[k[2]].msg \in Message
    BY <1>1 DEF Types, LoopT
  <1> QED BY <1>2, ShortFacts DEF Waiting

\* The view of every end is a view.
LEMMA ViewTypes == Types => \A k \in Ends : View(k) \in ViewT /\ In(k) \in Seq(Message)
  <1> SUFFICES ASSUME Types, NEW k \in Ends PROVE View(k) \in ViewT /\ In(k) \in Seq(Message)
    OBVIOUS
  <1>1. conn[k] \in ConnT /\ got[k] \in Seq(ReadT) /\ wrote[k] \in Nat /\ net[k] \in Seq(Message) /\ k[1] \in Sides
    BY EndsFacts DEF Types
  <1>2. Waiting(k, "sendChan") \in Short /\ Waiting(k, "recvChan") \in Seq(Message) /\ IsFresh(k) \in BOOLEAN
    BY WaitingTypes DEF Short, IsFresh
  <1>3. /\ conn[k].sendBuf \in Seq(Message) /\ conn[k].recvBuf \in Seq(Message) /\ conn[k].sendChan \in Short
        /\ conn[k].recvChan \in Seq(Message) /\ conn[k].closed \in BOOLEAN /\ conn[k].nextSendSeqNum \in Nat
        /\ conn[k].nextRecvSeqNum \in Nat /\ conn[k].lastAck \in Message
    <2>1. conn[k].nextSendSeqNum \in 0 .. SeqMod - 1 /\ conn[k].nextRecvSeqNum \in 0 .. SeqMod - 1
      BY <1>1 DEF ConnT
    <2>2. conn[k].nextSendSeqNum \in Nat /\ conn[k].nextRecvSeqNum \in Nat
      BY <2>1, LspAssumption
    <2> QED BY <1>1, <2>2 DEF ConnT, Short
  <1>4. In(k) \in Seq(Message)
    BY <1>1, <1>2, <1>3 DEF In
  <1> QED BY <1>1, <1>2, <1>3, <1>4 DEF View, ViewT

\* The view of an end, field by field.
LEMMA ViewFields ==
  ASSUME NEW k
  PROVE  LET x == View(k) IN
         /\ x.side = k[1] /\ x.fresh = IsFresh(k) /\ x.buf = conn[k].sendBuf /\ x.rbuf = conn[k].recvBuf /\ x.read = got[k]
         /\ x.in = In(k) /\ x.chan = conn[k].sendChan /\ x.wait = Waiting(k, "sendChan") /\ x.closed = conn[k].closed
         /\ x.nextSend = conn[k].nextSendSeqNum /\ x.nextRecv = conn[k].nextRecvSeqNum /\ x.lastAck = conn[k].lastAck
         /\ x.wrote = wrote[k]
  BY DEF View

\* ViewTypes, for the state after a step.
LEMMA ViewTypesNext == Types' => \A k \in Ends : View(k)' \in ViewT
  <1>1. Types => \A k \in Ends : View(k) \in ViewT
    BY ViewTypes
  <1>2. Types' => (\A k \in Ends : View(k) \in ViewT)'
    BY <1>1, PTL
  <1> QED BY <1>2

\* A step that concerns one connection.
LEMMA OneConnection ==
  ASSUME Streams, NEW k \in Ends, \A e \in Ends : e[2] # k[2] => View(e)' = View(e),
         \E f, g \in Nat : Pair(View(k)', View(Peer(k))', f, g)
  PROVE  Streams'
  <1> SUFFICES ASSUME NEW e \in Ends PROVE \E f, g \in Nat : Pair(View(e)', View(Peer(e))', f, g)
    BY DEF Streams
  <1>1. Peer(e) \in Ends /\ Peer(e)[2] = e[2] /\ Peer(Peer(k)) = k
    BY EndsFacts
  <1>2. CASE e[2] # k[2]
    BY <1>1, <1>2 DEF Streams
  <1>3. CASE e = k
    BY <1>3
  <1>4. CASE e = Peer(k)
    <2>1. PICK f \in Nat, g \in Nat : Pair(View(k)', View(Peer(k))', f, g)
      OBVIOUS
    <2>2. Pair(View(Peer(k))', View(k)', g, f)
      BY <2>1, PairSwap
    <2> QED BY <1>1, <1>4, <2>2
  <1>5. e[2] # k[2] \/ e = k \/ e = Peer(k)
    BY DEF Ends, Sides, Peer
  <1> QED BY <1>2, <1>3, <1>4, <1>5

\* A step that changes the view of one end only.
LEMMA OneEnd ==
  ASSUME Streams, NEW k \in Ends, \A e \in Ends : e # k => View(e)' = View(e),
         \E f, g \in Nat : Pair(View(k)', View(Peer(k)), f, g)
  PROVE  Streams'
  <1>1. Peer(k) \in Ends /\ Peer(k) # k /\ Peer(k)[2] = k[2]
    BY EndsFacts
  <1>2. View(Peer(k))' = View(Peer(k)) /\ \A e \in Ends : e[2] # k[2] => View(e)' = View(e)
    BY <1>1
  <1> QED BY <1>2, OneConnection

\* A step that changes no view.
LEMMA NoConnection == ASSUME Streams, \A e \in Ends : View(e)' = View(e) PROVE Streams'
  <1>1. \A e \in Ends : Peer(e) \in Ends
    BY EndsFacts
  <1> QED BY <1>1 DEF Streams

\* x may send the packets ms: none, one or two.
Posts(x, f, ms) ==
    \/ ms = <<>>
    \/ /\ ~x.fresh /\ ~AckFirst(x)
       /\ \E a \in Message : /\ Fits(x, f, a)
                             /\ ms = <<a>> \/ \E b \in Message : Fits(x, f, b) /\ ms = <<a, b>>

\* What an end may send disturbs no stream.
LEMMA PairPosts ==
  ASSUME NEW x \in ViewT, NEW y \in ViewT, NEW f \in Nat, NEW g \in Nat, Pair(x, y, f, g), NEW ms, Posts(x, f, ms),
         NEW z \in ViewT, z.in = y.in \o ms, SameOut(z, y), SameIn(z, y)
  PROVE  Pair(x, z, f, g)
  <1>0. y.in \in Seq(Message)
    BY ViewFacts
  <1>1. CASE ms = <<>>
    <2>2. z.in = y.in
      BY <1>0, <1>1
    <2>3. Sub(y.in, y.in)
      <3>1. [i \in 1 .. Len(y.in) |-> i] \in [1 .. Len(y.in) -> 1 .. Len(y.in)]
        OBVIOUS
      <3> QED BY <1>0, <3>1 DEF Sub
    <2> QED BY <1>0, <2>2, <2>3, PairSkip
  <1>2. CASE ~x.fresh /\ ~AckFirst(x) /\ \E a \in Message : Fits(x, f, a) /\ ms = <<a>>
    <2>1. PICK a \in Message : Fits(x, f, a) /\ ms = <<a>>
      BY <1>2
    <2>2. y.in \o <<a>> = Append(y.in, a)
      BY <1>0
    <2> QED BY <1>2, <2>1, <2>2, PairPost
  <1>3. CASE ~x.fresh /\ ~AckFirst(x) /\ \E a, b \in Message : Fits(x, f, a) /\ Fits(x, f, b) /\ ms = <<a, b>>
    <2>1. PICK a \in Message, b \in Message : Fits(x, f, a) /\ Fits(x, f, b) /\ ms = <<a, b>>
      BY <1>3
    <2> DEFINE u == [y EXCEPT !.in = Append(@, a)]
    <2>2. Append(y.in, a) \in Seq(Message)
      BY <1>0
    <2>3. /\ u \in ViewT /\ u.in = Append(y.in, a)
          /\ u.side = y.side /\ u.fresh = y.fresh /\ u.buf = y.buf /\ u.chan = y.chan /\ u.wait = y.wait
          /\ u.closed = y.closed /\ u.nextSend = y.nextSend /\ u.wrote = y.wrote
          /\ u.rbuf = y.rbuf /\ u.read = y.read /\ u.nextRecv = y.nextRecv /\ u.lastAck = y.lastAck
      BY <2>2 DEF ViewT
    <2> HIDE DEF u
    <2>4. SameOut(u, y) /\ SameIn(u, y)
      BY <2>3 DEF SameOut, SameIn
    <2>5. Pair(x, u, f, g)
      BY <1>3, <2>1, <2>3, <2>4, PairPost
    <2>6. z.in = Append(u.in, b)
      <3>1. y.in \o <<a, b>> = Append(Append(y.in, a), b)
        BY <1>0
      <3> QED BY <2>1, <2>3, <3>1
    <2>7. SameOut(z, u) /\ SameIn(z, u)
      BY <2>3 DEF SameOut, SameIn
    <2> QED BY <1>3, <2>1, <2>3, <2>5, <2>6, <2>7, PairPost
  <1> QED BY <1>1, <1>2, <1>3 DEF Posts

\* x is the view of k if its connection were q and it had read that.
Shows(x, k, q, read) ==
    /\ x.side = k[1] /\ x.fresh = IsFresh(k) /\ x.buf = q.sendBuf /\ x.rbuf = q.recvBuf /\ x.read = read
    /\ x.in = q.recvChan \o (Waiting(k, "recvChan") \o net[k])
    /\ x.chan = q.sendChan /\ x.wait = Waiting(k, "sendChan") /\ x.closed = q.closed
    /\ x.nextSend = q.nextSendSeqNum /\ x.nextRecv = q.nextRecvSeqNum /\ x.lastAck = q.lastAck /\ x.wrote = wrote[k]

\* A view shows the connection it is the view of.
LEMMA ViewShows == ASSUME NEW k PROVE Shows(View(k), k, conn[k], got[k])
  BY DEF Shows, View, In

\* A step of serve at k, after which k is q: the other end finds ms on its way.
EndMoves(k, q, ms) ==
    /\ \A e \in Ends : e[2] # k[2] => View(e)' = View(e)
    /\ LET y == View(Peer(k)) IN y'.in = y.in \o ms /\ SameOut(y', y) /\ SameIn(y', y)
    /\ Shows(View(k)', k, q, got'[k])

\* A step of the goroutine of k leaves every other view as it is, but for the packets it sends to the peer.
LEMMA EndStep ==
  ASSUME Types, NEW k \in Ends, NEW q, NEW ms \in Seq(Message), UNCHANGED <<srv, cli, met, wrote>>,
         conn' = [conn EXCEPT ![k] = q], net' = [net EXCEPT ![Peer(k)] = @ \o ms],
         got' = [got EXCEPT ![k] = got'[k]]
  PROVE  EndMoves(k, q, ms)
  <1>1. Peer(k) \in Ends /\ Peer(k) # k /\ Peer(k)[2] = k[2]
    BY EndsFacts
  <1>2. \A e \in Ends : \A chan : Waiting(e, chan)' = Waiting(e, chan)
    BY DEF Waiting
  <1>3. \A e \in Ends : IsFresh(e)' = IsFresh(e)
    BY DEF IsFresh
  <1>4. \A e \in Ends : (e # k => conn'[e] = conn[e] /\ got'[e] = got[e]) /\ (e # Peer(k) => net'[e] = net[e])
    BY DEF Types
  <1>5. conn'[k] = q /\ net'[Peer(k)] = net[Peer(k)] \o ms
    BY <1>1 DEF Types
  <1>6. \A e \in Ends : e[2] # k[2] => View(e)' = View(e)
    <2> TAKE e \in Ends
    <2> HAVE e[2] # k[2]
    <2>1. e # k /\ e # Peer(k)
      BY <1>1
    <2>2. In(e)' = In(e)
      BY <1>2, <1>4, <2>1 DEF In
    <2> QED BY <1>2, <1>3, <1>4, <2>1, <2>2 DEF View
  <1>7. In(Peer(k))' = In(Peer(k)) \o ms
    <2> DEFINE a == conn[Peer(k)].recvChan
               b == Waiting(Peer(k), "recvChan")
               n == net[Peer(k)]
    <2>1. a \in Seq(Message) /\ b \in Seq(Message) /\ n \in Seq(Message)
      BY <1>1, WaitingTypes DEF Types, ConnT, Short
    <2>2. In(Peer(k))' = a \o (b \o (n \o ms)) /\ In(Peer(k)) = a \o (b \o n)
      BY <1>1, <1>2, <1>4, <1>5 DEF In
    <2> HIDE DEF a, b, n
    <2>3. b \o (n \o ms) = (b \o n) \o ms /\ b \o n \in Seq(Message)
      BY ONLY <2>1, ms \in Seq(Message), ConcatAssociative, ConcatProperties, SMTT(30)
    <2>4. a \o ((b \o n) \o ms) = (a \o (b \o n)) \o ms
      <3>1. PICK s \in Seq(Message), t \in Seq(Message) : s = b \o n /\ t = a
        BY <2>1, <2>3
      <3>2. (t \o s) \o ms = t \o (s \o ms)
        BY ONLY ConcatAssociative, ms \in Seq(Message), s \in Seq(Message), t \in Seq(Message)
      <3> QED BY ONLY <3>1, <3>2
    <2> QED BY <2>2, <2>3, <2>4
  <1>8. LET y == View(Peer(k)) IN y'.in = y.in \o ms /\ SameOut(y', y) /\ SameIn(y', y)
    BY <1>1, <1>2, <1>3, <1>4, <1>7 DEF View, SameOut, SameIn
  <1>9. In(k)' = q.recvChan \o (Waiting(k, "recvChan") \o net[k])
    BY <1>1, <1>2, <1>4, <1>5 DEF In
  <1>10. Shows(View(k)', k, q, got'[k])
    BY <1>2, <1>3, <1>5, <1>9 DEF View, Shows
  <1> QED BY <1>6, <1>8, <1>10 DEF EndMoves

\* A step of serve at k: the streams after it, from those when the packets it sends are still to be sent.
LEMMA EndStreams ==
  ASSUME Types, Types', Streams, NEW k \in Ends, NEW ms,
         NEW q, EndMoves(k, q, ms),
         \E f, g \in Nat : Pair(View(k)', View(Peer(k)), f, g) /\ Posts(View(k)', f, ms)
  PROVE  Streams'
  <1>1. View(k)' \in ViewT /\ View(Peer(k)) \in ViewT /\ View(Peer(k))' \in ViewT
    BY ViewTypes, ViewTypesNext, EndsFacts
  <1>2. PICK f \in Nat, g \in Nat : Pair(View(k)', View(Peer(k)), f, g) /\ Posts(View(k)', f, ms)
    OBVIOUS
  <1>3. PICK x \in ViewT, y \in ViewT, z \in ViewT : x = View(k)' /\ y = View(Peer(k)) /\ z = View(Peer(k))'
    BY <1>1
  <1>4. Pair(x, z, f, g)
    <2>1. Pair(x, y, f, g) /\ Posts(x, f, ms) /\ z.in = y.in \o ms /\ SameOut(z, y) /\ SameIn(z, y)
      BY <1>2, <1>3 DEF EndMoves
    <2> QED BY ONLY <2>1, PairPosts, x \in ViewT, y \in ViewT, z \in ViewT, f \in Nat, g \in Nat
  <1>5. \A e \in Ends : e[2] # k[2] => View(e)' = View(e)
    BY DEF EndMoves
  <1> QED BY <1>3, <1>4, <1>5, OneConnection

\* An end that runs has been met.
LEMMA ServingIsMet == ASSUME Inv, NEW k \in Ends, Serving(k) PROVE ~IsFresh(k)
  <1> SUFFICES ASSUME k[1] = "server", k[2] \notin met PROVE FALSE
    BY DEF IsFresh
  <1>1. k[2] \in Clients /\ k = Server(k[2])
    BY EndsFacts DEF Client
  <1>2. conn[k] = NoConn
    BY <1>1 DEF Inv, Met
  <1>3. NoConn.at = "gone"
    BY DEF NoConn, newLspConn
  <1> QED BY <1>2, <1>3 DEF Serving

(***************************************************************************)
(* The steps of lspConn.serve.                                             *)
(***************************************************************************)
\* An application that reads keeps the streams: the front of recvBuf is the next payload.
LEMMA FlowDeliver == ASSUME Inv, Types', NEW k \in Ends, Deliver(k), UNCHANGED met PROVE Streams'
  <1> DEFINE q == conn[k]
             m == Head(q.recvBuf)
             a == [id |-> m.connId, payload |-> m.payload]
             c == [q EXCEPT !.recvBuf = Tail(@)]
  <1>0. Types /\ Streams /\ q \in ConnT /\ Peer(k) \in Ends
    BY EndsFacts DEF Inv, Types
  <1>1. /\ q.recvBuf # <<>> /\ conn' = [conn EXCEPT ![k] = c] /\ got' = [got EXCEPT ![k] = Append(@, a)]
        /\ UNCHANGED <<srv, cli, met, wrote, net>>
    BY DEF Deliver, Empty, Front, Remove, serverVars
  <1>2. q.recvBuf \in Seq(Message) /\ m \in Message
    BY <1>0, <1>1, SeqTypes DEF ConnT
  <1>3. a \in ReadT /\ a.payload = m.payload
    BY <1>2 DEF Message, ReadT
  <1>4. PICK x \in ViewT, y \in ViewT, z \in ViewT : x = View(k) /\ y = View(Peer(k)) /\ z = View(k)'
    BY <1>0, ViewTypes, ViewTypesNext
  <1>5. PICK f \in Nat, g \in Nat : Pair(x, y, f, g)
    BY <1>0, <1>4 DEF Streams
  <1>6. /\ c.sendBuf = q.sendBuf /\ c.recvBuf = Tail(q.recvBuf) /\ c.sendChan = q.sendChan /\ c.recvChan = q.recvChan
        /\ c.closed = q.closed /\ c.nextSendSeqNum = q.nextSendSeqNum /\ c.nextRecvSeqNum = q.nextRecvSeqNum
        /\ c.lastAck = q.lastAck
    BY <1>0 DEF ConnT
  <1>7. net' = [net EXCEPT ![Peer(k)] = @ \o <<>>] /\ <<>> \in Seq(Message)
    BY <1>0, <1>1 DEF Types
  <1>8. got' = [got EXCEPT ![k] = got'[k]] /\ got'[k] = Append(got[k], a)
    BY <1>0, <1>1 DEF Types
  <1> HIDE DEF c
  <1>9. EndMoves(k, c, <<>>)
    BY <1>0, <1>1, <1>7, <1>8, EndStep
  <1>10. Shows(x, k, q, got[k]) /\ Shows(z, k, c, got'[k])
    BY <1>4, <1>9, ViewShows DEF EndMoves
  <1> HIDE DEF q, a, m
  <1>11. Pair(z, y, f, g)
    <2>1. SameOut(z, x) /\ z.in = x.in /\ z.nextRecv = x.nextRecv /\ z.lastAck = x.lastAck
      BY <1>6, <1>10 DEF Shows, SameOut
    <2>2. z.rbuf = Tail(x.rbuf) /\ z.read = Append(x.read, a) /\ x.rbuf # <<>> /\ a.payload = Head(x.rbuf).payload
      BY <1>1, <1>3, <1>6, <1>8, <1>10 DEF Shows, m
    <2> QED BY <1>3, <1>5, <2>1, <2>2, PairDeliver
  <1>12. Posts(z, f, <<>>)
    BY DEF Posts
  <1> QED BY <1>0, <1>4, <1>9, <1>11, <1>12, EndStreams

\* What the steps of serve have in common.
LEMMA EndFacts ==
  ASSUME Inv, Types', NEW k \in Ends, Serving(k), NEW c, NEW ms \in Seq(Message), UNCHANGED <<srv, cli, met, wrote, got>>,
         conn' = [conn EXCEPT ![k] = c], net' = [net EXCEPT ![Peer(k)] = @ \o ms]
  PROVE  /\ EndMoves(k, c, ms)
         /\ \E x, y, z \in ViewT : \E f, g \in Nat :
               /\ x = View(k) /\ y = View(Peer(k)) /\ z = View(k)' /\ Pair(x, y, f, g) /\ ~x.fresh
               /\ Shows(x, k, conn[k], got[k]) /\ Shows(z, k, c, got[k])
  <1>0. Types /\ Streams /\ Peer(k) \in Ends
    BY EndsFacts DEF Inv
  <1>1. got' = [got EXCEPT ![k] = got'[k]]
    BY <1>0 DEF Types
  <1>2. EndMoves(k, c, ms)
    BY <1>0, <1>1, EndStep
  <1>3. PICK x \in ViewT, y \in ViewT, z \in ViewT : x = View(k) /\ y = View(Peer(k)) /\ z = View(k)'
    BY <1>0, ViewTypes, ViewTypesNext
  <1>4. PICK f \in Nat, g \in Nat : Pair(x, y, f, g)
    BY <1>0, <1>3 DEF Streams
  <1>5. Shows(x, k, conn[k], got[k]) /\ Shows(z, k, c, got[k])
    BY <1>2, <1>3, ViewShows DEF EndMoves
  <1>6. ~x.fresh
    BY <1>5, ServingIsMet DEF Shows
  <1> QED BY <1>2, <1>3, <1>4, <1>5, <1>6

\* send keeps the streams: a payload goes to the end of sendBuf with the next number.
LEMMA FlowSend == ASSUME Inv, Types', NEW k \in Ends, Send(k), UNCHANGED met PROVE Streams'
  <1> DEFINE q == conn[k]
             m == Head(q.sendChan)
             p == [q EXCEPT !.sendChan = <<>>]
             c == IF p.closed THEN p ELSE AfterSend(p, m)
             ms == IF p.closed THEN <<>> ELSE IF m.type = "DATA" THEN <<Front(c.sendBuf)>> ELSE <<m>>
  <1>0. Types /\ Streams /\ q \in ConnT /\ p \in ConnT /\ Serving(k)
    BY PartTypes DEF Inv, Types, Send
  <1>1. /\ q.sendChan # <<>> /\ conn' = [conn EXCEPT ![k] = c] /\ net' = [net EXCEPT ![Peer(k)] = @ \o ms]
        /\ UNCHANGED <<srv, cli, met, wrote, got>>
    BY DEF Send, udpWrite, serverVars, appVars
  <1>2. q.sendChan \in Seq(Message) /\ m \in Message
    BY <1>0, <1>1, SeqTypes DEF ConnT
  <1>3. /\ p.sendBuf = q.sendBuf /\ p.recvBuf = q.recvBuf /\ p.sendChan = <<>> /\ p.recvChan = q.recvChan
        /\ p.closed = q.closed /\ p.nextSendSeqNum = q.nextSendSeqNum /\ p.nextRecvSeqNum = q.nextRecvSeqNum
        /\ p.lastAck = q.lastAck
    BY <1>0 DEF ConnT
  <1>4. c \in ConnT
    BY <1>0, <1>2, AfterTypes
  <1>5. ms \in Seq(Message)
    <2> HIDE DEF p
    <2>1. c.sendBuf \in Seq(Message)
      BY <1>4 DEF ConnT
    <2>2. ~p.closed /\ m.type = "DATA" => c.sendBuf = Append(p.sendBuf, [m EXCEPT !.seq = p.nextSendSeqNum])
      BY <1>0 DEF AfterSend, Insert, ConnT
    <2>3. [m EXCEPT !.seq = p.nextSendSeqNum] \in Message
      BY <1>0, <1>2 DEF ConnT, Message
    <2>4. ~p.closed /\ m.type = "DATA" => c.sendBuf # <<>>
      <3>1. p.sendBuf \in Seq(Message)
        BY <1>0 DEF ConnT
      <3>2. Append(p.sendBuf, [m EXCEPT !.seq = p.nextSendSeqNum]) # <<>>
        BY <2>3, <3>1
      <3> QED BY <2>2, <3>2
    <2> HIDE DEF c, m
    <2> QED BY <1>2, <2>1, <2>4, SeqTypes DEF Front
  <1>6. /\ EndMoves(k, c, ms)
        /\ \E x, y, z \in ViewT : \E f, g \in Nat :
               /\ x = View(k) /\ y = View(Peer(k)) /\ z = View(k)' /\ Pair(x, y, f, g) /\ ~x.fresh
               /\ Shows(x, k, q, got[k]) /\ Shows(z, k, c, got[k])
    <2> HIDE DEF c, ms
    <2> QED BY <1>0, <1>1, <1>5, EndFacts
  <1>7. PICK x \in ViewT, y \in ViewT, z \in ViewT, f \in Nat, g \in Nat :
               /\ x = View(k) /\ y = View(Peer(k)) /\ z = View(k)' /\ Pair(x, y, f, g) /\ ~x.fresh
               /\ Shows(x, k, q, got[k]) /\ Shows(z, k, c, got[k])
    BY <1>6
  <1> HIDE DEF q, p, m
  <1>8. x.chan # <<>> /\ Head(x.chan) = m /\ (AckFirst(x) <=> m.type = "ACK")
    BY <1>1, <1>7 DEF Shows, AckFirst, m
  <1>9. CASE x.closed \/ AckFirst(x)
    <2>1. c = p
      BY <1>3, <1>7, <1>8, <1>9 DEF Shows, AfterSend
    <2>2. ms = IF x.closed THEN <<>> ELSE <<m>>
      BY <1>3, <1>7, <1>8, <1>9 DEF Shows
    <2> HIDE DEF c, ms
    <2>3. /\ z.chan = <<>> /\ z.in = x.in /\ SameIn(z, x) /\ z.side = x.side /\ z.fresh = x.fresh /\ z.buf = x.buf
          /\ z.wait = x.wait /\ z.closed = x.closed /\ z.nextSend = x.nextSend /\ z.wrote = x.wrote
      BY <1>3, <1>7, <2>1 DEF Shows, SameIn
    <2>4. Pair(z, y, f, g) /\ ~z.fresh /\ ~AckFirst(z) /\ (AckFirst(x) => Fits(z, f, m))
      BY <1>7, <1>8, <1>9, <2>3, PairTaken
    <2>5. Posts(z, f, ms)
      BY <1>2, <1>9, <2>2, <2>4 DEF Posts
    <2> QED BY <1>0, <1>6, <1>7, <2>4, <2>5, EndStreams
  <1>10. CASE ~x.closed /\ ~AckFirst(x)
    <2>1. m.type \in {"CONNECT", "DATA"}
      BY <1>7, <1>8, <1>10, PairNext DEF Unnumbered
    <2> DEFINE d == IF m.type = "CONNECT" THEN m ELSE [m EXCEPT !.seq = x.nextSend]
               s == IF m.type = "CONNECT" THEN x.nextSend ELSE (x.nextSend + 1) % SeqMod
    <2>2. c = AfterSend(p, m) /\ ms = IF m.type = "DATA" THEN <<Front(c.sendBuf)>> ELSE <<m>>
      BY <1>3, <1>7, <1>10 DEF Shows
    <2>3. /\ c.sendBuf = Append(q.sendBuf, d) /\ c.nextSendSeqNum = s /\ c.recvBuf = q.recvBuf /\ c.sendChan = <<>>
          /\ c.recvChan = q.recvChan /\ c.closed = q.closed /\ c.nextRecvSeqNum = q.nextRecvSeqNum /\ c.lastAck = q.lastAck
      <3>1. x.nextSend = q.nextSendSeqNum
        BY <1>7 DEF Shows
      <3>2. CASE m.type = "CONNECT"
        <4>1. c = [p EXCEPT !.sendBuf = Append(@, m)]
          BY <2>2, <3>2 DEF AfterSend, Insert
        <4> HIDE DEF c
        <4> QED BY <1>0, <1>3, <3>1, <3>2, <4>1 DEF ConnT
      <3>3. CASE m.type = "DATA"
        <4>1. c = [p EXCEPT !.sendBuf = Append(@, [m EXCEPT !.seq = p.nextSendSeqNum]), !.nextSendSeqNum = (@ + 1) % SeqMod]
          BY <2>2, <3>3 DEF AfterSend, Insert
        <4> HIDE DEF c
        <4> QED BY <1>0, <1>3, <3>1, <3>3, <4>1 DEF ConnT
      <3> QED BY <2>1, <3>2, <3>3
    <2> HIDE DEF c, d, s
    <2>4. /\ z.chan = <<>> /\ z.in = x.in /\ SameIn(z, x) /\ z.side = x.side /\ z.fresh = x.fresh /\ z.buf = Append(x.buf, d)
          /\ z.wait = x.wait /\ z.closed = x.closed /\ z.nextSend = s /\ z.wrote = x.wrote
      BY <1>7, <2>3 DEF Shows, SameIn
    <2>5. Pair(z, y, f, g) /\ ~z.fresh /\ ~AckFirst(z) /\ z.buf # <<>> /\ (m.type = "CONNECT" => m = Head(z.buf))
      <3>1. /\ d = IF m.type = "CONNECT" THEN m ELSE [m EXCEPT !.seq = x.nextSend]
            /\ s = IF m.type = "CONNECT" THEN x.nextSend ELSE (x.nextSend + 1) % SeqMod
        BY DEF d, s
      <3> QED BY ONLY <1>7, <1>8, <1>10, <2>4, <3>1, PairQueue, SMTT(30)
    <2>6. Head(z.buf) \in Message /\ Fits(z, f, Head(z.buf))
      BY <2>5, PairFits
    <2>7. ms = <<Head(z.buf)>>
      BY <1>7, <2>1, <2>2, <2>5 DEF Shows, Front
    <2>8. Posts(z, f, ms)
      BY <2>5, <2>6, <2>7 DEF Posts
    <2> HIDE DEF ms
    <2> QED BY <1>0, <1>6, <1>7, <2>5, <2>8, EndStreams
  <1> QED BY <1>9, <1>10

\* Equal views form the same pair.
LEMMA PairSame ==
  ASSUME NEW x \in ViewT, NEW y \in ViewT, NEW f \in Nat, NEW g \in Nat, Pair(x, y, f, g),
         NEW z \in ViewT, z.in = x.in, SameOut(z, x), SameIn(z, x)
  PROVE  Pair(z, y, f, g)
  <1>1. Pair(y, x, g, f) /\ Posts(y, g, <<>>)
    BY PairSwap DEF Posts
  <1>2. z.in = x.in \o <<>>
    BY ViewFacts
  <1>3. Pair(y, z, g, f)
    BY <1>1, <1>2, PairPosts
  <1> QED BY <1>3, PairSwap

\* serve takes what recvChan holds.
LEMMA TakeFirst ==
  ASSUME NEW m \in Message, NEW s \in Seq(Message)
  PROVE  <<m>> \o s # <<>> /\ Head(<<m>> \o s) = m /\ Tail(<<m>> \o s) = <<>> \o s
  <1>1. /\ Len(<<m>> \o s) = 1 + Len(s) /\ (<<m>> \o s)[1] = m
        /\ \A i \in 1 .. Len(s) : (<<m>> \o s)[i + 1] = s[i]
    OBVIOUS
  <1>2. Len(s) \in Nat /\ <<m>> \o s \in Seq(Message)
    OBVIOUS
  <1>3. <<m>> \o s # <<>>
    BY <1>1, <1>2
  <1> DEFINE t == <<m>> \o s
  <1>4. Head(t) = t[1]
    BY <1>2, <1>3
  <1> HIDE DEF t
  <1>5. Tail(t) \in Seq(Message) /\ Len(Tail(t)) = Len(t) - 1 /\ \A i \in 1 .. Len(t) - 1 : Tail(t)[i] = t[i + 1]
    <2>1. t \in Seq(Message) /\ t # <<>>
      BY <1>2, <1>3 DEF t
    <2> QED BY <2>1
  <1>6. Len(Tail(t)) = Len(s) /\ \A i \in 1 .. Len(s) : Tail(t)[i] = s[i]
    BY <1>1, <1>2, <1>5 DEF t
  <1>7. Tail(t) = s
    BY <1>5, <1>6, SeqEqual
  <1>8. <<>> \o s = s
    OBVIOUS
  <1> QED BY <1>1, <1>3, <1>4, <1>7, <1>8 DEF t

\* receive, case MsgDATA, keeps the streams: only the next payload reaches recvBuf.
LEMMA FlowReceiveData == ASSUME Inv, Types', NEW k \in Ends, ReceiveData(k), UNCHANGED met PROVE Streams'
  <1> DEFINE q == conn[k]
             m == Head(q.recvChan)
             p == Taken(k)
             c == AfterData(p, m)
             a == genAckMsg(q.connId, m.seq)
             ms == <<c.lastAck>>
             rest == Waiting(k, "recvChan") \o net[k]
  <1>0. Types /\ Streams /\ q \in ConnT /\ p \in ConnT /\ Serving(k) /\ Peer(k) \in Ends
    BY PartTypes, EndsFacts DEF Inv, Types, ReceiveData
  <1>1. /\ q.recvChan # <<>> /\ m.type = "DATA" /\ conn' = [conn EXCEPT ![k] = c]
        /\ net' = [net EXCEPT ![Peer(k)] = @ \o <<conn'[k].lastAck>>] /\ UNCHANGED <<srv, cli, met, wrote, got>>
    BY DEF ReceiveData, udpWrite, serverVars, appVars
  <1>2. m \in Message /\ q.recvChan = <<m>> /\ rest \in Seq(Message)
    <2>1. q.recvChan \in Short
      BY <1>0 DEF ConnT, Short
    <2>2. Waiting(k, "recvChan") \in Seq(Message) /\ net[k] \in Seq(Message)
      BY <1>0, WaitingTypes DEF Types, Short
    <2> QED BY <1>1, <2>1, <2>2, ShortFacts
  <1>3. /\ p.sendBuf = q.sendBuf /\ p.recvBuf = q.recvBuf /\ p.sendChan = q.sendChan /\ p.recvChan = <<>>
        /\ p.closed = q.closed /\ p.nextSendSeqNum = q.nextSendSeqNum /\ p.nextRecvSeqNum = q.nextRecvSeqNum
        /\ p.lastAck = q.lastAck /\ p.connId = q.connId
    BY <1>0 DEF ConnT, Taken
  <1>4. c \in ConnT
    BY <1>0, <1>2, AfterTypes
  <1>5. a \in Message /\ a.type = "ACK" /\ a.seq = m.seq
    <2>1. q.connId \in 0 .. MaxConns /\ m.seq \in 0 .. SeqMod - 1
      BY <1>0, <1>2 DEF ConnT, Message
    <2>2. a.type = "ACK" /\ a.seq = m.seq
      BY DEF genAckMsg, Msg
    <2> QED BY <2>1, <2>2, MessageTypes
  <1>6. ms \in Seq(Message) /\ net' = [net EXCEPT ![Peer(k)] = @ \o ms]
    <2>1. conn'[k] = c
      BY <1>0, <1>1 DEF Types
    <2>2. c.lastAck \in Message
      BY <1>4 DEF ConnT
    <2>3. conn'[k].lastAck = c.lastAck
      BY ONLY <2>1
    <2> HIDE DEF c
    <2>4. net' = [net EXCEPT ![Peer(k)] = @ \o ms]
      BY ONLY <1>1, <2>3
    <2>5. ms \in Seq(Message)
      BY ONLY <2>2, SeqTypes
    <2> QED BY ONLY <2>4, <2>5
  <1>7. /\ c.sendBuf = q.sendBuf /\ c.sendChan = q.sendChan /\ c.recvChan = <<>> /\ c.closed = q.closed
        /\ c.nextSendSeqNum = q.nextSendSeqNum
        /\ IF m.seq = q.nextRecvSeqNum
           THEN c.recvBuf = Append(q.recvBuf, m) /\ c.nextRecvSeqNum = (q.nextRecvSeqNum + 1) % SeqMod /\ c.lastAck = a
           ELSE c.recvBuf = q.recvBuf /\ c.nextRecvSeqNum = q.nextRecvSeqNum /\ c.lastAck = q.lastAck
    <2> HIDE DEF p, q, m
    <2>1. CASE m.seq = q.nextRecvSeqNum
      <3>1. c = [p EXCEPT !.recvBuf = Append(@, m), !.nextRecvSeqNum = (@ + 1) % SeqMod, !.lastAck = a]
        BY <1>3, <2>1 DEF AfterData, Insert
      <3> HIDE DEF c, a
      <3> QED BY <1>0, <1>3, <2>1, <3>1 DEF ConnT
    <2>2. CASE m.seq # q.nextRecvSeqNum
      <3>1. c = p
        BY <1>3, <2>2 DEF AfterData
      <3> QED BY <1>3, <2>2, <3>1
    <2> QED BY <2>1, <2>2
  <1> HIDE DEF c, a, ms
  <1>8. /\ EndMoves(k, c, ms)
        /\ \E x, y, z \in ViewT : \E f, g \in Nat :
               /\ x = View(k) /\ y = View(Peer(k)) /\ z = View(k)' /\ Pair(x, y, f, g) /\ ~x.fresh
               /\ Shows(x, k, q, got[k]) /\ Shows(z, k, c, got[k])
    BY <1>0, <1>1, <1>6, EndFacts
  <1>9. PICK x \in ViewT, y \in ViewT, z \in ViewT, f \in Nat, g \in Nat :
               /\ x = View(k) /\ y = View(Peer(k)) /\ z = View(k)' /\ Pair(x, y, f, g) /\ ~x.fresh
               /\ Shows(x, k, q, got[k]) /\ Shows(z, k, c, got[k])
    BY <1>8
  <1> HIDE DEF q, p, m
  <1>10. x.in # <<>> /\ Head(x.in) = m /\ z.in = Tail(x.in)
    <2>1. x.in = <<m>> \o rest /\ z.in = <<>> \o rest
      BY <1>2, <1>7, <1>9 DEF Shows
    <2> HIDE DEF rest
    <2> QED BY <1>2, <2>1, TakeFirst
  <1>11. Pair(z, y, f, g) /\ ~z.fresh /\ ~AckFirst(z)
    <2>1. SameOut(z, x)
      BY <1>7, <1>9 DEF Shows, SameOut
    <2>2. IF Head(x.in).seq = x.nextRecv
          THEN /\ z.rbuf = Append(x.rbuf, Head(x.in)) /\ z.nextRecv = (x.nextRecv + 1) % SeqMod /\ z.lastAck = a
               /\ z.read = x.read
          ELSE SameIn(z, x)
      BY <1>7, <1>9, <1>10 DEF Shows, SameIn
    <2>3. Head(x.in).type = "DATA" /\ a.seq = Head(x.in).seq
      BY <1>1, <1>5, <1>10
    <2> QED BY ONLY <1>5, <1>9, <1>10, <2>1, <2>2, <2>3, PairData, SMTT(30)
  <1>12. Posts(z, f, ms)
    <2>1. z.lastAck \in Message /\ Fits(z, f, z.lastAck)
      BY <1>9, <1>11, PairFits
    <2>2. ms = <<z.lastAck>>
      BY <1>9 DEF Shows, ms
    <2> QED BY <1>11, <2>1, <2>2 DEF Posts
  <1> QED BY <1>0, <1>8, <1>9, <1>11, <1>12, EndStreams

\* receive, case MsgACK, keeps the streams: the front that leaves sendBuf has been received.
LEMMA FlowReceiveAck == ASSUME Inv, Types', NEW k \in Ends, ReceiveAck(k), UNCHANGED met PROVE Streams'
  <1> DEFINE q == conn[k]
             m == Head(q.recvChan)
             p == Taken(k)
             u == AfterAck(p, m)
             c == IF Empty(q.sendBuf) THEN u ELSE AfterDrain(u)
             ms == FrontOf(u.sendBuf)
             rest == Waiting(k, "recvChan") \o net[k]
  <1>0. Types /\ Streams /\ q \in ConnT /\ p \in ConnT /\ Serving(k) /\ Peer(k) \in Ends
    BY PartTypes, EndsFacts DEF Inv, Types, ReceiveAck
  <1>1. /\ q.recvChan # <<>> /\ m.type = "ACK" /\ conn' = [conn EXCEPT ![k] = c]
        /\ net' = [net EXCEPT ![Peer(k)] = @ \o ms] /\ UNCHANGED <<srv, cli, met, wrote, got>>
    BY DEF ReceiveAck, udpWrite, serverVars, appVars
  <1>2. m \in Message /\ q.recvChan = <<m>> /\ rest \in Seq(Message)
    <2>1. q.recvChan \in Short
      BY <1>0 DEF ConnT, Short
    <2>2. Waiting(k, "recvChan") \in Seq(Message) /\ net[k] \in Seq(Message)
      BY <1>0, WaitingTypes DEF Types, Short
    <2> QED BY <1>1, <2>1, <2>2, ShortFacts
  <1>3. /\ p.sendBuf = q.sendBuf /\ p.recvBuf = q.recvBuf /\ p.sendChan = q.sendChan /\ p.recvChan = <<>>
        /\ p.closed = q.closed /\ p.nextSendSeqNum = q.nextSendSeqNum /\ p.nextRecvSeqNum = q.nextRecvSeqNum
        /\ p.lastAck = q.lastAck
    BY <1>0 DEF ConnT, Taken
  <1>4. u \in ConnT /\ ms \in Seq(Message)
    BY <1>0, <1>2, AfterTypes
  <1>5. /\ u.sendBuf = (IF q.sendBuf = <<>> \/ m.seq # Head(q.sendBuf).seq THEN q.sendBuf ELSE Tail(q.sendBuf))
        /\ u.recvBuf = q.recvBuf /\ u.sendChan = q.sendChan /\ u.recvChan = <<>>
        /\ u.closed = q.closed /\ u.nextSendSeqNum = q.nextSendSeqNum /\ u.nextRecvSeqNum = q.nextRecvSeqNum
        /\ u.lastAck = q.lastAck
    <2> HIDE DEF p, q, m
    <2>1. CASE q.sendBuf = <<>> \/ m.seq # Head(q.sendBuf).seq
      <3>1. u = p
        BY <1>3, <2>1 DEF AfterAck, Empty, Front
      <3> QED BY <1>3, <2>1, <3>1
    <2>2. CASE ~(q.sendBuf = <<>> \/ m.seq # Head(q.sendBuf).seq)
      <3>1. u = [p EXCEPT !.sendBuf = Tail(@), !.connId = IF m.seq = 0 THEN m.connId ELSE @]
        BY <1>3, <2>2 DEF AfterAck, Empty, Front, Remove
      <3> HIDE DEF u
      <3> QED BY <1>0, <1>3, <2>2, <3>1 DEF ConnT
    <2> QED BY <2>1, <2>2
  <1> HIDE DEF u
  <1>6. /\ c.sendBuf = u.sendBuf /\ c.recvBuf = u.recvBuf /\ c.sendChan = u.sendChan /\ c.recvChan = u.recvChan
        /\ c.closed = u.closed /\ c.nextSendSeqNum = u.nextSendSeqNum /\ c.nextRecvSeqNum = u.nextRecvSeqNum
        /\ c.lastAck = u.lastAck
    BY <1>4 DEF AfterDrain, ConnT
  <1> HIDE DEF c, ms
  <1>8. /\ EndMoves(k, c, ms)
        /\ \E x, y, z \in ViewT : \E f, g \in Nat :
               /\ x = View(k) /\ y = View(Peer(k)) /\ z = View(k)' /\ Pair(x, y, f, g) /\ ~x.fresh
               /\ Shows(x, k, q, got[k]) /\ Shows(z, k, c, got[k])
    BY <1>0, <1>1, <1>4, EndFacts
  <1>9. PICK x \in ViewT, y \in ViewT, z \in ViewT, b \in Nat, g \in Nat :
               /\ x = View(k) /\ y = View(Peer(k)) /\ z = View(k)' /\ Pair(x, y, b, g) /\ ~x.fresh
               /\ Shows(x, k, q, got[k]) /\ Shows(z, k, c, got[k])
    BY <1>8
  <1> HIDE DEF q, p, m
  <1>10. x.in # <<>> /\ Head(x.in) = m /\ z.in = Tail(x.in)
    <2>1. x.in = <<m>> \o rest /\ z.in = <<>> \o rest
      BY <1>2, <1>5, <1>6, <1>9 DEF Shows
    <2> HIDE DEF rest
    <2> QED BY <1>2, <2>1, TakeFirst
  <1>11. (z.buf # <<>> => ~z.fresh /\ ~AckFirst(z)) /\ \E f \in Nat : Pair(z, y, f, g)
    <2>1. /\ SameIn(z, x) /\ z.side = x.side /\ z.fresh = x.fresh /\ z.chan = x.chan
          /\ z.wait = x.wait /\ z.closed = x.closed /\ z.nextSend = x.nextSend /\ z.wrote = x.wrote
      BY <1>5, <1>6, <1>9 DEF Shows, SameIn
    <2>2. z.buf = IF x.buf = <<>> \/ Head(x.in).seq # Head(x.buf).seq THEN x.buf ELSE Tail(x.buf)
      BY <1>5, <1>6, <1>9, <1>10 DEF Shows
    <2>3. Head(x.in).type = "ACK"
      BY <1>1, <1>10
    <2> QED BY ONLY <1>9, <1>10, <2>1, <2>2, <2>3, PairAck
  <1>12. PICK f \in Nat : Pair(z, y, f, g)
    BY <1>11
  <1>13. Posts(z, f, ms)
    <2>1. ms = IF z.buf = <<>> THEN <<>> ELSE <<Head(z.buf)>>
      BY <1>6, <1>9 DEF Shows, ms, FrontOf, Empty, Front
    <2>2. z.buf # <<>> => Head(z.buf) \in Message /\ Fits(z, f, Head(z.buf))
      BY <1>9, <1>12, PairFits
    <2> QED BY <1>11, <2>1, <2>2 DEF Posts
  <1> QED BY <1>0, <1>8, <1>9, <1>12, <1>13, EndStreams

\* epochTrigger keeps the streams: what it repeats may be sent at any time.
LEMMA FlowEpoch == ASSUME Inv, Types', NEW k \in Ends, epochTrigger(k), UNCHANGED met PROVE Streams'
  <1> DEFINE q == conn[k]
             c == conn'[k]
             ms == Repeated(q)
  <1>0. Types /\ Streams /\ q \in ConnT /\ Serving(k) /\ Peer(k) \in Ends /\ ms \in Seq(Message)
    <2>1. Types /\ q \in ConnT
      BY DEF Inv, Types
    <2>2. \E m : m \in Message
      BY <2>1 DEF ConnT
    <2> QED BY <2>1, <2>2, AfterTypes, EndsFacts DEF Inv, epochTrigger
  <1>1. /\ q.sendChan = <<>> /\ net' = [net EXCEPT ![Peer(k)] = @ \o ms] /\ UNCHANGED <<srv, cli, met, wrote, got>>
    <2>1. q.sendChan = <<>>
      BY <1>0 DEF epochTrigger, InTime, Quiet
    <2> QED BY <2>1 DEF epochTrigger, udpWrite, serverVars, appVars
  <1>2. /\ conn' = [conn EXCEPT ![k] = c]
        /\ c.sendBuf = q.sendBuf /\ c.recvBuf = q.recvBuf /\ c.sendChan = q.sendChan /\ c.recvChan = q.recvChan
        /\ c.closed = q.closed /\ c.nextSendSeqNum = q.nextSendSeqNum /\ c.nextRecvSeqNum = q.nextRecvSeqNum
        /\ c.lastAck = q.lastAck
    <2>1. conn' = [conn EXCEPT ![k].silent = @ + 1] \/ conn' = [conn EXCEPT ![k].at = "removeChan"]
      BY DEF epochTrigger
    <2>2. c = [q EXCEPT !.silent = @ + 1] \/ c = [q EXCEPT !.at = "removeChan"]
      BY <1>0, <2>1 DEF Types
    <2>3. conn' = [conn EXCEPT ![k] = c]
      BY <1>0, <2>1 DEF Types
    <2> HIDE DEF c, q
    <2> QED BY <1>0, <2>2, <2>3 DEF ConnT
  <1> HIDE DEF c, ms
  <1>3. /\ EndMoves(k, c, ms)
        /\ \E x, y, z \in ViewT : \E f, g \in Nat :
               /\ x = View(k) /\ y = View(Peer(k)) /\ z = View(k)' /\ Pair(x, y, f, g) /\ ~x.fresh
               /\ Shows(x, k, q, got[k]) /\ Shows(z, k, c, got[k])
    BY <1>0, <1>1, <1>2, EndFacts
  <1>4. PICK x \in ViewT, y \in ViewT, z \in ViewT, f \in Nat, g \in Nat :
               /\ x = View(k) /\ y = View(Peer(k)) /\ z = View(k)' /\ Pair(x, y, f, g) /\ ~x.fresh
               /\ Shows(x, k, q, got[k]) /\ Shows(z, k, c, got[k])
    BY <1>3
  <1> HIDE DEF q
  <1>5. z.in = x.in /\ SameOut(z, x) /\ SameIn(z, x) /\ ~AckFirst(z) /\ ~z.fresh
    BY <1>1, <1>2, <1>4 DEF Shows, SameOut, SameIn, AckFirst
  <1>6. Pair(z, y, f, g)
    BY <1>4, <1>5, PairSame
  <1>7. Posts(z, f, ms)
    <2>1. /\ z.lastAck \in Message /\ Fits(z, f, z.lastAck)
          /\ z.buf # <<>> => Head(z.buf) \in Message /\ Fits(z, f, Head(z.buf))
      BY <1>4, <1>6, PairFits
    <2>2. ms = IF z.buf = <<>> THEN <<z.lastAck>> ELSE <<Head(z.buf), z.lastAck>>
      <3>1. ASSUME NEW h \in Message, NEW b \in Message PROVE Append(<<>>, b) = <<b>> /\ Append(<<h>>, b) = <<h, b>>
        <4>1. /\ Append(<<h>>, b) \in Seq(Message) /\ <<h, b>> \in Seq(Message) /\ Len(Append(<<h>>, b)) = 2 /\ Len(<<h, b>>) = 2
              /\ \A i \in 1 .. 2 : Append(<<h>>, b)[i] = <<h, b>>[i]
          BY ONLY h \in Message, b \in Message
        <4>2. Append(<<h>>, b) = <<h, b>>
          BY ONLY <4>1, SeqEqual
        <4>3. Append(<<>>, b) = <<b>>
          BY ONLY b \in Message
        <4> QED BY <4>2, <4>3
      <3>2. z.buf = q.sendBuf /\ z.lastAck = q.lastAck
        BY <1>2, <1>4 DEF Shows
      <3>3. ms = Append(IF z.buf = <<>> THEN <<>> ELSE <<Head(z.buf)>>, z.lastAck)
        BY ONLY <3>2 DEF ms, Repeated, FrontOf, Empty, Front
      <3> QED BY ONLY <2>1, <3>1, <3>3
    <2> QED BY <1>5, <2>1, <2>2 DEF Posts
  <1> QED BY <1>0, <1>3, <1>4, <1>6, <1>7, EndStreams

(***************************************************************************)
(* The steps of loopServe and of the network.                              *)
(***************************************************************************)
\* What is in front stays.
LEMMA SubBehind ==
  ASSUME NEW S, NEW a \in Seq(S), NEW s \in Seq(S), NEW t \in Seq(S), Sub(t, s)
  PROVE  Sub(a \o t, a \o s)
  <1>1. PICK h \in [1 .. Len(t) -> 1 .. Len(s)] :
                /\ \A i \in 1 .. Len(t) : t[i] = s[h[i]]
                /\ \A i, j \in 1 .. Len(t) : i <= j => h[i] <= h[j]
    BY DEF Sub
  <1>2. PICK n \in Nat, l \in Nat, o \in Nat : n = Len(a) /\ l = Len(t) /\ o = Len(s)
    OBVIOUS
  <1>3. /\ Len(a \o t) = n + l /\ Len(a \o s) = n + o
        /\ \A i \in 1 .. n : (a \o t)[i] = a[i] /\ (a \o s)[i] = a[i]
        /\ \A i \in 1 .. l : (a \o t)[n + i] = t[i]
        /\ \A i \in 1 .. o : (a \o s)[n + i] = s[i]
    BY <1>2
  <1> DEFINE g == [i \in 1 .. n + l |-> IF i <= n THEN i ELSE n + h[i - n]]
  <1>4. /\ \A i \in 1 .. n : i \in 1 .. n + l /\ g[i] = i
        /\ \A i \in 1 .. l : n + i \in 1 .. n + l /\ (n + i) - n = i /\ h[i] \in 1 .. o /\ g[n + i] = n + h[i]
    BY <1>1, <1>2
  <1>5. \A i \in 1 .. n + l : i \in 1 .. n \/ \E j \in 1 .. l : i = n + j
    <2> TAKE i \in 1 .. n + l
    <2>1. i > n => i - n \in 1 .. l /\ i = n + (i - n)
      OBVIOUS
    <2> QED BY <2>1
  <1>6. g \in [1 .. n + l -> 1 .. n + o]
    <2> SUFFICES ASSUME NEW i \in 1 .. n + l PROVE (IF i <= n THEN i ELSE n + h[i - n]) \in 1 .. n + o
      OBVIOUS
    <2>1. CASE i <= n
      BY <2>1
    <2>2. CASE i > n
      <3>1. i - n \in 1 .. l
        BY <2>2
      <3>2. h[i - n] \in 1 .. o
        BY ONLY <1>1, <1>2, <3>1
      <3> QED BY ONLY <2>2, <3>2, n \in Nat, o \in Nat, i \in 1 .. n + l
    <2> QED BY <2>1, <2>2
  <1> HIDE DEF g
  <1>7. \A i \in 1 .. n + l : (a \o t)[i] = (a \o s)[g[i]]
    <2> TAKE i \in 1 .. n + l
    <2>1. CASE i \in 1 .. n
      BY <1>3, <1>4, <2>1
    <2>2. CASE \E j \in 1 .. l : i = n + j
      <3>1. PICK j \in 1 .. l : i = n + j
        BY <2>2
      <3>2. (a \o t)[i] = t[j] /\ g[i] = n + h[j] /\ h[j] \in 1 .. o /\ t[j] = s[h[j]]
        BY <1>1, <1>2, <1>3, <1>4, <3>1
      <3>3. (a \o s)[n + h[j]] = s[h[j]]
        BY <1>3, <3>2
      <3> QED BY <3>2, <3>3
    <2> QED BY <1>5, <2>1, <2>2
  <1>8. \A i, j \in 1 .. n + l : i <= j => g[i] <= g[j]
    <2> TAKE i, j \in 1 .. n + l
    <2> HAVE i <= j
    <2>1. CASE i \in 1 .. n /\ j \in 1 .. n
      BY <1>4, <2>1
    <2>2. CASE i \in 1 .. n /\ \E b \in 1 .. l : j = n + b
      <3>1. PICK b \in 1 .. l : j = n + b
        BY <2>2
      <3>2. g[j] = n + h[b] /\ h[b] \in 1 .. o /\ g[i] = i
        BY <1>4, <2>2, <3>1
      <3> QED BY <2>2, <3>2
    <2>3. CASE (\E b \in 1 .. l : i = n + b) /\ \E b \in 1 .. l : j = n + b
      <3>1. PICK b \in 1 .. l, d \in 1 .. l : i = n + b /\ j = n + d
        BY <2>3
      <3>2. g[i] = n + h[b] /\ g[j] = n + h[d] /\ h[b] \in 1 .. o /\ h[d] \in 1 .. o /\ b <= d
        BY <1>4, <3>1
      <3>3. h[b] <= h[d]
        BY <1>1, <1>2, <3>2
      <3> QED BY <3>2, <3>3
    <2>4. ~((\E b \in 1 .. l : i = n + b) /\ j \in 1 .. n)
      OBVIOUS
    <2> QED BY <1>5, <2>1, <2>2, <2>3, <2>4
  <1> QED BY <1>2, <1>3, <1>6, <1>7, <1>8 DEF Sub

\* Taking or losing the first packet of the network, behind what already left it.
LEMMA InTail ==
  ASSUME NEW r \in Seq(Message), NEW w \in Seq(Message), NEW n \in Seq(Message), n # <<>>
  PROVE  Sub(r \o (w \o Tail(n)), r \o (w \o n))
  <1>1. Tail(n) \in Seq(Message) /\ Sub(Tail(n), n)
    BY TailSub
  <1>2. Sub(w \o Tail(n), w \o n)
    BY <1>1, SubBehind
  <1>3. w \o Tail(n) \in Seq(Message) /\ w \o n \in Seq(Message)
    BY <1>1
  <1> HIDE DEF Sub
  <1> QED BY ONLY <1>2, <1>3, SubBehind, r \in Seq(Message)

\* loopServe reads a packet, or waits with it, or hands over the one it waited with: nothing is lost.
LEMMA InMoves ==
  /\ \A n \in Seq(Message) : n # <<>> => <<Head(n)>> \o (<<>> \o Tail(n)) = <<>> \o (<<>> \o n)
  /\ \A r, n \in Seq(Message) : n # <<>> => r \o (<<Head(n)>> \o Tail(n)) = r \o (<<>> \o n)
  /\ \A m \in Message : \A n \in Seq(Message) : <<m>> \o (<<>> \o n) = <<>> \o (<<m>> \o n)
  <1>1. ASSUME NEW n \in Seq(Message) PROVE <<>> \o n = n
    OBVIOUS
  <1>2. ASSUME NEW n \in Seq(Message), n # <<>> PROVE <<Head(n)>> \o Tail(n) = n /\ Tail(n) \in Seq(Message)
    <2>1. Head(n) \in Message /\ Tail(n) \in Seq(Message) /\ Len(Tail(n)) = Len(n) - 1 /\ Len(n) \in Nat /\ Len(n) > 0
          /\ \A i \in 1 .. Len(n) - 1 : Tail(n)[i] = n[i + 1]
      BY <1>2
    <2> DEFINE s == <<Head(n)>> \o Tail(n)
    <2>2. s \in Seq(Message) /\ Len(s) = 1 + Len(Tail(n)) /\ s[1] = Head(n) /\ \A i \in 1 .. Len(Tail(n)) : s[i + 1] = Tail(n)[i]
      BY <2>1
    <2> HIDE DEF s
    <2>3. Len(s) = Len(n)
      BY ONLY <2>1, <2>2
    <2>4. ASSUME NEW i \in 1 .. Len(s) PROVE s[i] = n[i]
      <3>1. CASE i = 1
        BY <1>2, <2>2, <3>1
      <3>2. CASE i # 1
        <4>1. i - 1 \in 1 .. Len(n) - 1 /\ (i - 1) + 1 = i
          BY ONLY <2>1, <2>3, <2>4, <3>2
        <4>2. s[i] = Tail(n)[i - 1] /\ Tail(n)[i - 1] = n[i]
          BY ONLY <2>1, <2>2, <4>1
        <4> QED BY <4>2
      <3> QED BY <3>1, <3>2
    <2>5. s = n
      BY <2>2, <2>3, <2>4, SeqEqual
    <2> QED BY <2>1, <2>5 DEF s
  <1>3. ASSUME NEW m \in Message, NEW n \in Seq(Message) PROVE <<m>> \o n \in Seq(Message)
    OBVIOUS
  <1>4. ASSUME NEW n \in Seq(Message), n # <<>> PROVE <<Head(n)>> \o (<<>> \o Tail(n)) = <<>> \o (<<>> \o n)
    <2>1. <<>> \o Tail(n) = Tail(n) /\ <<>> \o n = n
      BY ONLY <1>1, <1>2, <1>4
    <2> QED BY ONLY <1>1, <1>2, <1>4, <2>1
  <1>5. ASSUME NEW r \in Seq(Message), NEW n \in Seq(Message), n # <<>>
        PROVE  r \o (<<Head(n)>> \o Tail(n)) = r \o (<<>> \o n)
    BY ONLY <1>1, <1>2, <1>5
  <1>6. ASSUME NEW m \in Message, NEW n \in Seq(Message) PROVE <<m>> \o (<<>> \o n) = <<>> \o (<<m>> \o n)
    <2>1. <<>> \o n = n /\ <<>> \o (<<m>> \o n) = <<m>> \o n
      BY ONLY <1>1, <1>3, <1>6
    <2> QED BY ONLY <2>1
  <1> QED BY <1>4, <1>5, <1>6

\* What the view of e takes from the connection, and the rest of it.
SameConn(q, p) ==
    /\ q.sendBuf = p.sendBuf /\ q.recvBuf = p.recvBuf /\ q.sendChan = p.sendChan /\ q.closed = p.closed
    /\ q.nextSendSeqNum = p.nextSendSeqNum /\ q.nextRecvSeqNum = p.nextRecvSeqNum /\ q.lastAck = p.lastAck
SameRest(e) == got'[e] = got[e] /\ wrote'[e] = wrote[e] /\ IsFresh(e)' = IsFresh(e)

\* A step that changes nothing a view shows.
LEMMA ViewKept ==
  ASSUME NEW e, SameConn(conn'[e], conn[e]), SameRest(e), In(e)' = In(e),
         Waiting(e, "sendChan")' = Waiting(e, "sendChan")
  PROVE  View(e)' = View(e)
  BY DEF View, SameConn, SameRest

\* Packets on their way to k are taken away, or the step does not concern the streams.
LEMMA FlowSkip ==
  ASSUME Inv, Types', NEW k \in Ends, \A e \in Ends : e # k => View(e)' = View(e),
         SameConn(conn'[k], conn[k]), SameRest(k), Waiting(k, "sendChan")' = Waiting(k, "sendChan"),
         In(k)' = In(k) \/ Sub(In(k)', In(k))
  PROVE  Streams'
  <1>0. Types /\ Streams /\ Peer(k) \in Ends
    BY EndsFacts DEF Inv
  <1>1. CASE In(k)' = In(k)
    <2>1. View(k)' = View(k)
      BY <1>1, ViewKept
    <2> QED BY <1>0, <2>1, NoConnection
  <1>2. CASE Sub(In(k)', In(k))
    <2>1. PICK x \in ViewT, y \in ViewT, z \in ViewT : x = View(k) /\ y = View(Peer(k)) /\ z = View(k)'
      BY <1>0, ViewTypes, ViewTypesNext
    <2>2. PICK f \in Nat, g \in Nat : Pair(x, y, f, g)
      BY <1>0, <2>1 DEF Streams
    <2>3. SameOut(z, x) /\ SameIn(z, x)
      BY <2>1 DEF View, SameConn, SameRest, SameOut, SameIn
    <2>4. Sub(z.in, x.in) /\ z.in \in Seq(Message)
      <3>1. z.in = In(k)' /\ x.in = In(k)
        BY <2>1 DEF View
      <3>2. z.in \in Seq(Message)
        BY ViewFacts
      <3> QED BY <1>2, <3>1, <3>2
    <2>5. Pair(y, x, g, f)
      BY <2>2, PairSwap
    <2>6. Pair(y, z, g, f)
      BY ONLY <2>3, <2>4, <2>5, PairSkip, x \in ViewT, y \in ViewT, z \in ViewT, f \in Nat, g \in Nat
    <2>7. Pair(z, y, f, g)
      BY <2>6, PairSwap
    <2> QED BY <1>0, <2>1, <2>7, OneEnd
  <1> QED BY <1>1, <1>2

\* The parts of In.
LEMMA InParts ==
  ASSUME Types, NEW k \in Ends
  PROVE  /\ conn[k] \in ConnT /\ conn[k].recvChan \in Seq(Message) /\ net[k] \in Seq(Message)
         /\ Waiting(k, "recvChan") \in Seq(Message)
  <1>1. conn[k] \in ConnT /\ net[k] \in Seq(Message)
    BY DEF Types
  <1> QED BY <1>1, WaitingTypes DEF ConnT, Short

\* The network loses the first packet.
LEMMA FlowLose ==
  ASSUME Inv, Types', NEW k \in Ends, \A e \in Ends : e # k => View(e)' = View(e),
         SameConn(conn'[k], conn[k]), conn'[k].recvChan = conn[k].recvChan, SameRest(k),
         \A chan \in {"sendChan", "recvChan"} : Waiting(k, chan)' = Waiting(k, chan),
         net[k] # <<>>, net'[k] = Tail(net[k])
  PROVE  Streams'
  <1>1. Types
    BY DEF Inv
  <1>2. Sub(conn[k].recvChan \o (Waiting(k, "recvChan") \o Tail(net[k])),
            conn[k].recvChan \o (Waiting(k, "recvChan") \o net[k]))
    BY <1>1, InParts, InTail
  <1>3. Sub(In(k)', In(k))
    <2>1. In(k)' = conn[k].recvChan \o (Waiting(k, "recvChan") \o Tail(net[k]))
      BY DEF In
    <2> QED BY <1>2, <2>1 DEF In
  <1> QED BY <1>3, FlowSkip

\* loopServe reads a packet and puts it into recvChan, or waits for that.
LEMMA FlowRead ==
  ASSUME Inv, Types', NEW k \in Ends, \A e \in Ends : e # k => View(e)' = View(e), SameConn(conn'[k], conn[k]), SameRest(k),
         Waiting(k, "sendChan")' = Waiting(k, "sendChan"), Waiting(k, "recvChan") = <<>>,
         net[k] # <<>>, net'[k] = Tail(net[k]),
         \/ conn[k].recvChan = <<>> /\ conn'[k].recvChan = <<Head(net[k])>> /\ Waiting(k, "recvChan")' = <<>>
         \/ conn'[k].recvChan = conn[k].recvChan /\ Waiting(k, "recvChan")' = <<Head(net[k])>>
  PROVE  Streams'
  <1>1. conn[k].recvChan \in Seq(Message) /\ net[k] \in Seq(Message)
    BY InParts DEF Inv
  <1>2. In(k)' = In(k)
    <2>1. In(k) = conn[k].recvChan \o (<<>> \o net[k])
      BY DEF In
    <2>2. CASE conn[k].recvChan = <<>> /\ conn'[k].recvChan = <<Head(net[k])>> /\ Waiting(k, "recvChan")' = <<>>
      <3>1. In(k)' = <<Head(net[k])>> \o (<<>> \o Tail(net[k])) /\ In(k) = <<>> \o (<<>> \o net[k])
        BY <2>1, <2>2 DEF In
      <3> QED BY <1>1, <3>1, InMoves
    <2>3. CASE conn'[k].recvChan = conn[k].recvChan /\ Waiting(k, "recvChan")' = <<Head(net[k])>>
      <3>1. In(k)' = conn[k].recvChan \o (<<Head(net[k])>> \o Tail(net[k]))
        BY <2>3 DEF In
      <3> QED BY <1>1, <2>1, <3>1, InMoves
    <2> QED BY <2>2, <2>3
  <1> QED BY <1>2, FlowSkip

\* loopServe hands over the packet it waited with.
LEMMA FlowHand ==
  ASSUME Inv, Types', NEW k \in Ends, \A e \in Ends : e # k => View(e)' = View(e), SameConn(conn'[k], conn[k]), SameRest(k),
         Waiting(k, "sendChan")' = Waiting(k, "sendChan"), net'[k] = net[k], NEW m \in Message,
         Waiting(k, "recvChan") = <<m>>, conn[k].recvChan = <<>>, conn'[k].recvChan = <<m>>, Waiting(k, "recvChan")' = <<>>
  PROVE  Streams'
  <1>1. net[k] \in Seq(Message)
    BY InParts DEF Inv
  <1>2. In(k)' = <<m>> \o (<<>> \o net[k]) /\ In(k) = <<>> \o (<<m>> \o net[k])
    BY DEF In
  <1>3. In(k)' = In(k)
    BY <1>1, <1>2, InMoves
  <1> QED BY <1>3, FlowSkip

\* What the receiving side of the connection consists of.
SameRecv(q, p) ==
    /\ q.recvBuf = p.recvBuf /\ q.recvChan = p.recvChan /\ q.nextRecvSeqNum = p.nextRecvSeqNum /\ q.lastAck = p.lastAck
SameNumbers(q, p) == q.sendBuf = p.sendBuf /\ q.nextSendSeqNum = p.nextSendSeqNum

\* Steps at k that concern what it sends.
LEMMA SendSide ==
  ASSUME Inv, Types', NEW k \in Ends, \A e \in Ends : e # k => View(e)' = View(e), SameRecv(conn'[k], conn[k]),
         SameNumbers(conn'[k], conn[k]), net'[k] = net[k], Waiting(k, "recvChan")' = Waiting(k, "recvChan"),
         got'[k] = got[k], IsFresh(k)' = IsFresh(k)
  PROVE  \E x, y, z \in ViewT : \E f, g \in Nat :
            /\ x = View(k) /\ y = View(Peer(k)) /\ z = View(k)' /\ Pair(x, y, f, g)
            /\ z.in = x.in /\ SameIn(z, x) /\ z.side = x.side /\ z.fresh = x.fresh /\ z.buf = x.buf
            /\ z.nextSend = x.nextSend /\ (Pair(z, y, f, g) => Streams')
  <1>0. Types /\ Streams /\ Peer(k) \in Ends
    BY EndsFacts DEF Inv
  <1>1. PICK x \in ViewT, y \in ViewT, z \in ViewT : x = View(k) /\ y = View(Peer(k)) /\ z = View(k)'
    BY <1>0, ViewTypes, ViewTypesNext
  <1>2. PICK f \in Nat, g \in Nat : Pair(x, y, f, g)
    BY <1>0, <1>1 DEF Streams
  <1>3. In(k)' = In(k)
    BY DEF In, SameRecv
  <1>4. /\ z.in = x.in /\ SameIn(z, x) /\ z.side = x.side /\ z.fresh = x.fresh /\ z.buf = x.buf
        /\ z.nextSend = x.nextSend
    BY <1>1, <1>3 DEF View, SameRecv, SameNumbers, SameIn
  <1>5. Pair(z, y, f, g) => Streams'
    BY <1>0, <1>1, OneEnd
  <1> QED BY <1>1, <1>2, <1>4, <1>5

\* The application writes.
LEMMA FlowWrite ==
  ASSUME Inv, Types', NEW k \in Ends, \A e \in Ends : e # k => View(e)' = View(e), SameRecv(conn'[k], conn[k]),
         SameNumbers(conn'[k], conn[k]), net'[k] = net[k], Waiting(k, "recvChan")' = Waiting(k, "recvChan"),
         got'[k] = got[k], IsFresh(k)' = IsFresh(k), conn'[k].closed = conn[k].closed,
         Waiting(k, "sendChan") = <<>>, wrote'[k] = wrote[k] + 1, NEW d \in Message, d = genDataMsg(conn[k].connId, wrote[k] + 1),
         IF conn[k].sendChan = <<>> THEN conn'[k].sendChan = <<d>> /\ Waiting(k, "sendChan")' = <<>>
                                    ELSE conn'[k].sendChan = conn[k].sendChan /\ Waiting(k, "sendChan")' = <<d>>
  PROVE  Streams'
  <1>1. PICK x \in ViewT, y \in ViewT, z \in ViewT, f \in Nat, g \in Nat :
            /\ x = View(k) /\ y = View(Peer(k)) /\ z = View(k)' /\ Pair(x, y, f, g)
            /\ z.in = x.in /\ SameIn(z, x) /\ z.side = x.side /\ z.fresh = x.fresh /\ z.buf = x.buf
            /\ z.nextSend = x.nextSend /\ (Pair(z, y, f, g) => Streams')
    BY SendSide
  <1>2. /\ x.wait = <<>> /\ z.wrote = x.wrote + 1 /\ z.closed = x.closed
        /\ IF x.chan = <<>> THEN z.chan = <<d>> /\ z.wait = <<>> ELSE z.chan = x.chan /\ z.wait = <<d>>
    BY <1>1 DEF View
  <1>3. d.type = "DATA" /\ d.seq = 0 /\ d.payload = x.wrote + 1
    BY <1>1 DEF View, genDataMsg, Msg
  <1>4. Pair(z, y, f, g)
    BY ONLY <1>1, <1>2, <1>3, PairWrite, d \in Message
  <1> QED BY <1>1, <1>4

\* loopServe hands over the payload it waited with.
LEMMA FlowHandSend ==
  ASSUME Inv, Types', NEW k \in Ends, \A e \in Ends : e # k => View(e)' = View(e), SameRecv(conn'[k], conn[k]),
         SameNumbers(conn'[k], conn[k]), net'[k] = net[k], Waiting(k, "recvChan")' = Waiting(k, "recvChan"),
         got'[k] = got[k], IsFresh(k)' = IsFresh(k), conn'[k].closed = conn[k].closed, wrote'[k] = wrote[k], NEW m,
         Waiting(k, "sendChan") = <<m>>, conn[k].sendChan = <<>>, conn'[k].sendChan = <<m>>, Waiting(k, "sendChan")' = <<>>
  PROVE  Streams'
  <1>1. PICK x \in ViewT, y \in ViewT, z \in ViewT, f \in Nat, g \in Nat :
            /\ x = View(k) /\ y = View(Peer(k)) /\ z = View(k)' /\ Pair(x, y, f, g)
            /\ z.in = x.in /\ SameIn(z, x) /\ z.side = x.side /\ z.fresh = x.fresh /\ z.buf = x.buf
            /\ z.nextSend = x.nextSend /\ (Pair(z, y, f, g) => Streams')
    BY SendSide
  <1>2. /\ x.wait = <<m>> /\ x.chan = <<>> /\ z.chan = <<m>> /\ z.wait = <<>> /\ z.wrote = x.wrote /\ z.closed = x.closed
    BY <1>1 DEF View
  <1>3. <<m>> # <<>>
    OBVIOUS
  <1>4. Pair(z, y, f, g)
    BY ONLY <1>1, <1>2, <1>3, PairHand
  <1> QED BY <1>1, <1>4

\* The end is closed.
LEMMA FlowClose ==
  ASSUME Inv, Types', NEW k \in Ends, \A e \in Ends : e # k => View(e)' = View(e), SameRecv(conn'[k], conn[k]),
         SameNumbers(conn'[k], conn[k]), net'[k] = net[k], got'[k] = got[k], IsFresh(k)' = IsFresh(k),
         \A chan \in {"sendChan", "recvChan"} : Waiting(k, chan)' = Waiting(k, chan),
         conn'[k].closed, conn'[k].sendChan = conn[k].sendChan, wrote'[k] = wrote[k]
  PROVE  Streams'
  <1>1. PICK x \in ViewT, y \in ViewT, z \in ViewT, f \in Nat, g \in Nat :
            /\ x = View(k) /\ y = View(Peer(k)) /\ z = View(k)' /\ Pair(x, y, f, g)
            /\ z.in = x.in /\ SameIn(z, x) /\ z.side = x.side /\ z.fresh = x.fresh /\ z.buf = x.buf
            /\ z.nextSend = x.nextSend /\ (Pair(z, y, f, g) => Streams')
    BY SendSide
  <1>2. z.chan = x.chan /\ z.wait = x.wait /\ z.closed /\ z.wrote = x.wrote
    BY <1>1 DEF View
  <1>4. Pair(z, y, f, g)
    BY ONLY <1>1, <1>2, PairClose
  <1> QED BY <1>1, <1>4

(***************************************************************************)
(* The channels that loopServe fills.                                      *)
(***************************************************************************)

Chans == {"recvChan", "sendChan"}

\* An end that a step does not touch, seen from either loopServe.
LEMMA OthersKept ==
  ASSUME NEW e, conn'[e] = conn[e], net'[e] = net[e], SameRest(e), \A chan \in Chans : Waiting(e, chan)' = Waiting(e, chan)
  PROVE  View(e)' = View(e)
  <1>1. In(e)' = In(e)
    BY DEF In, Chans
  <1>2. SameConn(conn'[e], conn[e])
    BY DEF SameConn
  <1> QED BY <1>1, <1>2, ViewKept DEF Chans

\* The server's loopServe deals with one client.
LEMMA ServerOnly ==
  ASSUME NEW c \in Clients, cli' = cli, \A e \in Ends : e # Server(c) => conn'[e] = conn[e] /\ net'[e] = net[e] /\ SameRest(e),
         srv.at \in Chans => srv.who = c, srv'.at \in Chans => srv'.who = c
  PROVE  \A e \in Ends : e # Server(c) => View(e)' = View(e)
  <1> SUFFICES ASSUME NEW e \in Ends, e # Server(c) PROVE View(e)' = View(e)
    OBVIOUS
  <1>1. ASSUME NEW chan \in Chans PROVE Waiting(e, chan)' = Waiting(e, chan)
    <2>1. CASE e[1] = "server"
      <3>1. e[2] # c
        BY <2>1, EndsFacts DEF Client
      <3> QED BY <2>1, <3>1 DEF Waiting
    <2>2. CASE e[1] # "server"
      BY <2>2 DEF Waiting
    <2> QED BY <2>1, <2>2
  <1> QED BY <1>1, OthersKept

\* So does the loopServe of a client.
LEMMA ClientOnly ==
  ASSUME NEW c \in Clients, srv' = srv, \A e \in Ends : e # Client(c) => conn'[e] = conn[e] /\ net'[e] = net[e] /\ SameRest(e),
         \A d \in Clients : d # c => cli'[d] = cli[d]
  PROVE  \A e \in Ends : e # Client(c) => View(e)' = View(e)
  <1> SUFFICES ASSUME NEW e \in Ends, e # Client(c) PROVE View(e)' = View(e)
    OBVIOUS
  <1>1. ASSUME NEW chan \in Chans PROVE Waiting(e, chan)' = Waiting(e, chan)
    <2>1. CASE e[1] = "server"
      BY <2>1 DEF Waiting
    <2>2. CASE e[1] # "server"
      <3>1. e[2] # c /\ e[2] \in Clients
        BY <2>2, EndsFacts DEF Server
      <3> QED BY <2>2, <3>1 DEF Waiting
    <2> QED BY <2>1, <2>2
  <1> QED BY <1>1, OthersKept

\* What becomes of k when m is put into its channel.
Fills(k, chan, m) ==
    IF chan = "recvChan"
    THEN conn'[k].recvChan = <<m>> /\ SameConn(conn'[k], conn[k])
    ELSE /\ conn'[k].sendChan = <<m>> /\ SameRecv(conn'[k], conn[k]) /\ SameNumbers(conn'[k], conn[k])
         /\ conn'[k].closed = conn[k].closed

\* A message put into a channel changes that channel only.
LEMMA FilledFields ==
  ASSUME Types, NEW k \in Ends, NEW chan \in Chans, NEW m, conn' = Filled(k, chan, m)
  PROVE  Fills(k, chan, m) /\ \A e \in Ends : e # k => conn'[e] = conn[e]
  <1>1. conn[k] \in ConnT /\ conn \in [Ends -> ConnT]
    BY DEF Types
  <1>2. CASE chan = "recvChan"
    <2>1. conn' = [conn EXCEPT ![k].recvChan = <<m>>]
      BY <1>2 DEF Filled
    <2>2. conn'[k] = [conn[k] EXCEPT !.recvChan = <<m>>] /\ \A e \in Ends : e # k => conn'[e] = conn[e]
      BY <1>1, <2>1
    <2> QED BY <1>1, <1>2, <2>2 DEF Fills, SameConn, ConnT
  <1>3. CASE chan = "sendChan"
    <2>1. conn' = [conn EXCEPT ![k].sendChan = <<m>>]
      BY <1>3 DEF Filled
    <2>2. conn'[k] = [conn[k] EXCEPT !.sendChan = <<m>>] /\ \A e \in Ends : e # k => conn'[e] = conn[e]
      BY <1>1, <2>1
    <2> QED BY <1>1, <1>3, <2>2 DEF Fills, SameRecv, SameNumbers, ConnT
  <1> QED BY <1>2, <1>3 DEF Chans

\* loopServe puts m into a channel of k or waits with it.
Puts(k, chan, m) ==
    /\ \A e \in Ends : e # k => conn'[e] = conn[e]
    /\ \A ch \in Chans : Waiting(k, ch) = <<>> /\ (ch # chan => Waiting(k, ch)' = <<>>)
    /\ IF Chan(k, chan) = <<>> THEN Fills(k, chan, m) /\ Waiting(k, chan)' = <<>>
                               ELSE conn'[k] = conn[k] /\ Waiting(k, chan)' = <<m>>

\* The server's loopServe puts a message into a channel of an end or waits with it.
LEMMA ServerPuts ==
  ASSUME Types, NEW c \in Clients, NEW chan \in Chans, NEW m, srv.at = "select", ServerPut(c, chan, m)
  PROVE  Puts(Server(c), chan, m) /\ (srv'.at \in Chans => srv'.who = c)
  <1>1. Server(c) \in Ends /\ Server(c)[1] = "server" /\ Server(c)[2] = c
    BY EndsFacts
  <1>2. Loop.at = "select" /\ "select" \notin Chans
    BY DEF Loop, Chans
  <1>3. \A ch \in Chans : Waiting(Server(c), ch) = <<>>
    BY <1>1, <1>2 DEF Waiting
  <1>4. CASE Chan(Server(c), chan) = <<>>
    <2>1. conn' = Filled(Server(c), chan, m) /\ srv' = Loop
      BY <1>4 DEF ServerPut
    <2>2. \A ch \in Chans : Waiting(Server(c), ch)' = <<>>
      BY <1>1, <1>2, <2>1 DEF Waiting
    <2> QED BY <1>1, <1>2, <1>3, <1>4, <2>1, <2>2, FilledFields DEF Puts
  <1>5. CASE Chan(Server(c), chan) # <<>>
    <2>1. srv' = [Loop EXCEPT !.at = chan, !.who = c, !.msg = m] /\ conn' = conn
      BY <1>5 DEF ServerPut
    <2>2. srv'.at = chan /\ srv'.who = c /\ srv'.msg = m
      BY <2>1 DEF Loop
    <2>3. \A ch \in Chans : Waiting(Server(c), ch)' = IF ch = chan THEN <<m>> ELSE <<>>
      BY <1>1, <2>2 DEF Waiting
    <2> QED BY <1>3, <1>5, <2>1, <2>2, <2>3 DEF Puts
  <1> QED BY <1>4, <1>5

\* So does a client's loopServe.
LEMMA ClientPuts ==
  ASSUME Types, NEW c \in Clients, NEW chan \in Chans, NEW m, cli[c].at = "select", ClientPut(c, chan, m)
  PROVE  Puts(Client(c), chan, m) /\ \A d \in Clients : d # c => cli'[d] = cli[d]
  <1>1. Client(c) \in Ends /\ Client(c)[1] = "client" /\ Client(c)[2] = c
    BY EndsFacts
  <1>2. Loop.at = "select" /\ "select" \notin Chans /\ cli \in [Clients -> LoopT] /\ cli[c] \in LoopT
    BY DEF Loop, Chans, Types
  <1>3. \A ch \in Chans : Waiting(Client(c), ch) = <<>>
    BY <1>1, <1>2 DEF Waiting
  <1>4. CASE Chan(Client(c), chan) = <<>>
    <2>1. conn' = Filled(Client(c), chan, m) /\ cli' = [cli EXCEPT ![c] = Loop]
      BY <1>4 DEF ClientPut
    <2>2. cli'[c] = Loop /\ \A d \in Clients : d # c => cli'[d] = cli[d]
      BY <1>2, <2>1
    <2>3. \A ch \in Chans : Waiting(Client(c), ch)' = <<>>
      BY <1>1, <1>2, <2>2 DEF Waiting
    <2> QED BY <1>1, <1>3, <1>4, <2>1, <2>2, <2>3, FilledFields DEF Puts
  <1>5. CASE Chan(Client(c), chan) # <<>>
    <2>1. cli' = [cli EXCEPT ![c].at = chan, ![c].msg = m] /\ conn' = conn
      BY <1>5 DEF ClientPut
    <2>2. cli'[c].at = chan /\ cli'[c].msg = m /\ \A d \in Clients : d # c => cli'[d] = cli[d]
      BY <1>2, <2>1 DEF LoopT
    <2>3. \A ch \in Chans : Waiting(Client(c), ch)' = IF ch = chan THEN <<m>> ELSE <<>>
      BY <1>1, <2>2 DEF Waiting
    <2> QED BY <1>3, <1>5, <2>1, <2>2, <2>3 DEF Puts
  <1> QED BY <1>4, <1>5

\* loopServe hands over the message it waited with.
HandsOver(k, chan, m) ==
    /\ \A e \in Ends : e # k => conn'[e] = conn[e]
    /\ Chan(k, chan) = <<>> /\ Fills(k, chan, m)
    /\ \A ch \in Chans : Waiting(k, ch)' = <<>> /\ Waiting(k, ch) = IF ch = chan THEN <<m>> ELSE <<>>

\* The server's loopServe hands over the message it waited with.
LEMMA ServerHands ==
  ASSUME Types, NEW c \in Clients, NEW chan \in Chans, NEW m, srv.at = chan, srv.who = c, srv.msg = m,
         Chan(Server(c), chan) = <<>>, conn' = Filled(Server(c), chan, m), srv' = Loop
  PROVE  HandsOver(Server(c), chan, m)
  <1>1. Server(c) \in Ends /\ Server(c)[1] = "server" /\ Server(c)[2] = c
    BY EndsFacts
  <1>2. Loop.at = "select" /\ "select" \notin Chans
    BY DEF Loop, Chans
  <1>3. \A ch \in Chans : Waiting(Server(c), ch)' = <<>>
    BY <1>1, <1>2 DEF Waiting
  <1>4. \A ch \in Chans : Waiting(Server(c), ch) = IF ch = chan THEN <<m>> ELSE <<>>
    BY <1>1 DEF Waiting
  <1>5. Fills(Server(c), chan, m) /\ \A e \in Ends : e # Server(c) => conn'[e] = conn[e]
    BY <1>1, FilledFields
  <1> QED BY <1>3, <1>4, <1>5 DEF HandsOver

\* So does a client's loopServe.
LEMMA ClientHands ==
  ASSUME Types, NEW c \in Clients, NEW chan \in Chans, NEW m, cli[c].at = chan, cli[c].msg = m,
         Chan(Client(c), chan) = <<>>, conn' = Filled(Client(c), chan, m), cli' = [cli EXCEPT ![c] = Loop]
  PROVE  HandsOver(Client(c), chan, m) /\ \A d \in Clients : d # c => cli'[d] = cli[d]
  <1>1. Client(c) \in Ends /\ Client(c)[1] = "client" /\ Client(c)[2] = c
    BY EndsFacts
  <1>2. Loop.at = "select" /\ "select" \notin Chans /\ cli'[c] = Loop /\ \A d \in Clients : d # c => cli'[d] = cli[d]
    BY DEF Loop, Chans, Types
  <1>3. \A ch \in Chans : Waiting(Client(c), ch)' = <<>>
    BY <1>1, <1>2 DEF Waiting
  <1>4. \A ch \in Chans : Waiting(Client(c), ch) = IF ch = chan THEN <<m>> ELSE <<>>
    BY <1>1 DEF Waiting
  <1>5. Fills(Client(c), chan, m) /\ \A e \in Ends : e # Client(c) => conn'[e] = conn[e]
    BY <1>1, FilledFields
  <1> QED BY <1>2, <1>3, <1>4, <1>5 DEF HandsOver

\* The streams after each of them.
LEMMA FlowPutRecv ==
  ASSUME Inv, Types', NEW k \in Ends, \A e \in Ends : e # k => View(e)' = View(e), SameRest(k),
         net[k] # <<>>, net'[k] = Tail(net[k]), Puts(k, "recvChan", Head(net[k]))
  PROVE  Streams'
  <1>1. Waiting(k, "sendChan")' = Waiting(k, "sendChan") /\ Waiting(k, "recvChan") = <<>>
    BY DEF Puts, Chans
  <1>2. SameConn(conn'[k], conn[k])
    BY DEF Puts, Fills, SameConn
  <1>3. \/ conn[k].recvChan = <<>> /\ conn'[k].recvChan = <<Head(net[k])>> /\ Waiting(k, "recvChan")' = <<>>
        \/ conn'[k].recvChan = conn[k].recvChan /\ Waiting(k, "recvChan")' = <<Head(net[k])>>
    BY DEF Puts, Fills, Chan
  <1> QED BY <1>1, <1>2, <1>3, FlowRead

\* Write keeps the streams when loopServe puts the payload into sendChan or waits with it.
LEMMA FlowPutSend ==
  ASSUME Inv, Types', NEW k \in Ends, \A e \in Ends : e # k => View(e)' = View(e), net'[k] = net[k], got'[k] = got[k],
         IsFresh(k)' = IsFresh(k), wrote'[k] = wrote[k] + 1, NEW d \in Message, d = genDataMsg(conn[k].connId, wrote[k] + 1),
         Puts(k, "sendChan", d)
  PROVE  Streams'
  <1>1. Waiting(k, "recvChan")' = Waiting(k, "recvChan") /\ Waiting(k, "sendChan") = <<>>
    BY DEF Puts, Chans
  <1>2. SameRecv(conn'[k], conn[k]) /\ SameNumbers(conn'[k], conn[k]) /\ conn'[k].closed = conn[k].closed
    BY DEF Puts, Fills, SameRecv, SameNumbers
  <1>3. IF conn[k].sendChan = <<>> THEN conn'[k].sendChan = <<d>> /\ Waiting(k, "sendChan")' = <<>>
                                   ELSE conn'[k].sendChan = conn[k].sendChan /\ Waiting(k, "sendChan")' = <<d>>
    BY DEF Puts, Fills, Chan
  <1> QED BY <1>1, <1>2, <1>3, FlowWrite

\* Handing over keeps the streams.
LEMMA FlowHandOver ==
  ASSUME Inv, Types', NEW k \in Ends, \A e \in Ends : e # k => View(e)' = View(e), net'[k] = net[k], SameRest(k),
         NEW chan \in Chans, NEW m \in Message, HandsOver(k, chan, m)
  PROVE  Streams'
  <1>1. CASE chan = "recvChan"
    <2>1. /\ SameConn(conn'[k], conn[k]) /\ Waiting(k, "sendChan")' = Waiting(k, "sendChan") /\ Waiting(k, "recvChan") = <<m>>
          /\ conn[k].recvChan = <<>> /\ conn'[k].recvChan = <<m>> /\ Waiting(k, "recvChan")' = <<>>
      BY <1>1 DEF HandsOver, Chans, Chan, Fills
    <2> QED BY <2>1, FlowHand
  <1>2. CASE chan = "sendChan"
    <2>1. /\ SameRecv(conn'[k], conn[k]) /\ SameNumbers(conn'[k], conn[k]) /\ conn'[k].closed = conn[k].closed
          /\ Waiting(k, "recvChan")' = Waiting(k, "recvChan") /\ Waiting(k, "sendChan") = <<m>>
          /\ conn[k].sendChan = <<>> /\ conn'[k].sendChan = <<m>> /\ Waiting(k, "sendChan")' = <<>>
      BY <1>2 DEF HandsOver, Chans, Chan, Fills
    <2>2. got'[k] = got[k] /\ wrote'[k] = wrote[k] /\ IsFresh(k)' = IsFresh(k)
      BY DEF SameRest
    <2> QED BY <2>1, <2>2, FlowHandSend
  <1> QED BY <1>1, <1>2 DEF Chans

(***************************************************************************)
(* The steps of the two kinds of loopServe and of the applications.        *)
(***************************************************************************)
\* A lost packet keeps the streams.
LEMMA LoseStreams == ASSUME Inv, Types', NEW k \in Ends, Lose(k), met' = met PROVE Streams'
  <1>1. /\ net[k] # <<>> /\ net' = [net EXCEPT ![k] = Tail(@)] /\ UNCHANGED <<conn, srv, cli, got, wrote>>
        /\ net \in [Ends -> Seq(Message)]
    BY DEF Lose, serverVars, appVars, Inv, Types
  <1>2. \A e \in Ends : SameRest(e) /\ (e # k => net'[e] = net[e]) /\ \A chan \in Chans : Waiting(e, chan)' = Waiting(e, chan)
    BY <1>1 DEF SameRest, IsFresh, Waiting
  <1>3. \A e \in Ends : e # k => View(e)' = View(e)
    BY <1>1, <1>2, OthersKept
  <1>4. SameConn(conn'[k], conn[k]) /\ conn'[k].recvChan = conn[k].recvChan /\ net'[k] = Tail(net[k])
    BY <1>1 DEF SameConn
  <1> QED BY <1>1, <1>2, <1>3, <1>4, FlowLose DEF Chans

\* The server's loopServe is at its select, or closing, before and after the step.
LEMMA ServerIdle ==
  ASSUME cli' = cli, srv.at \notin Chans, srv'.at \notin Chans
  PROVE  \A e \in Ends : \A chan \in Chans : Waiting(e, chan)' = Waiting(e, chan)
  BY DEF Waiting, Chans

\* A step that only concerns what the views leave out.
LEMMA FlowIdle ==
  ASSUME Inv, net' = net, got' = got, wrote' = wrote, met' = met,
         \A e \in Ends : SameConn(conn'[e], conn[e]) /\ conn'[e].recvChan = conn[e].recvChan,
         \A e \in Ends : \A chan \in Chans : Waiting(e, chan)' = Waiting(e, chan)
  PROVE  Streams'
  <1>1. ASSUME NEW e \in Ends PROVE View(e)' = View(e)
    <2>1. SameRest(e) /\ In(e)' = In(e)
      BY DEF SameRest, IsFresh, In, Chans
    <2> QED BY <2>1, ViewKept DEF Chans
  <1> QED BY <1>1, NoConnection DEF Inv

\* Going on to close, loopServe waits with no message.
LEMMA NextAt == ASSUME NEW todo, NextToClose(todo) PROVE srv'.at \notin Chans
  <1>1. CASE todo = {}
    BY <1>1 DEF NextToClose, Loop, Chans
  <1>2. CASE todo # {}
    <2>1. PICK c \in todo : srv' = [Loop EXCEPT !.at = "closeChan", !.who = c, !.todo = todo \ {c}]
      BY <1>2 DEF NextToClose
    <2>2. srv'.at = "closeChan"
      BY <2>1 DEF Loop
    <2> QED BY <2>2 DEF Chans
  <1> QED BY <1>1, <1>2

\* An end that returns leaves its streams as they are.
LEMMA AtSame ==
  ASSUME Types, NEW k \in Ends, NEW a, conn' = conn \/ conn' = [conn EXCEPT ![k].at = a]
  PROVE  \A e \in Ends : SameConn(conn'[e], conn[e]) /\ conn'[e].recvChan = conn[e].recvChan
  <1> SUFFICES ASSUME NEW e \in Ends PROVE SameConn(conn'[e], conn[e]) /\ conn'[e].recvChan = conn[e].recvChan
    OBVIOUS
  <1>1. conn \in [Ends -> ConnT] /\ conn[e] \in ConnT
    BY DEF Types
  <1>2. conn'[e] = conn[e] \/ conn'[e] = [conn[e] EXCEPT !.at = a]
    BY <1>1
  <1>3. CASE conn'[e] = conn[e]
    BY <1>3 DEF SameConn
  <1>4. CASE conn'[e] = [conn[e] EXCEPT !.at = a]
    BY <1>1, <1>4 DEF SameConn, ConnT
  <1> QED BY <1>2, <1>3, <1>4

\* Write of the server keeps the streams.
LEMMA WriteStreams == ASSUME Inv, Types', NEW c \in Clients, ServerWrite(c), met' = met PROVE Streams'
  <1> DEFINE k == Server(c)
             d == genDataMsg(conn[k].connId, wrote[k] + 1)
  <1>0. Types /\ k \in Ends /\ conn[k].connId \in 0 .. MaxConns /\ wrote[k] \in Nat /\ k[1] = "server"
    BY EndsFacts, PartTypes DEF Inv, Types
  <1>1. /\ srv.at = "select" /\ wrote[k] < MaxWrites["server"] /\ wrote' = [wrote EXCEPT ![k] = @ + 1]
        /\ ServerPut(c, "sendChan", d) /\ UNCHANGED <<net, cli, got>>
    BY DEF ServerWrite
  <1>2. d \in Message
    <2>1. wrote[k] + 1 \in 0 .. MaxWrites["client"] + MaxWrites["server"]
      BY <1>0, <1>1, LspAssumption
    <2> QED BY <1>0, <2>1, MessageTypes
  <1> HIDE DEF d
  <1>3. Puts(k, "sendChan", d) /\ (srv'.at \in Chans => srv'.who = c)
    BY <1>0, <1>1, ServerPuts DEF Chans
  <1>4. wrote'[k] = wrote[k] + 1 /\ \A e \in Ends : e # k => wrote'[e] = wrote[e]
    BY <1>0, <1>1 DEF Types
  <1>5. \A e \in Ends : e # k => conn'[e] = conn[e] /\ net'[e] = net[e] /\ SameRest(e)
    BY <1>1, <1>3, <1>4 DEF Puts, SameRest, IsFresh
  <1>6. \A e \in Ends : e # k => View(e)' = View(e)
    BY <1>1, <1>3, <1>5, ServerOnly DEF Chans
  <1>7. net'[k] = net[k] /\ got'[k] = got[k] /\ IsFresh(k)' = IsFresh(k)
    BY <1>1 DEF IsFresh
  <1>8. d = genDataMsg(conn[k].connId, wrote[k] + 1)
    BY DEF d
  <1> HIDE DEF k
  <1> QED BY <1>0, <1>2, <1>3, <1>4, <1>6, <1>7, <1>8, FlowPutSend

\* Write of a client keeps the streams.
LEMMA ClientWriteStreams == ASSUME Inv, Types', NEW c \in Clients, ClientWrite(c), met' = met PROVE Streams'
  <1> DEFINE k == Client(c)
             d == genDataMsg(conn[k].connId, wrote[k] + 1)
  <1>0. Types /\ k \in Ends /\ conn[k].connId \in 0 .. MaxConns /\ wrote[k] \in Nat /\ k[1] = "client"
    BY EndsFacts, PartTypes DEF Inv, Types
  <1>1. /\ cli[c].at = "select" /\ wrote[k] < MaxWrites["client"] /\ wrote' = [wrote EXCEPT ![k] = @ + 1]
        /\ ClientPut(c, "sendChan", d) /\ UNCHANGED <<net, srv, got>>
    BY DEF ClientWrite, serverVars
  <1>2. d \in Message
    <2>1. wrote[k] + 1 \in 0 .. MaxWrites["client"] + MaxWrites["server"]
      BY <1>0, <1>1, LspAssumption
    <2> QED BY <1>0, <2>1, MessageTypes
  <1> HIDE DEF d
  <1>3. Puts(k, "sendChan", d) /\ \A b \in Clients : b # c => cli'[b] = cli[b]
    BY <1>0, <1>1, ClientPuts DEF Chans
  <1>4. wrote'[k] = wrote[k] + 1 /\ \A e \in Ends : e # k => wrote'[e] = wrote[e]
    BY <1>0, <1>1 DEF Types
  <1>5. \A e \in Ends : e # k => conn'[e] = conn[e] /\ net'[e] = net[e] /\ SameRest(e)
    BY <1>1, <1>3, <1>4 DEF Puts, SameRest, IsFresh
  <1>6. \A e \in Ends : e # k => View(e)' = View(e)
    BY <1>1, <1>3, <1>5, ClientOnly
  <1>7. net'[k] = net[k] /\ got'[k] = got[k] /\ IsFresh(k)' = IsFresh(k)
    BY <1>1 DEF IsFresh
  <1>8. d = genDataMsg(conn[k].connId, wrote[k] + 1)
    BY DEF d
  <1> HIDE DEF k
  <1> QED BY <1>0, <1>2, <1>3, <1>4, <1>6, <1>7, <1>8, FlowPutSend

\* A packet that a client's loopServe reads keeps the streams.
LEMMA ClientReadStreams == ASSUME Inv, Types', NEW c \in Clients, ClientRead(c), met' = met PROVE Streams'
  <1> DEFINE k == Client(c)
  <1>0. Types /\ k \in Ends /\ net \in [Ends -> Seq(Message)]
    BY EndsFacts DEF Inv, Types
  <1>1. /\ cli[c].at = "select" /\ net[k] # <<>> /\ net' = [net EXCEPT ![k] = Tail(@)]
        /\ ClientPut(c, "recvChan", Head(net[k])) /\ UNCHANGED <<srv, got, wrote>>
    BY DEF ClientRead, serverVars, appVars
  <1>3. Puts(k, "recvChan", Head(net[k])) /\ \A b \in Clients : b # c => cli'[b] = cli[b]
    BY <1>0, <1>1, ClientPuts DEF Chans
  <1>4. net'[k] = Tail(net[k]) /\ \A e \in Ends : e # k => net'[e] = net[e]
    BY <1>0, <1>1
  <1>5. \A e \in Ends : SameRest(e) /\ (e # k => conn'[e] = conn[e] /\ net'[e] = net[e])
    BY <1>1, <1>3, <1>4 DEF Puts, SameRest, IsFresh
  <1>6. \A e \in Ends : e # k => View(e)' = View(e)
    BY <1>1, <1>3, <1>5, ClientOnly
  <1> HIDE DEF k
  <1> QED BY <1>0, <1>1, <1>3, <1>4, <1>5, <1>6, FlowPutRecv

\* A message that a client's loopServe hands over keeps the streams.
LEMMA ClientHandStreams == ASSUME Inv, Types', NEW c \in Clients, ClientHandOver(c), met' = met PROVE Streams'
  <1> DEFINE k == Client(c)
  <1>0. Types /\ k \in Ends
    BY EndsFacts DEF Inv
  <1>1. PICK chan \in Chans, m \in Message : cli[c].at = chan /\ cli[c].msg = m
    BY <1>0 DEF ClientHandOver, Types, LoopT, Chans
  <1>2. /\ Chan(k, chan) = <<>> /\ conn' = Filled(k, chan, m) /\ cli' = [cli EXCEPT ![c] = Loop]
        /\ UNCHANGED <<net, srv, got, wrote>>
    BY <1>1 DEF ClientHandOver, serverVars, appVars
  <1>3. HandsOver(k, chan, m) /\ \A b \in Clients : b # c => cli'[b] = cli[b]
    BY <1>0, <1>1, <1>2, ClientHands
  <1>4. \A e \in Ends : SameRest(e) /\ net'[e] = net[e] /\ (e # k => conn'[e] = conn[e])
    BY <1>2, <1>3 DEF HandsOver, SameRest, IsFresh
  <1>5. \A e \in Ends : e # k => View(e)' = View(e)
    BY <1>2, <1>3, <1>4, ClientOnly
  <1> HIDE DEF k
  <1> QED BY <1>0, <1>3, <1>4, <1>5, FlowHandOver

\* Calls of Close, and ends that return.
LEMMA ClientLeaves ==
  ASSUME Inv, Types', NEW c \in Clients, ClientClose(c) \/ ClientRemove(c), met' = met PROVE Streams'
  <1>0. Types /\ Client(c) \in Ends /\ conn \in [Ends -> ConnT] /\ cli \in [Clients -> LoopT]
    BY EndsFacts DEF Inv, Types
  <1>1. /\ UNCHANGED <<net, srv, got, wrote>> /\ cli[c].at = "select"
        /\ cli' = [cli EXCEPT ![c].at = "closeChan"] \/ cli' = [cli EXCEPT ![c].at = "exit"]
        /\ conn' = conn \/ conn' = [conn EXCEPT ![Client(c)].at = "gone"]
    BY DEF ClientClose, ClientRemove, serverVars, appVars
  <1>2. \A e \in Ends : SameConn(conn'[e], conn[e]) /\ conn'[e].recvChan = conn[e].recvChan
    BY <1>0, <1>1, AtSame
  <1>3. \A b \in Clients : cli'[b] = cli[b] \/ (cli[b].at = "select" /\ cli'[b].at \in {"closeChan", "exit"})
    <2> TAKE b \in Clients
    <2>1. CASE b # c
      <3>1. cli' = [cli EXCEPT ![c].at = "closeChan"] \/ cli' = [cli EXCEPT ![c].at = "exit"]
        BY ONLY <1>1
      <3>2. cli'[b] = cli[b]
        BY ONLY <1>0, <2>1, <3>1, b \in Clients, c \in Clients
      <3> QED BY <3>2
    <2>2. CASE b = c
      <3>1. cli'[c] = [cli[c] EXCEPT !.at = "closeChan"] \/ cli'[c] = [cli[c] EXCEPT !.at = "exit"]
        BY <1>0, <1>1
      <3>2. cli'[c].at \in {"closeChan", "exit"}
        BY <1>0, <3>1 DEF LoopT
      <3> QED BY <1>1, <2>2, <3>2
    <2> QED BY <2>1, <2>2
  <1>4. \A e \in Ends : \A chan \in Chans : Waiting(e, chan)' = Waiting(e, chan)
    BY <1>1, <1>3, EndsFacts DEF Waiting, Chans
  <1> QED BY <1>1, <1>2, <1>4, FlowIdle

\* Close, CloseAll and the removal of a connection at the server keep the streams.
LEMMA ServerLeaves ==
  ASSUME Inv, Types', NEW c \in Clients, ServerClose(c) \/ ServerCloseAll \/ ServerRemove(c), met' = met PROVE Streams'
  <1>0. Types /\ Server(c) \in Ends /\ conn \in [Ends -> ConnT]
    BY EndsFacts DEF Inv, Types
  <1>1. /\ UNCHANGED <<net, cli, got, wrote>> /\ srv.at = "select"
        /\ conn' = conn \/ conn' = [conn EXCEPT ![Server(c)].at = "gone"]
    BY DEF ServerClose, ServerCloseAll, ServerRemove, appVars
  <1>2. srv'.at \notin Chans
    <2>1. srv \in LoopT
      BY <1>0 DEF Types
    <2>2. CASE ServerClose(c)
      BY <2>1, <2>2 DEF ServerClose, LoopT, Chans
    <2>3. CASE ServerCloseAll
      BY <2>3, NextAt DEF ServerCloseAll
    <2>4. CASE ServerRemove(c)
      BY <1>1, <2>1, <2>4 DEF ServerRemove, LoopT, Chans
    <2> QED BY <2>2, <2>3, <2>4
  <1>3. \A e \in Ends : SameConn(conn'[e], conn[e]) /\ conn'[e].recvChan = conn[e].recvChan
    BY <1>0, <1>1, AtSame
  <1>4. \A e \in Ends : \A chan \in Chans : Waiting(e, chan)' = Waiting(e, chan)
    BY <1>1, <1>2, ServerIdle DEF Chans
  <1> QED BY <1>1, <1>3, <1>4, FlowIdle

\* What the server's loopServe hands over keeps the streams.
LEMMA HandStreams == ASSUME Inv, Types', ServerHandOver, met' = met PROVE Streams'
  <1>0. Types /\ conn \in [Ends -> ConnT]
    BY DEF Inv, Types
  <1>1. CASE srv.at \in Chans
    <2>1. PICK c \in Clients, chan \in Chans, m \in Message : srv.at = chan /\ srv.msg = m /\ srv.who = c
      BY <1>0, <1>1 DEF Types, LoopT, Chans
    <2> DEFINE k == Server(c)
    <2>2. /\ Chan(k, chan) = <<>> /\ conn' = Filled(k, chan, m) /\ srv' = Loop /\ UNCHANGED <<net, cli, got, wrote>>
      BY <1>1, <2>1 DEF ServerHandOver, appVars, Chans
    <2>3. HandsOver(k, chan, m) /\ k \in Ends
      BY <1>0, <2>1, <2>2, ServerHands, EndsFacts
    <2>4. \A e \in Ends : SameRest(e) /\ net'[e] = net[e] /\ (e # k => conn'[e] = conn[e])
      BY <2>2, <2>3 DEF HandsOver, SameRest, IsFresh
    <2>5. \A e \in Ends : e # k => View(e)' = View(e)
      <3>1. srv'.at \notin Chans
        BY <2>2 DEF Loop, Chans
      <3> QED BY <2>1, <2>2, <2>4, <3>1, ServerOnly
    <2> HIDE DEF k
    <2> QED BY <2>3, <2>4, <2>5, FlowHandOver
  <1>2. CASE srv.at \notin Chans
    <2>0. /\ srv.at = "closeChan" /\ conn' = [conn EXCEPT ![Server(srv.who)].closed = TRUE] /\ NextToClose(srv.todo)
          /\ UNCHANGED <<net, cli, got, wrote>>
      BY <1>2 DEF ServerHandOver, appVars, Chans
    <2>1. PICK c \in Clients : srv.who = c
      BY <1>0, <2>0 DEF Types
    <2> DEFINE k == Server(c)
    <2>2. k \in Ends /\ conn' = [conn EXCEPT ![k].closed = TRUE] /\ srv'.at \notin Chans
      <3>1. srv'.at \notin Chans
        <4>1. PICK t : t = srv.todo
          OBVIOUS
        <4> QED BY <2>0, <4>1, NextAt
      <3> QED BY <2>0, <2>1, <3>1, EndsFacts
    <2>3. /\ SameRecv(conn'[k], conn[k]) /\ SameNumbers(conn'[k], conn[k]) /\ conn'[k].closed
          /\ conn'[k].sendChan = conn[k].sendChan /\ \A e \in Ends : e # k => conn'[e] = conn[e]
      <3>1. conn'[k] = [conn[k] EXCEPT !.closed = TRUE] /\ conn[k] \in ConnT /\ \A e \in Ends : e # k => conn'[e] = conn[e]
        BY <1>0, <2>2
      <3> HIDE DEF k
      <3> QED BY <3>1 DEF SameRecv, SameNumbers, ConnT
    <2>4. \A e \in Ends : SameRest(e) /\ net'[e] = net[e]
      BY <2>0 DEF SameRest, IsFresh
    <2>5. \A e \in Ends : e # k => View(e)' = View(e)
      BY <1>2, <2>0, <2>2, <2>3, <2>4, ServerOnly
    <2>6. \A chan \in Chans : Waiting(k, chan)' = Waiting(k, chan)
      BY <1>2, <2>0, <2>2, ServerIdle
    <2>7. got'[k] = got[k] /\ wrote'[k] = wrote[k] /\ IsFresh(k)' = IsFresh(k) /\ net'[k] = net[k]
      BY <2>2, <2>4 DEF SameRest
    <2> HIDE DEF k
    <2> QED BY <2>2, <2>3, <2>5, <2>6, <2>7, FlowClose DEF Chans
  <1> QED BY <1>1, <1>2

(***************************************************************************)
(* Packets that reach the server.                                          *)
(***************************************************************************)
\* A step that adds nothing to connMap meets nobody.
LEMMA MetSame == ASSUME Inv, met' = met \cup connMap', connMap' \subseteq connMap PROVE met' = met
  BY DEF Inv, Met

\* The server creates the connection of an address it has not met.
LEMMA AcceptStreams ==
  ASSUME Inv, Types', NEW c \in Clients, c \notin met, srv.at = "select", net[Server(c)] # <<>>,
         net' = [net EXCEPT ![Server(c)] = Tail(@)], Accept(c), met' = met \cup connMap', UNCHANGED cli
  PROVE  Streams'
  <1> DEFINE k == Server(c)
             q == newLspConn(nextConnId)
             a == genAckMsg(nextConnId, 0)
  <1>0. /\ Types /\ Streams /\ Met /\ k \in Ends /\ Peer(k) \in Ends /\ k[1] = "server" /\ k[2] = c
        /\ \A e \in Ends : e[1] = "server" /\ e # k => e[2] # c
    <2>1. ASSUME NEW e \in Ends, e[1] = "server", e # k PROVE e[2] # c
      <3>1. e = Server(e[2])
        BY <2>1, EndsFacts
      <3> QED BY <2>1, <3>1
    <2> QED BY <2>1, EndsFacts DEF Inv
  <1>1. /\ conn' = [conn EXCEPT ![k] = q] /\ connMap' = connMap \cup {c} /\ nextConnId <= MaxConns
        /\ wrote' = [wrote EXCEPT ![k] = 0] /\ got' = [got EXCEPT ![k] = <<>>] /\ UNCHANGED srv
    BY DEF Accept
  <1>2. a \in Message /\ a.type = "ACK" /\ a.seq = 0
    <2>1. nextConnId \in 0 .. MaxConns /\ 0 \in 0 .. SeqMod - 1
      BY <1>0, <1>1, LspAssumption DEF Types
    <2>2. a.type = "ACK" /\ a.seq = 0
      BY DEF genAckMsg, Msg
    <2> QED BY <2>1, <2>2, MessageTypes
  <1>3. /\ q.sendBuf = <<>> /\ q.recvBuf = <<>> /\ q.sendChan = <<a>> /\ q.recvChan = <<>> /\ q.closed = FALSE
        /\ q.nextRecvSeqNum = 1 % SeqMod /\ q.nextSendSeqNum = 1 % SeqMod /\ q.lastAck = a
    <2>1. nextConnId # 0
      BY <1>0 DEF Types
    <2> HIDE DEF a
    <2>2. /\ q.sendChan = <<IF nextConnId = 0 THEN genConnMsg(0) ELSE genAckMsg(nextConnId, 0)>>
          /\ q.sendBuf = <<>> /\ q.recvBuf = <<>> /\ q.recvChan = <<>> /\ q.closed = FALSE
          /\ q.nextRecvSeqNum = 1 % SeqMod /\ q.nextSendSeqNum = 1 % SeqMod /\ q.lastAck = genAckMsg(nextConnId, 0)
      BY DEF newLspConn
    <2> HIDE DEF q
    <2> QED BY <2>1, <2>2 DEF a
  <1>4. conn[k] = NoConn /\ got[k] = <<>> /\ wrote[k] = 0
    BY <1>0 DEF Met
  <1>5. /\ NoConn.sendBuf = <<>> /\ NoConn.recvBuf = <<>> /\ NoConn.sendChan = <<>> /\ NoConn.recvChan = <<>>
        /\ NoConn.closed = FALSE /\ NoConn.nextRecvSeqNum = 1 % SeqMod /\ NoConn.nextSendSeqNum = 1 % SeqMod
    BY DEF NoConn, newLspConn
  <1>6. /\ conn'[k] = q /\ got'[k] = <<>> /\ wrote'[k] = 0 /\ net'[k] = Tail(net[k])
        /\ \A e \in Ends : e # k => conn'[e] = conn[e] /\ net'[e] = net[e] /\ got'[e] = got[e] /\ wrote'[e] = wrote[e]
    BY <1>0, <1>1 DEF Types
  <1> HIDE DEF q, a
  <1>7. IsFresh(k) /\ ~IsFresh(k)' /\ \A e \in Ends : e # k => IsFresh(e)' = IsFresh(e)
    <2>1. met' = met \cup {c}
      BY <1>0, <1>1 DEF Met
    <2> QED BY <1>0, <2>1 DEF IsFresh
  <1>8. \A e \in Ends : e # k => View(e)' = View(e)
    <2>1. \A e \in Ends : e # k => SameRest(e)
      BY <1>6, <1>7 DEF SameRest
    <2>2. srv.at \notin Chans /\ srv'.at \notin Chans
      BY <1>1 DEF Chans
    <2> QED BY <1>6, <2>1, <2>2, ServerOnly
  <1>9. \A chan \in Chans : Waiting(k, chan)' = Waiting(k, chan)
    BY <1>0, <1>1, ServerIdle DEF Chans
  <1>10. PICK x \in ViewT, y \in ViewT, z \in ViewT : x = View(k) /\ y = View(Peer(k)) /\ z = View(k)'
    BY <1>0, ViewTypes, ViewTypesNext
  <1>11. PICK f \in Nat, g \in Nat : Pair(x, y, f, g)
    BY <1>0, <1>10 DEF Streams
  <1>12. Sub(z.in, x.in) /\ z.in \in Seq(Message)
    <2>1. In(k)' = <<>> \o (Waiting(k, "recvChan") \o Tail(net[k])) /\ In(k) = <<>> \o (Waiting(k, "recvChan") \o net[k])
      BY <1>3, <1>4, <1>5, <1>6, <1>9 DEF In, Chans
    <2>2. Sub(In(k)', In(k))
      <3>1. Waiting(k, "recvChan") \in Seq(Message) /\ net[k] \in Seq(Message) /\ <<>> \in Seq(Message)
        BY <1>0, InParts
      <3> QED BY <2>1, <3>1, InTail
    <2>3. z.in = In(k)' /\ x.in = In(k)
      BY <1>10 DEF View
    <2>4. z.in \in Seq(Message)
      BY ViewFacts
    <2> QED BY <2>2, <2>3, <2>4
  <1>13. /\ x.fresh /\ x.chan = <<>> /\ z.chan = <<a>> /\ z.lastAck = a /\ z.rbuf = x.rbuf /\ z.read = x.read
         /\ z.nextRecv = x.nextRecv /\ z.side = x.side /\ z.buf = x.buf /\ z.wait = x.wait /\ z.closed = x.closed
         /\ z.nextSend = x.nextSend /\ z.wrote = x.wrote
    BY <1>3, <1>4, <1>5, <1>6, <1>7, <1>9, <1>10 DEF View, Chans
  <1>14. Pair(z, y, f, g)
    <2> DEFINE u == [x EXCEPT !.in = z.in]
    <2>1. /\ u \in ViewT /\ u.in = z.in
          /\ u.side = x.side /\ u.fresh = x.fresh /\ u.buf = x.buf /\ u.chan = x.chan /\ u.wait = x.wait
          /\ u.closed = x.closed /\ u.nextSend = x.nextSend /\ u.wrote = x.wrote
          /\ u.rbuf = x.rbuf /\ u.read = x.read /\ u.nextRecv = x.nextRecv /\ u.lastAck = x.lastAck
      BY <1>12 DEF ViewT
    <2> HIDE DEF u
    <2>2. SameOut(u, x) /\ SameIn(u, x) /\ Pair(y, x, g, f)
      BY <1>11, <2>1, PairSwap DEF SameOut, SameIn
    <2>3. Pair(y, u, g, f)
      BY ONLY <1>12, <2>1, <2>2, PairSkip, x \in ViewT, y \in ViewT, f \in Nat, g \in Nat
    <2>4. Pair(u, y, f, g)
      BY <2>3, PairSwap
    <2>5. /\ u.fresh /\ u.chan = <<>> /\ z.chan = <<a>> /\ z.lastAck = a /\ z.in = u.in /\ z.rbuf = u.rbuf /\ z.read = u.read
          /\ z.nextRecv = u.nextRecv /\ z.side = u.side /\ z.buf = u.buf /\ z.wait = u.wait /\ z.closed = u.closed
          /\ z.nextSend = u.nextSend /\ z.wrote = u.wrote /\ u \in ViewT
      BY <1>13, <2>1
    <2> QED BY ONLY <1>2, <2>4, <2>5, PairAccept, y \in ViewT, z \in ViewT, f \in Nat, g \in Nat
  <1> QED BY <1>0, <1>8, <1>10, <1>14, OneEnd

\* A packet that the server's loopServe reads keeps the streams.
LEMMA PacketStreams ==
  ASSUME Inv, Types', NEW c \in Clients, handleUdpPacket(c), met' = met \cup connMap', (connMap' \ connMap) \cap met = {}
  PROVE  Streams'
  <1> DEFINE k == Server(c)
  <1>0. Types /\ k \in Ends /\ conn \in [Ends -> ConnT] /\ net \in [Ends -> Seq(Message)] /\ k[1] = "server"
    BY EndsFacts DEF Inv, Types
  <1>1. /\ srv.at = "select" /\ net[k] # <<>> /\ net' = [net EXCEPT ![k] = Tail(@)] /\ UNCHANGED cli
        /\ net'[k] = Tail(net[k]) /\ \A e \in Ends : e # k => net'[e] = net[e]
    BY <1>0 DEF handleUdpPacket
  <1>2. CASE c \notin connMap /\ Accept(c)
    <2>1. c \in connMap' \ connMap
      BY <1>2 DEF Accept
    <2>2. c \notin met
      BY <2>1
    <2> QED BY <1>1, <1>2, <2>2, AcceptStreams
  <1>3. CASE UNCHANGED <<conn, srv, connMap, nextConnId, appVars>>
    <2>1. met' = met
      BY <1>3, MetSame
    <2>2. \A e \in Ends : SameRest(e) /\ SameConn(conn'[e], conn[e]) /\ conn'[e] = conn[e] /\ conn'[e].recvChan = conn[e].recvChan
      BY <1>3, <2>1 DEF SameRest, SameConn, IsFresh, appVars
    <2>3. \A e \in Ends : \A chan \in Chans : Waiting(e, chan)' = Waiting(e, chan)
      BY <1>1, <1>3, ServerIdle DEF Chans
    <2>4. \A e \in Ends : e # k => View(e)' = View(e)
      BY <1>1, <2>2, <2>3, OthersKept
    <2> HIDE DEF k
    <2> QED BY <1>0, <1>1, <2>2, <2>3, <2>4, FlowLose DEF Chans
  <1>4. CASE ServerPut(c, "recvChan", Head(net[k])) /\ UNCHANGED <<connMap, nextConnId, appVars>>
    <2>1. met' = met
      BY <1>4, MetSame
    <2>2. Puts(k, "recvChan", Head(net[k])) /\ (srv'.at \in Chans => srv'.who = c)
      BY <1>0, <1>1, <1>4, ServerPuts DEF Chans
    <2>3. \A e \in Ends : SameRest(e) /\ (e # k => conn'[e] = conn[e])
      BY <1>4, <2>1, <2>2 DEF SameRest, IsFresh, appVars, Puts
    <2>4. \A e \in Ends : e # k => View(e)' = View(e)
      BY <1>1, <2>2, <2>3, ServerOnly DEF Chans
    <2> HIDE DEF k
    <2> QED BY <1>0, <1>1, <2>2, <2>3, <2>4, FlowPutRecv
  <1>5. CASE /\ srv' = [srv EXCEPT !.at = "panic"]
             /\ conn' = [e \in Ends |-> IF e[1] = "server" THEN [conn[e] EXCEPT !.at = "gone"] ELSE conn[e]]
             /\ UNCHANGED <<connMap, nextConnId, appVars>>
    <2>1. met' = met
      BY <1>5, MetSame
    <2>2. \A e \in Ends : SameConn(conn'[e], conn[e]) /\ conn'[e].recvChan = conn[e].recvChan
      <3> TAKE e \in Ends
      <3>1. conn[e] \in ConnT /\ (conn'[e] = conn[e] \/ conn'[e] = [conn[e] EXCEPT !.at = "gone"])
        BY <1>0, <1>5
      <3> QED BY <3>1 DEF SameConn, ConnT
    <2>3. \A e \in Ends : SameRest(e)
      BY <1>5, <2>1 DEF SameRest, IsFresh, appVars
    <2>4. \A e \in Ends : \A chan \in Chans : Waiting(e, chan)' = Waiting(e, chan)
      <3>1. srv.at \notin Chans /\ srv'.at \notin Chans
        BY <1>0, <1>1, <1>5 DEF Types, LoopT, Chans
      <3> QED BY <1>1, <3>1, ServerIdle
    <2>5. \A e \in Ends : e # k => View(e)' = View(e)
      <3> SUFFICES ASSUME NEW e \in Ends, e # k PROVE View(e)' = View(e)
        OBVIOUS
      <3>1. In(e)' = In(e)
        BY <1>1, <2>2, <2>4 DEF In, Chans
      <3> QED BY <2>2, <2>3, <2>4, <3>1, ViewKept DEF Chans
    <2> HIDE DEF k
    <2> QED BY <1>0, <1>1, <2>2, <2>3, <2>4, <2>5, FlowLose DEF Chans
  <1> QED BY <1>2, <1>3, <1>4, <1>5 DEF handleUdpPacket

(***************************************************************************)
(* Whom the server has met.                                                *)
(***************************************************************************)
\* Ends that a step of one end or of one client leaves alone.
LEMMA OtherServer == ASSUME NEW k \in Ends, NEW d \in Clients, k[1] = "client" \/ k[2] # d PROVE Server(d) # k /\ Server(d) \in Ends
  BY EndsFacts

\* What Met requires of a step that does not touch the ends of clients that were not met.
LEMMA MetKept ==
  ASSUME Met, met' = met \cup connMap', srv'.todo \subseteq met',
         srv'.at \in {"recvChan", "sendChan", "closeChan"} => srv'.who \in met',
         \A d \in Clients : d \notin met' => /\ conn'[Server(d)] = conn[Server(d)] /\ got'[Server(d)] = got[Server(d)]
                                             /\ wrote'[Server(d)] = wrote[Server(d)]
  PROVE  Met'
  BY DEF Met, Server

\* An end that was never made is already gone.
LEMMA GoneAgain == [NoConn EXCEPT !.at = "gone"] = NoConn
  BY DEF NoConn, newLspConn

\* Steps of an end, and losses, keep Met.
LEMMA MetEnd ==
  ASSUME Inv, met' = met \cup connMap', NEW k \in Ends,
         Send(k) \/ ReceiveData(k) \/ ReceiveAck(k) \/ Deliver(k) \/ epochTrigger(k) \/ Lose(k)
  PROVE  Met' /\ met' = met
  <1>0. Met /\ conn \in [Ends -> ConnT] /\ got \in [Ends -> Seq(ReadT)]
    BY DEF Inv, Types
  <1>1. UNCHANGED <<srv, connMap, wrote>> /\ met' = met
    BY MetSame DEF Send, ReceiveData, ReceiveAck, Deliver, epochTrigger, Lose, serverVars, appVars
  <1>2. CASE Lose(k)
    BY <1>0, <1>1, <1>2, MetKept DEF Lose, appVars, Met
  <1>3. CASE ~Lose(k)
    <2>1. Serving(k)
      BY <1>3 DEF Send, ReceiveData, ReceiveAck, Deliver, epochTrigger
    <2>2. k[1] = "client" \/ k[2] \in met
      BY <2>1, ServingIsMet, EndsFacts DEF IsFresh, Sides
    <2>3. \A e \in Ends : e # k => conn'[e] = conn[e] /\ got'[e] = got[e]
      BY <1>0, <1>3 DEF Send, ReceiveData, ReceiveAck, Deliver, epochTrigger, appVars
    <2>4. \A d \in Clients : d \notin met => Server(d) # k /\ Server(d) \in Ends
      BY <2>2, OtherServer
    <2> QED BY <1>0, <1>1, <2>3, <2>4, MetKept DEF Met
  <1> QED BY <1>1, <1>2, <1>3

\* Steps of a client's loopServe keep Met.
LEMMA MetClient ==
  ASSUME Inv, met' = met \cup connMap', NEW c \in Clients, ClientLoop(c) \/ ClientWrite(c) \/ ClientClose(c)
  PROVE  Met' /\ met' = met
  <1>0. Types /\ Met /\ Client(c) \in Ends /\ wrote \in [Ends -> Nat] /\ Client(c)[1] = "client"
    BY EndsFacts DEF Inv, Types
  <1>1. UNCHANGED <<srv, connMap, got>> /\ met' = met
    BY MetSame DEF ClientLoop, ClientRead, ClientHandOver, ClientRemove, ClientWrite, ClientClose, serverVars, appVars
  <1>2. \A e \in Ends : e # Client(c) => wrote'[e] = wrote[e]
    BY <1>0 DEF ClientLoop, ClientRead, ClientHandOver, ClientRemove, ClientWrite, ClientClose, appVars
  <1>3. \A e \in Ends : e # Client(c) => conn'[e] = conn[e]
    <2>1. \A chan : \A m : conn' = Filled(Client(c), chan, m) => \A e \in Ends : e # Client(c) => conn'[e] = conn[e]
      BY <1>0 DEF Filled, Types
    <2>2. ASSUME NEW chan, NEW m, ClientPut(c, chan, m) PROVE \A e \in Ends : e # Client(c) => conn'[e] = conn[e]
      BY <2>1, <2>2 DEF ClientPut
    <2>3. CASE ClientRead(c)
      BY <2>2, <2>3 DEF ClientRead
    <2>4. CASE ClientHandOver(c)
      BY <2>1, <2>4 DEF ClientHandOver
    <2>5. CASE ClientWrite(c)
      BY <2>2, <2>5 DEF ClientWrite
    <2>6. CASE ClientRemove(c) \/ ClientClose(c)
      BY <1>0, <2>6 DEF ClientRemove, ClientClose, Types
    <2> QED BY <2>3, <2>4, <2>5, <2>6 DEF ClientLoop
  <1>4. \A d \in Clients : Server(d) # Client(c) /\ Server(d) \in Ends
    BY <1>0, OtherServer
  <1> QED BY <1>0, <1>1, <1>2, <1>3, <1>4, MetKept DEF Met

\* ServerPut changes at most the end it is for.
LEMMA PutOthers ==
  ASSUME Inv, NEW c \in met, c \in Clients, NEW chan, NEW m, ServerPut(c, chan, m), met' = met
  PROVE  /\ \A d \in Clients : d \notin met => conn'[Server(d)] = conn[Server(d)]
         /\ srv'.todo \subseteq met' /\ (srv'.at \in {"recvChan", "sendChan", "closeChan"} => srv'.who \in met')
  <1>0. Types /\ Server(c) \in Ends /\ Server(c)[2] = c
    BY EndsFacts DEF Inv
  <1>1. \A e \in Ends : e # Server(c) => conn'[e] = conn[e]
    <2>1. conn' = Filled(Server(c), chan, m) => \A e \in Ends : e # Server(c) => conn'[e] = conn[e]
      BY <1>0 DEF Filled, Types
    <2> QED BY <2>1 DEF ServerPut
  <1>2. srv' = Loop \/ srv' = [Loop EXCEPT !.at = chan, !.who = c, !.msg = m]
    BY DEF ServerPut
  <1>3. srv'.todo = {} /\ (srv'.at = "select" \/ srv'.who = c)
    <2>1. CASE srv' = Loop
      BY <2>1 DEF Loop
    <2>2. CASE srv' = [Loop EXCEPT !.at = chan, !.who = c, !.msg = m]
      <3>1. srv'.todo = {} /\ srv'.who = c
        BY ONLY <2>2 DEF Loop
      <3> QED BY <3>1
    <2> QED BY <1>2, <2>1, <2>2
  <1>4. \A d \in Clients : d \notin met => Server(d) # Server(c) /\ Server(d) \in Ends
    BY <1>0, OtherServer
  <1> QED BY <1>1, <1>3, <1>4

\* So does going on to the next connection to close.
LEMMA MetNext ==
  ASSUME Met, NEW todo \in SUBSET met, NextToClose(todo), met' = met
  PROVE  srv'.todo \subseteq met' /\ (srv'.at \in {"recvChan", "sendChan", "closeChan"} => srv'.who \in met')
  <1>1. CASE todo = {}
    BY <1>1 DEF NextToClose, Loop
  <1>2. CASE todo # {}
    <2>1. PICK c \in todo : srv' = [Loop EXCEPT !.at = "closeChan", !.who = c, !.todo = todo \ {c}]
      BY <1>2 DEF NextToClose
    <2>2. srv'.who = c /\ srv'.todo = todo \ {c}
      BY <2>1 DEF Loop
    <2> QED BY <2>2
  <1> QED BY <1>1, <1>2

\* A packet at the server keeps Met: who is in connMap has been met.
LEMMA MetPacket ==
  ASSUME Inv, met' = met \cup connMap', NEW c \in Clients, handleUdpPacket(c)
  PROVE  Met'
  <1> DEFINE k == Server(c)
  <1>0. Types /\ Met /\ k \in Ends /\ k[2] = c /\ srv.at = "select" /\ srv \in LoopT
    BY EndsFacts DEF Inv, Types, handleUdpPacket
  <1>1. CASE Accept(c)
    <2>1. /\ UNCHANGED srv /\ c \in connMap' /\ met \subseteq met'
          /\ \A e \in Ends : e # k => conn'[e] = conn[e] /\ got'[e] = got[e] /\ wrote'[e] = wrote[e]
      BY <1>0, <1>1 DEF Accept, Types
    <2>2. \A d \in Clients : d \notin met' => Server(d) # k /\ Server(d) \in Ends
      BY <1>0, <2>1, OtherServer
    <2> HIDE DEF k
    <2> QED BY <1>0, <2>1, <2>2, MetKept DEF Met
  <1>2. CASE UNCHANGED <<conn, srv, connMap, nextConnId, appVars>>
    <2>1. met' = met
      BY <1>2, MetSame
    <2> QED BY <1>0, <1>2, <2>1, MetKept DEF Met, appVars
  <1>3. CASE c \in connMap /\ ServerPut(c, "recvChan", Head(net[k])) /\ UNCHANGED <<connMap, nextConnId, appVars>>
    <2>1. met' = met /\ c \in met
      BY <1>0, <1>3, MetSame DEF Met
    <2>2. PICK m : ServerPut(c, "recvChan", m)
      BY <1>3
    <2>3. /\ \A d \in Clients : d \notin met => conn'[Server(d)] = conn[Server(d)]
          /\ srv'.todo \subseteq met' /\ (srv'.at \in {"recvChan", "sendChan", "closeChan"} => srv'.who \in met')
      BY <2>1, <2>2, PutOthers
    <2> HIDE DEF k
    <2> QED BY <1>0, <1>3, <2>1, <2>3, MetKept DEF appVars
  <1>4. CASE /\ srv' = [srv EXCEPT !.at = "panic"]
             /\ conn' = [e \in Ends |-> IF e[1] = "server" THEN [conn[e] EXCEPT !.at = "gone"] ELSE conn[e]]
             /\ UNCHANGED <<connMap, nextConnId, appVars>>
    <2>1. met' = met
      BY <1>4, MetSame
    <2>2. srv'.at = "panic" /\ srv'.todo = srv.todo
      BY <1>0, <1>4 DEF LoopT
    <2>3. \A d \in Clients : d \notin met => conn'[Server(d)] = conn[Server(d)]
      <3> TAKE d \in Clients
      <3> HAVE d \notin met
      <3>1. conn[Server(d)] = NoConn /\ Server(d) \in Ends /\ Server(d)[1] = "server"
        BY <1>0, EndsFacts DEF Met
      <3>2. conn'[Server(d)] = [NoConn EXCEPT !.at = "gone"]
        BY <1>4, <3>1
      <3> QED BY <3>1, <3>2, GoneAgain
    <2> HIDE DEF k
    <2> QED BY <1>0, <1>4, <2>1, <2>2, <2>3, MetKept DEF Met, appVars
  <1> QED BY <1>1, <1>2, <1>3, <1>4 DEF handleUdpPacket

\* The other steps of the server's loopServe keep Met.
LEMMA MetServer ==
  ASSUME Inv, met' = met \cup connMap', NEW c \in Clients,
         ServerWrite(c) \/ ServerClose(c) \/ ServerCloseAll \/ ServerHandOver \/ ServerRemove(c)
  PROVE  Met' /\ met' = met
  <1>0. Types /\ Met /\ conn \in [Ends -> ConnT] /\ wrote \in [Ends -> Nat] /\ srv \in LoopT
        /\ \A d \in Clients : Server(d) \in Ends /\ Server(d)[2] = d
    BY EndsFacts DEF Inv, Types
  <1>1. met' = met /\ UNCHANGED got
    <2>1. connMap' \subseteq connMap
      BY DEF ServerWrite, ServerClose, ServerCloseAll, ServerHandOver, ServerRemove
    <2> QED BY <2>1, MetSame DEF ServerWrite, ServerClose, ServerCloseAll, ServerHandOver, ServerRemove, appVars
  <1>2. \A d, b \in Clients : d \notin met /\ b \in met => Server(d) # Server(b)
    BY <1>0
  <1>3. CASE ServerWrite(c)
    <2>1. c \in met
      BY <1>0, <1>3 DEF ServerWrite, getConnById, Met
    <2>2. PICK m : ServerPut(c, "sendChan", m)
      BY <1>3 DEF ServerWrite
    <2>3. /\ \A d \in Clients : d \notin met => conn'[Server(d)] = conn[Server(d)]
          /\ srv'.todo \subseteq met' /\ (srv'.at \in {"recvChan", "sendChan", "closeChan"} => srv'.who \in met')
      BY <1>1, <2>1, <2>2, PutOthers
    <2>4. \A d \in Clients : d \notin met => wrote'[Server(d)] = wrote[Server(d)]
      BY <1>0, <1>2, <1>3, <2>1 DEF ServerWrite
    <2> QED BY <1>0, <1>1, <2>3, <2>4, MetKept
  <1>4. CASE ServerClose(c)
    <2>1. c \in met
      BY <1>0, <1>4 DEF ServerClose, getConnById, Met
    <2>2. srv'.todo = srv.todo /\ srv'.who = c /\ UNCHANGED <<conn, wrote>>
      BY <1>0, <1>4 DEF ServerClose, LoopT, appVars
    <2> QED BY <1>0, <1>1, <2>1, <2>2, MetKept DEF Met
  <1>5. CASE ServerCloseAll
    <2>1. UNCHANGED <<conn, wrote>> /\ NextToClose(connMap)
      BY <1>5 DEF ServerCloseAll, appVars
    <2>2. PICK t \in SUBSET met : t = connMap
      BY <1>0 DEF Met
    <2>3. srv'.todo \subseteq met' /\ (srv'.at \in {"recvChan", "sendChan", "closeChan"} => srv'.who \in met')
      BY <1>0, <1>1, <2>1, <2>2, MetNext
    <2> QED BY <1>0, <1>1, <2>1, <2>3, MetKept
  <1>6. CASE ServerHandOver
    <2>1. UNCHANGED wrote
      BY <1>6 DEF ServerHandOver, appVars
    <2>2. PICK b \in Clients \cap met : srv.who = b
      BY <1>0, <1>6 DEF ServerHandOver, Types, Met
    <2>3. \A e \in Ends : e # Server(b) => conn'[e] = conn[e]
      BY <1>0, <1>6, <2>2 DEF ServerHandOver, Filled
    <2>4. srv'.todo \subseteq met' /\ (srv'.at \in {"recvChan", "sendChan", "closeChan"} => srv'.who \in met')
      <3>1. CASE srv' = Loop
        BY <3>1 DEF Loop
      <3>2. CASE NextToClose(srv.todo)
        <4>1. PICK t \in SUBSET met : t = srv.todo
          BY <1>0 DEF Met
        <4> QED BY <1>0, <1>1, <3>2, <4>1, MetNext
      <3> QED BY <1>6, <3>1, <3>2 DEF ServerHandOver
    <2> QED BY <1>0, <1>1, <1>2, <2>1, <2>2, <2>3, <2>4, MetKept
  <1>7. CASE ServerRemove(c)
    <2>1. /\ UNCHANGED wrote /\ conn[Server(c)].at = "removeChan" /\ srv.at = "select"
          /\ \A e \in Ends : e # Server(c) => conn'[e] = conn[e]
      BY <1>0, <1>7 DEF ServerRemove, appVars
    <2>2. c \in met
      <3>1. NoConn.at = "gone"
        BY DEF NoConn, newLspConn
      <3> QED BY <1>0, <2>1, <3>1 DEF Met
    <2>3. srv'.todo = srv.todo /\ srv'.at \in {"select", "exit"}
      BY <1>0, <1>7, <2>1 DEF ServerRemove, LoopT
    <2> QED BY <1>0, <1>1, <1>2, <2>1, <2>2, <2>3, MetKept DEF Met
  <1> QED BY <1>3, <1>4, <1>5, <1>6, <1>7, <1>1

(***************************************************************************)
(* The invariant.                                                          *)
(***************************************************************************)
\* The condition of a step, with the stutters of connMap and met resolved.
LEMMA OnceStep ==
  ASSUME Met, [Once]_<<connMap, met>> PROVE met' = met \cup connMap' /\ (connMap' \ connMap) \cap met = {}
  <1>1. CASE UNCHANGED <<connMap, met>>
    BY <1>1 DEF Met
  <1> QED BY <1>1 DEF Once

\* Every step keeps the streams.
LEMMA StreamsStep ==
  ASSUME Inv, Types', [Next]_vars, met' = met \cup connMap', (connMap' \ connMap) \cap met = {}
  PROVE  Met' /\ Streams'
  <1>1. ASSUME NEW k \in Ends, ServeStep(k) \/ Deliver(k) \/ epochTrigger(k) \/ Lose(k) PROVE Met' /\ Streams'
    <2>1. Met' /\ met' = met
      BY <1>1, MetEnd DEF ServeStep
    <2>2. CASE Send(k)
      BY <2>1, <2>2, FlowSend
    <2>3. CASE ReceiveData(k)
      BY <2>1, <2>3, FlowReceiveData
    <2>4. CASE ReceiveAck(k)
      BY <2>1, <2>4, FlowReceiveAck
    <2>5. CASE Deliver(k)
      BY <2>1, <2>5, FlowDeliver
    <2>6. CASE epochTrigger(k)
      BY <2>1, <2>6, FlowEpoch
    <2>7. CASE Lose(k)
      BY <2>1, <2>7, LoseStreams
    <2> QED BY <1>1, <2>1, <2>2, <2>3, <2>4, <2>5, <2>6, <2>7 DEF ServeStep
  <1>2. ASSUME NEW c \in Clients, ClientLoop(c) \/ ClientWrite(c) \/ ClientClose(c) PROVE Met' /\ Streams'
    <2>1. Met' /\ met' = met
      BY <1>2, MetClient
    <2> QED BY <1>2, <2>1, ClientReadStreams, ClientHandStreams, ClientLeaves, ClientWriteStreams DEF ClientLoop
  <1>3. ASSUME NEW c \in Clients, handleUdpPacket(c) PROVE Met' /\ Streams'
    BY <1>3, MetPacket, PacketStreams
  <1>4. ASSUME NEW c \in Clients, ServerWrite(c) \/ ServerClose(c) \/ ServerRemove(c) PROVE Met' /\ Streams'
    <2>1. Met' /\ met' = met
      BY <1>4, MetServer
    <2> QED BY <1>4, <2>1, WriteStreams, ServerLeaves
  <1>5. CASE ServerHandOver \/ ServerCloseAll
    <2>1. CASE Clients = {}
      <3>1. Ends = {}
        BY <2>1 DEF Ends
      <3>2. srv.at = "select" \/ srv.who \in Clients
        BY <1>5, <2>1 DEF ServerHandOver, ServerCloseAll, Inv, Types
      <3>3. ServerCloseAll /\ connMap = {} /\ connMap' = {} /\ srv' = Loop
        BY <1>5, <2>1, <3>2 DEF ServerHandOver, ServerCloseAll, Inv, Types, NextToClose
      <3> QED BY <2>1, <3>1, <3>3 DEF Met, Streams, Loop
    <2>2. CASE Clients # {}
      <3>1. PICK c \in Clients : TRUE
        BY <2>2
      <3>2. Met' /\ met' = met
        BY <1>5, MetServer, <3>1
      <3> QED BY <1>5, <3>1, <3>2, HandStreams, ServerLeaves
    <2> QED BY <2>1, <2>2
  <1>6. CASE UNCHANGED vars
    <2>1. UNCHANGED <<conn, net, srv, cli, connMap, got, wrote>>
      BY <1>6 DEF vars
    <2>2. met' = met
      BY <2>1, MetSame
    <2>3. Met'
      BY <2>1, <2>2 DEF Inv, Met
    <2>4. ASSUME NEW e \in Ends PROVE View(e)' = View(e)
      BY <2>1, <2>2 DEF View, In, Waiting, IsFresh
    <2>5. Streams'
      BY <2>4, NoConnection DEF Inv
    <2> QED BY <2>3, <2>5
  <1> QED BY <1>1, <1>2, <1>3, <1>4, <1>5, <1>6 DEF Next, ServerLoop, Application

\* The invariant is inductive under Next and Once.
LEMMA InvStep == Inv /\ [Next]_vars /\ [Once]_<<connMap, met>> => Inv'
  <1> SUFFICES ASSUME Inv, [Next]_vars, [Once]_<<connMap, met>> PROVE Inv'
    OBVIOUS
  <1>1. Types'
    BY TypesStep DEF Inv
  <1>2. met' = met \cup connMap' /\ (connMap' \ connMap) \cap met = {}
    BY OnceStep DEF Inv
  <1>3. Met' /\ Streams'
    BY <1>1, <1>2, StreamsStep
  <1> QED BY <1>1, <1>3 DEF Inv

\* The two ends of a connection as Init makes them.
LEMMA PairInit ==
  ASSUME NEW x \in ViewT, NEW y \in ViewT, x.side = "client", ~x.fresh, x.chan = <<genConnMsg(0)>>, y.side = "server", y.chan = <<>>,
         \A z \in {x, y} : /\ z.buf = <<>> /\ z.rbuf = <<>> /\ z.read = <<>> /\ z.in = <<>> /\ z.wait = <<>> /\ z.wrote = 0
                           /\ ~z.closed /\ z.nextSend = Num(1) /\ z.nextRecv = Num(1) /\ z.lastAck = genAckMsg(0, 0)
  PROVE  Pair(x, y, 0, 1)
  <1>0. x.rbuf = <<>> /\ x.read = <<>> /\ y.rbuf = <<>> /\ y.read = <<>>
    OBVIOUS
  <1>1. Num(0) = 0 /\ Len(<<>>) = 0 /\ Count(x) = 0 /\ Count(y) = 0 /\ 0 + 0 = 0 /\ 1 + 0 = 1
    <2>1. Len(<<>>) = 0
      OBVIOUS
    <2>2. Count(x) = 0 /\ Count(y) = 0
      BY <1>0, <2>1 DEF Count
    <2> QED BY <2>1, <2>2, NumFacts
  <1>2. genConnMsg(0).type = "CONNECT" /\ genConnMsg(0).seq = 0 /\ genConnMsg(0).payload = 0
        /\ genAckMsg(0, 0).type = "ACK" /\ genAckMsg(0, 0).seq = 0
    BY DEF genConnMsg, genAckMsg, Msg
  <1>3. ~AckFirst(x) /\ ~AckFirst(y) /\ ToSend(y) = <<>>
    <2>1. x.chan[1] = genConnMsg(0) /\ Head(x.chan) = genConnMsg(0)
      OBVIOUS
    <2> QED BY <1>2, <2>1 DEF AckFirst, ToSend
  <1>4. Len(ToSend(x)) = 1 /\ ToSend(x)[1] = genConnMsg(0)
    <2>1. ToSend(x) = <<genConnMsg(0)>> \o <<>>
      BY <1>3 DEF ToSend
    <2>2. genConnMsg(0) \in Message
      BY MessageTypes
    <2>3. <<genConnMsg(0)>> \o <<>> = <<genConnMsg(0)>>
      BY <2>2
    <2> QED BY <2>1, <2>3
  <1>5. \A s \in {x, y} : \A f, g, r, n \in Nat : Buffered(s.buf, f) /\ DataFlow(s.in, f, r, n) /\ AckFlow(s.in, g, r)
    BY <1>1 DEF Buffered, DataFlow, AckFlow
  <1>6. Receiving(x) /\ Receiving(y)
    BY <1>1, <1>2 DEF Receiving
  <1>7. Sending(x, 0)
    <2>1. \A i \in 1 .. Len(ToSend(x)) : i = 1
      BY <1>4
    <2>2. Unnumbered(ToSend(x)[1], 0)
      BY <1>2, <1>4 DEF Unnumbered
    <2> QED BY <1>1, <1>4, <2>1, <2>2 DEF Sending
  <1>8. Sending(y, 1)
    BY <1>1, <1>3 DEF Sending
  <1>9. Linked(0, 0, 0) /\ Linked(1, 0, 1)
    BY DEF Linked
  <1>10. Half(x, y, 0)
    BY <1>1, <1>5, <1>6, <1>7, <1>9 DEF Half
  <1>11. Half(y, x, 1)
    BY <1>1, <1>5, <1>6, <1>8, <1>9 DEF Half
  <1> QED BY <1>1, <1>3, <1>10, <1>11 DEF Pair, Unanswered

\* It holds initially.
LEMMA InvInit == Init /\ met = {} => Inv
  <1> SUFFICES ASSUME Init, met = {} PROVE Inv
    OBVIOUS
  <1>1. Types
    BY TypesInit
  <1>2. Met
    <2>1. \A c \in Clients : Server(c) \in Ends /\ Server(c)[1] = "server"
      BY EndsFacts
    <2> QED BY <2>1 DEF Init, Met, Loop
  <1>3. ASSUME NEW c \in Clients PROVE Pair(View(Client(c)), View(Server(c)), 0, 1)
    <2>1. Client(c) \in Ends /\ Server(c) \in Ends /\ Client(c)[1] = "client" /\ Server(c)[1] = "server" /\ Client(c)[2] = c
      BY EndsFacts
    <2>2. View(Client(c)) \in ViewT /\ View(Server(c)) \in ViewT
      BY <1>1, <2>1, ViewTypes
    <2>3. conn[Client(c)] = newLspConn(0) /\ conn[Server(c)] = NoConn
      BY <2>1 DEF Init
    <2>4. \A k \in Ends : \A chan \in {"sendChan", "recvChan"} : Waiting(k, chan) = <<>>
      <3>1. \A k \in Ends : k[2] \in Clients
        BY EndsFacts
      <3> QED BY <3>1 DEF Init, Waiting, Loop
    <2>5. \A k \in Ends : net[k] = <<>> /\ got[k] = <<>> /\ wrote[k] = 0
      BY DEF Init
    <2>6. /\ newLspConn(0).sendBuf = <<>> /\ newLspConn(0).recvBuf = <<>> /\ newLspConn(0).sendChan = <<genConnMsg(0)>>
          /\ newLspConn(0).recvChan = <<>> /\ ~newLspConn(0).closed /\ newLspConn(0).nextRecvSeqNum = Num(1)
          /\ newLspConn(0).nextSendSeqNum = Num(1) /\ newLspConn(0).lastAck = genAckMsg(0, 0)
      BY DEF newLspConn, Num
    <2>7. /\ NoConn.sendBuf = <<>> /\ NoConn.recvBuf = <<>> /\ NoConn.sendChan = <<>>
          /\ NoConn.recvChan = <<>> /\ ~NoConn.closed /\ NoConn.nextRecvSeqNum = Num(1)
          /\ NoConn.nextSendSeqNum = Num(1) /\ NoConn.lastAck = genAckMsg(0, 0)
      BY DEF NoConn, newLspConn, Num
    <2>8. In(Client(c)) = <<>> /\ In(Server(c)) = <<>>
      BY <2>1, <2>3, <2>4, <2>5, <2>6, <2>7 DEF In
    <2>9. ~IsFresh(Client(c))
      BY <2>1 DEF IsFresh
    <2>10. PICK x \in ViewT, y \in ViewT : x = View(Client(c)) /\ y = View(Server(c))
      BY <2>2
    <2>11. /\ x.side = "client" /\ ~x.fresh /\ x.buf = <<>> /\ x.rbuf = <<>> /\ x.read = <<>> /\ x.in = <<>>
           /\ x.chan = <<genConnMsg(0)>> /\ x.wait = <<>> /\ ~x.closed /\ x.nextSend = Num(1) /\ x.nextRecv = Num(1)
           /\ x.lastAck = genAckMsg(0, 0) /\ x.wrote = 0
      <3>1. /\ x.side = Client(c)[1] /\ x.fresh = IsFresh(Client(c)) /\ x.buf = conn[Client(c)].sendBuf
            /\ x.rbuf = conn[Client(c)].recvBuf /\ x.read = got[Client(c)]
            /\ x.in = In(Client(c)) /\ x.chan = conn[Client(c)].sendChan /\ x.wait = Waiting(Client(c), "sendChan")
            /\ x.closed = conn[Client(c)].closed /\ x.nextSend = conn[Client(c)].nextSendSeqNum
            /\ x.nextRecv = conn[Client(c)].nextRecvSeqNum /\ x.lastAck = conn[Client(c)].lastAck
            /\ x.wrote = wrote[Client(c)]
        BY <2>10, ViewFields
      <3> QED BY <2>1, <2>3, <2>4, <2>5, <2>6, <2>8, <2>9, <3>1
    <2>12. /\ y.side = "server" /\ y.buf = <<>> /\ y.rbuf = <<>> /\ y.read = <<>> /\ y.in = <<>>
           /\ y.chan = <<>> /\ y.wait = <<>> /\ ~y.closed /\ y.nextSend = Num(1) /\ y.nextRecv = Num(1)
           /\ y.lastAck = genAckMsg(0, 0) /\ y.wrote = 0
      BY <2>1, <2>3, <2>4, <2>5, <2>7, <2>8, <2>10, ViewFields
    <2> QED BY <2>10, <2>11, <2>12, PairInit
  <1>4. Streams
    <2> SUFFICES ASSUME NEW k \in Ends PROVE \E f, g \in Nat : Pair(View(k), View(Peer(k)), f, g)
      BY DEF Streams
    <2>1. PICK c \in Clients : (k = Client(c) /\ Peer(k) = Server(c)) \/ (k = Server(c) /\ Peer(k) = Client(c))
      BY EndsFacts
    <2>2. Pair(View(Client(c)), View(Server(c)), 0, 1) /\ Pair(View(Server(c)), View(Client(c)), 1, 0)
      BY <1>3, PairSwap
    <2> QED BY <2>1, <2>2
  <1> QED BY <1>1, <1>2, <1>4 DEF Inv

(***************************************************************************)
(* What the invariant says of what was received.                           *)
(***************************************************************************)
\* The payloads of a sequence of messages.
LEMMA PayloadsFacts ==
  ASSUME NEW S, NEW s \in Seq(S), \A m \in S : m.payload \in Nat
  PROVE  /\ Payloads(s) \in Seq(Nat) /\ Len(Payloads(s)) = Len(s)
         /\ \A i \in 1 .. Len(s) : Payloads(s)[i] = s[i].payload
  <1>1. DOMAIN s = 1 .. Len(s) /\ Len(s) \in Nat /\ \A i \in 1 .. Len(s) : s[i] \in S
    OBVIOUS
  <1>2. Payloads(s) = [i \in 1 .. Len(s) |-> s[i].payload] /\ \A i \in 1 .. Len(s) : s[i].payload \in Nat
    BY <1>1 DEF Payloads
  <1> QED BY <1>1, <1>2

\* What an application has read and its recvBuf are the payloads 1, 2, ... of the other one's stream.
LEMMA ReceivedMeans ==
  ASSUME Inv, NEW k \in Ends
  PROVE  /\ Len(Received(k)) = Count(View(k)) /\ DOMAIN Received(k) = 1 .. Count(View(k))
         /\ \A i \in 1 .. Count(View(k)) : Received(k)[i] = i
  <1>1. PICK f \in Nat, g \in Nat : Pair(View(k), View(Peer(k)), f, g)
    BY DEF Inv, Streams
  <1>2. got[k] \in Seq(ReadT) /\ conn[k].recvBuf \in Seq(Message)
    BY DEF Inv, Types, ConnT
  <1>3. (\A m \in Message : m.payload \in Nat) /\ \A m \in ReadT : m.payload \in Nat
    BY LspAssumption DEF Message, ReadT
  <1>4. PICK s \in Seq(Nat), t \in Seq(Nat) : s = Payloads(got[k]) /\ t = Payloads(conn[k].recvBuf)
    BY <1>2, <1>3, PayloadsFacts
  <1>5. /\ Len(s) = Len(got[k]) /\ \A i \in 1 .. Len(s) : s[i] = got[k][i].payload
        /\ Len(t) = Len(conn[k].recvBuf) /\ \A i \in 1 .. Len(t) : t[i] = conn[k].recvBuf[i].payload
    BY <1>2, <1>3, <1>4, PayloadsFacts
  <1>6. /\ \A i \in 1 .. Len(got[k]) : got[k][i].payload = i
        /\ \A i \in 1 .. Len(conn[k].recvBuf) : conn[k].recvBuf[i].payload = Len(got[k]) + i
    BY <1>1, ViewFields DEF Pair, Half, Receiving
  <1>7. Count(View(k)) = Len(s) + Len(t)
    BY <1>5, ViewFields DEF Count
  <1>8. Received(k) = s \o t
    BY <1>4 DEF Received
  <1>9. (\A i \in 1 .. Len(s) : s[i] = i) /\ \A i \in 1 .. Len(t) : t[i] = Len(s) + i
    BY <1>5, <1>6
  <1>10. /\ Len(s \o t) = Len(s) + Len(t) /\ DOMAIN (s \o t) = 1 .. Len(s) + Len(t)
         /\ \A i \in 1 .. Len(s) + Len(t) : (s \o t)[i] = IF i <= Len(s) THEN s[i] ELSE t[i - Len(s)]
    BY s \in Seq(Nat), t \in Seq(Nat)
  <1>11. PICK a \in Nat, b \in Nat : a = Len(s) /\ b = Len(t)
    OBVIOUS
  <1>12. ASSUME NEW i \in 1 .. a + b PROVE (s \o t)[i] = i
    <2>1. CASE i <= a
      BY <1>9, <1>10, <1>11, <1>12, <2>1
    <2>2. CASE i > a
      <3>1. PICK j \in 1 .. b : i = a + j /\ j = i - a
        BY ONLY <2>2, i \in 1 .. a + b, a \in Nat, b \in Nat
      <3>2. (s \o t)[i] = t[j]
        BY <1>10, <1>11, <2>2, <3>1
      <3>3. t[j] = a + j
        BY <1>9, <1>11, <3>1
      <3> QED BY <3>1, <3>2, <3>3
    <2>3. i <= a \/ i > a
      BY ONLY i \in 1 .. a + b, a \in Nat, b \in Nat
    <2> QED BY <2>1, <2>2, <2>3
  <1> QED BY <1>7, <1>8, <1>10, <1>11, <1>12

\* Nothing is received that was not written.
LEMMA CountWritten ==
  ASSUME NEW x \in ViewT, NEW y \in ViewT, NEW f \in Nat, Half(x, y, f) PROVE Count(y) <= x.wrote
  <1>1. PICK n \in Nat : n = f + Len(x.buf)
    BY ViewFacts
  <1>2. (Count(y) = 0 \/ Count(y) < n) /\ n <= x.wrote + 1
    BY <1>1 DEF Half, Linked, Sending
  <1> QED BY <1>2, ViewFacts

\* The invariant gives the order of the streams.
LEMMA OrderMeans == Inv => StreamsInOrder
  <1> SUFFICES ASSUME Inv, NEW k \in Ends, NEW i \in DOMAIN Received(k) PROVE Received(k)[i] = i /\ i <= wrote[Peer(k)]
    BY DEF StreamsInOrder
  <1>1. i \in 1 .. Count(View(k)) /\ Received(k)[i] = i
    BY ReceivedMeans
  <1>2. Peer(k) \in Ends /\ View(k) \in ViewT /\ View(Peer(k)) \in ViewT
    BY EndsFacts, ViewTypes DEF Inv
  <1>3. PICK f \in Nat, g \in Nat : Pair(View(k), View(Peer(k)), f, g)
    BY DEF Inv, Streams
  <1>4. Count(View(k)) <= wrote[Peer(k)]
    BY <1>2, <1>3, CountWritten, ViewFields DEF Pair
  <1>5. Count(View(k)) \in Nat /\ wrote[Peer(k)] \in Nat
    BY <1>2, ViewFacts DEF Inv, Types
  <1> QED BY <1>1, <1>4, <1>5

(***************************************************************************)
(* What is pending at an end.                                              *)
(***************************************************************************)
\* The payloads in a sequence of messages.
LEMMA DataInFacts ==
  ASSUME NEW s \in Seq(Message)
  PROVE  /\ DataIn(s) \in Nat
         /\ (\A i \in 1 .. Len(s) : s[i].type = "DATA") => DataIn(s) = Len(s)
         /\ s # <<>> /\ (\A i \in 2 .. Len(s) : s[i].type = "DATA") => DataIn(s) >= Len(s) - 1
  <1> DEFINE D == {i \in 1 .. Len(s) : s[i].type = "DATA"}
  <1>1. DOMAIN s = 1 .. Len(s) /\ Len(s) \in Nat
    OBVIOUS
  <1>2. DataIn(s) = Cardinality(D)
    BY <1>1 DEF DataIn
  <1>3. IsFiniteSet(1 .. Len(s)) /\ Cardinality(1 .. Len(s)) = Len(s)
    <2>1. 1 \in Int /\ Len(s) \in Int
      BY <1>1
    <2>2. IsFiniteSet(1 .. Len(s)) /\ Cardinality(1 .. Len(s)) = IF 1 > Len(s) THEN 0 ELSE Len(s) - 1 + 1
      BY <2>1, FS_Interval
    <2> QED BY <1>1, <2>2
  <1>4. IsFiniteSet(D) /\ Cardinality(D) \in Nat
    BY <1>3, FS_Subset, FS_CardinalityType
  <1>5. ASSUME \A i \in 1 .. Len(s) : s[i].type = "DATA" PROVE Cardinality(D) = Len(s)
    <2>1. D = 1 .. Len(s)
      BY <1>5
    <2> QED BY <1>3, <2>1
  <1>6. ASSUME s # <<>>, \A i \in 2 .. Len(s) : s[i].type = "DATA" PROVE Cardinality(D) >= Len(s) - 1
    <2>1. 2 \in Int /\ Len(s) \in Int
      BY <1>1
    <2>2. IsFiniteSet(2 .. Len(s)) /\ Cardinality(2 .. Len(s)) = IF 2 > Len(s) THEN 0 ELSE Len(s) - 2 + 1
      BY <2>1, FS_Interval
    <2>3. Cardinality(2 .. Len(s)) >= Len(s) - 1
      BY <1>1, <2>2
    <2>4. 2 .. Len(s) \subseteq D
      BY <1>1, <1>6
    <2>5. Cardinality(2 .. Len(s)) <= Cardinality(D) /\ Cardinality(2 .. Len(s)) \in Nat
      BY <1>4, <2>2, <2>4, FS_Subset, FS_CardinalityType
    <2> HIDE DEF D
    <2> QED BY <1>1, <1>4, <2>3, <2>5
  <1> HIDE DEF D
  <1> QED BY <1>2, <1>4, <1>5, <1>6

\* The payloads x has written and neither holds nor waits to hand on have been received.
LEMMA PendingMeans ==
  ASSUME NEW x \in ViewT, NEW y \in ViewT, NEW f \in Nat, NEW g \in Nat, Half(x, y, f), Unanswered(x, y, g), ~x.closed
  PROVE  x.wrote - (DataIn(x.buf) + DataIn(x.chan) + Len(x.wait)) <= Count(y)
  <1>1. /\ x.buf \in Seq(Message) /\ x.chan \in Seq(Message) /\ x.wait \in Seq(Message) /\ Len(x.chan) <= 1
        /\ Len(x.chan) \in Nat /\ Len(x.wait) \in Nat
    BY ViewFacts DEF Short
  <1>2. PICK w \in Nat, b \in Nat, c \in Nat, v \in Nat, r \in Nat, db \in Nat, dc \in Nat :
           /\ w = x.wrote /\ b = Len(x.buf) /\ c = Len(x.chan) /\ v = Len(x.wait) /\ r = Count(y)
           /\ db = DataIn(x.buf) /\ dc = DataIn(x.chan)
    BY <1>1, ViewFacts, DataInFacts
  <1>3. f <= r + 1 /\ c <= 1 /\ w + 1 = f + b + Len(ToSend(x))
    BY <1>1, <1>2 DEF Half, Linked, Sending
  <1>4. CASE AckFirst(x)
    <2>1. f >= 1 /\ b = 0 /\ Len(ToSend(x)) = v
      <3>1. x.side = "server" /\ x.buf = <<>>
        BY <1>4 DEF Unanswered
      <3>2. ToSend(x) = x.wait
        BY <1>1, <1>4 DEF ToSend
      <3> QED BY <1>2, <3>1, <3>2 DEF Half
    <2>2. w + 1 = f + v
      BY <1>3, <2>1
    <2>3. w - (db + dc + v) <= r
      BY ONLY <1>3, <2>2, w \in Nat, f \in Nat, v \in Nat, r \in Nat, db \in Nat, dc \in Nat, f <= r + 1
    <2> QED BY <1>2, <2>3
  <1>5. CASE ~AckFirst(x)
    <2>1. ToSend(x) = x.chan \o x.wait /\ Len(ToSend(x)) = c + v /\ \A i \in 1 .. c : ToSend(x)[i] = x.chan[i] /\ i \in 1 .. c + v
      <3>1. ToSend(x) = x.chan \o x.wait
        BY <1>5 DEF ToSend
      <3>2. Len(x.chan \o x.wait) = c + v /\ \A i \in 1 .. c : (x.chan \o x.wait)[i] = x.chan[i]
        <4>1. PICK p \in Seq(Message), q \in Seq(Message) : p = x.chan /\ q = x.wait
          BY <1>1
        <4>2. Len(p \o q) = Len(p) + Len(q) /\ \A i \in 1 .. Len(p) : (p \o q)[i] = p[i]
          BY ONLY p \in Seq(Message), q \in Seq(Message)
        <4> QED BY <1>2, <4>1, <4>2
      <3>3. \A i \in 1 .. c : i \in 1 .. c + v
        BY ONLY c \in Nat, v \in Nat
      <3> QED BY <3>1, <3>2, <3>3
    <2>2. w + 1 = f + b + c + v
      BY <1>3, <2>1
    <2>3. CASE f + b = 0
      <3>1. w - (db + dc + v) <= r
        BY ONLY <1>3, <2>2, <2>3, w \in Nat, f \in Nat, v \in Nat, r \in Nat, db \in Nat, dc \in Nat, b \in Nat, c \in Nat
      <3> QED BY <1>2, <3>1
    <2>4. CASE f + b # 0
      <3>1. dc = c
        <4>1. ASSUME NEW i \in 1 .. c PROVE x.chan[i].type = "DATA"
          <5>1. Unnumbered(ToSend(x)[i], f + b + i - 1)
            BY <1>2, <2>1 DEF Half, Sending
          <5>2. f + b + i - 1 # 0
            BY <1>2, <2>4, SMTT(30)
          <5> QED BY <2>1, <5>1, <5>2 DEF Unnumbered
        <4> QED BY <1>1, <1>2, <4>1, DataInFacts
      <3>2. \A i \in 1 .. b : f + i - 1 # 0 => x.buf[i].type = "DATA"
        BY <1>2 DEF Half, Buffered, Item
      <3>3. CASE f >= 1
        <4>1. \A i \in 1 .. b : x.buf[i].type = "DATA"
          BY <3>2, <3>3
        <4>2. db = b
          BY <1>1, <1>2, <4>1, DataInFacts
        <4>3. w - (db + dc + v) <= r
          BY ONLY <1>3, <2>2, <3>1, <4>2, w \in Nat, f \in Nat, v \in Nat, r \in Nat, b \in Nat, c \in Nat
        <4> QED BY <1>2, <4>3
      <3>4. CASE f = 0
        <4>1. \A i \in 2 .. b : x.buf[i].type = "DATA"
          BY <1>2, <3>2, <3>4
        <4>2. x.buf # <<>>
          BY <1>2, <2>4, <3>4
        <4>3. db >= b - 1
          BY <1>1, <1>2, <4>1, <4>2, DataInFacts
        <4>4. w - (db + dc + v) <= r
          BY ONLY <1>3, <2>2, <3>1, <3>4, <4>3, w \in Nat, f \in Nat, v \in Nat, r \in Nat, b \in Nat, c \in Nat, db \in Nat
        <4> QED BY <1>2, <4>4
      <3> QED BY <3>3, <3>4
    <2> QED BY <2>3, <2>4
  <1> QED BY <1>4, <1>5

\* AtLoop counts the payload loopServe waits with.
LEMMA AtLoopMeans ==
  ASSUME Types, NEW k \in Ends PROVE AtLoop(k) = Len(Waiting(k, "sendChan"))
  <1>1. k[1] \in {"server", "client"} /\ k[2] \in Clients
    BY EndsFacts DEF Sides
  <1>2. Len(<<srv.msg>>) = 1 /\ Len(<<cli[k[2]].msg>>) = 1 /\ Len(<<>>) = 0
    OBVIOUS
  <1>3. CASE k[1] = "server"
    BY <1>2, <1>3 DEF AtLoop, LoopOf, Waiting
  <1>4. CASE k[1] = "client"
    <2>1. cli[k[2]] \in LoopT
      BY <1>1 DEF Types
    <2>2. [cli[k[2]] EXCEPT !.who = k[2]].at = cli[k[2]].at /\ [cli[k[2]] EXCEPT !.who = k[2]].who = k[2]
      BY <2>1 DEF LoopT
    <2> QED BY <1>2, <1>4, <2>2 DEF AtLoop, LoopOf, Waiting
  <1> QED BY <1>1, <1>3, <1>4

\* The invariant gives the meaning of the acknowledgements.
LEMMA AckedMeans == Inv => AckedMeansReceived
  <1> SUFFICES ASSUME Inv, NEW k \in Ends, ~conn[k].closed PROVE wrote[k] - Pending(k) <= Len(Received(Peer(k)))
    BY DEF AckedMeansReceived
  <1>1. Types /\ Peer(k) \in Ends
    BY EndsFacts DEF Inv
  <1>2. PICK f \in Nat, g \in Nat : Pair(View(k), View(Peer(k)), f, g)
    BY DEF Inv, Streams
  <1>3. Pending(k) = DataIn(View(k).buf) + DataIn(View(k).chan) + Len(View(k).wait)
    BY <1>1, AtLoopMeans, ViewFields DEF Pending
  <1>4. View(k) \in ViewT /\ View(Peer(k)) \in ViewT /\ ~View(k).closed /\ View(k).wrote = wrote[k]
    BY <1>1, ViewTypes, ViewFields
  <1>5. wrote[k] - Pending(k) <= Count(View(Peer(k)))
    BY <1>2, <1>3, <1>4, PendingMeans DEF Pair
  <1>6. Len(Received(Peer(k))) = Count(View(Peer(k)))
    BY <1>1, ReceivedMeans
  <1> QED BY <1>5, <1>6

\* The invariant holds while the server accepts no address twice.
LEMMA InvHolds == OnceSpec => []Inv
  <1> QED BY InvInit, InvStep, PTL DEF OnceSpec, Spec

\* Each application reads what the other one wrote on the connection, in that order, nothing twice
\* and nothing missing in between, whatever packets are lost, repeated by an epoch or late, whichever
\* ends give up or close, and across the wrap of the numbers, while the server accepts no address
\* twice (receive, send, epochTrigger, handleUdpPacket).
THEOREM LspStreamsInOrder == OnceSpec => []StreamsInOrder
  <1> QED BY InvHolds, OrderMeans, PTL

\* Under the same condition an acknowledgement that removes the front of sendBuf says that the other
\* end has it (receive, case MsgACK).
THEOREM LspAckedMeansReceived == OnceSpec => []AckedMeansReceived
  <1> QED BY InvHolds, AckedMeans, PTL

(***************************************************************************)
(* No end gives up.  A packet that reaches an end ends its silence, so an  *)
(* end is silent for one epoch more than the packets lost while it waits   *)
(* for its turn, and at its turn for no more than the packets lost: the    *)
(* epoch of its peer put lastAck on the way, and an epoch in time finds    *)
(* everything arrived.  Until the server has the address the client waits  *)
(* with CONNECT at the front of sendBuf, and the first packet to reach the *)
(* server is a CONNECT: lastAck follows one that an epoch repeats, and     *)
(* there is such an epoch only when a CONNECT was lost.                    *)
(***************************************************************************)
\* A packet for serve is on its way to k.
Coming(k) == \/ \E i \in 1 .. Len(net[k]) : net[k][i].type # "CONNECT"
             \/ conn[k].recvChan # <<>> \/ Waiting(k, "recvChan") # <<>>

Alive(q) == q.at = "serve" /\ q.closed = FALSE /\ q.lastAck.type = "ACK"

HeardOf(k) == /\ conn[k].silent <= Lost(faults) + 1
              /\ turn[k[2]] = k[1] /\ ~Coming(k) => conn[k].silent <= Lost(faults)

\* Both ends of the connection of c exist and hear of each other.
Talking(c) == \A k \in {Server(c), Client(c)} : Alive(conn[k]) /\ HeardOf(k)

\* q is a client whose CONNECT the server does not have, s the packets to the server and n the
\* number of CONNECTs lost.
Greets(q, s, n) ==
    /\ Alive(q) /\ q.recvChan = <<>> /\ q.silent <= n
    /\ \A i \in 1 .. Len(q.sendChan) : q.sendChan[i].type \in {"CONNECT", "DATA"}
    /\ s # <<>> => s[1].type = "CONNECT"
    /\ n = 0 => \A i \in 1 .. Len(s) : s[i].type = "CONNECT"
    /\ \/ /\ q.sendChan # <<>> /\ q.sendChan[1].type = "CONNECT"
          /\ q.sendBuf = <<>> /\ s = <<>> /\ q.silent = 0
       \/ /\ q.sendBuf # <<>> /\ q.sendBuf[1].type = "CONNECT"
          /\ s = <<>> => n # 0 /\ q.silent = 0

Greeting(c) ==
    /\ conn[Server(c)].at = "gone" /\ net[Client(c)] = <<>>
    /\ cli[c].at # "recvChan" /\ (cli[c].at = "sendChan" => cli[c].msg.type = "DATA")
    /\ Greets(conn[Client(c)], net[Server(c)], faults.connect)

\* No loopServe has stopped or closes.
LoopsRun == /\ srv.at = "select" \/ (srv.at \in Chans /\ srv.who \in connMap)
            /\ \A c \in Clients : cli[c].at = "select" \/ cli[c].at \in Chans

Kept == LoopsRun /\ (\A c \in connMap : Talking(c)) /\ (\A c \in Clients \ connMap : Greeting(c))

\* What it means that few packets are lost.
LEMMA LossFacts ==
  ASSUME Types, ~Disturbed
  PROVE  /\ Lost(faults) \in Nat /\ faults.connect \in {0, 1} /\ faults.connect <= Lost(faults)
         /\ Lost(faults) + 1 < EpochLimit
  <1>1. PICK w \in Nat, x \in Nat, y \in Nat, z \in Nat :
             w = faults.loss /\ x = faults.connect /\ y = faults.hasty /\ z = faults.close
    BY DEF Types, Kinds
  <1>2. Lost(faults) = w + x
    BY <1>1 DEF Lost
  <1>3. y + z <= 0 /\ x <= 1 /\ w + x < EpochLimit - 1
    BY <1>1, <1>2, LspAssumption DEF Disturbed
  <1> QED BY <1>1, <1>2, <1>3, LspAssumption

\* A fault counts one kind.
LEMMA FaultCounts ==
  ASSUME Types, NEW kind \in Kinds, Fault(kind)
  PROVE  faults'[kind] = faults[kind] + 1 /\ \A x \in Kinds : x # kind => faults'[x] = faults[x]
  BY DEF Fault, Types

\* What no longer disturbs did not disturb before.
LEMMA LossGrows ==
  ASSUME Types, ~Disturbed', faults' = faults \/ \E kind \in Kinds : Fault(kind)
  PROVE  /\ ~Disturbed /\ ~Fault("hasty") /\ ~Fault("close")
         /\ Lost(faults) \in Nat /\ Lost(faults') \in Nat /\ Lost(faults) <= Lost(faults')
         /\ faults.connect \in {0, 1} /\ faults'.connect \in {0, 1} /\ faults.connect <= faults'.connect
         /\ Fault("connect") => faults.connect = 0 /\ faults'.connect = 1 /\ Lost(faults') = Lost(faults) + 1
         /\ Fault("loss") => faults'.connect = faults.connect /\ Lost(faults') = Lost(faults) + 1
  <1>1. PICK w \in Nat, x \in Nat, y \in Nat, z \in Nat :
             w = faults.loss /\ x = faults.connect /\ y = faults.hasty /\ z = faults.close
    BY DEF Types, Kinds
  <1>2. PICK i \in Nat, j \in Nat, k \in Nat, l \in Nat :
             i = faults'.loss /\ j = faults'.connect /\ k = faults'.hasty /\ l = faults'.close
    <2>1. faults' \in [Kinds -> Nat]
      BY FaultCounts DEF Types, Fault
    <2> QED BY <2>1 DEF Kinds
  <1>3. /\ Fault("loss") => i = w + 1 /\ j = x /\ k = y /\ l = z
        /\ Fault("connect") => i = w /\ j = x + 1 /\ k = y /\ l = z
        /\ Fault("hasty") => i = w /\ j = x /\ k = y + 1 /\ l = z
        /\ Fault("close") => i = w /\ j = x /\ k = y /\ l = z + 1
        /\ faults' = faults => i = w /\ j = x /\ k = y /\ l = z
    <2> USE <1>1, <1>2, FaultCounts DEF Kinds
    <2>1. Fault("loss") => i = w + 1 /\ j = x /\ k = y /\ l = z
      OBVIOUS
    <2>2. Fault("connect") => i = w /\ j = x + 1 /\ k = y /\ l = z
      OBVIOUS
    <2>3. Fault("hasty") => i = w /\ j = x /\ k = y + 1 /\ l = z
      OBVIOUS
    <2>4. Fault("close") => i = w /\ j = x /\ k = y /\ l = z + 1
      OBVIOUS
    <2> QED BY ONLY <1>1, <1>2, <2>1, <2>2, <2>3, <2>4
  <1>4. faults' = faults \/ Fault("loss") \/ Fault("connect") \/ Fault("hasty") \/ Fault("close")
    BY DEF Kinds
  <1>5. Lost(faults) = w + x /\ Lost(faults') = i + j
    BY <1>1, <1>2 DEF Lost
  <1>6. k + l <= 0 /\ j <= 1 /\ i + j < EpochLimit - 1
    BY <1>2, <1>5, LspAssumption DEF Disturbed
  <1>7. w <= i /\ x <= j /\ y <= k /\ z <= l
    BY ONLY <1>3, <1>4
  <1>8. ~Disturbed
    BY <1>1, <1>5, <1>6, <1>7, LspAssumption DEF Disturbed
  <1>9. ~Fault("hasty") /\ ~Fault("close")
    BY ONLY <1>3, <1>6
  <1>10. /\ Fault("connect") => x = 0 /\ j = 1 /\ i + j = w + x + 1
         /\ Fault("loss") => j = x /\ i + j = w + x + 1
    BY ONLY <1>3, <1>6
  <1>11. w + x <= i + j /\ x \in {0, 1} /\ j \in {0, 1}
    BY ONLY <1>6, <1>7
  <1> QED BY <1>1, <1>2, <1>5, <1>7, <1>8, <1>9, <1>10, <1>11

\* The silence of an end after a step: it goes on, one more packet is lost, or it ends.
LEMMA HeardStays ==
  ASSUME Types, Types', NEW k \in Ends, HeardOf(k), Lost(faults) \in Nat, Lost(faults') \in Nat,
         Lost(faults) <= Lost(faults'), conn'[k].silent = conn[k].silent,
         \/ turn'[k[2]] = turn[k[2]] /\ (Coming(k) => Coming(k)')
         \/ Lost(faults') = Lost(faults) + 1
  PROVE  HeardOf(k)'
  <1>1. conn[k].silent \in Nat
    BY DEF Types, ConnT
  <1> QED BY <1>1 DEF HeardOf

LEMMA HeardNow == ASSUME NEW k \in Ends, Lost(faults') \in Nat, conn'[k].silent = 0 PROVE HeardOf(k)'
  BY DEF HeardOf

\* What is on its way to an end is still on its way.
LEMMA ComingStays ==
  ASSUME Types, Types', NEW k \in Ends, Coming(k),
         conn'[k].recvChan = conn[k].recvChan, Waiting(k, "recvChan")' = Waiting(k, "recvChan"),
         net'[k] = net[k] \/ \E ms \in Seq(Message) : net'[k] = net[k] \o ms
  PROVE  Coming(k)'
  <1>1. CASE \E i \in 1 .. Len(net[k]) : net[k][i].type # "CONNECT"
    <2>1. PICK i \in 1 .. Len(net[k]) : net[k][i].type # "CONNECT"
      BY <1>1
    <2>2. net[k] \in Seq(Message)
      BY DEF Types
    <2>3. i \in 1 .. Len(net'[k]) /\ net'[k][i] = net[k][i]
      BY <2>2
    <2> QED BY <2>1, <2>3 DEF Coming
  <1>2. CASE conn[k].recvChan # <<>> \/ Waiting(k, "recvChan") # <<>>
    BY <1>2 DEF Coming
  <1> QED BY <1>1, <1>2 DEF Coming

\* What is added last is in the sequence.
LEMMA EndsWith ==
  ASSUME NEW s \in Seq(Message), NEW t \in Seq(Message), NEW m \in Message
  PROVE  \E i \in 1 .. Len(s \o Append(t, m)) : (s \o Append(t, m))[i] = m
  <1>1. s \o Append(t, m) = Append(s \o t, m) /\ s \o t \in Seq(Message)
    OBVIOUS
  <1>2. PICK u \in Seq(Message) : u = s \o t
    BY <1>1
  <1>3. Len(u) + 1 \in 1 .. Len(Append(u, m)) /\ Append(u, m)[Len(u) + 1] = m
    OBVIOUS
  <1> QED BY <1>1, <1>2, <1>3

\* An acknowledgement sent to an end is on its way to it.
LEMMA ComingAck ==
  ASSUME Types, NEW k \in Ends, NEW ms \in Seq(Message), NEW m \in Message, m.type = "ACK",
         net'[k] = net[k] \o Append(ms, m)
  PROVE  Coming(k)'
  <1>1. net[k] \in Seq(Message)
    BY DEF Types
  <1>2. \E i \in 1 .. Len(net'[k]) : net'[k][i] = m
    <2>1. \E i \in 1 .. Len(net[k] \o Append(ms, m)) : (net[k] \o Append(ms, m))[i] = m
      BY ONLY <1>1, EndsWith, ms \in Seq(Message), m \in Message
    <2> QED BY ONLY <2>1, net'[k] = net[k] \o Append(ms, m)
  <1> QED BY <1>2 DEF Coming

(***************************************************************************)
(* A client whose CONNECT has not arrived.                                 *)
(***************************************************************************)
\* The first of a sequence and what Append does to it.
LEMMA Firsts ==
  ASSUME NEW s \in Seq(Message)
  PROVE  /\ s # <<>> => Head(s) = s[1] /\ Front(s) = s[1] /\ s[1] \in Message /\ 1 \in 1 .. Len(s)
         /\ \A m \in Message : /\ Append(s, m) # <<>> /\ Append(s, m)[1] = IF s = <<>> THEN m ELSE s[1]
                               /\ s \o <<m>> = Append(s, m)
                               /\ Len(Append(s, m)) = Len(s) + 1 /\ Append(s, m)[Len(s) + 1] = m
                               /\ \A i \in 1 .. Len(s) : Append(s, m)[i] = s[i]
         /\ s \o <<>> = s
  <1>1. s # <<>> => Head(s) = s[1] /\ Front(s) = s[1] /\ s[1] \in Message /\ 1 \in 1 .. Len(s)
    BY DEF Front
  <1>2. ASSUME NEW m \in Message
        PROVE  /\ Append(s, m) # <<>> /\ Append(s, m)[1] = IF s = <<>> THEN m ELSE s[1]
               /\ s \o <<m>> = Append(s, m)
               /\ Len(Append(s, m)) = Len(s) + 1 /\ Append(s, m)[Len(s) + 1] = m
               /\ \A i \in 1 .. Len(s) : Append(s, m)[i] = s[i]
    <2>1. Len(Append(s, m)) = Len(s) + 1 /\ Append(s, m)[Len(s) + 1] = m /\ \A i \in 1 .. Len(s) : Append(s, m)[i] = s[i]
      OBVIOUS
    <2>2. Append(s, m) # <<>> /\ s \o <<m>> = Append(s, m)
      OBVIOUS
    <2>3. Append(s, m)[1] = IF s = <<>> THEN m ELSE s[1]
      <3>1. CASE s = <<>>
        BY <3>1
      <3>2. CASE s # <<>>
        BY <1>1, <2>1, <3>2
      <3> QED BY <3>1, <3>2
    <2> QED BY <2>1, <2>2, <2>3
  <1>3. s \o <<>> = s
    OBVIOUS
  <1> QED BY <1>1, <1>2, <1>3

\* One more CONNECT may be lost, and packets to the server added behind a CONNECT.
LEMMA GreetsMore ==
  ASSUME NEW q \in ConnT, NEW s \in Seq(Message), NEW n \in Nat, Greets(q, s, n)
  PROVE  /\ \A p \in Nat : n <= p => Greets(q, s, p)
         /\ s # <<>> => s[1].type = "CONNECT" /\ (n = 0 => Greets(q, Tail(s), 1))
  <1>1. ASSUME NEW p \in Nat, n <= p PROVE Greets(q, s, p)
    <2>1. q.silent \in Nat
      BY DEF ConnT
    <2> QED BY <1>1, <2>1 DEF Greets
  <1>2. ASSUME s # <<>>, n = 0 PROVE Greets(q, Tail(s), 1)
    <2>1. q.silent = 0
      BY <1>2 DEF Greets, ConnT
    <2>2. Tail(s) # <<>> => Tail(s)[1] = s[2] /\ 2 \in 1 .. Len(s)
      BY <1>2
    <2> QED BY <1>2, <2>1, <2>2 DEF Greets
  <1> QED BY <1>1, <1>2 DEF Greets

\* serve sends: the first CONNECT goes to sendBuf and to the server, later payloads repeat it.
LEMMA GreetsSend ==
  ASSUME NEW q \in ConnT, NEW s \in Seq(Message), NEW n \in Nat, Greets(q, s, n), q.sendChan # <<>>,
         NEW m \in Message, m = Head(q.sendChan), NEW r \in ConnT, r = AfterSend([q EXCEPT !.sendChan = <<>>], m),
         NEW ms, ms = IF m.type = "DATA" THEN <<Front(r.sendBuf)>> ELSE <<m>>
  PROVE  Greets(r, s \o ms, n)
  <1>1. q.sendChan \in Seq(Message) /\ q.sendBuf \in Seq(Message) /\ s \in Seq(Message) /\ r.sendBuf \in Seq(Message)
    BY DEF ConnT
  <1>2. m = q.sendChan[1] /\ m.type \in {"CONNECT", "DATA"}
    BY <1>1, Firsts DEF Greets
  <1>3. PICK x \in Message : r.sendBuf = Append(q.sendBuf, x) /\ x.type = m.type /\ (m.type = "CONNECT" => x = m)
    <2>1. CASE m.type = "CONNECT"
      BY <1>1, <2>1 DEF AfterSend, Insert, ConnT
    <2>2. CASE m.type = "DATA"
      <3>1. q.nextSendSeqNum \in 0 .. SeqMod - 1
        BY DEF ConnT
      <3>2. [m EXCEPT !.seq = q.nextSendSeqNum] \in Message /\ [m EXCEPT !.seq = q.nextSendSeqNum].type = m.type
        BY <3>1 DEF Message
      <3>3. r.sendBuf = Append(q.sendBuf, [m EXCEPT !.seq = q.nextSendSeqNum])
        BY <2>2 DEF AfterSend, Insert, ConnT
      <3> QED BY <2>2, <3>2, <3>3
    <2> QED BY <1>2, <2>1, <2>2
  <1>4. Alive(r) /\ r.recvChan = <<>> /\ r.silent = q.silent /\ r.sendChan = <<>>
    BY <1>2 DEF AfterSend, Greets, Alive, ConnT
  <1>5. r.sendBuf # <<>> /\ r.sendBuf[1].type = "CONNECT"
    <2>1. r.sendBuf # <<>> /\ r.sendBuf[1] = IF q.sendBuf = <<>> THEN x ELSE q.sendBuf[1]
      <3>1. \A b \in Seq(Message) : Append(b, x) # <<>> /\ Append(b, x)[1] = IF b = <<>> THEN x ELSE b[1]
        BY Firsts
      <3> QED BY <1>1, <1>3, <3>1
    <2>2. q.sendBuf = <<>> => x.type = "CONNECT"
      BY <1>2, <1>3 DEF Greets
    <2>3. q.sendBuf # <<>> => q.sendBuf[1].type = "CONNECT"
      BY DEF Greets
    <2> QED BY <2>1, <2>2, <2>3
  <1>6. PICK y \in Message : ms = <<y>> /\ y.type = "CONNECT"
    BY <1>1, <1>2, <1>5, Firsts
  <1>7. s \o ms = Append(s, y)
    BY <1>1, <1>6, Firsts
  <1>8. s \o ms # <<>> /\ (s \o ms)[1].type = "CONNECT"
    BY <1>1, <1>6, <1>7, Firsts DEF Greets
  <1>9. n = 0 => \A i \in 1 .. Len(s \o ms) : (s \o ms)[i].type = "CONNECT"
    <2> SUFFICES ASSUME n = 0, NEW i \in 1 .. Len(Append(s, y)) PROVE Append(s, y)[i].type = "CONNECT"
      BY <1>7
    <2>1. i \in 1 .. Len(s) \/ i = Len(s) + 1
      BY <1>1
    <2> QED BY <1>1, <1>6, <2>1, Firsts DEF Greets
  <1>10. q.silent <= n /\ \A i \in 1 .. Len(r.sendChan) : r.sendChan[i].type \in {"CONNECT", "DATA"}
    BY <1>4 DEF Greets
  <1> QED BY <1>4, <1>5, <1>8, <1>9, <1>10 DEF Greets

\* An epoch in time repeats CONNECT only when one was lost.
LEMMA GreetsEpoch ==
  ASSUME NEW q \in ConnT, NEW n \in Nat, Greets(q, <<>>, n), q.sendChan = <<>>, q.silent < EpochLimit
  PROVE  n # 0 /\ q.silent = 0 /\ Greets([q EXCEPT !.silent = @ + 1], Repeated(q), n)
  <1>1. n # 0 /\ q.silent = 0 /\ q.sendBuf # <<>> /\ q.sendBuf[1].type = "CONNECT"
    BY DEF Greets
  <1>2. q.sendBuf \in Seq(Message) /\ q.lastAck \in Message
    BY DEF ConnT
  <1>4. Repeated(q) # <<>> /\ Repeated(q)[1].type = "CONNECT"
    <2>1. Front(q.sendBuf) = q.sendBuf[1]
      BY <1>1, <1>2, Firsts
    <2>2. FrontOf(q.sendBuf) = <<q.sendBuf[1]>>
      BY <1>1, <2>1 DEF FrontOf, Empty
    <2>3. \A b \in Seq(Message) : Append(b, q.lastAck) # <<>> /\ Append(b, q.lastAck)[1] = IF b = <<>> THEN q.lastAck ELSE b[1]
      BY <1>2, Firsts
    <2>4. q.sendBuf[1] \in Message /\ FrontOf(q.sendBuf) \in Seq(Message)
      BY <1>1, <1>2, <2>2, Firsts
    <2>5. FrontOf(q.sendBuf) # <<>> /\ FrontOf(q.sendBuf)[1] = q.sendBuf[1]
      BY <2>2
    <2> QED BY <1>1, <2>3, <2>4, <2>5 DEF Repeated
  <1> DEFINE r == [q EXCEPT !.silent = @ + 1]
  <1>5. /\ r.silent = 1 /\ r.at = q.at /\ r.closed = q.closed /\ r.lastAck = q.lastAck /\ r.recvChan = q.recvChan
        /\ r.sendChan = q.sendChan /\ r.sendBuf = q.sendBuf
    BY <1>1 DEF ConnT
  <1> HIDE DEF r
  <1>6. Greets(r, Repeated(q), n)
    BY <1>1, <1>4, <1>5 DEF Greets, Alive
  <1> QED BY <1>1, <1>6 DEF r

(***************************************************************************)
(* The steps.                                                              *)
(***************************************************************************)
\* A step that counts at most one fault and does not disturb.
FewFaults == ~Disturbed' /\ (faults' = faults \/ \E kind \in Kinds : Fault(kind))

\* A step that does not touch the connection of c.
Untouched(c) ==
    /\ \A e \in {Server(c), Client(c)} : /\ conn'[e] = conn[e] /\ net'[e] = net[e]
                                         /\ Waiting(e, "recvChan")' = Waiting(e, "recvChan")
    /\ cli'[c] = cli[c] /\ turn'[c] = turn[c]

LEMMA Apart ==
  ASSUME Types, Types', Kept, FewFaults, NEW c \in Clients, Untouched(c)
  PROVE  (c \in connMap => Talking(c)') /\ (c \notin connMap => Greeting(c)')
  <1>1. /\ Lost(faults) \in Nat /\ Lost(faults') \in Nat /\ Lost(faults) <= Lost(faults')
        /\ faults.connect \in Nat /\ faults'.connect \in Nat /\ faults.connect <= faults'.connect
    BY LossGrows DEF FewFaults
  <1>2. ASSUME c \in connMap, NEW e \in {Server(c), Client(c)} PROVE (Alive(conn[e]) /\ HeardOf(e))'
    <2>1. e \in Ends /\ e[2] = c /\ Alive(conn[e]) /\ HeardOf(e)
      BY <1>2, EndsFacts DEF Kept, Talking
    <2>2. /\ conn'[e] = conn[e] /\ net'[e] = net[e] /\ Waiting(e, "recvChan")' = Waiting(e, "recvChan")
          /\ turn'[e[2]] = turn[e[2]]
      BY <2>1 DEF Untouched
    <2>3. Coming(e) => Coming(e)'
      BY <2>2 DEF Coming
    <2>4. HeardOf(e)'
      BY <1>1, <2>1, <2>2, <2>3, HeardStays
    <2> QED BY <2>1, <2>2, <2>4
  <1>3. ASSUME c \notin connMap PROVE Greeting(c)'
    <2>1. Greeting(c) /\ Server(c) \in Ends /\ Client(c) \in Ends
      BY <1>3, EndsFacts DEF Kept
    <2>2. conn[Client(c)] \in ConnT /\ net[Server(c)] \in Seq(Message)
      BY <2>1 DEF Types
    <2>3. Greets(conn[Client(c)], net[Server(c)], faults'.connect)
      BY <1>1, <2>1, <2>2, GreetsMore DEF Greeting
    <2> QED BY <2>1, <2>3 DEF Greeting, Untouched
  <1> QED BY <1>2, <1>3 DEF Talking

\* Only the connection of c is touched.
LEMMA KeptBut ==
  ASSUME Types, Types', Kept, FewFaults, NEW c \in Clients, connMap' = connMap, LoopsRun',
         \A d \in Clients : d # c => Untouched(d),
         c \in connMap => Talking(c)', c \notin connMap => Greeting(c)'
  PROVE  Kept'
  <1>1. \A d \in Clients : (d \in connMap => Talking(d)') /\ (d \notin connMap => Greeting(d)')
    BY Apart
  <1>2. connMap \subseteq Clients
    BY DEF Types
  <1> QED BY <1>1, <1>2 DEF Kept

\* The client is the end that serves when the address is not in connMap.
LEMMA ServingEnds ==
  ASSUME Types, Kept, NEW k \in Ends, Serving(k)
  PROVE  /\ k[2] \in connMap => Talking(k[2])
         /\ k[2] \notin connMap => k = Client(k[2]) /\ Peer(k) = Server(k[2]) /\ Greeting(k[2])
  <1>1. k[2] \in Clients /\ (k = Server(k[2]) \/ k = Client(k[2])) /\ Peer(Client(k[2])) = Server(k[2])
    BY EndsFacts
  <1> QED BY <1>1 DEF Kept, Greeting, Serving

\* A step of serve that touches its own end and sends ms to its peer.
LEMMA EndKept ==
  ASSUME Types, Types', Kept, FewFaults, NEW k \in Ends, Serving(k), NEW q, NEW ms \in Seq(Message),
         conn' = [conn EXCEPT ![k] = q], net' = [net EXCEPT ![Peer(k)] = @ \o ms], UNCHANGED <<srv, cli, connMap>>,
         \A d \in Clients : d # k[2] => turn'[d] = turn[d],
         k[2] \in connMap => Alive(q) /\ HeardOf(k)' /\ HeardOf(Peer(k))',
         k[2] \notin connMap => Greets(q, net[Peer(k)] \o ms, faults'.connect)
  PROVE  Kept'
  <1> DEFINE c == k[2]
  <1>0. conn \in [Ends -> ConnT] /\ net \in [Ends -> Seq(Message)]
    BY DEF Types
  <1>1. c \in Clients /\ Peer(k) \in Ends /\ {k, Peer(k)} = {Server(c), Client(c)} /\ Peer(k) # k
    BY EndsFacts
  <1>2. /\ conn'[k] = q /\ net'[Peer(k)] = net[Peer(k)] \o ms
        /\ conn'[Peer(k)] = conn[Peer(k)] /\ net'[k] = net[k]
        /\ \A e \in Ends : e # k /\ e # Peer(k) => conn'[e] = conn[e] /\ net'[e] = net[e]
    BY <1>0, <1>1
  <1>3. \A e \in Ends : \A chan \in Chans : Waiting(e, chan)' = Waiting(e, chan)
    BY DEF Waiting
  <1>4. LoopsRun'
    BY DEF Kept, LoopsRun
  <1>5. ASSUME NEW d \in Clients, d # c PROVE Untouched(d)
    <2>1. \A e \in {Server(d), Client(d)} : e \in Ends /\ e # k /\ e # Peer(k)
      BY <1>1, <1>5, EndsFacts
    <2> QED BY <1>2, <1>3, <1>5, <2>1 DEF Untouched, Chans
  <1>6. ASSUME c \in connMap PROVE Talking(c)'
    <2>1. Talking(c)
      BY <1>6 DEF Kept
    <2>2. Alive(conn[Peer(k)])
      BY <1>1, <2>1 DEF Talking
    <2>3. \A e \in {k, Peer(k)} : (Alive(conn[e]) /\ HeardOf(e))'
      BY <1>2, <1>6, <2>2
    <2> QED BY <1>1, <2>3 DEF Talking
  <1>7. ASSUME c \notin connMap PROVE Greeting(c)'
    <2>1. k = Client(c) /\ Peer(k) = Server(c) /\ Greeting(c)
      BY <1>7, ServingEnds
    <2> QED BY <1>2, <1>7, <2>1 DEF Greeting
  <1> HIDE DEF c
  <1> QED BY <1>1, <1>4, <1>5, <1>6, <1>7, KeptBut

\* The ends hear of each other after a step of serve that is no epoch.
LEMMA HeardOn ==
  ASSUME Types, Types', Kept, FewFaults, NEW k \in Ends, Serving(k), k[2] \in connMap, NEW q, NEW ms \in Seq(Message),
         conn' = [conn EXCEPT ![k] = q], net' = [net EXCEPT ![Peer(k)] = @ \o ms], UNCHANGED <<srv, cli, turn>>,
         q.silent = 0 \/ (q.silent = conn[k].silent /\ q.recvChan = conn[k].recvChan)
  PROVE  HeardOf(k)' /\ HeardOf(Peer(k))'
  <1>0. conn \in [Ends -> ConnT] /\ net \in [Ends -> Seq(Message)]
    BY DEF Types
  <1>1. k[2] \in Clients /\ Peer(k) \in Ends /\ {k, Peer(k)} = {Server(k[2]), Client(k[2])} /\ Peer(k) # k
    BY EndsFacts
  <1>2. /\ conn'[k] = q /\ net'[Peer(k)] = net[Peer(k)] \o ms
        /\ conn'[Peer(k)] = conn[Peer(k)] /\ net'[k] = net[k]
    BY <1>0, <1>1
  <1>3. \A e \in Ends : Waiting(e, "recvChan")' = Waiting(e, "recvChan")
    BY DEF Waiting
  <1>4. Lost(faults) \in Nat /\ Lost(faults') \in Nat /\ Lost(faults) <= Lost(faults')
    BY LossGrows DEF FewFaults
  <1>5. HeardOf(k) /\ HeardOf(Peer(k))
    BY <1>1 DEF Kept, Talking
  <1>6. Coming(Peer(k)) => Coming(Peer(k))'
    BY <1>1, <1>2, <1>3, ComingStays
  <1>7. HeardOf(Peer(k))'
    BY <1>1, <1>2, <1>4, <1>5, <1>6, HeardStays
  <1>8. CASE q.silent = 0
    BY <1>2, <1>4, <1>7, <1>8, HeardNow
  <1>9. CASE q.silent = conn[k].silent /\ q.recvChan = conn[k].recvChan
    <2>1. Coming(k) => Coming(k)'
      BY <1>2, <1>3, <1>9, ComingStays
    <2>2. HeardOf(k)'
      BY <1>2, <1>4, <1>5, <1>9, <2>1, HeardStays
    <2> QED BY <1>7, <2>2
  <1> QED BY <1>8, <1>9

LEMMA SendKept == ASSUME Types, Types', Kept, ~Disturbed', NEW k \in Ends, Send(k) PROVE Kept'
  <1> DEFINE q == conn[k]
             m == Head(q.sendChan)
             p == [q EXCEPT !.sendChan = <<>>]
             c == IF p.closed THEN p ELSE AfterSend(p, m)
             ms == IF p.closed THEN <<>> ELSE IF m.type = "DATA" THEN <<Front(c.sendBuf)>> ELSE <<m>>
  <1>0. q \in ConnT /\ p \in ConnT /\ Serving(k) /\ net[Peer(k)] \in Seq(Message)
    BY PartTypes, EndsFacts DEF Types, Send
  <1>1. /\ q.sendChan # <<>> /\ conn' = [conn EXCEPT ![k] = c] /\ net' = [net EXCEPT ![Peer(k)] = @ \o ms]
        /\ UNCHANGED <<srv, cli, connMap, turn, faults>>
    BY DEF Send, udpWrite, serverVars, envVars
  <1>2. q.sendChan \in Seq(Message) /\ m \in Message
    BY <1>0, <1>1, SeqTypes DEF ConnT
  <1>3. FewFaults /\ faults.connect \in Nat
    BY <1>1, LossGrows DEF FewFaults
  <1>4. c \in ConnT /\ Alive(q) /\ p.closed = FALSE
    <2>1. Alive(q)
      BY <1>0, ServingEnds, EndsFacts DEF Talking, Greeting, Greets
    <2>2. p.closed = FALSE
      BY <1>0, <2>1 DEF Alive, ConnT
    <2> HIDE DEF q, p, m
    <2> QED BY <1>0, <1>2, <2>1, <2>2, AfterTypes
  <1>5. c = AfterSend(p, m) /\ Alive(c) /\ c.silent = q.silent /\ c.recvChan = q.recvChan
    BY <1>0, <1>4 DEF Alive, AfterSend, ConnT
  <1>6. ms = IF m.type = "DATA" THEN <<Front(c.sendBuf)>> ELSE <<m>>
    BY <1>4
  <1>7. ms \in Seq(Message)
    <2>1. c.sendBuf \in Seq(Message)
      BY <1>4 DEF ConnT
    <2>2. m.type = "DATA" => c.sendBuf # <<>>
      <3> SUFFICES ASSUME m.type = "DATA" PROVE c.sendBuf # <<>>
        OBVIOUS
      <3>1. PICK b \in Seq(Message) : b = p.sendBuf
        BY <1>0 DEF ConnT
      <3>2. \A x \in Message : Append(b, x) # <<>>
        BY Firsts
      <3>3. [m EXCEPT !.seq = p.nextSendSeqNum] \in Message
        BY <1>0, <1>2 DEF Message, ConnT
      <3>4. AfterSend(p, m).sendBuf = Append(b, [m EXCEPT !.seq = p.nextSendSeqNum])
        <4> HIDE DEF p, m
        <4> QED BY <1>0, <3>1 DEF AfterSend, Insert, ConnT
      <3> QED BY <1>5, <3>2, <3>3, <3>4
    <2>3. c.sendBuf # <<>> => Front(c.sendBuf) \in Message
      BY <2>1, SeqTypes DEF Front
    <2> QED BY <1>2, <1>6, <2>2, <2>3, SeqTypes
  <1> HIDE DEF ms
  <1>8. ASSUME k[2] \notin connMap PROVE Greets(c, net[Peer(k)] \o ms, faults'.connect)
    <2>1. Greets(q, net[Peer(k)], faults.connect)
      BY <1>0, <1>8, ServingEnds DEF Greeting
    <2> HIDE DEF q, c
    <2>2. c = AfterSend([q EXCEPT !.sendChan = <<>>], m)
      BY <1>5
    <2>3. Greets(c, net[Peer(k)] \o ms, faults.connect)
      BY <1>0, <1>1, <1>2, <1>3, <1>4, <1>6, <2>1, <2>2, GreetsSend
    <2> QED BY <1>1, <2>3
  <1>9. ASSUME k[2] \in connMap PROVE HeardOf(k)' /\ HeardOf(Peer(k))'
    <2> HIDE DEF c
    <2> QED BY <1>0, <1>1, <1>3, <1>5, <1>7, <1>9, HeardOn
  <1> HIDE DEF c
  <1> QED BY <1>0, <1>1, <1>3, <1>5, <1>7, <1>8, <1>9, EndKept

\* Packets only reach the end of an address in connMap.
LEMMA ReceiveKept ==
  ASSUME Types, Types', Kept, ~Disturbed', NEW k \in Ends, ReceiveData(k) \/ ReceiveAck(k) PROVE Kept'
  <1> DEFINE m == Head(conn[k].recvChan)
             a == IF m.type = "DATA" THEN AfterData(Taken(k), m) ELSE AfterAck(Taken(k), m)
  <1>1. /\ Serving(k) /\ conn[k].recvChan # <<>> /\ UNCHANGED <<srv, cli, connMap, turn, faults>>
        /\ (m.type = "DATA" /\ ReceiveData(k)) \/ (m.type = "ACK" /\ ReceiveAck(k))
    BY DEF ReceiveData, ReceiveAck, serverVars, envVars
  <1>2. conn[k] \in ConnT /\ Taken(k) \in ConnT /\ m \in Message
    <2>1. conn[k] \in ConnT /\ Taken(k) \in ConnT
      BY PartTypes
    <2> QED BY <1>1, <2>1, SeqTypes DEF ConnT
  <1>3. FewFaults
    BY <1>1 DEF FewFaults
  <1>4. k[2] \in connMap /\ Alive(conn[k])
    BY <1>1, ServingEnds, EndsFacts DEF Talking, Greeting, Greets
  <1>5. Alive(Taken(k)) /\ Taken(k).silent = 0
    BY <1>2, <1>4 DEF Taken, Alive, ConnT
  <1>6. Alive(a) /\ a.silent = 0 /\ a \in ConnT
    <2> HIDE DEF m
    <2>1. AfterData(Taken(k), m) \in ConnT /\ AfterAck(Taken(k), m) \in ConnT
      BY <1>2, AfterTypes
    <2>2. Alive(AfterAck(Taken(k), m)) /\ AfterAck(Taken(k), m).silent = 0
      BY <1>2, <1>5 DEF AfterAck, Alive, ConnT
    <2>3. Alive(AfterData(Taken(k), m)) /\ AfterData(Taken(k), m).silent = 0
      <3>1. genAckMsg(Taken(k).connId, m.seq).type = "ACK"
        BY DEF genAckMsg, Msg
      <3> QED BY <1>2, <1>5, <3>1 DEF AfterData, Alive, ConnT
    <2> QED BY <2>1, <2>2, <2>3
  <1>7. \E ms \in Seq(Message) : conn' = [conn EXCEPT ![k] = a] /\ net' = [net EXCEPT ![Peer(k)] = @ \o ms]
    <2>1. CASE m.type = "DATA" /\ ReceiveData(k)
      <3>1. conn' = [conn EXCEPT ![k] = a] /\ udpWrite(k, <<conn'[k].lastAck>>)
        BY <2>1 DEF ReceiveData
      <3>2. conn'[k].lastAck \in Message
        BY DEF Types, ConnT
      <3>3. <<conn'[k].lastAck>> \in Seq(Message)
        BY <3>2
      <3> QED BY <3>1, <3>3 DEF udpWrite
    <2>2. CASE m.type = "ACK" /\ ReceiveAck(k)
      <3>1. a = AfterAck(Taken(k), m)
        BY <2>2
      <3> HIDE DEF a
      <3>2. conn' = [conn EXCEPT ![k] = IF Empty(@.sendBuf) THEN a ELSE AfterDrain(a)] /\ udpWrite(k, FrontOf(a.sendBuf))
        BY <2>2, <3>1 DEF ReceiveAck
      <3>3. AfterDrain(a) = a
        BY <1>6 DEF AfterDrain, Alive
      <3>4. FrontOf(a.sendBuf) \in Seq(Message)
        BY <1>2, <1>6, AfterTypes
      <3> QED BY <3>2, <3>3, <3>4 DEF udpWrite
    <2> QED BY <1>1, <2>1, <2>2
  <1> HIDE DEF a
  <1>8. PICK ms \in Seq(Message) : conn' = [conn EXCEPT ![k] = a] /\ net' = [net EXCEPT ![Peer(k)] = @ \o ms]
    BY <1>7
  <1>9. HeardOf(k)' /\ HeardOf(Peer(k))'
    BY <1>1, <1>3, <1>4, <1>6, <1>8, HeardOn
  <1> QED BY <1>1, <1>3, <1>4, <1>6, <1>8, <1>9, EndKept

LEMMA DeliverKept == ASSUME Types, Types', Kept, ~Disturbed', NEW k \in Ends, Deliver(k) PROVE Kept'
  <1> DEFINE q == [conn[k] EXCEPT !.recvBuf = Remove(@)]
  <1>0. conn[k] \in ConnT /\ net \in [Ends -> Seq(Message)] /\ Peer(k) \in Ends
    BY EndsFacts DEF Types
  <1>1. Serving(k) /\ conn' = [conn EXCEPT ![k] = q] /\ UNCHANGED <<net, srv, cli, connMap, turn, faults>>
    BY DEF Deliver, serverVars, envVars
  <1>2. net[Peer(k)] \o <<>> = net[Peer(k)] /\ <<>> \in Seq(Message)
    BY <1>0
  <1>3. net' = [net EXCEPT ![Peer(k)] = @ \o <<>>]
    BY <1>0, <1>1, <1>2
  <1>4. /\ q.at = conn[k].at /\ q.closed = conn[k].closed /\ q.lastAck = conn[k].lastAck /\ q.silent = conn[k].silent
        /\ q.recvChan = conn[k].recvChan /\ q.sendChan = conn[k].sendChan /\ q.sendBuf = conn[k].sendBuf
    BY <1>0 DEF ConnT
  <1> HIDE DEF q
  <1>5. FewFaults
    BY <1>1 DEF FewFaults
  <1>6. ASSUME k[2] \notin connMap PROVE Greets(q, net[Peer(k)] \o <<>>, faults'.connect)
    <2>1. Greets(conn[k], net[Peer(k)], faults.connect)
      BY <1>1, <1>6, ServingEnds DEF Greeting
    <2> QED BY <1>1, <1>2, <1>4, <2>1 DEF Greets, Alive
  <1>7. ASSUME k[2] \in connMap PROVE Alive(q) /\ HeardOf(k)' /\ HeardOf(Peer(k))'
    <2>1. Alive(conn[k])
      BY <1>1, <1>7, ServingEnds, EndsFacts DEF Talking
    <2>2. Alive(q)
      BY <1>4, <2>1 DEF Alive
    <2> QED BY <1>1, <1>2, <1>3, <1>4, <1>5, <1>7, <2>2, HeardOn
  <1> QED BY <1>1, <1>2, <1>3, <1>5, <1>6, <1>7, EndKept

\* When an end is quiet nothing is on its way to it.
LEMMA QuietMeans ==
  ASSUME Types, Kept, NEW k \in Ends, Quiet(k)
  PROVE  net[k] = <<>> /\ (Serving(k) => conn[k].sendChan = <<>> /\ ~Coming(k))
  <1>1. k[1] \in {"server", "client"} /\ k[2] \in Clients /\ k = <<k[1], k[2]>>
    BY DEF Ends, Sides
  <1>2. LoopOf(k).at = "select" /\ Waiting(k, "recvChan") = <<>>
    <2>1. CASE k[1] = "server"
      <3>1. LoopOf(k) = srv
        BY <2>1 DEF LoopOf
      <3>2. ASSUME srv.at \in Chans PROVE FALSE
        <4>1. srv.who \in connMap
          BY <3>2 DEF Kept, LoopsRun, Chans
        <4>2. Serving(<<"server", srv.who>>)
          BY <4>1 DEF Kept, Talking, Alive, Serving, Server
        <4> QED BY <2>1, <3>1, <3>2, <4>2 DEF Quiet, Handing, Chans
      <3>3. srv.at = "select"
        BY <3>2 DEF Kept, LoopsRun
      <3> QED BY <2>1, <3>1, <3>3 DEF Waiting
    <2>2. CASE k[1] = "client"
      <3>1. cli[k[2]] \in LoopT
        BY <1>1 DEF Types
      <3>2. LoopOf(k).at = cli[k[2]].at /\ LoopOf(k).who = k[2]
        BY <2>2, <3>1 DEF LoopOf, LoopT
      <3>3. Serving(<<"client", k[2]>>)
        BY <1>1 DEF Kept, Talking, Greeting, Greets, Alive, Serving, Client
      <3>4. cli[k[2]].at \notin Chans
        BY <2>2, <3>2, <3>3 DEF Quiet, Handing, Chans
      <3>5. cli[k[2]].at = "select"
        BY <1>1, <3>4 DEF Kept, LoopsRun
      <3> QED BY <2>2, <3>2, <3>5 DEF Waiting
    <2> QED BY <1>1, <2>1, <2>2
  <1>3. net[k] = <<>> /\ (Serving(k) => conn[k].sendChan = <<>> /\ conn[k].recvChan = <<>>)
    BY <1>2 DEF Quiet
  <1>4. Serving(k) => ~Coming(k)
    BY <1>2, <1>3 DEF Coming
  <1> QED BY <1>3, <1>4

\* An epoch comes in time and no end gives up in it.
LEMMA EpochKept == ASSUME Types, Types', Kept, ~Disturbed', NEW k \in Ends, epochTrigger(k) PROVE Kept'
  <1> DEFINE c == k[2]
             q == [conn[k] EXCEPT !.silent = @ + 1]
  <1>0. /\ Serving(k) /\ conn[k] \in ConnT /\ c \in Clients /\ k[1] \in Sides
        /\ Peer(k) \in Ends /\ Peer(k) # k /\ Peer(k)[1] # k[1] /\ Peer(k)[2] = c
    <2>1. Serving(k) /\ conn[k] \in ConnT
      BY DEF epochTrigger, Types
    <2>2. Peer(k) \in Ends /\ Peer(k) # k /\ Peer(k)[2] = c /\ k[1] \in Sides /\ c \in Clients
      BY EndsFacts
    <2>3. Peer(k)[1] # k[1]
      BY <2>2 DEF Peer, Sides
    <2> QED BY <2>1, <2>2, <2>3
  <1>1. InTime(k) /\ faults' = faults
    <2>1. ~Fault("hasty")
      BY LossGrows DEF Kinds
    <2> QED BY <2>1 DEF epochTrigger
  <1>2. FewFaults /\ ~Disturbed
    BY <1>1, LossGrows DEF FewFaults
  <1>3. /\ Lost(faults) \in Nat /\ Lost(faults) + 1 < EpochLimit /\ faults.connect \in {0, 1} /\ faults.connect <= Lost(faults)
        /\ conn[k].silent \in Nat
    BY <1>0, <1>2, LossFacts DEF ConnT
  <1>4. Quiet(k) /\ Quiet(Peer(k)) /\ (turn[c] = k[1] \/ ~Serving(Peer(k)))
    BY <1>1 DEF InTime
  <1>5. net[k] = <<>> /\ net[Peer(k)] = <<>> /\ conn[k].sendChan = <<>> /\ ~Coming(k)
    BY <1>0, <1>4, QuietMeans
  <1>6. conn[k].silent <= Lost(faults)
    <2>1. CASE c \in connMap
      <3>1. Alive(conn[Peer(k)]) /\ HeardOf(k)
        BY <1>0, <2>1, EndsFacts DEF Kept, Talking
      <3> QED BY <1>4, <1>5, <3>1 DEF HeardOf, Alive, Serving
    <2>2. CASE c \notin connMap
      <3>1. conn[k].silent <= faults.connect
        BY <1>0, <2>2, ServingEnds DEF Greeting, Greets
      <3> QED BY <1>3, <3>1
    <2> QED BY <2>1, <2>2
  <1>7. conn' = [conn EXCEPT ![k] = q]
    <2>1. ~(conn[k].silent + 1 >= EpochLimit)
      BY <1>3, <1>6, LspAssumption
    <2> QED BY <2>1 DEF epochTrigger
  <1>8. /\ net' = [net EXCEPT ![Peer(k)] = @ \o Repeated(conn[k])] /\ turn' = [turn EXCEPT ![c] = Peer(k)[1]]
        /\ UNCHANGED <<srv, cli, connMap>> /\ Repeated(conn[k]) \in Seq(Message)
    <2>1. Nil \in Message
      BY MessageTypes
    <2> QED BY <1>0, <2>1, AfterTypes DEF epochTrigger, udpWrite, serverVars
  <1>9. /\ q.silent = conn[k].silent + 1 /\ q.at = conn[k].at /\ q.closed = conn[k].closed /\ q.lastAck = conn[k].lastAck
    BY <1>0 DEF ConnT
  <1>10. /\ conn'[k] = q /\ conn'[Peer(k)] = conn[Peer(k)] /\ turn'[c] = Peer(k)[1]
         /\ net'[Peer(k)] = net[Peer(k)] \o Repeated(conn[k])
         /\ \A d \in Clients : d # c => turn'[d] = turn[d]
    <2>1. conn \in [Ends -> ConnT] /\ net \in [Ends -> Seq(Message)] /\ turn \in [Clients -> Sides]
      BY DEF Types
    <2> HIDE DEF c, q
    <2> QED BY <1>0, <1>7, <1>8, <2>1
  <1> HIDE DEF q
  <1>11. ASSUME c \in connMap PROVE Alive(q) /\ HeardOf(k)' /\ HeardOf(Peer(k))'
    <2>1. Alive(conn[k]) /\ HeardOf(k) /\ HeardOf(Peer(k))
      BY <1>0, <1>11, EndsFacts DEF Kept, Talking
    <2>2. Alive(q)
      BY <1>9, <2>1 DEF Alive
    <2>3. HeardOf(k)'
      BY <1>0, <1>1, <1>3, <1>6, <1>9, <1>10 DEF HeardOf
    <2>4. Coming(Peer(k))'
      <3>1. conn[k].lastAck \in Message /\ conn[k].lastAck.type = "ACK" /\ conn[k].sendBuf \in Seq(Message)
        BY <1>0, <2>1 DEF ConnT, Alive
      <3>2. FrontOf(conn[k].sendBuf) \in Seq(Message)
        BY <3>1, SeqTypes DEF FrontOf, Empty, Front
      <3> QED BY <1>0, <1>10, <3>1, <3>2, ComingAck DEF Repeated
    <2>5. HeardOf(Peer(k))'
      BY <1>1, <1>10, <2>1, <2>4 DEF HeardOf
    <2> QED BY <2>2, <2>3, <2>5
  <1>12. ASSUME c \notin connMap PROVE Greets(q, net[Peer(k)] \o Repeated(conn[k]), faults'.connect)
    <2>1. Greets(conn[k], <<>>, faults.connect)
      BY <1>0, <1>5, <1>12, ServingEnds DEF Greeting
    <2>2. conn[k].silent < EpochLimit
      BY <1>3, <1>6, LspAssumption
    <2>3. Greets(q, Repeated(conn[k]), faults.connect)
      BY <1>0, <1>3, <1>5, <2>1, <2>2, GreetsEpoch DEF q
    <2>4. <<>> \o Repeated(conn[k]) = Repeated(conn[k])
      BY <1>8
    <2> QED BY <1>1, <1>5, <2>3, <2>4
  <1> QED BY <1>0, <1>2, <1>7, <1>8, <1>10, <1>11, <1>12, EndKept

\* A packet is lost.
LEMMA LoseKept == ASSUME Types, Types', Kept, ~Disturbed', NEW k \in Ends, Lose(k) PROVE Kept'
  <1> DEFINE c == k[2]
             kind == IF Head(net[k]).type = "CONNECT" THEN "connect" ELSE "loss"
  <1>0. /\ net \in [Ends -> Seq(Message)] /\ c \in Clients
        /\ Server(c) \in Ends /\ Client(c) \in Ends /\ k \in {Server(c), Client(c)} /\ Server(c)[2] = c /\ Client(c)[2] = c
    BY EndsFacts DEF Types
  <1>1. net[k] # <<>> /\ net' = [net EXCEPT ![k] = Tail(@)] /\ UNCHANGED <<conn, srv, cli, connMap, turn>> /\ Fault(kind)
    BY DEF Lose, serverVars
  <1>2. kind \in {"connect", "loss"} /\ FewFaults
    BY <1>1 DEF FewFaults, Kinds
  <1>3. /\ Lost(faults) \in Nat /\ Lost(faults') = Lost(faults) + 1 /\ Lost(faults') \in Nat /\ faults.connect \in {0, 1}
        /\ kind = "connect" => faults.connect = 0 /\ faults'.connect = 1
    BY <1>1, <1>2, LossGrows DEF FewFaults
  <1>4. net'[k] = Tail(net[k]) /\ \A e \in Ends : e # k => net'[e] = net[e]
    BY <1>0, <1>1
  <1>5. \A e \in Ends : \A chan \in Chans : Waiting(e, chan)' = Waiting(e, chan)
    BY <1>1 DEF Waiting
  <1>6. LoopsRun'
    BY <1>1 DEF Kept, LoopsRun
  <1>7. ASSUME NEW d \in Clients, d # c PROVE Untouched(d)
    <2>1. \A e \in {Server(d), Client(d)} : e \in Ends /\ e # k
      BY <1>0, <1>7, EndsFacts
    <2> QED BY <1>1, <1>4, <1>5, <2>1 DEF Untouched, Chans
  <1>8. ASSUME c \in connMap PROVE Talking(c)'
    <2> SUFFICES ASSUME NEW e \in {Server(c), Client(c)} PROVE (Alive(conn[e]) /\ HeardOf(e))'
      BY DEF Talking
    <2>1. e \in Ends /\ Alive(conn[e]) /\ HeardOf(e)
      BY <1>0, <1>8 DEF Kept, Talking
    <2>2. HeardOf(e)'
      <3>1. Lost(faults) <= Lost(faults')
        BY <1>3
      <3>2. conn'[e].silent = conn[e].silent
        BY <1>1
      <3> QED BY <1>3, <2>1, <3>1, <3>2, HeardStays
    <2> QED BY <1>1, <2>1, <2>2
  <1>9. ASSUME c \notin connMap PROVE Greeting(c)'
    <2>1. Greeting(c)
      BY <1>0, <1>9 DEF Kept
    <2>2. k = Server(c) /\ net'[Client(c)] = <<>>
      BY <1>0, <1>1, <1>4, <2>1, EndsFacts DEF Greeting
    <2>3. conn[Client(c)] \in ConnT /\ net[k] \in Seq(Message) /\ faults.connect \in Nat
      <3>1. conn \in [Ends -> ConnT]
        BY DEF Types
      <3> QED BY <1>0, <1>3, <3>1
    <2>4. Greets(conn[Client(c)], net[k], faults.connect)
      BY <2>1, <2>2 DEF Greeting
    <2>5. net[k][1].type = "CONNECT" /\ Head(net[k]) = net[k][1]
      BY <1>1, <2>3, <2>4, GreetsMore, Firsts
    <2>6. faults.connect = 0 /\ faults'.connect = 1
      BY <1>3, <2>5
    <2>7. Greets(conn[Client(c)], Tail(net[k]), 1)
      BY <1>1, <2>3, <2>4, <2>6, GreetsMore
    <2> QED BY <1>1, <1>4, <2>1, <2>2, <2>6, <2>7 DEF Greeting
  <1> HIDE DEF c, kind
  <1> QED BY <1>0, <1>1, <1>2, <1>6, <1>7, <1>8, <1>9, KeptBut

\* What filling a channel leaves alone.
SamePulse(q, p) ==
    q.at = p.at /\ q.closed = p.closed /\ q.lastAck = p.lastAck /\ q.silent = p.silent /\ q.sendBuf = p.sendBuf

LEMMA FilledPulse ==
  ASSUME Types, NEW k \in Ends, NEW chan \in Chans, NEW m, conn' = conn \/ conn' = Filled(k, chan, m)
  PROVE  \A e \in Ends : SamePulse(conn'[e], conn[e])
  <1> SUFFICES ASSUME NEW e \in Ends PROVE SamePulse(conn'[e], conn[e])
    OBVIOUS
  <1>1. conn \in [Ends -> ConnT] /\ conn[e] \in ConnT
    BY DEF Types
  <1>2. \/ conn'[e] = conn[e] \/ conn'[e] = [conn[e] EXCEPT !.recvChan = <<m>>]
        \/ conn'[e] = [conn[e] EXCEPT !.sendChan = <<m>>]
    BY <1>1 DEF Filled
  <1> QED BY <1>1, <1>2 DEF SamePulse, ConnT

\* A step that leaves what is on the way where it is.
LEMMA TalkKept ==
  ASSUME Types, Types', Kept, FewFaults, NEW c \in connMap, turn'[c] = turn[c],
         \A e \in {Server(c), Client(c)} : SamePulse(conn'[e], conn[e]) /\ (Coming(e) => Coming(e)')
  PROVE  Talking(c)'
  <1> SUFFICES ASSUME NEW e \in {Server(c), Client(c)} PROVE (Alive(conn[e]) /\ HeardOf(e))'
    BY DEF Talking
  <1>1. c \in Clients
    BY DEF Types
  <1>2. e \in Ends /\ e[2] = c /\ Alive(conn[e]) /\ HeardOf(e)
    BY <1>1, EndsFacts DEF Kept, Talking
  <1>3. SamePulse(conn'[e], conn[e]) /\ (Coming(e) => Coming(e)') /\ turn'[e[2]] = turn[e[2]]
    BY <1>2
  <1>4. Lost(faults) \in Nat /\ Lost(faults') \in Nat /\ Lost(faults) <= Lost(faults')
    BY LossGrows DEF FewFaults
  <1>5. HeardOf(e)'
    <2>1. conn'[e].silent = conn[e].silent
      BY <1>3 DEF SamePulse
    <2> QED BY <1>2, <1>3, <1>4, <2>1, HeardStays
  <1> QED BY <1>2, <1>3, <1>5 DEF Alive, SamePulse

\* loopServe takes a packet from the network, or none.
Takes(k, chan) == \/ chan = "sendChan" /\ net' = net
                  \/ chan = "recvChan" /\ net[k] # <<>> /\ net' = [net EXCEPT ![k] = Tail(@)]

\* A packet that loopServe hands on is still on its way.
LEMMA ComingPut ==
  ASSUME Types, NEW k \in Ends, NEW chan \in Chans, NEW m, Puts(k, chan, m), Takes(k, chan)
  PROVE  Coming(k) => Coming(k)'
  <1>1. CASE chan = "recvChan"
    <2>1. conn'[k].recvChan # <<>> \/ Waiting(k, "recvChan")' # <<>>
      <3>1. <<m>> # <<>>
        OBVIOUS
      <3> QED BY <1>1, <3>1 DEF Puts, Fills, Chan
    <2> QED BY <2>1 DEF Coming
  <1>2. CASE chan = "sendChan"
    <2>1. net' = net /\ conn'[k].recvChan = conn[k].recvChan
      BY <1>2 DEF Takes, Puts, Fills, Chan, SameRecv
    <2>2. Waiting(k, "recvChan") = <<>>
      BY DEF Puts, Chans
    <2> QED BY <2>1, <2>2 DEF Coming
  <1> QED BY <1>1, <1>2 DEF Chans

LEMMA ComingHand ==
  ASSUME Types, NEW k \in Ends, NEW chan \in Chans, NEW m, HandsOver(k, chan, m), net' = net
  PROVE  Coming(k) => Coming(k)'
  <1>1. CASE chan = "recvChan"
    <2>1. conn'[k].recvChan = <<m>> /\ <<m>> # <<>>
      BY <1>1 DEF HandsOver, Fills
    <2> QED BY <2>1 DEF Coming
  <1>2. CASE chan = "sendChan"
    <2>1. conn'[k].recvChan = conn[k].recvChan
      BY <1>2 DEF HandsOver, Fills, SameRecv
    <2>2. Waiting(k, "recvChan") = <<>>
      BY <1>2 DEF HandsOver, Chans
    <2> QED BY <2>1, <2>2 DEF Coming
  <1> QED BY <1>1, <1>2 DEF Chans

\* Nothing else is touched when loopServe works for the end k.
LEMMA LoopOthers ==
  ASSUME Types, NEW k \in Ends, \A e \in Ends : e # k => conn'[e] = conn[e] /\ net'[e] = net[e], turn' = turn,
         \/ k[1] = "server" /\ cli' = cli /\ (srv.at \in Chans => srv.who = k[2]) /\ (srv'.at \in Chans => srv'.who = k[2])
         \/ k[1] = "client" /\ srv' = srv /\ \A d \in Clients : d # k[2] => cli'[d] = cli[d]
  PROVE  /\ \A d \in Clients : d # k[2] => Untouched(d)
         /\ Coming(Peer(k)) => Coming(Peer(k))'
  <1>1. k[2] \in Clients /\ Peer(k) \in Ends /\ Peer(k) # k /\ Peer(k)[2] = k[2] /\ k[1] \in Sides /\ Peer(k)[1] # k[1]
    BY EndsFacts DEF Peer, Ends, Sides
  <1>2. ASSUME NEW e \in Ends, e # k PROVE Waiting(e, "recvChan")' = Waiting(e, "recvChan")
    <2>1. e[1] # k[1] \/ e[2] # k[2]
      BY <1>1, <1>2 DEF Ends
    <2>2. e[1] \in {"server", "client"} /\ e[2] \in Clients
      BY DEF Ends, Sides
    <2> QED BY <2>1, <2>2 DEF Waiting, Chans
  <1>3. ASSUME NEW d \in Clients, d # k[2] PROVE Untouched(d)
    <2>1. \A e \in {Server(d), Client(d)} : e \in Ends /\ e # k
      BY <1>1, <1>3, EndsFacts
    <2>2. cli'[d] = cli[d]
      BY <1>3
    <2> QED BY <1>2, <2>1, <2>2 DEF Untouched
  <1>4. Coming(Peer(k)) => Coming(Peer(k))'
    BY <1>1, <1>2 DEF Coming
  <1> QED BY <1>3, <1>4

\* loopServe of the server puts something into a channel of an end in connMap, or waits with it.
LEMMA ServerPutKept ==
  ASSUME Types, Types', Kept, FewFaults, NEW c \in connMap, NEW chan \in Chans, NEW m, srv.at = "select",
         ServerPut(c, chan, m), Takes(Server(c), chan), UNCHANGED <<cli, connMap, turn>>
  PROVE  Kept'
  <1>1. c \in Clients
    BY DEF Types
  <1>2. Server(c) \in Ends /\ Server(c)[1] = "server" /\ Server(c)[2] = c /\ Peer(Server(c)) = Client(c)
    BY <1>1, EndsFacts
  <1>3. Puts(Server(c), chan, m) /\ (srv'.at \in Chans => srv'.who = c)
    BY <1>1, ServerPuts
  <1>4. \A e \in Ends : e # Server(c) => conn'[e] = conn[e] /\ net'[e] = net[e]
    BY <1>2, <1>3 DEF Puts, Takes, Types
  <1>5. srv.at \notin Chans
    BY DEF Chans
  <1>6. /\ \A d \in Clients : d # c => Untouched(d)
        /\ Coming(Client(c)) => Coming(Client(c))'
    BY <1>2, <1>3, <1>4, <1>5, LoopOthers
  <1>7. \A e \in Ends : SamePulse(conn'[e], conn[e])
    <2>1. conn' = conn \/ conn' = Filled(Server(c), chan, m)
      BY DEF ServerPut
    <2> QED BY <1>2, <2>1, FilledPulse
  <1>8. Coming(Server(c)) => Coming(Server(c))'
    BY <1>2, <1>3, ComingPut
  <1>9. Talking(c)'
    <2>1. \A e \in {Server(c), Client(c)} : SamePulse(conn'[e], conn[e]) /\ (Coming(e) => Coming(e)')
      BY <1>1, <1>6, <1>7, <1>8, EndsFacts
    <2> QED BY <2>1, TalkKept
  <1>10. LoopsRun'
    <2>1. srv'.at = "select" \/ srv'.at \in Chans
      <3>1. srv' = Loop \/ srv' = [Loop EXCEPT !.at = chan, !.who = c, !.msg = m]
        BY DEF ServerPut
      <3>2. Loop.at = "select" /\ [Loop EXCEPT !.at = chan, !.who = c, !.msg = m].at = chan
        BY DEF Loop
      <3> QED BY <3>1, <3>2
    <2> QED BY <1>3, <2>1 DEF Kept, LoopsRun
  <1> QED BY <1>1, <1>6, <1>9, <1>10, KeptBut

\* So does a client's.
LEMMA ClientPutKept ==
  ASSUME Types, Types', Kept, FewFaults, NEW c \in connMap, NEW chan \in Chans, NEW m, cli[c].at = "select",
         ClientPut(c, chan, m), Takes(Client(c), chan), UNCHANGED <<srv, connMap, turn>>
  PROVE  Kept'
  <1>1. c \in Clients
    BY DEF Types
  <1>2. Client(c) \in Ends /\ Client(c)[1] = "client" /\ Client(c)[2] = c /\ Peer(Client(c)) = Server(c)
    BY <1>1, EndsFacts
  <1>3. Puts(Client(c), chan, m) /\ \A d \in Clients : d # c => cli'[d] = cli[d]
    BY <1>1, ClientPuts
  <1>4. \A e \in Ends : e # Client(c) => conn'[e] = conn[e] /\ net'[e] = net[e]
    BY <1>2, <1>3 DEF Puts, Takes, Types
  <1>6. /\ \A d \in Clients : d # c => Untouched(d)
        /\ Coming(Server(c)) => Coming(Server(c))'
    BY <1>2, <1>3, <1>4, LoopOthers
  <1>7. \A e \in Ends : SamePulse(conn'[e], conn[e])
    <2>1. conn' = conn \/ conn' = Filled(Client(c), chan, m)
      BY DEF ClientPut
    <2> QED BY <1>2, <2>1, FilledPulse
  <1>8. Coming(Client(c)) => Coming(Client(c))'
    BY <1>2, <1>3, ComingPut
  <1>9. Talking(c)'
    <2>1. \A e \in {Server(c), Client(c)} : SamePulse(conn'[e], conn[e]) /\ (Coming(e) => Coming(e)')
      BY <1>1, <1>6, <1>7, <1>8, EndsFacts
    <2> QED BY <2>1, TalkKept
  <1>10. LoopsRun'
    <2>1. cli'[c].at = "select" \/ cli'[c].at \in Chans
      <3>1. cli \in [Clients -> LoopT]
        BY DEF Types
      <3>2. cli'[c] = Loop \/ cli'[c] = [cli[c] EXCEPT !.at = chan, !.msg = m]
        BY <1>1, <3>1 DEF ClientPut
      <3>3. cli[c] \in LoopT
        BY <1>1, <3>1
      <3>4. Loop.at = "select" /\ [cli[c] EXCEPT !.at = chan, !.msg = m].at = chan
        BY <3>3 DEF Loop, LoopT
      <3> QED BY <3>2, <3>4
    <2> QED BY <1>3, <2>1 DEF Kept, LoopsRun
  <1> QED BY <1>1, <1>6, <1>9, <1>10, KeptBut

\* The server's loopServe hands over what it waited with; it never waits to close.
LEMMA ServerHandKept == ASSUME Types, Types', Kept, ~Disturbed', ServerHandOver PROVE Kept'
  <1>1. srv.at \in Chans /\ srv.who \in connMap
    BY DEF Kept, LoopsRun, ServerHandOver, Chans
  <1>2. PICK c \in Clients, chan \in Chans, m \in Message : c \in connMap /\ srv.at = chan /\ srv.who = c /\ srv.msg = m
    BY <1>1 DEF Types, LoopT
  <1>3. /\ Chan(Server(c), chan) = <<>> /\ conn' = Filled(Server(c), chan, m) /\ srv' = Loop
        /\ UNCHANGED <<net, connMap, cli, faults, turn>>
    BY <1>2 DEF ServerHandOver, envVars, Chans
  <1>4. FewFaults
    BY <1>3 DEF FewFaults
  <1>5. Server(c) \in Ends /\ Server(c)[1] = "server" /\ Server(c)[2] = c /\ Peer(Server(c)) = Client(c)
    BY EndsFacts
  <1>6. HandsOver(Server(c), chan, m)
    BY <1>2, <1>3, ServerHands
  <1>7. srv'.at = "select" /\ srv'.at \notin Chans
    BY <1>3 DEF Loop, Chans
  <1>8. \A e \in Ends : e # Server(c) => conn'[e] = conn[e] /\ net'[e] = net[e]
    BY <1>3, <1>6 DEF HandsOver
  <1>9. /\ \A d \in Clients : d # c => Untouched(d)
        /\ Coming(Client(c)) => Coming(Client(c))'
    BY <1>2, <1>3, <1>5, <1>7, <1>8, LoopOthers
  <1>10. Coming(Server(c)) => Coming(Server(c))'
    BY <1>3, <1>5, <1>6, ComingHand
  <1>11. \A e \in Ends : SamePulse(conn'[e], conn[e])
    BY <1>3, <1>5, FilledPulse
  <1>12. Talking(c)'
    <2>1. \A e \in {Server(c), Client(c)} : SamePulse(conn'[e], conn[e]) /\ (Coming(e) => Coming(e)')
      BY <1>9, <1>10, <1>11, EndsFacts
    <2> QED BY <1>2, <1>3, <1>4, <2>1, TalkKept
  <1>13. LoopsRun'
    BY <1>3, <1>7 DEF Kept, LoopsRun
  <1> QED BY <1>2, <1>3, <1>4, <1>9, <1>12, <1>13, KeptBut

\* A client whose CONNECT has not arrived has a channel filled by a write.
LEMMA GreetsFill ==
  ASSUME Types, NEW c \in Clients, NEW m \in Message, m.type = "DATA", NEW s, NEW n,
         Greets(conn[Client(c)], s, n), conn[Client(c)].sendChan = <<>>, conn' = Filled(Client(c), "sendChan", m)
  PROVE  Greets(conn'[Client(c)], s, n)
  <1>1. Client(c) \in Ends /\ conn \in [Ends -> ConnT]
    BY EndsFacts DEF Types
  <1>2. conn'[Client(c)] = [conn[Client(c)] EXCEPT !.sendChan = <<m>>] /\ conn[Client(c)] \in ConnT
    BY <1>1 DEF Filled
  <1>3. /\ conn'[Client(c)].sendChan = <<m>> /\ conn'[Client(c)].recvChan = conn[Client(c)].recvChan
        /\ SamePulse(conn'[Client(c)], conn[Client(c)])
    BY <1>2 DEF SamePulse, ConnT
  <1>4. \A i \in 1 .. Len(<<m>>) : <<m>>[i].type \in {"CONNECT", "DATA"}
    OBVIOUS
  <1> QED BY <1>3, <1>4 DEF Greets, Alive, SamePulse

\* CONNECT reaches the server: the connection it makes starts with the silence of the client.
LEMMA AcceptKept ==
  ASSUME Types, Types', Kept, ~Disturbed', NEW c \in Clients, c \notin connMap, srv.at = "select", Accept(c),
         net[Server(c)] # <<>>, net' = [net EXCEPT ![Server(c)] = Tail(@)], UNCHANGED <<cli, faults, turn>>
  PROVE  Kept'
  <1>0. /\ conn \in [Ends -> ConnT] /\ net \in [Ends -> Seq(Message)] /\ Server(c) \in Ends /\ Client(c) \in Ends
        /\ Server(c) # Client(c) /\ connMap \subseteq Clients
    BY EndsFacts DEF Types
  <1>1. /\ conn' = [conn EXCEPT ![Server(c)] = newLspConn(nextConnId)] /\ connMap' = connMap \cup {c} /\ srv' = srv
        /\ FewFaults
    BY DEF Accept, FewFaults
  <1>2. \A e \in Ends : e # Server(c) => conn'[e] = conn[e] /\ net'[e] = net[e]
    BY <1>0, <1>1
  <1>3. \A e \in Ends : Waiting(e, "recvChan")' = Waiting(e, "recvChan")
    BY <1>1 DEF Waiting
  <1>4. ASSUME NEW d \in Clients, d # c PROVE Untouched(d)
    <2>1. \A e \in {Server(d), Client(d)} : e \in Ends /\ e # Server(c)
      BY <1>4, EndsFacts
    <2> QED BY <1>2, <1>3, <2>1 DEF Untouched
  <1>5. /\ Lost(faults) \in Nat /\ faults.connect \in Nat /\ faults.connect <= Lost(faults) /\ Lost(faults') = Lost(faults)
    BY <1>1, LossGrows, LossFacts DEF FewFaults
  <1>6. Alive(conn'[Server(c)]) /\ HeardOf(Server(c))'
    <2>1. conn'[Server(c)] = newLspConn(nextConnId)
      BY <1>0, <1>1
    <2>2. Alive(newLspConn(nextConnId)) /\ newLspConn(nextConnId).silent = 0
      BY DEF newLspConn, Alive, genAckMsg, Msg
    <2> QED BY <1>0, <1>5, <2>1, <2>2, HeardNow
  <1>7. Alive(conn'[Client(c)]) /\ HeardOf(Client(c))'
    <2>1. Greets(conn[Client(c)], net[Server(c)], faults.connect) /\ conn'[Client(c)] = conn[Client(c)]
      BY <1>0, <1>2 DEF Kept, Greeting
    <2>2. conn[Client(c)].silent \in Nat
      BY <1>0 DEF ConnT
    <2>3. conn[Client(c)].silent <= Lost(faults)
      BY <1>5, <2>1, <2>2 DEF Greets
    <2> QED BY <1>5, <2>1, <2>2, <2>3 DEF Greets, HeardOf
  <1>8. Talking(c)'
    BY <1>6, <1>7 DEF Talking
  <1>9. \A d \in Clients : d # c => (d \in connMap => Talking(d)') /\ (d \notin connMap => Greeting(d)')
    BY <1>1, <1>4, Apart
  <1>10. LoopsRun'
    BY <1>1 DEF Kept, LoopsRun
  <1> QED BY <1>0, <1>1, <1>8, <1>9, <1>10 DEF Kept

\* Packets that reach the server.
LEMMA PacketKept == ASSUME Types, Types', Kept, ~Disturbed', NEW c \in Clients, handleUdpPacket(c) PROVE Kept'
  <1> DEFINE k == Server(c)
             m == Head(net[k])
  <1>0. k \in Ends /\ k[1] = "server" /\ k[2] = c /\ Peer(k) = Client(c) /\ net \in [Ends -> Seq(Message)]
    BY EndsFacts DEF Types
  <1>1. /\ srv.at = "select" /\ net[k] # <<>> /\ net' = [net EXCEPT ![k] = Tail(@)] /\ UNCHANGED <<cli, faults, turn>>
        /\ FewFaults
    BY DEF handleUdpPacket, envVars, FewFaults
  <1>2. net[k] \in Seq(Message) /\ m = net[k][1] /\ m \in Message
    BY <1>0, <1>1, Firsts
  <1>3. CASE c \notin connMap
    <2>1. Greets(conn[Client(c)], net[k], faults.connect)
      BY <1>3 DEF Kept, Greeting
    <2>2. m.type = "CONNECT"
      BY <1>1, <1>2, <2>1 DEF Greets
    <2>3. Accept(c)
      BY <1>3, <2>2 DEF handleUdpPacket
    <2> QED BY <1>1, <1>3, <2>3, AcceptKept
  <1>4. CASE c \in connMap /\ m.type = "CONNECT"
    <2>1. UNCHANGED <<conn, srv, connMap>>
      BY <1>4 DEF handleUdpPacket
    <2>2. net'[k] = Tail(net[k]) /\ \A e \in Ends : e # k => net'[e] = net[e]
      BY <1>0, <1>1
    <2>3. \A e \in Ends : Waiting(e, "recvChan")' = Waiting(e, "recvChan") /\ SamePulse(conn'[e], conn[e])
      BY <1>1, <2>1 DEF Waiting, SamePulse
    <2>4. \A d \in Clients : d # c => Untouched(d)
      <3>1. srv.at \notin Chans
        BY <1>1 DEF Chans
      <3> HIDE DEF k
      <3> QED BY <1>0, <1>1, <2>1, <2>2, <3>1, LoopOthers
    <2>5. Coming(k) => Coming(k)'
      <3>1. CASE \E i \in 1 .. Len(net[k]) : net[k][i].type # "CONNECT"
        <4>1. PICK i \in 1 .. Len(net[k]) : net[k][i].type # "CONNECT"
          BY <3>1
        <4>2. i # 1
          BY <1>2, <1>4, <4>1
        <4>3. PICK j \in Nat : j = i - 1
          BY <4>2
        <4>4. j \in 1 .. Len(Tail(net[k])) /\ Tail(net[k])[j] = net[k][i]
          BY <1>1, <1>2, <4>2, <4>3
        <4> QED BY <2>2, <4>1, <4>4 DEF Coming
      <3>2. CASE conn[k].recvChan # <<>> \/ Waiting(k, "recvChan") # <<>>
        BY <1>0, <2>1, <2>3, <3>2 DEF Coming
      <3> QED BY <3>1, <3>2 DEF Coming
    <2>6. Coming(Client(c)) => Coming(Client(c))'
      <3>1. Client(c) \in Ends /\ Client(c) # k
        BY EndsFacts
      <3> QED BY <2>1, <2>2, <2>3, <3>1 DEF Coming
    <2>7. Talking(c)'
      <3>1. \A e \in {Server(c), Client(c)} : SamePulse(conn'[e], conn[e]) /\ (Coming(e) => Coming(e)')
        BY <2>3, <2>5, <2>6, EndsFacts
      <3> QED BY <1>1, <1>4, <3>1, TalkKept
    <2>8. LoopsRun'
      BY <1>1, <2>1 DEF Kept, LoopsRun
    <2> QED BY <1>1, <1>4, <2>1, <2>4, <2>7, <2>8, KeptBut
  <1>5. CASE c \in connMap /\ m.type # "CONNECT"
    <2>1. ServerPut(c, "recvChan", m) /\ connMap' = connMap
      BY <1>5 DEF handleUdpPacket
    <2>2. Takes(k, "recvChan")
      BY <1>1 DEF Takes
    <2> HIDE DEF m
    <2> QED BY <1>1, <1>5, <2>1, <2>2, ServerPutKept DEF Chans
  <1> QED BY <1>3, <1>4, <1>5

\* The server's other steps: nobody closes and no end leaves.
LEMMA ServerKept ==
  ASSUME Types, Types', Kept, ~Disturbed', NEW c \in Clients,
         ServerWrite(c) \/ ServerClose(c) \/ ServerCloseAll \/ ServerRemove(c)
  PROVE  Kept'
  <1>1. CASE ServerWrite(c)
    <2>1. c \in connMap /\ srv.at = "select" /\ FewFaults /\ UNCHANGED <<net, cli, connMap, turn>>
      BY <1>1 DEF ServerWrite, getConnById, envVars, FewFaults
    <2>2. PICK m : ServerPut(c, "sendChan", m)
      BY <1>1 DEF ServerWrite
    <2>3. Takes(Server(c), "sendChan")
      BY <2>1 DEF Takes
    <2> QED BY <2>1, <2>2, <2>3, ServerPutKept DEF Chans
  <1>2. CASE ServerClose(c) \/ ServerCloseAll
    <2>1. Fault("close") /\ "close" \in Kinds
      BY <1>2 DEF ServerClose, ServerCloseAll, Kinds
    <2> QED BY <2>1, LossGrows
  <1>3. CASE ServerRemove(c)
    <2>1. conn[Server(c)].at = "removeChan"
      BY <1>3 DEF ServerRemove
    <2> QED BY <2>1 DEF Kept, Talking, Greeting, Alive
  <1> QED BY <1>1, <1>2, <1>3

\* A client's loopServe.
LEMMA ClientKept ==
  ASSUME Types, Types', Kept, ~Disturbed', NEW c \in Clients, ClientLoop(c) \/ ClientWrite(c) \/ ClientClose(c)
  PROVE  Kept'
  <1>0. /\ conn \in [Ends -> ConnT] /\ net \in [Ends -> Seq(Message)] /\ cli \in [Clients -> LoopT] /\ cli[c] \in LoopT
        /\ Client(c) \in Ends /\ Server(c) \in Ends /\ Client(c) # Server(c) /\ Client(c)[1] = "client" /\ Client(c)[2] = c
        /\ Peer(Client(c)) = Server(c)
    BY EndsFacts DEF Types
  <1>1. ~ClientClose(c)
    <2>1. ClientClose(c) => Fault("close") /\ "close" \in Kinds
      BY DEF ClientClose, Kinds
    <2> QED BY <2>1, LossGrows
  <1>2. ~ClientRemove(c)
    <2>1. conn[Client(c)].at = "serve"
      BY DEF Kept, Talking, Greeting, Greets, Alive
    <2> QED BY <2>1 DEF ClientRemove
  <1>3. FewFaults /\ UNCHANGED <<srv, connMap, faults, turn>>
    BY <1>1, <1>2 DEF ClientLoop, ClientRead, ClientHandOver, ClientWrite, serverVars, envVars, FewFaults
  <1>4. CASE ClientRead(c)
    <2>1. /\ cli[c].at = "select" /\ ClientPut(c, "recvChan", Head(net[Client(c)])) /\ Takes(Client(c), "recvChan")
          /\ net[Client(c)] # <<>>
      BY <1>4 DEF ClientRead, Takes
    <2>2. c \in connMap
      BY <2>1 DEF Kept, Greeting
    <2> QED BY <1>3, <2>1, <2>2, ClientPutKept DEF Chans
  <1>5. CASE ClientWrite(c)
    <2> DEFINE d == genDataMsg(conn[Client(c)].connId, wrote[Client(c)] + 1)
    <2>1. cli[c].at = "select" /\ ClientPut(c, "sendChan", d) /\ net' = net /\ Takes(Client(c), "sendChan")
      BY <1>5 DEF ClientWrite, Takes
    <2>2. d.type = "DATA" /\ d \in Message
      <3>1. wrote[Client(c)] \in Nat /\ wrote[Client(c)] < MaxWrites["client"]
        BY <1>0, <1>5 DEF Types, ClientWrite
      <3>2. wrote[Client(c)] + 1 \in 0 .. MaxWrites["client"] + MaxWrites["server"]
        BY <3>1, LspAssumption
      <3>3. conn[Client(c)].connId \in 0 .. MaxConns
        BY <1>0, PartTypes
      <3>4. d.type = "DATA"
        BY DEF genDataMsg, Msg
      <3> QED BY <3>2, <3>3, <3>4, MessageTypes
    <2> HIDE DEF d
    <2>3. CASE c \in connMap
      BY <1>3, <2>1, <2>3, ClientPutKept DEF Chans
    <2>4. CASE c \notin connMap
      <3>1. Greeting(c)
        BY <2>4 DEF Kept
      <3>2. Puts(Client(c), "sendChan", d) /\ \A b \in Clients : b # c => cli'[b] = cli[b]
        BY <1>0, <2>1, ClientPuts DEF Chans
      <3>3. \A e \in Ends : e # Client(c) => conn'[e] = conn[e] /\ net'[e] = net[e]
        BY <2>1, <3>2 DEF Puts
      <3>4. \A b \in Clients : b # c => Untouched(b)
        BY <1>0, <1>3, <3>2, <3>3, LoopOthers
      <3>5. cli'[c] = Loop \/ cli'[c] = [cli[c] EXCEPT !.at = "sendChan", !.msg = d]
        BY <1>0, <2>1 DEF ClientPut
      <3>6. cli'[c].at \in {"select", "sendChan"} /\ (cli'[c].at = "sendChan" => cli'[c].msg.type = "DATA")
        <4>1. CASE cli'[c] = Loop
          BY <4>1 DEF Loop
        <4>2. CASE cli'[c] = [cli[c] EXCEPT !.at = "sendChan", !.msg = d]
          <5>1. cli'[c].at = "sendChan" /\ cli'[c].msg = d
            BY <1>0, <4>2 DEF LoopT
          <5> QED BY <2>2, <5>1
        <4> QED BY <3>5, <4>1, <4>2
      <3>7. Greets(conn'[Client(c)], net[Server(c)], faults.connect)
        <4>1. Greets(conn[Client(c)], net[Server(c)], faults.connect)
          BY <3>1 DEF Greeting
        <4>2. conn' = conn \/ (conn[Client(c)].sendChan = <<>> /\ conn' = Filled(Client(c), "sendChan", d))
          BY <2>1 DEF ClientPut, Chan
        <4> QED BY <2>2, <4>1, <4>2, GreetsFill
      <3>8. Greeting(c)'
        BY <1>0, <1>3, <2>1, <3>1, <3>3, <3>6, <3>7 DEF Greeting
      <3>9. LoopsRun'
        BY <1>3, <3>2, <3>6 DEF Kept, LoopsRun, Chans
      <3> QED BY <1>3, <2>4, <3>4, <3>8, <3>9, KeptBut
    <2> QED BY <2>3, <2>4
  <1>6. CASE ClientHandOver(c)
    <2>1. PICK chan \in Chans, m \in Message : cli[c].at = chan /\ cli[c].msg = m
      BY <1>0, <1>6 DEF ClientHandOver, Chans, LoopT
    <2>2. /\ Chan(Client(c), chan) = <<>> /\ conn' = Filled(Client(c), chan, m) /\ cli' = [cli EXCEPT ![c] = Loop]
          /\ net' = net
      BY <1>6, <2>1 DEF ClientHandOver
    <2>3. HandsOver(Client(c), chan, m) /\ \A d \in Clients : d # c => cli'[d] = cli[d]
      BY <2>1, <2>2, ClientHands
    <2>4. \A e \in Ends : e # Client(c) => conn'[e] = conn[e] /\ net'[e] = net[e]
      BY <2>2, <2>3 DEF HandsOver
    <2>5. /\ \A b \in Clients : b # c => Untouched(b)
          /\ Coming(Server(c)) => Coming(Server(c))'
      BY <1>0, <1>3, <2>3, <2>4, LoopOthers
    <2>6. cli'[c].at = "select"
      BY <1>0, <2>2 DEF Loop
    <2>7. LoopsRun'
      BY <1>3, <2>3, <2>6 DEF Kept, LoopsRun
    <2>8. ASSUME c \in connMap PROVE Talking(c)'
      <3>1. Coming(Client(c)) => Coming(Client(c))'
        BY <1>0, <2>2, <2>3, ComingHand
      <3>2. \A e \in Ends : SamePulse(conn'[e], conn[e])
        BY <1>0, <2>2, FilledPulse
      <3>3. \A e \in {Server(c), Client(c)} : SamePulse(conn'[e], conn[e]) /\ (Coming(e) => Coming(e)')
        BY <1>0, <2>5, <3>1, <3>2
      <3> QED BY <1>3, <2>8, <3>3, TalkKept
    <2>9. ASSUME c \notin connMap PROVE Greeting(c)'
      <3>1. Greeting(c)
        BY <2>9 DEF Kept
      <3>2. chan = "sendChan" /\ m.type = "DATA"
        BY <2>1, <3>1 DEF Greeting, Chans
      <3>3. Greets(conn[Client(c)], net[Server(c)], faults.connect) /\ conn[Client(c)].sendChan = <<>>
        BY <2>2, <3>1, <3>2 DEF Greeting, Chan
      <3>4. Greets(conn'[Client(c)], net[Server(c)], faults.connect)
        BY <2>2, <3>2, <3>3, GreetsFill
      <3> QED BY <1>0, <1>3, <2>2, <2>4, <2>6, <3>1, <3>4 DEF Greeting
    <2> QED BY <1>3, <2>5, <2>7, <2>8, <2>9, KeptBut
  <1> QED BY <1>1, <1>2, <1>4, <1>5, <1>6 DEF ClientLoop

\* Kept holds initially.
LEMMA KeptInit == Init => Kept
  <1> SUFFICES ASSUME Init PROVE Kept
    OBVIOUS
  <1>1. LoopsRun /\ connMap = {}
    BY DEF Init, LoopsRun, Loop
  <1>2. ASSUME NEW c \in Clients PROVE Greeting(c)
    <2>1. Client(c) \in Ends /\ Server(c) \in Ends /\ Client(c)[1] = "client" /\ Server(c)[1] = "server"
      BY EndsFacts
    <2>2. /\ conn[Client(c)] = newLspConn(0) /\ conn[Server(c)] = NoConn /\ net[Client(c)] = <<>> /\ net[Server(c)] = <<>>
          /\ cli[c].at = "select" /\ faults.connect = 0
      BY <2>1 DEF Init, Loop
    <2>3. NoConn.at = "gone"
      BY DEF NoConn, newLspConn
    <2>4. /\ Alive(newLspConn(0)) /\ newLspConn(0).recvChan = <<>> /\ newLspConn(0).silent = 0
          /\ newLspConn(0).sendBuf = <<>> /\ newLspConn(0).sendChan = <<genConnMsg(0)>>
      BY DEF newLspConn, Alive, genAckMsg, Msg
    <2>5. /\ <<genConnMsg(0)>> # <<>> /\ <<genConnMsg(0)>>[1].type = "CONNECT"
          /\ \A i \in 1 .. Len(<<genConnMsg(0)>>) : <<genConnMsg(0)>>[i].type \in {"CONNECT", "DATA"}
      BY DEF genConnMsg, Msg
    <2>6. Len(<<>>) = 0
      OBVIOUS
    <2>7. Greets(newLspConn(0), <<>>, 0)
      <3>1. \A q : /\ Alive(q) /\ q.recvChan = <<>> /\ q.silent = 0 /\ q.sendBuf = <<>> /\ q.sendChan # <<>>
                   /\ q.sendChan[1].type = "CONNECT"
                   /\ \A i \in 1 .. Len(q.sendChan) : q.sendChan[i].type \in {"CONNECT", "DATA"}
                   => Greets(q, <<>>, 0)
        BY <2>6 DEF Greets
      <3> QED BY <2>4, <2>5, <3>1
    <2> QED BY <2>2, <2>3, <2>7 DEF Greeting
  <1> QED BY <1>1, <1>2 DEF Kept

\* Every step keeps it while few packets are lost and nobody closes.
LEMMA KeptStep == ASSUME Types, Types', [Next]_vars, ~Disturbed => Kept, ~Disturbed' PROVE Kept'
  <1>1. faults' = faults \/ \E kind \in Kinds : Fault(kind)
    BY DEF Next, ServeStep, Send, ReceiveData, ReceiveAck, Deliver, epochTrigger, Lose, ServerLoop, ServerHandOver,
           handleUdpPacket, ServerRemove, ServerCloseAll, ClientLoop, ClientRead, ClientHandOver, ClientRemove,
           Application, ServerWrite, ServerClose, ClientWrite, ClientClose, envVars, vars, Kinds
  <1>2. Kept
    BY <1>1, LossGrows
  <1>3. ASSUME NEW k \in Ends, ServeStep(k) \/ Deliver(k) \/ epochTrigger(k) \/ Lose(k) PROVE Kept'
    BY <1>2, <1>3, SendKept, ReceiveKept, DeliverKept, EpochKept, LoseKept DEF ServeStep
  <1>4. ASSUME NEW c \in Clients, ClientLoop(c) \/ Application(c) PROVE Kept'
    BY <1>2, <1>4, ClientKept, ServerKept DEF Application
  <1>5. CASE ServerLoop
    BY <1>2, <1>5, ServerHandKept, PacketKept, ServerKept DEF ServerLoop
  <1>6. CASE ServerCloseAll
    <2>1. Fault("close") /\ "close" \in Kinds
      BY <1>6 DEF ServerCloseAll, Kinds
    <2> QED BY <2>1, LossGrows
  <1>7. CASE UNCHANGED vars
    <2>1. UNCHANGED <<conn, net, srv, cli, connMap, faults, turn>>
      BY <1>7 DEF vars
    <2>2. LoopsRun'
      BY <1>2, <2>1 DEF Kept, LoopsRun
    <2>3. \A c \in Clients : Untouched(c)
      BY <2>1 DEF Untouched, Waiting
    <2>4. FewFaults
      BY <2>1 DEF FewFaults
    <2>5. \A c \in Clients : (c \in connMap => Talking(c)') /\ (c \notin connMap => Greeting(c)')
      BY <1>2, <2>3, <2>4, Apart
    <2> QED BY <2>1, <2>2, <2>5 DEF Kept, Types
  <1> QED BY <1>3, <1>4, <1>5, <1>6, <1>7 DEF Next

\* No end gives up on its peer (epochTrigger) and the server never dereferences nil (handleUdpPacket)
\* as long as fewer than EpochLimit - 1 packets are lost, at most one of them a CONNECT, no timer
\* runs out early and nobody closes.
THEOREM LspConnectionsKept == Spec => []ConnectionsKept
  <1>1. Spec => [](Types /\ (~Disturbed => Kept))
    <2>1. Init => Types /\ (~Disturbed => Kept)
      BY TypesInit, KeptInit
    <2>2. Types /\ (~Disturbed => Kept) /\ [Next]_vars => (Types /\ (~Disturbed => Kept))'
      BY TypesStep, KeptStep
    <2> QED BY <2>1, <2>2, PTL DEF Spec
  <1>2. Types /\ (~Disturbed => Kept) => ConnectionsKept
    <2> SUFFICES ASSUME Types, ~Disturbed, Kept
                 PROVE  srv.at # "panic" /\ \A c \in Clients : Serving(Client(c)) /\ (c \in connMap => Serving(Server(c)))
      BY DEF ConnectionsKept
    <2>1. srv.at # "panic"
      BY DEF Kept, LoopsRun, Chans
    <2>2. ASSUME NEW c \in Clients PROVE Serving(Client(c)) /\ (c \in connMap => Serving(Server(c)))
      BY DEF Kept, Talking, Greeting, Greets, Alive, Serving
    <2> QED BY <2>1, <2>2
  <1> QED BY <1>1, <1>2, PTL
=============================================================================
