----------------------------- MODULE BufferSpec -----------------------------
(***************************************************************************)
(* What the buffers of class05 and class07 promise: a FIFO queue whose     *)
(* operations take effect one at a time, between call and return.  Remove  *)
(* and Front wait for an element.  List hands out the queue itself; a call *)
(* that uses it while another changes it may end the process (broken).     *)
(***************************************************************************)
EXTENDS Integers, Sequences

CONSTANTS Users, Ops, Vals

VARIABLES queue, calls, broken

specVars == <<queue, calls, broken>>

Ended == [op |-> "none", val |-> 0, result |-> <<>>]
Running(u) == calls[u].op # "none"
Pending(u) == Running(u) /\ calls[u].result = <<>>

Init == queue = <<>> /\ calls = [u \in Users |-> Ended] /\ broken = FALSE

Invoke(u) ==
    /\ ~Running(u)
    /\ \E op \in Ops, v \in Vals : calls' = [calls EXCEPT ![u] = [op |-> op, val |-> v, result |-> <<>>]]
    /\ UNCHANGED <<queue, broken>>

Effect(u, q, r) == queue' = q /\ calls' = [calls EXCEPT ![u].result = <<r>>] /\ UNCHANGED broken

Perform(u) ==
    /\ Pending(u) /\ ~broken
    /\ \/ calls[u].op = "insert" /\ Effect(u, Append(queue, calls[u].val), "nil")
       \/ calls[u].op = "remove" /\ queue # <<>> /\ Effect(u, Tail(queue), Head(queue))
       \/ calls[u].op = "front" /\ queue # <<>> /\ Effect(u, queue, Head(queue))
       \/ calls[u].op = "empty" /\ Effect(u, queue, queue = <<>>)
       \/ calls[u].op = "flush" /\ Effect(u, <<>>, "nil")
       \/ calls[u].op = "contents" /\ Effect(u, queue, queue)
       \/ calls[u].op = "list" /\ Effect(u, queue, <<>>)

Return(u) == /\ Running(u) /\ ~Pending(u) /\ calls' = [calls EXCEPT ![u] = Ended]
             /\ UNCHANGED <<queue, broken>>

Break == /\ \E u \in Users : calls[u].op = "list" /\ ~Pending(u)
         /\ broken' = TRUE /\ UNCHANGED <<queue, calls>>

\* The call of a user ends without an answer.
Fail(u) == /\ broken /\ calls' = [calls EXCEPT ![u] = Ended]
           /\ UNCHANGED <<queue, broken>>

Next == Break \/ \E u \in Users : Invoke(u) \/ Perform(u) \/ Return(u) \/ Fail(u)

Spec == Init /\ [][Next]_specVars
=============================================================================
