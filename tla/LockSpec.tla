------------------------------- MODULE LockSpec -------------------------------
(***************************************************************************)
(* What package lockservice promises its clients: every Lock and Unlock    *)
(* takes effect once, atomically, between its call and its return, and is  *)
(* answered by whether the lock was free or held at that moment.  When no  *)
(* server is left the locks are lost and the pending calls give up.        *)
(***************************************************************************)
CONSTANTS Client, Lockname

VARIABLES
    held,       \* the locks that are held
    call,       \* the latest call of each client
    available   \* some server is left

vars == <<held, call, available>>

Init ==
    /\ held = {}
    /\ call \in [Client -> [kind: {"Lock", "Unlock"}, lock: Lockname,
                            answer: {"no"}, status: {"returned"}]]
    /\ available = TRUE

\* A clerk calls Lock(l) or Unlock(l).
Invoke(c, kind, l) ==
    /\ call[c].status = "returned"
    /\ call' = [call EXCEPT ![c] = [kind |-> kind, lock |-> l,
                                    answer |-> "none", status |-> "pending"]]
    /\ UNCHANGED <<held, available>>

\* The call takes effect: Lock is granted if the lock is free, Unlock if it
\* is held.
Perform(c) ==
    LET l == call[c].lock
        ok == (call[c].kind = "Lock") = (l \notin held)
    IN  /\ available
        /\ call[c].status = "pending" /\ call[c].answer = "none"
        /\ held' = IF ~ok THEN held
                   ELSE IF call[c].kind = "Lock" THEN held \cup {l} ELSE held \ {l}
        /\ call' = [call EXCEPT ![c].answer = IF ok THEN "ok" ELSE "no"]
        /\ UNCHANGED available

Return(c) ==
    /\ call[c].status = "pending" /\ call[c].answer # "none"
    /\ call' = [call EXCEPT ![c].status = "returned"]
    /\ UNCHANGED <<held, available>>

\* The last server is lost, and with it the locks and answers not yet sent.
Fail ==
    /\ available
    /\ available' = FALSE
    /\ held' = {}
    /\ \E lost \in SUBSET {c \in Client : call[c].status = "pending"} :
          call' = [c \in Client |-> IF c \in lost THEN [call[c] EXCEPT !.answer = "none"]
                                                  ELSE call[c]]

\* An answer on its way is lost after the last server.
Lose(c) ==
    /\ ~available
    /\ call[c].status = "pending"
    /\ call' = [call EXCEPT ![c].answer = "none"]
    /\ UNCHANGED <<held, available>>

\* Without a server Lock and Unlock return false.
GiveUp(c) ==
    /\ ~available
    /\ call[c].status = "pending"
    /\ call' = [call EXCEPT ![c].status = "returned", ![c].answer = "no"]
    /\ UNCHANGED <<held, available>>

Next ==
    \/ \E c \in Client :
          \/ \E kind \in {"Lock", "Unlock"}, l \in Lockname : Invoke(c, kind, l)
          \/ Perform(c) \/ Return(c) \/ Lose(c) \/ GiveUp(c)
    \/ Fail

Spec == Init /\ [][Next]_vars
=============================================================================
