---------------------------- MODULE ProxyCounter ----------------------------
(***************************************************************************)
(* The proxy that the library's tests put in front of a storage server     *)
(* (15-440 P2, proxycounter).  Handlers of Get, GetList, Put, AppendToList *)
(* and RemoveFromList run concurrently, count with atomic additions and    *)
(* forward; the test driver meanwhile resets the counters and switches     *)
(* answers with plain assignments, one after the other.                    *)
(*                                                                         *)
(* A key or a value is one byte long.  The storage server is external: it  *)
(* grants a lease only where one is wanted.                                *)
(***************************************************************************)
EXTENDS Integers, Sequences, FiniteSets

CONSTANTS Rpcs,         \* handlers at a time
          MaxRpcs,      \* bound: calls of the handlers
          MaxOrders     \* bound: calls of the driver

ASSUME ProxyAssumption == IsFiniteSet(Rpcs)

VARIABLES pc,           \* the ProxyCounter
          rpc,          \* each handler
          todo,         \* the assignments left of what the driver calls
          entered, orders,
          returned,     \* history: what the calls that returned since Reset amount to
          overlapped    \* history: calls were under way during the last Reset

proxyVars == <<pc, rpc, todo, entered, orders, returned, overlapped>>

Counters == {"rpcCount", "byteCount", "leaseRequestCount", "leaseGrantedCount"}
Zero == [f \in Counters |-> 0]
NewProxyCounter ==
    [rpcCount |-> 0, byteCount |-> 0, leaseRequestCount |-> 0, leaseGrantedCount |-> 0,
     override |-> FALSE, overrideErr |-> FALSE, overrideStatus |-> "OK", disableLease |-> FALSE]
NoRpc == [at |-> "out", kind |-> "put", want |-> FALSE, granted |-> FALSE, bytes |-> 0,
          ok |-> FALSE, served |-> FALSE, late |-> FALSE]

ProxyInit ==
    /\ pc = NewProxyCounter /\ rpc = [h \in Rpcs |-> NoRpc] /\ todo = <<>>
    /\ entered = 0 /\ orders = 0 /\ returned = Zero /\ overlapped = FALSE

(***************************************************************************)
(* The driver: each call is a sequence of assignments.                     *)
(***************************************************************************)
\* Mutant: the bytes are not reset.
ResetForgets == <<<<"rpcCount", 0>>, <<"leaseRequestCount", 0>>, <<"leaseGrantedCount", 0>>>>

Reset == <<<<"rpcCount", 0>>, <<"byteCount", 0>>, <<"leaseRequestCount", 0>>, <<"leaseGrantedCount", 0>>>>

\* Mutant: the switch comes first.
OverrideErrLast == <<<<"override", TRUE>>, <<"overrideErr", TRUE>>>>

OverrideErr == <<<<"overrideErr", TRUE>>, <<"override", TRUE>>>>
OverrideStatus == <<<<"overrideStatus", "failed">>, <<"override", TRUE>>>>
OverrideOff == <<<<"override", FALSE>>, <<"overrideErr", FALSE>>, <<"overrideStatus", "OK">>>>
DisableLease == <<<<"disableLease", TRUE>>>>
EnableLease == <<<<"disableLease", FALSE>>>>

Resetting(s) == s # <<>> /\ Head(s)[1] \in Counters

Order(s) ==
    /\ todo = <<>> /\ orders < MaxOrders
    /\ todo' = s /\ orders' = orders + 1
    /\ overlapped' = IF Resetting(s) THEN \E h \in Rpcs : rpc[h].at # "out" ELSE overlapped
    /\ UNCHANGED <<pc, rpc, entered, returned>>

\* A handler that has seen the override is late once it is switched off.
Assign ==
    /\ todo # <<>> /\ todo' = Tail(todo)
    /\ pc' = [pc EXCEPT ![Head(todo)[1]] = Head(todo)[2]]
    /\ rpc' = IF Head(todo) # <<"override", FALSE>> THEN rpc
              ELSE [h \in Rpcs |-> [rpc[h] EXCEPT !.late = @ \/ rpc[h].at \in {"overridden", "status"}]]
    /\ returned' = IF Resetting(todo) /\ Len(todo) = 1 THEN Zero ELSE returned
    /\ UNCHANGED <<entered, orders, overlapped>>

(***************************************************************************)
(* The handlers.                                                           *)
(***************************************************************************)
At(h, at) == rpc[h].at = at
To(h, at) == rpc' = [rpc EXCEPT ![h].at = at]
Return(h, ok) == rpc' = [rpc EXCEPT ![h] = [NoRpc EXCEPT !.ok = ok, !.served = rpc[h].served, !.late = rpc[h].late]]
Add1(f, n) == pc' = [pc EXCEPT ![f] = @ + n]

\* A call enters and looks at override.
Enter(h, kind, want) ==
    /\ At(h, "out") /\ entered < MaxRpcs /\ entered' = entered + 1
    /\ want => kind = "get"
    /\ rpc' = [rpc EXCEPT ![h] = [NoRpc EXCEPT !.at = IF pc.override THEN "overridden"
                                                     ELSE IF want THEN "request" ELSE "forward",
                                               !.kind = kind, !.want = want, !.bytes = IF kind = "get" THEN 1 ELSE 2]]
    /\ overlapped' = (overlapped \/ Resetting(todo))
    /\ UNCHANGED <<pc, todo, orders, returned>>

ReadOverrideStatus(h) ==
    /\ At(h, "overridden")
    /\ rpc' = [rpc EXCEPT ![h].at = "status", ![h].ok = (pc.overrideStatus = "OK")]
    /\ UNCHANGED <<pc, todo, entered, orders, returned, overlapped>>

ReturnOverrideErr(h) ==
    /\ At(h, "status")
    /\ Return(h, rpc[h].ok /\ ~pc.overrideErr)
    /\ UNCHANGED <<pc, todo, entered, orders, returned, overlapped>>

CountRequest(h) ==
    /\ At(h, "request") /\ Add1("leaseRequestCount", 1) /\ To(h, "forward")
    /\ UNCHANGED <<todo, entered, orders, returned, overlapped>>

\* WantLease is cleared if leases are disabled, and the server called: it
\* fails, or answers with a value for a Get, and with a lease or without.
Forwarded(h, ok, lease) ==
    /\ At(h, "forward")
    /\ lease => ok /\ rpc[h].want /\ ~pc.disableLease
    /\ rpc' = [rpc EXCEPT ![h].at = IF lease THEN "granted" ELSE "answered",
                          ![h].ok = ok, ![h].served = ok, ![h].granted = lease,
                          ![h].bytes = @ + IF ok /\ rpc[h].kind = "get" THEN 1 ELSE 0]
    /\ UNCHANGED <<pc, todo, entered, orders, returned, overlapped>>

CountGranted(h) ==
    /\ At(h, "granted") /\ Add1("leaseGrantedCount", 1) /\ To(h, "answered")
    /\ UNCHANGED <<todo, entered, orders, returned, overlapped>>

CountRpc(h) ==
    /\ At(h, "answered") /\ Add1("rpcCount", 1) /\ To(h, "counted")
    /\ UNCHANGED <<todo, entered, orders, returned, overlapped>>

\* byteCount, and the return.
CountBytes(h) ==
    /\ At(h, "counted") /\ Add1("byteCount", rpc[h].bytes) /\ Return(h, rpc[h].ok)
    /\ returned' = [rpcCount |-> returned.rpcCount + 1,
                    byteCount |-> returned.byteCount + rpc[h].bytes,
                    leaseRequestCount |-> returned.leaseRequestCount + IF rpc[h].want THEN 1 ELSE 0,
                    leaseGrantedCount |-> returned.leaseGrantedCount + IF rpc[h].granted THEN 1 ELSE 0]
    /\ UNCHANGED <<todo, entered, orders, overlapped>>

ProxyNext ==
    \/ \E s \in {Reset, OverrideErr, OverrideStatus, OverrideOff, DisableLease, EnableLease} : Order(s)
    \/ Assign
    \/ \E h \in Rpcs : \/ \E kind \in {"get", "put"}, want \in BOOLEAN : Enter(h, kind, want)
                       \/ \E ok, lease \in BOOLEAN : Forwarded(h, ok, lease)
                       \/ ReadOverrideStatus(h) \/ ReturnOverrideErr(h)
                       \/ CountRequest(h) \/ CountGranted(h) \/ CountRpc(h) \/ CountBytes(h)

(***************************************************************************)
(* Properties                                                              *)
(***************************************************************************)
\* When nothing is under way the counters are what the calls since Reset
\* amount to, however their handlers interleaved: calls that were overridden
\* count for nothing, failed ones as calls.  Not so after a Reset that
\* overlapped a call, whose additions fall on both sides of it.
CountsExact ==
    todo = <<>> /\ ~overlapped /\ (\A h \in Rpcs : At(h, "out")) =>
        \A f \in Counters : pc[f] = returned[f]

\* A call that returns OK without an error has been performed by the storage
\* server, although override, overrideErr and overrideStatus are set and read
\* one by one; unless the override was switched off while the handler was
\* between reading the switch and reading the answer.
OkMeansServed ==
    \A h \in Rpcs : At(h, "out") /\ rpc[h].ok => rpc[h].served \/ rpc[h].late
=============================================================================
