------------------------------ MODULE Pollers ------------------------------
(***************************************************************************)
(* codewalk/sharemem: resources are handed from goroutine to goroutine     *)
(* over the unbuffered channels pending and complete, and polled by        *)
(* whoever has them; a monitor owns the map of their states.  A hand-over  *)
(* is one step of both sides.  The ticker's log lines are no steps.        *)
(***************************************************************************)
EXTENDS Integers, Sequences, FiniteSets

CONSTANTS Urls,         \* their number; the resources are 1 .. Urls
          PollerIds,
          Silent,       \* resources whose server may never answer a request
          MaxErrors     \* bound: polls of a resource that fail in a row

ASSUME PollersAssumption == Urls \in Nat

VARIABLES starting,     \* next resource of the goroutine that starts them
          poller,       \* what each Poller has and does
          sleeping,     \* resources with a goroutine in Sleep ...
          awake,        \* ... or in its send to done
          errCount,
          urlStatus

pollVars == <<starting, poller, sleeping, awake, errCount, urlStatus>>

Resources == 1 .. Urls
Ranging == [pc |-> "range", has |-> 0]
Has(p, r) == poller[p].has = r

PollInit ==
    /\ starting = 1 /\ poller = [p \in PollerIds |-> Ranging]
    /\ sleeping = {} /\ awake = {}
    /\ errCount = [r \in Resources |-> 0] /\ urlStatus = [r \in Resources |-> "unknown"]

TakeInto(p, r) == poller[p].pc = "range" /\ poller' = [poller EXCEPT ![p] = [pc |-> "poll", has |-> r]]

\* pending <- r of the starting goroutine meets the range of a Poller.
TakeFirst(p) ==
    /\ starting <= Urls /\ TakeInto(p, starting)
    /\ starting' = starting + 1
    /\ UNCHANGED <<sleeping, awake, errCount, urlStatus>>

\* done <- r at the end of Sleep does.
TakeAgain(p, r) ==
    /\ r \in awake /\ TakeInto(p, r)
    /\ awake' = awake \ {r}
    /\ UNCHANGED <<starting, sleeping, errCount, urlStatus>>

\* http.Head returns.  It has no timeout: with a server that takes the
\* connection and stays silent this step is possible, and no fairness is due.
Poll(p) ==
    /\ poller[p].pc = "poll"
    /\ \/ /\ errCount[poller[p].has] < MaxErrors
          /\ errCount' = [errCount EXCEPT ![poller[p].has] = @ + 1]
          /\ poller' = [poller EXCEPT ![p].pc = "failed"]
       \/ /\ errCount' = [errCount EXCEPT ![poller[p].has] = 0]
          /\ poller' = [poller EXCEPT ![p].pc = "ok"]
    /\ UNCHANGED <<starting, sleeping, awake, urlStatus>>

\* status <- State meets the select of StateMonitor.
StateMonitor(p) ==
    /\ poller[p].pc \in {"ok", "failed"}
    /\ urlStatus' = [urlStatus EXCEPT ![poller[p].has] = poller[p].pc]
    /\ poller' = [poller EXCEPT ![p].pc = "out"]
    /\ UNCHANGED <<starting, sleeping, awake, errCount>>

\* Mutant: the Poller keeps what it has handed on, and reports it again.
CompleteTwice(p) ==
    /\ poller[p].pc = "out" /\ sleeping' = sleeping \cup {poller[p].has}
    /\ poller' = [poller EXCEPT ![p].pc = "poll"]
    /\ UNCHANGED <<starting, awake, errCount, urlStatus>>

\* Mutant: complete is not read.
CompleteNever(p) == FALSE /\ UNCHANGED pollVars /\ poller[p].pc = "out"

\* out <- r meets the range in main, which starts Sleep.
Complete(p) ==
    /\ poller[p].pc = "out" /\ sleeping' = sleeping \cup {poller[p].has}
    /\ poller' = [poller EXCEPT ![p] = Ranging]
    /\ UNCHANGED <<starting, awake, errCount, urlStatus>>

Wake(r) ==
    /\ r \in sleeping /\ sleeping' = sleeping \ {r} /\ awake' = awake \cup {r}
    /\ UNCHANGED <<starting, poller, errCount, urlStatus>>

PollerStep(p) == Poll(p) \/ StateMonitor(p) \/ Complete(p)
InHead(p) == poller[p].pc = "poll" /\ poller[p].has \in Silent

PollNext == \/ \E p \in PollerIds : PollerStep(p) \/ TakeFirst(p) \/ \E r \in Resources : TakeAgain(p, r)
            \/ \E r \in Resources : Wake(r)

(***************************************************************************)
(* Properties                                                              *)
(***************************************************************************)
Holders(r) == {p \in PollerIds : Has(p, r)}

\* How many goroutines have r: a Poller, its Sleep, or the one that starts it.
Owners(r) == Cardinality(Holders(r)) + (IF r \in sleeping THEN 1 ELSE 0)
               + (IF r \in awake THEN 1 ELSE 0) + (IF r >= starting THEN 1 ELSE 0)

\* A resource belongs to one goroutine at a time: it waits to be started, a
\* Poller has it, or its Sleep.  That is what makes r.errCount safe without a
\* lock (Poller, main, Sleep).
OneOwner == \A r \in Resources : Owners(r) = 1

\* Once the first URL is being polled, every URL is polled again and again,
\* as long as there are fewer silent servers than Pollers: each of those may
\* hold one Poller in http.Head for ever, the others go on (Poller, main).
PolledForEver ==
    Cardinality(Silent) < Cardinality(PollerIds) =>
        \A r \in Resources : (starting > 1) ~> (\E p \in PollerIds : Has(p, r))
=============================================================================
