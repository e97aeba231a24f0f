------------------------------- MODULE Search -------------------------------
(***************************************************************************)
(* The search of a talk (Google-IO 2012): Google asks the replicas of each *)
(* kind of server, keeps the first answer of each kind, and returns with   *)
(* three results or after a timeout with fewer.                            *)
(***************************************************************************)
EXTENDS Integers, Sequences

CONSTANT Replicas       \* 1 and 2 of each kind

VARIABLES search,       \* each replica's goroutine: searching, sending or sent
          first,        \* each call of First: none, got, or sent to Google
          google        \* whether Google runs, and its results

searchVars == <<search, first, google>>

Kinds == {"web", "image", "video"}

SearchInit ==
    /\ search = [k \in Kinds |-> [i \in Replicas |-> "searching"]]
    /\ first = [k \in Kinds |-> "none"]
    /\ google = [pc |-> "select", results |-> <<>>]

\* fakeSearch returns, and its goroutine sends.
Searched(k, i) ==
    /\ google.pc = "select" /\ search[k][i] = "searching"
    /\ search' = [search EXCEPT ![k][i] = "sending"]
    /\ UNCHANGED <<first, google>>

\* Mutant: every answer is taken.
FirstAny(k, i) ==
    /\ google.pc = "select" /\ search[k][i] = "sending" /\ first[k] \in {"none", "sent"}
    /\ search' = [search EXCEPT ![k][i] = "sent"]
    /\ first' = [first EXCEPT ![k] = "got"]
    /\ UNCHANGED google

\* First receives once; the other replica's send blocks for ever.
First(k, i) ==
    /\ google.pc = "select" /\ search[k][i] = "sending" /\ first[k] = "none"
    /\ search' = [search EXCEPT ![k][i] = "sent"]
    /\ first' = [first EXCEPT ![k] = "got"]
    /\ UNCHANGED google

Result(k) ==
    /\ google.pc = "select" /\ first[k] = "got"
    /\ first' = [first EXCEPT ![k] = "sent"]
    /\ google' = [results |-> Append(google.results, k),
                  pc |-> IF Len(google.results) = 2 THEN "returned" ELSE "select"]
    /\ UNCHANGED search

timeout == /\ google.pc = "select" /\ google' = [google EXCEPT !.pc = "returned"]
           /\ UNCHANGED <<search, first>>

SearchNext == \/ \E k \in Kinds, i \in Replicas : Searched(k, i) \/ First(k, i)
              \/ \E k \in Kinds : Result(k)
              \/ timeout

(***************************************************************************)
(* Properties                                                              *)
(***************************************************************************)
\* Google returns one result of a kind at most, however its replicas race.
OneResultPerKind ==
    \A i, j \in DOMAIN google.results : i # j => google.results[i] # google.results[j]
=============================================================================
