----------------------------- MODULE FeedReader -----------------------------
(***************************************************************************)
(* The feed reader: a loop per subscription that fetches, queues and hands *)
(* on items, a goroutine per subscription that merges them, main, which    *)
(* reads the merged updates, and a timer that closes everything.  Channels *)
(* are unbuffered, a hand-over is one step of both sides; only fetchDone   *)
(* has room for its one result.  Items of a feed are numbered; a Fetcher   *)
(* returns a stretch of its items, or an error.  (The one in rss.go always *)
(* returns one new item.)  Delays only say when a fetch may start.         *)
(***************************************************************************)
EXTENDS Integers, Sequences, FiniteSets, SequencesExt

CONSTANTS Subs,
          MaxPending,   \* 10 in the code
          MaxItems,     \* bound: items a feed has
          MaxBatch,     \* bound: items a fetch returns
          MaxFetches    \* bound: fetches that start

ASSUME FeedAssumption == IsFiniteSet(Subs) /\ MaxItems \in Nat

VARIABLES sub,          \* each subscription's loop
          merger,       \* each goroutine of Merge
          quit,         \* m.quit is closed
          closer,       \* merge.Close
          reader,       \* main
          fetches

feedVars == <<sub, merger, quit, closer, reader, fetches>>

\* The items of fetched that are not in seen, in their order.
NewItems(fetched, seen) ==
    LET new == ToSet(fetched) \ seen
    IN {q \in [1 .. Cardinality(new) -> new] : \A i, j \in DOMAIN q : i < j => q[i] < q[j]}

FeedInit ==
    /\ sub = [s \in Subs |-> [pc |-> "select", fetching |-> "no", fetched |-> <<>>, failed |-> FALSE,
                              pending |-> <<>>, seen |-> {}, err |-> FALSE]]
    /\ merger = [s \in Subs |-> [pc |-> "get", item |-> 0, err |-> FALSE]]
    /\ quit = FALSE
    /\ closer = [pc |-> "timer", left |-> Cardinality(Subs), err |-> FALSE]
    /\ reader = [pc |-> "range", got |-> [s \in Subs |-> <<>>]]
    /\ fetches = 0

(***************************************************************************)
(* loop                                                                    *)
(***************************************************************************)
startFetch(s) ==
    /\ sub[s].pc = "select" /\ sub[s].fetching = "no" /\ Len(sub[s].pending) < MaxPending
    /\ fetches < MaxFetches /\ fetches' = fetches + 1
    /\ sub' = [sub EXCEPT ![s].fetching = "running"]
    /\ UNCHANGED <<merger, quit, closer, reader>>

\* Fetch returns in its own goroutine, also when the loop has ended.
Fetched(s) ==
    /\ sub[s].fetching = "running"
    /\ \/ \E a, b \in 1 .. MaxItems :
             a <= b /\ b < a + MaxBatch /\ sub' = [sub EXCEPT ![s].fetching = "done", ![s].failed = FALSE,
                                          ![s].fetched = [i \in 1 .. b - a + 1 |-> a + i - 1]]
       \/ sub' = [sub EXCEPT ![s].fetching = "done", ![s].failed = TRUE]
    /\ UNCHANGED <<merger, quit, closer, reader, fetches>>

\* Mutant: items are not looked up in seen.
fetchDoneAll(s) ==
    /\ sub[s].pc = "select" /\ sub[s].fetching = "done"
    /\ sub' = [sub EXCEPT ![s].fetching = "no", ![s].fetched = <<>>, ![s].err = sub[s].failed,
                          ![s].pending = @ \o sub[s].fetched, ![s].seen = @ \cup ToSet(sub[s].fetched)]
    /\ UNCHANGED <<merger, quit, closer, reader, fetches>>

fetchDone(s) ==
    /\ sub[s].pc = "select" /\ sub[s].fetching = "done"
    /\ \E new \in NewItems(sub[s].fetched, sub[s].seen) :
          sub' = [sub EXCEPT ![s].fetching = "no", ![s].fetched = <<>>, ![s].err = sub[s].failed, ![s].failed = FALSE,
                             ![s].pending = @ \o new, ![s].seen = @ \cup ToSet(sub[s].fetched)]
    /\ UNCHANGED <<merger, quit, closer, reader, fetches>>

(***************************************************************************)
(* Merge                                                                   *)
(***************************************************************************)
\* updates <- first meets item = <-s.Updates().
TakeUpdate(s) ==
    /\ sub[s].pc = "select" /\ sub[s].pending # <<>> /\ merger[s].pc = "get"
    /\ sub' = [sub EXCEPT ![s].pending = Tail(@)]
    /\ merger' = [merger EXCEPT ![s].pc = "put", ![s].item = Head(sub[s].pending)]
    /\ UNCHANGED <<quit, closer, reader, fetches>>

\* m.updates <- item meets the range in main.
PutUpdate(s) ==
    /\ merger[s].pc = "put" /\ reader.pc = "range"
    /\ reader' = [reader EXCEPT !.got[s] = Append(@, merger[s].item)]
    /\ merger' = [merger EXCEPT ![s].pc = "get", ![s].item = 0]
    /\ UNCHANGED <<sub, quit, closer, fetches>>

\* Mutant: only the first select looks at quit.
QuitIdle(s) ==
    /\ merger[s].pc = "get" /\ quit
    /\ merger' = [merger EXCEPT ![s].pc = "close"]
    /\ UNCHANGED <<sub, quit, closer, reader, fetches>>

\* <-m.quit in either select; an item in hand is dropped.
Quit(s) ==
    /\ merger[s].pc \in {"get", "put"} /\ quit
    /\ merger' = [merger EXCEPT ![s].pc = "close", ![s].item = 0]
    /\ UNCHANGED <<sub, quit, closer, reader, fetches>>

\* sub.Close: s.closing <- errc meets the loop ...
AskClose(s) ==
    /\ merger[s].pc = "close" /\ sub[s].pc = "select"
    /\ sub' = [sub EXCEPT ![s].pc = "closing"] /\ merger' = [merger EXCEPT ![s].pc = "errc"]
    /\ UNCHANGED <<quit, closer, reader, fetches>>

\* ... which answers with its last error, closes updates and returns.
AnswerClose(s) ==
    /\ merger[s].pc = "errc" /\ sub[s].pc = "closing"
    /\ sub' = [sub EXCEPT ![s].pc = "ended", ![s].pending = <<>>]
    /\ merger' = [merger EXCEPT ![s].pc = "report", ![s].err = sub[s].err]
    /\ UNCHANGED <<quit, closer, reader, fetches>>

(***************************************************************************)
(* merge.Close and main                                                    *)
(***************************************************************************)
Close == /\ closer.pc = "timer" /\ closer' = [closer EXCEPT !.pc = "collect"] /\ quit' = TRUE
         /\ UNCHANGED <<sub, merger, reader, fetches>>

Collect(s) ==
    /\ merger[s].pc = "report" /\ closer.pc = "collect" /\ closer.left > 0
    /\ closer' = [closer EXCEPT !.left = @ - 1, !.err = @ \/ merger[s].err]
    /\ merger' = [merger EXCEPT ![s].pc = "done"]
    /\ UNCHANGED <<sub, quit, reader, fetches>>

\* Mutant: one error is enough.
CloseUpdatesEarly ==
    /\ closer.pc = "collect" /\ closer.left < Cardinality(Subs)
    /\ closer' = [closer EXCEPT !.pc = "closed"]
    /\ UNCHANGED <<sub, merger, quit, reader, fetches>>

CloseUpdates ==
    /\ closer.pc = "collect" /\ closer.left = 0
    /\ closer' = [closer EXCEPT !.pc = "closed"]
    /\ UNCHANGED <<sub, merger, quit, reader, fetches>>

\* range ends, and with main the process.
MainReturns ==
    /\ reader.pc = "range" /\ closer.pc = "closed"
    /\ reader' = [reader EXCEPT !.pc = "ended"]
    /\ UNCHANGED <<sub, merger, quit, closer, fetches>>

LoopStep(s) == startFetch(s) \/ fetchDone(s)
MergeStep(s) == Quit(s) \/ AskClose(s) \/ AnswerClose(s) \/ Collect(s)

FeedNext ==
    /\ reader.pc = "range"
    /\ \/ \E s \in Subs : LoopStep(s) \/ Fetched(s) \/ TakeUpdate(s) \/ PutUpdate(s) \/ MergeStep(s)
       \/ Close \/ CloseUpdates \/ MainReturns

(***************************************************************************)
(* Properties                                                              *)
(***************************************************************************)
\* Items of s on their way from the loop to main.
UnderWay(s) == sub[s].pending \o (IF merger[s].pc = "put" THEN <<merger[s].item>> ELSE <<>>)

\* Every item is read at most once, however often it is fetched (seen), and
\* until Close every item that was fetched has been read or is on its way.
EachItemOnce ==
    \A s \in Subs :
        /\ Len(reader.got[s]) = Cardinality(ToSet(reader.got[s]))
        /\ ~quit => /\ sub[s].seen = ToSet(reader.got[s]) \cup ToSet(UnderWay(s))
                    /\ Cardinality(sub[s].seen) = Len(reader.got[s]) + Len(UnderWay(s))

\* m.updates is closed only when no goroutine of Merge can send to it again,
\* and every loop has returned (merge.Close receives from m.errs once for each
\* subscription).  It returns the last error that is not nil; the others are
\* dropped, and nothing is said of them.
ClosedAfterAll ==
    closer.pc = "closed" => \A s \in Subs : merger[s].pc = "done" /\ sub[s].pc = "ended"

\* Close always ends the program: no goroutine waits for one that has gone,
\* whatever it was doing when quit was closed (Merge, sub.Close, loop).
CloseEnds == quit ~> reader.pc = "ended"
=============================================================================
