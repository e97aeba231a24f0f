----------------------------- MODULE MCPrograms -----------------------------
(***************************************************************************)
(* The small programs of the repository side by side: program is chosen    *)
(* once, that one runs and the others stay as they start.                  *)
(***************************************************************************)
EXTENDS Goto, Buffers, FeedReader, Pollers, Search, Chat, ProxyCounter, TLC

VARIABLE program

vars == <<program, gotoVars, bufferVars, feedVars, pollVars, searchVars, chatVars, proxyVars>>

Programs == {"goto", "buffers", "feed", "pollers", "search", "chat", "proxy"}

Init ==
    /\ program \in Programs
    /\ GotoInit /\ BufferInit /\ FeedInit /\ PollInit /\ SearchInit /\ ChatInit /\ ProxyInit
    /\ program # "goto" => \A v \in Versions : version <= v
    /\ program # "buffers" => server = "abuf"
    /\ program # "chat" => part = 2

Goes(A) == program = "goto" /\ A /\ UNCHANGED <<program, bufferVars, feedVars, pollVars, searchVars, chatVars, proxyVars>>
Buffs(A) == program = "buffers" /\ A /\ UNCHANGED <<program, gotoVars, feedVars, pollVars, searchVars, chatVars, proxyVars>>
Feeds(A) == program = "feed" /\ A /\ UNCHANGED <<program, gotoVars, bufferVars, pollVars, searchVars, chatVars, proxyVars>>
Polls(A) == program = "pollers" /\ A /\ UNCHANGED <<program, gotoVars, bufferVars, feedVars, searchVars, chatVars, proxyVars>>
Searches(A) == program = "search" /\ A /\ UNCHANGED <<program, gotoVars, bufferVars, feedVars, pollVars, chatVars, proxyVars>>
Chats(A) == program = "chat" /\ A /\ UNCHANGED <<program, gotoVars, bufferVars, feedVars, pollVars, searchVars, proxyVars>>
Proxies(A) == program = "proxy" /\ A /\ UNCHANGED <<program, gotoVars, bufferVars, feedVars, pollVars, searchVars, chatVars>>

Next ==
    \/ Goes(GotoNext) \/ Buffs(BufferNext) \/ Feeds(FeedNext) \/ Polls(PollNext)
    \/ Searches(SearchNext)
    \/ Chats(ChatNext) \/ Proxies(ProxyNext)

\* Goroutines that can run do run; timers and tickers fire; a goroutine that
\* waits at a channel is served before others come twice (the queues of a Go
\* channel are first in, first out), hence the strong fairness.
Fairness ==
    /\ \A c \in Calls : WF_vars(Goes(PutStep(c)))
    /\ WF_vars(Goes(SaveLoop)) /\ WF_vars(Goes(FlushBuffer))
    /\ WF_vars(Buffs(ServeDeferred))
    /\ \A u \in Users : /\ WF_vars(Buffs(UserStep(u)))
                        /\ SF_vars(Buffs(startop(u) \/ startread(u) \/ Receive(u) \/ Defer(u)))
    /\ \A s \in Subs : WF_vars(Feeds(reader.pc = "range" /\ MergeStep(s)))
    /\ WF_vars(Feeds(CloseUpdates \/ MainReturns))
    /\ \A p \in PollerIds : WF_vars(Polls(PollerStep(p) /\ ~InHead(p)))
    /\ SF_vars(Polls(\E p \in PollerIds : TakeFirst(p)))
    /\ \A r \in Resources : /\ WF_vars(Polls(Wake(r)))
                            /\ SF_vars(Polls(\E p \in PollerIds : TakeAgain(p, r)))
    /\ \A c \in Clients : WF_vars(Chats(~panicked /\ SendInput(c)))
    /\ \A m \in {"as is", "lower", "upper"} : WF_vars(Chats(~panicked /\ ManagerStep(m) /\ ~Stuck(m)))

\* Which request, subscription or handler is which does not matter.
Symmetry == UNION {Permutations(S) : S \in {Calls, Subs, Rpcs}}

Spec == Init /\ [][Next]_vars
FairSpec == Spec /\ Fairness
=============================================================================
